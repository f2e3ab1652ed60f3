------------------------------ MODULE StreamPath ------------------------------
(***************************************************************************)
(* The way of a frame through the pipeline, from a file source to the sink *)
(* side, over recreations of the pipeline: FileLoop, then the bin of       *)
(* SecondaryPreprocess, then that of SecondaryGie (create_common_elements  *)
(* of deepstream_proximity.c links them in this order).  A push that finds *)
(* the next bin full blocks its thread.  The streammux, the primary engine *)
(* and the tracker between source and bins are GStreamer elements that     *)
(* forward frames and events in order.                                     *)
(***************************************************************************)
EXTENDS Integers, Sequences

CONSTANTS
  LoopOptions, FrameCount, SegmentStop,
  Units, PreConfigs,
  Engines, PrimaryId, Configs,
  RunConfigs, (* bound: the configurations through which frames flow       *)
  QueueSize,
  MaxFrames,
  MaxBuilds,  (* bound: creations of the pipeline                          *)
  RecreateWithoutLoop (* whether the pipeline of a source that does not     *)
              (* loop is recreated too                                     *)

VARIABLES
  loop, demux, pos, closing, accumulatedBase, prevAccumulatedBase, seeks,
  seekFailed, pts,
  preConfig, preCreated, preStop, preExit, preQueue, preTee, preAt, preResults,
  preArrived, preEnded,
  config, asked, created, parent, children, running, stop, exitQueue, queue,
  thread, results, arrived, ended,
  builds      (* creations so far                                          *)

File == INSTANCE FileLoop
Pre == INSTANCE SecondaryPreprocess WITH
  config <- preConfig, created <- preCreated, stop <- preStop,
  exitQueue <- preExit, queue <- preQueue, tee <- preTee, at <- preAt,
  results <- preResults, arrived <- preArrived, ended <- preEnded
Gie == INSTANCE SecondaryGie

ASSUME StreamAssumption ==
  /\ File!FileAssumption /\ Pre!PreAssumption /\ Gie!GieAssumption
  /\ MaxBuilds \in Nat \ {0} /\ RunConfigs \subseteq Configs
  /\ RecreateWithoutLoop \in BOOLEAN

fileVars == <<loop, demux, pos, closing, accumulatedBase, prevAccumulatedBase,
              seeks, seekFailed, pts>>
preVars == <<preConfig, preCreated, preStop, preExit, preQueue, preTee, preAt,
             preResults, preArrived, preEnded>>
gieVars == <<config, asked, created, parent, children, stop, exitQueue, queue,
             thread, results, arrived, ended>>
vars == <<fileVars, preVars, gieVars, running, builds>>

Init == File!Init /\ Pre!Init /\ Gie!Init /\ builds = 0

-----------------------------------------------------------------------------
(* The main thread: create_pipeline, destroy_pipeline, the main loop        *)

ShouldCreate == Gie!Ask /\ UNCHANGED <<fileVars, preVars, builds>>

Create ==
  /\ Pre!Create /\ Gie!Create
  /\ IF builds = 0 THEN UNCHANGED fileVars ELSE File!Reopen
  /\ builds' = builds + 1

\* destroy_pipeline sends an EOS and gives the pipeline a second.
SendEos ==
  /\ running /\ builds < MaxBuilds /\ (loop \/ RecreateWithoutLoop)
  /\ File!Close
  /\ UNCHANGED <<preVars, gieVars, running, builds>>
Destroy ==
  /\ closing
  /\ Pre!Teardown /\ Gie!Teardown
  /\ UNCHANGED <<fileVars, builds>>

SeekDecode ==
  /\ running /\ ~closing
  /\ File!SeekDecode
  /\ UNCHANGED <<preVars, gieVars, running, builds>>

-----------------------------------------------------------------------------
(* The streaming threads                                                   *)

Flowing == running /\ config \in RunConfigs

Segment == Flowing /\ File!Segment /\ UNCHANGED <<preVars, gieVars, running, builds>>
LoopEos == Flowing /\ File!LoopEos /\ UNCHANGED <<preVars, gieVars, running, builds>>
FrameIn == Flowing /\ File!Frame /\ Pre!Arrive /\ UNCHANGED <<gieVars, builds>>
EosIn == Flowing /\ File!PassEos /\ Pre!EosArrives /\ UNCHANGED <<gieVars, builds>>

FrameOver ==
  /\ preExit # << >> /\ Head(preExit) # Pre!Eos
  /\ Pre!Leave /\ Gie!Arrive /\ UNCHANGED <<fileVars, builds>>
EosOver ==
  /\ preExit # << >> /\ Head(preExit) = Pre!Eos
  /\ Pre!Leave /\ Gie!EosArrives /\ UNCHANGED <<fileVars, builds>>
FrameOut == Gie!Leave /\ UNCHANGED <<fileVars, preVars, builds>>

PreStream == Pre!Stream /\ UNCHANGED <<fileVars, gieVars, builds>>
GieStream(t) ==
  /\ Gie!PushBranch(t) \/ Gie!Infer(t) \/ (t \in Engines /\ Gie!Take(t))
  /\ UNCHANGED <<fileVars, preVars, builds>>

Main == ShouldCreate \/ Create \/ SendEos \/ Destroy \/ SeekDecode
SourceThread == Segment \/ LoopEos \/ FrameIn \/ EosIn
OverThread == FrameOver \/ EosOver
Next ==
  \/ Main \/ SourceThread \/ OverThread \/ FrameOut \/ PreStream
  \/ \E t \in Gie!Threads : GieStream(t)

Spec == Init /\ [][Next]_vars

\* Every streaming thread runs while it has something to do, and the main
\* loop serves its timers.  Nothing makes it recreate the pipeline.
Fairness ==
  /\ WF_vars(SeekDecode)
  /\ WF_vars(SourceThread) /\ WF_vars(OverThread) /\ WF_vars(FrameOut)
  /\ WF_vars(Pre!PushBranch /\ PreStream)
  /\ \A u \in Units : WF_vars((Pre!Take(u) \/ Pre!Prepare(u)) /\ PreStream)
  /\ \A t \in Gie!Threads : WF_vars(GieStream(t))
FairSpec == Spec /\ Fairness

-----------------------------------------------------------------------------
(* Properties                                                              *)

TypeOK == File!TypeOK /\ Pre!TypeOK /\ Gie!TypeOK /\ builds \in 0..MaxBuilds

(* No frame stays in one of the two bins for ever: the waits of the exit    *)
(* queues, the bounded queues of the engines and the tees that block on     *)
(* them never wait for each other (deepstream_secondary_gie_bin.c:41-49).   *)
(* The frames being finitely many, both bins are empty in the end.          *)
EveryFrameLeaves ==
  (preExit # << >> \/ exitQueue # << >>) ~> (preExit = << >> /\ exitQueue = << >>)

(* A looped file goes on playing: whenever its end is reached a new round   *)
(* begins, unless the seek fails, after which nothing tries again, or the   *)
(* pipeline is being destroyed (deepstream_source_bin.c:296-315).           *)
LoopGoesOn ==
  (loop /\ demux = "ended") ~> (demux = "frames" \/ closing \/ seekFailed)

FrameTimesGoForward == File!FrameTimesGoForward
TreeIsReachable == Gie!TreeIsReachable
FrameWaitsForEveryEngine == Gie!FrameWaitsForEveryEngine

(* Both bins keep the promise of InferenceStage.                           *)
ImplementsStages == Pre!ImplementsInference /\ Gie!ImplementsInference
=============================================================================
