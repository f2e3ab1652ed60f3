-------------------------- MODULE SecondaryPreprocess --------------------------
(***************************************************************************)
(* The bin of secondary preprocessing                                      *)
(* (apps-common/src/deepstream_secondary_preprocess.c).  It has the queue  *)
(* and the wait of the secondary inference bin, but only one level: an     *)
(* element is created when it operates on the primary engine, and no other *)
(* can follow it.  The tee of a sub bin and the direct link between two of *)
(* them are in the code and never reached.                                 *)
(***************************************************************************)
EXTENDS Integers, Sequences, FiniteSets, FiniteSetsExt

CONSTANTS
  Units,      (* indices of the [secondary-pre-process] groups             *)
  PreConfigs, (* configurations: [enable, primary] per unit                *)
  QueueSize, MaxFrames

\* Assumed by StreamPath.
PreAssumption ==
  /\ Units \subseteq Nat \ {0} /\ IsFiniteSet(Units)
  /\ QueueSize \in Nat \ {0} /\ MaxFrames \in Nat

VARIABLES
  config,
  created,   (* sub_bins[i].create: asked one after the other              *)
  running, stop,
  exitQueue, queue,
  tee,       (* the frame the entry tee holds and where it still has to go *)
  at,        (* the frame in each unit                                     *)
  results, arrived, ended

flow == <<exitQueue, queue, tee, at, results, arrived>>
vars == <<config, created, running, stop, flow, ended>>

Eos == 0
Frames == 1..MaxFrames
Empty == [frame |-> 0, todo |-> {}]

TypeOK ==
  /\ config \in PreConfigs /\ created \subseteq Units
  /\ running \in BOOLEAN /\ stop \in BOOLEAN /\ ended \in BOOLEAN
  /\ exitQueue \in Seq(Frames \cup {Eos}) /\ Len(exitQueue) <= QueueSize + 1
  /\ queue \in [Units -> Seq(Frames)]
  /\ \A u \in Units : Len(queue[u]) <= QueueSize
  /\ tee \in [frame : Frames \cup {0}, todo : SUBSET Units]
  /\ at \in [Units -> Frames \cup {0}]
  /\ results \in [Frames -> SUBSET Units] /\ arrived \in 0..MaxFrames

Init ==
  /\ config \in PreConfigs
  /\ created = {}
  /\ running = FALSE /\ stop = FALSE /\ ended = FALSE
  /\ exitQueue = << >> /\ queue = [u \in Units |-> << >>]
  /\ tee = Empty /\ at = [u \in Units |-> 0]
  /\ results = [f \in Frames |-> {}] /\ arrived = 0

\* should_create_secondary_preprocess
ShouldCreate(u) ==
  config.enable[u] /\ (u \in created \/ config.primary[u])

Create ==
  /\ ~running
  /\ created' = {u \in Units : ShouldCreate(u)}
  /\ running' = TRUE
  /\ UNCHANGED <<config, stop, flow, ended>>

Held(f) ==
  \/ tee.frame = f
  \/ \E u \in Units : at[u] = f \/ \E i \in 1..Len(queue[u]) : queue[u][i] = f

Arrive ==
  /\ running /\ ~ended /\ tee = Empty
  /\ arrived < MaxFrames
  /\ Len(exitQueue) <= QueueSize
  /\ arrived' = arrived + 1
  /\ exitQueue' = Append(exitQueue, arrived + 1)
  /\ tee' = IF created = {} THEN Empty
            ELSE [frame |-> arrived + 1, todo |-> created]
  /\ UNCHANGED <<config, created, running, stop, queue, at, results, ended>>

EosArrives ==
  /\ running /\ ~ended /\ tee = Empty
  /\ Len(exitQueue) <= QueueSize
  /\ stop' = TRUE /\ ended' = TRUE
  /\ exitQueue' = Append(exitQueue, Eos)
  /\ UNCHANGED <<config, created, running, queue, tee, at, results, arrived>>

PushBranch ==
  LET u == Min(tee.todo)
      rest == tee.todo \ {u}
  IN  /\ tee.todo # {}
      /\ Len(queue[u]) < QueueSize
      /\ queue' = [queue EXCEPT ![u] = Append(@, tee.frame)]
      /\ tee' = IF rest = {} THEN Empty ELSE [tee EXCEPT !.todo = rest]
      /\ UNCHANGED <<config, created, running, stop, exitQueue, at, results, arrived, ended>>

Take(u) ==
  /\ at[u] = 0 /\ queue[u] # << >>
  /\ at' = [at EXCEPT ![u] = Head(queue[u])]
  /\ queue' = [queue EXCEPT ![u] = Tail(@)]
  /\ UNCHANGED <<config, created, running, stop, exitQueue, tee, results, arrived, ended>>

Prepare(u) ==
  /\ at[u] # 0
  /\ results' = [results EXCEPT ![at[u]] = @ \cup {u}]
  /\ at' = [at EXCEPT ![u] = 0]
  /\ UNCHANGED <<config, created, running, stop, exitQueue, queue, tee, arrived, ended>>

WaitQueueBufProbe(f) == f = Eos \/ ~Held(f) \/ stop

Leave ==
  /\ exitQueue # << >>
  /\ WaitQueueBufProbe(Head(exitQueue))
  /\ exitQueue' = Tail(exitQueue)
  /\ UNCHANGED <<config, created, running, stop, queue, tee, at, results, arrived, ended>>

Teardown ==
  /\ running
  /\ running' = FALSE /\ ended' = FALSE
  /\ exitQueue' = << >> /\ queue' = [u \in Units |-> << >>]
  /\ tee' = Empty /\ at' = [u \in Units |-> 0]
  /\ UNCHANGED <<config, created, stop, results, arrived>>

Stream == PushBranch \/ \E u \in Units : Take(u) \/ Prepare(u)
Next == Create \/ Arrive \/ EosArrives \/ Stream \/ Leave \/ Teardown

Spec == Init /\ [][Next]_vars

-----------------------------------------------------------------------------
\* The frames of an exit queue: the event can only be its last entry.
FramesOf(q) == IF q # << >> /\ q[Len(q)] = Eos THEN SubSeq(q, 1, Len(q) - 1) ELSE q

(* The bin implements the promise of InferenceStage for the enabled units   *)
(* that operate on the primary engine (deepstream_secondary_preprocess.c:   *)
(* 20-27).                                                                 *)
Stage == INSTANCE InferenceStage WITH
  engines <- IF running THEN {u \in Units : config.enable[u] /\ config.primary[u]} ELSE {},
  inside <- FramesOf(exitQueue),
  up <- running
ImplementsInference == Stage!Spec
=============================================================================
