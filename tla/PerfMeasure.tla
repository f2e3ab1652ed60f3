------------------------------ MODULE PerfMeasure ------------------------------
(***************************************************************************)
(* The frame rate measurement (apps-common/src/deepstream_perf.c) under    *)
(* its three kinds of callers:                                             *)
(*   - the streaming thread, whose pad probe looks at `stop' without the   *)
(*     lock and counts the frames of a batch under it;                     *)
(*   - the main loop, which runs the periodic sample and recreates the     *)
(*     pipeline;                                                           *)
(*   - the users, the keyboard handler (on the main loop) and the X thread, *)
(*     who first change the state of the pipeline and then pause or resume *)
(*     the measurement.                                                    *)
(* Time is a tick count that starts at Epoch; 0 is a stamp never set.      *)
(***************************************************************************)
EXTENDS Integers

CONSTANTS
  Sources,        (* the instances measured                                  *)
  Users,          (* the threads that pause and resume: a subset of          *)
                  (* {Keyboard, XThread}                                     *)
  Keyboard,       (* the one that runs on the main loop                      *)
  Epoch,          (* the tick at which the application starts, far from 0    *)
  FramesPerBatch, (* most frames of one source in a batch of the muxer       *)
  SampleInterval, (* perf-measurement-interval-sec                           *)
  MaxTime,        (* bound: the last tick                                    *)
  MaxCalls        (* bound: pauses, resumes and recreations                  *)

ASSUME PerfAssumption ==
  /\ Epoch \in Nat \ {0}
  /\ FramesPerBatch \in Nat \ {0}
  /\ SampleInterval \in Nat \ {0}
  /\ MaxTime \in Nat /\ MaxTime >= Epoch
  /\ MaxCalls \in Nat

VARIABLES
  pipeline,   (* state of the pipeline, "none" between destroy and create    *)
  caller,     (* what each user thread has begun: "idle", "pausing" or       *)
              (* "resuming"                                                  *)
  inFlight,   (* the batch that passed the unlocked test of stop: how many   *)
              (* frames of each source, all 0 when there is none             *)
  clock,
  stop, timerId, timer, due,
  start,      (* start_fps_time                                              *)
  last,       (* last_fps_time                                               *)
  lastSample, (* last_sample_fps_time                                        *)
  total,      (* total_fps_time                                              *)
  cnt,        (* buffer_cnt                                                  *)
  totalCnt,   (* total_buffer_cnt                                            *)
  timely,     (* history: frames counted while the measurement ran           *)
  calls,      (* pauses, resumes and recreations begun                       *)
  overlap,    (* history: one of them began while another was under way      *)
  lapsed      (* history: a sample has been due while stop was set           *)

stamps == <<start, last, lastSample>>
counts == <<cnt, totalCnt>>
timerVars == <<timerId, timer, due>>
vars == <<pipeline, caller, inFlight, clock, stop, timerVars, stamps, total,
          counts, timely, calls, overlap, lapsed>>

PipelineStates == {"none", "playing", "paused"}
Zero == [s \in Sources |-> 0]
NoBatch == Zero
Batches == [Sources -> 0 .. FramesPerBatch] \ {NoBatch}

TypeOK ==
  /\ pipeline \in PipelineStates
  /\ caller \in [Users -> {"idle", "pausing", "resuming"}]
  /\ inFlight \in Batches \cup {NoBatch}
  /\ clock \in Epoch .. MaxTime
  /\ stop \in BOOLEAN /\ timerId \in BOOLEAN /\ timer \in BOOLEAN
  /\ due \in Nat
  /\ {start, last, lastSample} \subseteq [Sources -> {0} \cup Epoch .. MaxTime]
  /\ total \in [Sources -> Nat]
  /\ {cnt, totalCnt, timely} \subseteq [Sources -> Nat]
  /\ calls \in 0 .. MaxCalls
  /\ overlap \in BOOLEAN
  /\ lapsed \in BOOLEAN

(* The state create_pipeline leaves after the first enable_perf_measurement. *)
Init ==
  /\ pipeline = "playing"
  /\ caller = [u \in Users |-> "idle"]
  /\ inFlight = NoBatch
  /\ clock = Epoch
  /\ stop = FALSE /\ timerId = TRUE /\ timer = TRUE
  /\ due = Epoch + SampleInterval
  /\ start = Zero /\ last = Zero /\ lastSample = Zero
  /\ total = Zero /\ cnt = Zero /\ totalCnt = Zero
  /\ timely = Zero
  /\ calls = 0 /\ overlap = FALSE /\ lapsed = FALSE

Call ==
  /\ calls < MaxCalls /\ calls' = calls + 1
  /\ overlap' = (\/ overlap \/ pipeline = "none"
                \/ \E u \in Users : caller[u] # "idle")

MainLoopFree == Keyboard \in Users => caller[Keyboard] = "idle"

-----------------------------------------------------------------------------
Tick ==
  /\ clock < MaxTime
  /\ clock' = clock + 1
  /\ UNCHANGED <<pipeline, caller, inFlight, stop, timerVars, stamps, total>>
  /\ UNCHANGED <<counts, timely, calls, overlap>>

(* Batches reach the probe while the pipeline plays or is on its way to    *)
(* pause; two batches with frames of one source are at least a tick apart. *)
Streaming == pipeline = "playing" \/ \E u \in Users : caller[u] = "pausing"

(* sink_bin_buf_probe, up to the unlocked test of stop; a batch that finds *)
(* it set leaves no trace.                                                 *)
ProbeTestsStop(batch) ==
  /\ Streaming /\ inFlight = NoBatch /\ ~stop
  /\ \A s \in Sources : batch[s] > 0 => last[s] < clock
  /\ inFlight' = batch
  /\ UNCHANGED <<pipeline, caller, clock, stop, timerVars, stamps, total>>
  /\ UNCHANGED <<counts, timely, calls, overlap>>

CountedAll(s) == inFlight[s]   \* mutated: the first frame is counted too

(* The first frame after a reset only starts the clock of its source, the  *)
(* ones behind it in the same batch are counted already.                   *)
Counted(s) ==
  IF start[s] = 0 /\ inFlight[s] > 0 THEN inFlight[s] - 1 ELSE inFlight[s]

(* sink_bin_buf_probe, under struct_lock: frame by frame, all in one tick. *)
ProbeCounts ==
  /\ inFlight # NoBatch
  /\ last' = [s \in Sources |-> IF inFlight[s] > 0 THEN clock ELSE last[s]]
  /\ start' = [s \in Sources |->
                 IF inFlight[s] > 0 /\ start[s] = 0 THEN clock ELSE start[s]]
  /\ cnt' = [s \in Sources |-> cnt[s] + Counted(s)]
  /\ timely' = [s \in Sources |->
                  IF stop THEN timely[s] ELSE timely[s] + Counted(s)]
  /\ inFlight' = NoBatch
  /\ UNCHANGED <<pipeline, caller, clock, stop, timerVars, lastSample, total>>
  /\ UNCHANGED <<totalCnt, calls, overlap>>

(* perf_measurement_callback.  The GLib id stays in                        *)
(* perf_measurement_timeout_id when the callback ends its own timer.       *)
SampleWhileStopped ==
  /\ stop
  /\ timer' = FALSE
  /\ UNCHANGED <<due, lastSample, counts>>

Sample ==
  /\ ~stop
  /\ totalCnt' = [s \in Sources |-> totalCnt[s] + cnt[s]]
  /\ cnt' = Zero
  /\ lastSample' = last
  /\ due' = clock + SampleInterval
  /\ UNCHANGED timer

perf_measurement_callback ==
  /\ timer /\ clock >= due /\ MainLoopFree
  /\ SampleWhileStopped \/ Sample
  /\ UNCHANGED <<pipeline, caller, inFlight, clock, stop, timerId, start, last>>
  /\ UNCHANGED <<total, timely, calls, overlap>>

(* time2, the window over which the frames of a sample were counted        *)
Window(s) == last[s] - (IF lastSample[s] = 0 THEN start[s] ELSE lastSample[s])

-----------------------------------------------------------------------------
PausePerf ==
  /\ stop' = TRUE
  /\ total' = [s \in Sources |-> total[s] + last[s] - start[s]]
  /\ start' = Zero

ResumePerfInverted ==   \* mutated: the test of stop is inverted
  IF stop
  THEN UNCHANGED <<stop, cnt, timerVars>>
  ELSE stop' = FALSE /\ cnt' = Zero /\ UNCHANGED timerVars

StartMeasuringKeepsCount ==   \* mutated: buffer_cnt is not cleared
  /\ stop' = FALSE
  /\ UNCHANGED cnt
  /\ IF timerId
     THEN UNCHANGED timerVars
     ELSE timerId' = TRUE /\ timer' = TRUE /\ due' = clock + SampleInterval

(* A new timer only when there is no id of an old one.                     *)
StartMeasuring ==
  /\ stop' = FALSE
  /\ cnt' = Zero
  /\ IF timerId
     THEN UNCHANGED timerVars
     ELSE timerId' = TRUE /\ timer' = TRUE /\ due' = clock + SampleInterval

ResumePerf ==
  IF ~stop THEN UNCHANGED <<stop, cnt, timerVars>> ELSE StartMeasuring

(* pause_pipeline(u), first the state of the pipeline, then the measurement. *)
(* Without a pipeline gst_element_get_state leaves `cur' uninitialised, so *)
(* the function may take any of its branches.                              *)
Pause(u) ==
  /\ caller[u] = "idle" /\ pipeline \in {"playing", "none"}
  /\ pipeline' = IF pipeline = "playing" THEN "paused" ELSE pipeline
  /\ caller' = [caller EXCEPT ![u] = "pausing"]
  /\ UNCHANGED <<inFlight, clock, stop, timerVars, stamps, total, counts>>
  /\ Call
  /\ UNCHANGED timely

Paused(u) ==
  /\ caller[u] = "pausing"
  /\ PausePerf
  /\ caller' = [caller EXCEPT ![u] = "idle"]
  /\ UNCHANGED <<pipeline, inFlight, clock, timerVars, last, lastSample>>
  /\ UNCHANGED <<counts, timely, calls, overlap>>

Resume(u) ==
  /\ caller[u] = "idle" /\ pipeline \in {"paused", "none"}
  /\ pipeline' = IF pipeline = "paused" THEN "playing" ELSE pipeline
  /\ caller' = [caller EXCEPT ![u] = "resuming"]
  /\ UNCHANGED <<inFlight, clock, stop, timerVars, stamps, total, counts>>
  /\ Call
  /\ UNCHANGED timely

Resumed(u) ==
  /\ caller[u] = "resuming"
  /\ ResumePerf
  /\ caller' = [caller EXCEPT ![u] = "idle"]
  /\ UNCHANGED <<pipeline, inFlight, clock, stamps, total, totalCnt>>
  /\ UNCHANGED <<timely, calls, overlap>>

(* recreate_pipeline_thread_func, on the main loop: destroy_pipeline joins *)
(* the streaming threads and pauses the measurement ...                    *)
Destroy ==
  /\ MainLoopFree /\ pipeline # "none" /\ inFlight = NoBatch
  /\ pipeline' = "none"
  /\ PausePerf
  /\ UNCHANGED <<caller, inFlight, clock, timerVars, last, lastSample, counts>>
  /\ Call
  /\ UNCHANGED timely

(* ... and create_pipeline calls enable_perf_measurement, which sets stop   *)
(* and resumes.                                                            *)
Create ==
  /\ pipeline = "none" /\ MainLoopFree
  /\ pipeline' = "playing"
  /\ StartMeasuring
  /\ UNCHANGED <<caller, inFlight, clock, stamps, total, totalCnt>>
  /\ UNCHANGED <<timely, calls, overlap>>

Step ==
  \/ Tick
  \/ \E batch \in Batches : ProbeTestsStop(batch)
  \/ ProbeCounts
  \/ perf_measurement_callback
  \/ \E u \in Users : Pause(u) \/ Paused(u) \/ Resume(u) \/ Resumed(u)
  \/ Destroy \/ Create

Next == Step /\ lapsed' = (lapsed \/ (stop' /\ clock' >= due'))

Spec == Init /\ [][Next]_vars

-----------------------------------------------------------------------------
(* A sample never divides a positive number of frames by an empty or       *)
(* negative window: buffer_cnt / time2 (deepstream_perf.c:119) is a rate   *)
(* whatever pauses came between and whatever a late batch stamped while    *)
(* the measurement was paused. The exception is a source of which only one *)
(* batch with several frames has been seen: fewer than a batch's frames    *)
(* are then counted within one tick (deepstream_perf.c:38-46).             *)
FiniteRate ==
  \A s \in Sources : ~stop /\ cnt[s] >= FramesPerBatch => Window(s) > 0

(* The frames behind the average (total_buffer_cnt), and those a sample    *)
(* would add to them, were all counted while the measurement ran, and none *)
(* by two samples: a batch whose probe passed the unlocked test of stop    *)
(* just before a pause (deepstream_perf.c:36) may be counted after it, but *)
(* never enters a rate.                                                    *)
OnlyTimelyFramesSampled ==
  \A s \in Sources :
    totalCnt[s] + (IF stop THEN 0 ELSE cnt[s]) <= timely[s]

(* Unless two of them have overlapped, pauses, resumes and recreations     *)
(* leave a playing pipeline measured, and its samples taken: the timer is  *)
(* there unless a sample was due while the measurement was paused          *)
(* (deepstream_perf.c:60-63 and :200; README.md section 6).                *)
PlayingIsMeasured ==
  pipeline = "playing" /\ (\A u \in Users : caller[u] = "idle") /\ ~overlap
    => ~stop /\ (timer \/ lapsed)
=============================================================================
