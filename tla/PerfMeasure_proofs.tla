-------------------------- MODULE PerfMeasure_proofs --------------------------
(* Proofs about PerfMeasure, for every set of instances and of users, every *)
(* sampling interval and every bound.                                      *)
EXTENDS PerfMeasure, TLAPS

Ticks == {0} \cup Epoch .. MaxTime

(* A source's clock starts no later than its last frame, and a sample was   *)
(* taken no later than that.                                               *)
StampsInOrder ==
  \A s \in Sources :
    /\ start[s] <= last[s] /\ last[s] <= clock
    /\ lastSample[s] <= last[s]

LEMMA StampTypes ==
  TypeOK => /\ start \in [Sources -> Ticks]
            /\ last \in [Sources -> Ticks]
            /\ lastSample \in [Sources -> Ticks]
            /\ cnt \in [Sources -> Nat]
            /\ totalCnt \in [Sources -> Nat]
            /\ timely \in [Sources -> Nat]
BY DEF TypeOK, Ticks

LEMMA TicksAreNat == Ticks \subseteq Nat
BY PerfAssumption DEF Ticks

(* What of a batch is counted is no more than what is in it, and one less  *)
(* for a source whose clock it starts.                                     *)
LEMMA CountedType ==
  ASSUME TypeOK, NEW s \in Sources
  PROVE  /\ inFlight[s] \in 0 .. FramesPerBatch
         /\ Counted(s) \in Nat /\ Counted(s) <= inFlight[s]
         /\ start[s] = 0 /\ inFlight[s] > 0 => Counted(s) < FramesPerBatch
<1>1. inFlight \in [Sources -> 0 .. FramesPerBatch]
  BY PerfAssumption DEF TypeOK, Batches, NoBatch, Zero
<1>. QED
  BY <1>1, PerfAssumption DEF Counted

(* What PausePerf leaves.                                                  *)
LEMMA PausePerfType ==
  ASSUME TypeOK, StampsInOrder, PausePerf
  PROVE  /\ stop' \in BOOLEAN
         /\ start' \in [Sources -> Ticks]
         /\ total' \in [Sources -> Nat]
<1>1. start' \in [Sources -> Ticks]
  BY DEF PausePerf, Zero, Ticks
<1>2. ASSUME NEW s \in Sources
      PROVE  total[s] + last[s] - start[s] \in Nat
  <2>1. start[s] \in Nat /\ last[s] \in Nat /\ total[s] \in Nat
    BY StampTypes, TicksAreNat DEF TypeOK
  <2>. QED
    BY <2>1 DEF StampsInOrder
<1>. QED
  BY <1>1, <1>2 DEF PausePerf

LEMMA PausePerfStamps ==
  ASSUME TypeOK, StampsInOrder, PausePerf, UNCHANGED <<clock, last, lastSample>>
  PROVE  StampsInOrder'
<1> SUFFICES ASSUME NEW s \in Sources
             PROVE  /\ start'[s] <= last'[s] /\ last'[s] <= clock'
                    /\ lastSample'[s] <= last'[s]
  BY DEF StampsInOrder
<1>1. start'[s] = 0 /\ last'[s] = last[s] /\ last[s] \in Nat
  BY StampTypes, TicksAreNat DEF PausePerf, Zero
<1>. QED
  BY <1>1 DEF StampsInOrder

(* What StartMeasuring and ResumePerf leave.                               *)
LEMMA StartMeasuringType ==
  ASSUME TypeOK, StartMeasuring
  PROVE  /\ stop' = FALSE /\ cnt' = Zero
         /\ timerId' \in BOOLEAN /\ timer' \in BOOLEAN /\ due' \in Nat
<1>1. stop' = FALSE /\ cnt' = Zero
  BY Zenon DEF StartMeasuring
<1>2. timerId' \in BOOLEAN /\ timer' \in BOOLEAN
  BY Zenon DEF StartMeasuring, timerVars, TypeOK
<1>3. due' \in Nat
  <2>1. due' = due \/ due' = clock + SampleInterval
    BY Zenon DEF StartMeasuring, timerVars
  <2>2. due \in Nat /\ clock \in Nat
    BY PerfAssumption DEF TypeOK
  <2>. QED
    BY <2>1, <2>2, PerfAssumption
<1>. QED
  BY <1>1, <1>2, <1>3

LEMMA ResumePerfType ==
  ASSUME TypeOK, ResumePerf
  PROVE  /\ stop' = FALSE
         /\ cnt' \in [Sources -> Nat]
         /\ \A s \in Sources : cnt'[s] = 0 \/ (~stop /\ cnt'[s] = cnt[s])
         /\ timerId' \in BOOLEAN /\ timer' \in BOOLEAN /\ due' \in Nat
<1>1. CASE stop
  BY <1>1, StartMeasuringType DEF ResumePerf, Zero
<1>2. CASE ~stop
  BY <1>2 DEF TypeOK, ResumePerf, timerVars
<1>. QED
  BY <1>1, <1>2

-----------------------------------------------------------------------------
LEMMA TypeInit == Init => TypeOK /\ StampsInOrder
<1> SUFFICES ASSUME Init PROVE TypeOK /\ StampsInOrder
  OBVIOUS
<1>1. /\ pipeline \in PipelineStates
      /\ caller \in [Users -> {"idle", "pausing", "resuming"}]
      /\ inFlight \in Batches \cup {NoBatch}
  BY DEF Init, PipelineStates
<1>2. /\ stop \in BOOLEAN /\ timerId \in BOOLEAN /\ timer \in BOOLEAN
      /\ overlap \in BOOLEAN /\ lapsed \in BOOLEAN
  BY Zenon DEF Init
<1>3. /\ clock \in Epoch .. MaxTime
      /\ due \in Nat
      /\ calls \in 0 .. MaxCalls
  BY PerfAssumption DEF Init
<1>4. Zero \in [Sources -> Nat] /\ Zero \in [Sources -> {0} \cup Epoch .. MaxTime]
  BY DEF Zero
<1>5. TypeOK
  <2>1. /\ {start, last, lastSample} \subseteq [Sources -> {0} \cup Epoch .. MaxTime]
        /\ total \in [Sources -> Nat]
        /\ {cnt, totalCnt, timely} \subseteq [Sources -> Nat]
    BY <1>4 DEF Init
  <2>. QED
    BY Zenon, <1>1, <1>2, <1>3, <2>1 DEF TypeOK
<1>6. StampsInOrder
  <2> SUFFICES ASSUME NEW s \in Sources
               PROVE  /\ start[s] <= last[s] /\ last[s] <= clock
                      /\ lastSample[s] <= last[s]
    BY DEF StampsInOrder
  <2>1. start = Zero /\ last = Zero /\ lastSample = Zero /\ clock = Epoch
    BY Zenon DEF Init
  <2>2. start[s] = 0 /\ last[s] = 0 /\ lastSample[s] = 0
    BY <2>1 DEF Zero
  <2>3. clock \in Nat
    BY <2>1, PerfAssumption
  <2>. QED
    BY <2>2, <2>3
<1>. QED
  BY <1>5, <1>6

LEMMA TypeNext == TypeOK /\ StampsInOrder /\ [Next]_vars => (TypeOK /\ StampsInOrder)'
<1> SUFFICES ASSUME TypeOK, StampsInOrder, [Next]_vars
             PROVE  TypeOK' /\ StampsInOrder'
  OBVIOUS
<1>. USE StampTypes, TicksAreNat, PerfAssumption DEF stamps, counts
<1>0. lapsed' \in BOOLEAN
  BY Zenon DEF TypeOK, Next, vars
<1>. USE <1>0
<1>1. CASE Tick
  <2>1. clock' \in Epoch .. MaxTime /\ clock <= clock'
    BY <1>1 DEF Tick, TypeOK
  <2>2. TypeOK'
    BY <1>1, <2>1 DEF Tick, TypeOK, timerVars
  <2>3. StampsInOrder'
    BY <1>1, <2>1 DEF Tick, StampsInOrder, TypeOK
  <2>. QED
    BY <2>2, <2>3
<1>2. ASSUME NEW batch \in Batches, ProbeTestsStop(batch)
      PROVE  TypeOK' /\ StampsInOrder'
  <2>1. TypeOK'
    BY <1>2 DEF ProbeTestsStop, TypeOK, timerVars
  <2>. QED
    BY <1>2, <2>1 DEF ProbeTestsStop, StampsInOrder
<1>3. CASE ProbeCounts
  <2>1. clock \in Ticks
    BY DEF TypeOK, Ticks
  <2>2. /\ start' \in [Sources -> Ticks]
        /\ last' \in [Sources -> Ticks]
    BY <1>3, <2>1 DEF ProbeCounts
  <2>5. cnt' \in [Sources -> Nat] /\ timely' \in [Sources -> Nat]
    BY <1>3, CountedType DEF ProbeCounts
  <2>3. TypeOK'
    BY <1>3, <2>2, <2>5 DEF ProbeCounts, TypeOK, timerVars, Ticks
  <2>4. StampsInOrder'
    <3>. SUFFICES ASSUME NEW s \in Sources
                  PROVE  /\ start'[s] <= last'[s] /\ last'[s] <= clock'
                         /\ lastSample'[s] <= last'[s]
      BY DEF StampsInOrder
    <3>1. clock' = clock /\ lastSample' = lastSample
      BY <1>3 DEF ProbeCounts
    <3>2. /\ start[s] <= last[s] /\ last[s] <= clock /\ lastSample[s] <= last[s]
          /\ start[s] \in Nat /\ last[s] \in Nat /\ lastSample[s] \in Nat
          /\ clock \in Nat
      BY <2>1 DEF StampsInOrder
    <3>3. CASE inFlight[s] > 0
      BY <1>3, <3>1, <3>2, <3>3 DEF ProbeCounts
    <3>4. CASE ~(inFlight[s] > 0)
      BY <1>3, <3>1, <3>2, <3>4 DEF ProbeCounts
    <3>. QED
      BY <3>3, <3>4
  <2>. QED
    BY <2>3, <2>4
<1>4. CASE perf_measurement_callback
  <2>1. /\ lastSample' \in [Sources -> Ticks]
        /\ cnt' \in [Sources -> Nat]
        /\ totalCnt' \in [Sources -> Nat]
        /\ due' \in Nat
    <3>1. CASE SampleWhileStopped
      BY <3>1 DEF SampleWhileStopped, TypeOK
    <3>2. CASE Sample
      BY <3>2 DEF Sample, Zero, TypeOK
    <3>3. SampleWhileStopped \/ Sample
      BY Zenon, <1>4 DEF perf_measurement_callback
    <3>. QED
      BY <3>1, <3>2, <3>3
  <2>2. timer' \in BOOLEAN
    BY Zenon, <1>4 DEF perf_measurement_callback, SampleWhileStopped, Sample, TypeOK
  <2>5. TypeOK'
    BY <1>4, <2>1, <2>2 DEF perf_measurement_callback, TypeOK, Ticks
  <2>3. lastSample' = lastSample \/ lastSample' = last
    BY <1>4 DEF perf_measurement_callback, SampleWhileStopped, Sample
  <2>4. StampsInOrder'
    <3>1. start' = start /\ last' = last /\ clock' = clock
      BY <1>4 DEF perf_measurement_callback
    <3>2. \A s \in Sources : last[s] \in Nat
      OBVIOUS
    <3>3. \A s \in Sources : last[s] <= last[s]
      BY <3>2
    <3>. QED
      BY Zenon, <2>3, <3>1, <3>3 DEF StampsInOrder
  <2>. QED
    BY <2>4, <2>5
<1>5. ASSUME NEW u \in Users, Pause(u)
      PROVE  TypeOK' /\ StampsInOrder'
  <2>1. pipeline' \in PipelineStates
    BY <1>5 DEF Pause, TypeOK, PipelineStates
  <2>2. calls' \in 0 .. MaxCalls /\ overlap' \in BOOLEAN
    BY <1>5 DEF Pause, Call, TypeOK
  <2>3. TypeOK'
    BY <1>5, <2>1, <2>2 DEF Pause, TypeOK, timerVars
  <2>. QED
    BY <1>5, <2>3 DEF Pause, StampsInOrder
<1>6. ASSUME NEW u \in Users, Paused(u)
      PROVE  TypeOK' /\ StampsInOrder'
  <2>1. PausePerf
    BY <1>6 DEF Paused
  <2>2. TypeOK'
    BY <1>6, <2>1, PausePerfType DEF Paused, TypeOK, timerVars, Ticks
  <2>. QED
    BY <1>6, <2>1, <2>2, PausePerfStamps DEF Paused
<1>7. ASSUME NEW u \in Users, Resume(u)
      PROVE  TypeOK' /\ StampsInOrder'
  <2>1. pipeline' \in PipelineStates
    BY <1>7 DEF Resume, TypeOK, PipelineStates
  <2>2. calls' \in 0 .. MaxCalls /\ overlap' \in BOOLEAN
    BY <1>7 DEF Resume, Call, TypeOK
  <2>3. TypeOK'
    BY <1>7, <2>1, <2>2 DEF Resume, TypeOK, timerVars
  <2>. QED
    BY <1>7, <2>3 DEF Resume, StampsInOrder
<1>8. ASSUME NEW u \in Users, Resumed(u)
      PROVE  TypeOK' /\ StampsInOrder'
  <2>1. ResumePerf
    BY <1>8 DEF Resumed
  <2>2. TypeOK'
    BY <1>8, <2>1, ResumePerfType DEF Resumed, TypeOK
  <2>. QED
    BY <1>8, <2>2 DEF Resumed, StampsInOrder
<1>9. CASE Destroy
  <2>1. PausePerf
    BY <1>9 DEF Destroy
  <2>2. calls' \in 0 .. MaxCalls /\ overlap' \in BOOLEAN
    BY <1>9 DEF Destroy, Call, TypeOK
  <2>3. TypeOK'
    BY <1>9, <2>1, <2>2, PausePerfType
    DEF Destroy, TypeOK, timerVars, PipelineStates, Ticks
  <2>. QED
    BY <1>9, <2>1, <2>3, PausePerfStamps DEF Destroy
<1>10. CASE Create
  <2>1. StartMeasuring
    BY <1>10 DEF Create
  <2>2. cnt' \in [Sources -> Nat]
    BY <2>1, StartMeasuringType DEF Zero
  <2>3. TypeOK'
    BY <1>10, <2>1, <2>2, StartMeasuringType DEF Create, TypeOK, PipelineStates
  <2>. QED
    BY <1>10, <2>3 DEF Create, StampsInOrder
<1>11. CASE UNCHANGED vars
  <2>1. TypeOK'
    BY <1>11 DEF vars, TypeOK, timerVars
  <2>. QED
    BY <1>11, <2>1 DEF vars, StampsInOrder
<1>. QED
  BY <1>1, <1>2, <1>3, <1>4, <1>5, <1>6, <1>7, <1>8, <1>9, <1>10, <1>11 DEF Next, Step

(* The state of the measurement keeps its types; in particular the time     *)
(* measured, last_fps_time - start_fps_time, added at a pause              *)
(* (deepstream_perf.c:173) never takes anything away from the total.       *)
THEOREM TypeCorrect == Spec => []TypeOK
<1>1. Init => TypeOK /\ StampsInOrder
  BY TypeInit
<1>2. TypeOK /\ StampsInOrder /\ [Next]_vars => (TypeOK /\ StampsInOrder)'
  BY TypeNext
<1>. QED
  BY <1>1, <1>2, PTL DEF Spec

-----------------------------------------------------------------------------
LEMMA TimelyInit == Init => OnlyTimelyFramesSampled
<1> SUFFICES ASSUME Init, NEW s \in Sources
             PROVE  totalCnt[s] + (IF stop THEN 0 ELSE cnt[s]) <= timely[s]
  BY DEF OnlyTimelyFramesSampled
<1>1. totalCnt = Zero /\ cnt = Zero /\ timely = Zero
  BY Zenon DEF Init
<1>. QED
  BY <1>1 DEF Zero

LEMMA TimelyNext ==
  TypeOK /\ OnlyTimelyFramesSampled /\ [Next]_vars => OnlyTimelyFramesSampled'
<1> DEFINE Timely(s) == totalCnt[s] + (IF stop THEN 0 ELSE cnt[s]) <= timely[s]
<1> SUFFICES ASSUME TypeOK, OnlyTimelyFramesSampled, [Next]_vars,
                    NEW s \in Sources
             PROVE  Timely(s)'
  BY DEF OnlyTimelyFramesSampled
<1>0. /\ totalCnt[s] \in Nat /\ cnt[s] \in Nat /\ timely[s] \in Nat
      /\ Timely(s)
  BY StampTypes DEF OnlyTimelyFramesSampled
<1>1. ASSUME UNCHANGED <<counts, timely>>, stop' = stop \/ stop'
      PROVE  Timely(s)'
  BY <1>0, <1>1 DEF counts
<1>2. ASSUME UNCHANGED <<totalCnt, timely>>, stop' = FALSE,
             cnt'[s] = 0 \/ (~stop /\ cnt'[s] = cnt[s])
      PROVE  Timely(s)'
  BY <1>0, <1>2
<1>3. CASE Tick
  BY <1>1, <1>3 DEF Tick
<1>4. ASSUME NEW batch \in Batches, ProbeTestsStop(batch)
      PROVE  Timely(s)'
  BY <1>1, <1>4 DEF ProbeTestsStop
<1>5. CASE ProbeCounts
  <2>1. /\ cnt'[s] = cnt[s] + Counted(s)
        /\ timely'[s] = IF stop THEN timely[s] ELSE timely[s] + Counted(s)
        /\ totalCnt'[s] = totalCnt[s] /\ stop' = stop
    BY <1>5 DEF ProbeCounts
  <2>2. Counted(s) \in Nat
    BY CountedType
  <2>3. CASE stop
    BY <1>0, <2>1, <2>2, <2>3
  <2>4. CASE ~stop
    BY <1>0, <2>1, <2>2, <2>4
  <2>. QED
    BY <2>3, <2>4
<1>6. CASE perf_measurement_callback
  <2>1. stop' = stop /\ timely' = timely
    BY <1>6 DEF perf_measurement_callback
  <2>2. CASE SampleWhileStopped
    BY <1>1, <2>1, <2>2 DEF SampleWhileStopped
  <2>3. CASE Sample
    <3>1. ~stop /\ totalCnt'[s] = totalCnt[s] + cnt[s] /\ cnt'[s] = 0
      BY <2>3 DEF Sample, Zero
    <3>. QED
      BY <1>0, <2>1, <3>1
  <2>4. SampleWhileStopped \/ Sample
    BY Zenon, <1>6 DEF perf_measurement_callback
  <2>. QED
    BY <2>2, <2>3, <2>4
<1>7. ASSUME NEW u \in Users, Pause(u) \/ Resume(u)
      PROVE  Timely(s)'
  BY <1>1, <1>7 DEF Pause, Resume
<1>8. ASSUME NEW u \in Users, Paused(u)
      PROVE  Timely(s)'
  <2>1. stop' /\ UNCHANGED <<counts, timely>>
    BY <1>8 DEF Paused, PausePerf
  <2>. QED
    BY <1>1, <2>1
<1>9. ASSUME NEW u \in Users, Resumed(u)
      PROVE  Timely(s)'
  <2>1. ResumePerf /\ UNCHANGED <<totalCnt, timely>>
    BY <1>9 DEF Resumed
  <2>. QED
    BY <1>2, <2>1, ResumePerfType
<1>10. CASE Destroy
  <2>1. stop' /\ UNCHANGED <<counts, timely>>
    BY <1>10 DEF Destroy, PausePerf
  <2>. QED
    BY <1>1, <2>1
<1>11. CASE Create
  <2>1. StartMeasuring /\ UNCHANGED <<totalCnt, timely>>
    BY <1>11 DEF Create
  <2>2. stop' = FALSE /\ cnt'[s] = 0
    BY <2>1 DEF StartMeasuring, Zero
  <2>. QED
    BY <1>2, <2>1, <2>2
<1>12. CASE UNCHANGED vars
  BY <1>1, <1>12 DEF vars
<1>. QED
  BY <1>3, <1>4, <1>5, <1>6, <1>7, <1>8, <1>9, <1>10, <1>11, <1>12 DEF Next, Step

(* The frames behind the rates and the average were all counted while the   *)
(* measurement ran, and no two samples count the same one, whatever pauses, *)
(* resumes, recreations and late batches come between: what a late batch    *)
(* adds while stop is set is gone when the measurement resumes.            *)
THEOREM TimelyFramesSampled == Spec => []OnlyTimelyFramesSampled
<1>1. TypeOK /\ OnlyTimelyFramesSampled /\ [Next]_vars
        => OnlyTimelyFramesSampled'
  BY TimelyNext
<1>. QED
  BY <1>1, TimelyInit, TypeCorrect, PTL DEF Spec

-----------------------------------------------------------------------------
(* A source whose frames are counted has its clock running and a window     *)
(* that is not empty, or it has only had one batch, which started the       *)
(* clock; a batch on its way to the lock is later than the last one; and    *)
(* while the measurement is stopped that batch meets a cleared clock.      *)
Base(s) == IF lastSample[s] = 0 THEN start[s] ELSE lastSample[s]

OneBatchSeen(s) == cnt[s] < FramesPerBatch /\ Base(s) = last[s]

RateOf(s) ==
  /\ ~stop /\ cnt[s] > 0 => start[s] # 0
  /\ ~stop /\ cnt[s] > 0 => Base(s) < last[s] \/ OneBatchSeen(s)
  /\ inFlight[s] > 0 => last[s] < clock
  /\ inFlight[s] > 0 /\ stop => start[s] = 0

RateInv == \A s \in Sources : RateOf(s)

LEMMA SourceTypes ==
  ASSUME TypeOK, NEW s \in Sources
  PROVE  /\ start[s] \in Nat /\ last[s] \in Nat /\ lastSample[s] \in Nat
         /\ cnt[s] \in Nat /\ clock \in Nat /\ clock # 0
BY StampTypes, TicksAreNat, PerfAssumption DEF TypeOK

LEMMA RateInit == Init => RateInv
<1> SUFFICES ASSUME Init, NEW s \in Sources PROVE RateOf(s)
  BY DEF RateInv
<1>1. cnt[s] = 0 /\ inFlight[s] = 0
  BY DEF Init, NoBatch, Zero
<1>. QED
  BY <1>1 DEF RateOf

LEMMA RateNext ==
  TypeOK /\ StampsInOrder /\ RateInv /\ [Next]_vars => RateInv'
<1> SUFFICES ASSUME TypeOK, StampsInOrder, RateInv, [Next]_vars,
                    NEW s \in Sources
             PROVE  RateOf(s)'
  BY DEF RateInv
<1>0. /\ RateOf(s)
      /\ start[s] <= last[s] /\ last[s] <= clock /\ lastSample[s] <= last[s]
  BY DEF RateInv, StampsInOrder
<1>. USE SourceTypes
<1>1. ASSUME UNCHANGED <<stop, cnt, inFlight, clock, stamps>>
      PROVE  RateOf(s)'
  BY <1>0, <1>1 DEF RateOf, OneBatchSeen, Base, stamps
<1>2. CASE Tick
  <2>1. clock' = clock + 1 /\ UNCHANGED <<stop, cnt, inFlight, stamps>>
    BY <1>2 DEF Tick, counts
  <2>. QED
    BY <1>0, <2>1 DEF RateOf, OneBatchSeen, Base, stamps
<1>3. ASSUME NEW batch \in Batches, ProbeTestsStop(batch)
      PROVE  RateOf(s)'
  <2>1. /\ ~stop
        /\ batch[s] > 0 => last[s] < clock
        /\ inFlight' = batch
        /\ UNCHANGED <<stop, cnt, clock, stamps>>
    BY <1>3 DEF ProbeTestsStop, counts
  <2>. QED
    BY <1>0, <2>1 DEF RateOf, OneBatchSeen, Base, stamps
<1>4. CASE ProbeCounts
  <2>1. inFlight'[s] = 0 /\ UNCHANGED <<stop, lastSample>>
    BY <1>4 DEF ProbeCounts, NoBatch, Zero
  <2>2. CASE ~(inFlight[s] > 0)
    <3>1. start'[s] = start[s] /\ last'[s] = last[s] /\ cnt'[s] = cnt[s] + Counted(s)
      BY <1>4, <2>2 DEF ProbeCounts
    <3>2. Counted(s) = 0
      BY <2>2, CountedType
    <3>. QED
      BY <1>0, <2>1, <3>1, <3>2 DEF RateOf, OneBatchSeen, Base
  <2>3. CASE inFlight[s] > 0 /\ start[s] = 0
    <3>1. /\ cnt'[s] = cnt[s] + Counted(s)
          /\ start'[s] = clock /\ last'[s] = clock
      BY <1>4, <2>3 DEF ProbeCounts
    <3>2. ~stop => cnt[s] = 0
      BY <1>0, <2>3 DEF RateOf
    <3>3. Counted(s) \in Nat /\ Counted(s) < FramesPerBatch
      BY <2>3, CountedType
    <3>4. CASE lastSample[s] = 0
      BY <2>1, <3>1, <3>2, <3>3, <3>4 DEF RateOf, OneBatchSeen, Base
    <3>5. CASE lastSample[s] # 0
      <4>1. lastSample[s] < clock
        BY <1>0, <2>3 DEF RateOf
      <4>2. Base(s)' < last'[s]
        BY <2>1, <3>1, <3>5, <4>1 DEF Base
      <4>. QED
        BY <2>1, <3>1, <4>2 DEF RateOf
    <3>. QED
      BY <3>4, <3>5
  <2>4. CASE inFlight[s] > 0 /\ start[s] # 0
    <3>1. start'[s] = start[s] /\ last'[s] = clock
      BY <1>4, <2>4 DEF ProbeCounts
    <3>2. Base(s)' = Base(s) /\ Base(s) <= last[s] /\ Base(s) \in Nat
      BY <1>0, <2>1, <3>1 DEF Base
    <3>3. last[s] < clock
      BY <1>0, <2>4 DEF RateOf
    <3>4. Base(s)' < last'[s]
      BY <3>1, <3>2, <3>3
    <3>. QED
      BY <2>1, <2>4, <3>1, <3>4 DEF RateOf
  <2>. QED
    BY <2>2, <2>3, <2>4
<1>5. CASE perf_measurement_callback
  <2>1. UNCHANGED <<stop, inFlight, clock, start, last>>
    BY <1>5 DEF perf_measurement_callback
  <2>2. CASE SampleWhileStopped
    BY <1>1, <2>1, <2>2 DEF SampleWhileStopped, counts, stamps
  <2>3. CASE Sample
    <3>1. cnt'[s] = 0
      BY <2>3 DEF Sample, Zero
    <3>. QED
      BY <1>0, <2>1, <3>1 DEF RateOf
  <2>4. SampleWhileStopped \/ Sample
    BY Zenon, <1>5 DEF perf_measurement_callback
  <2>. QED
    BY <2>2, <2>3, <2>4
<1>6. ASSUME NEW u \in Users, Pause(u) \/ Resume(u)
      PROVE  RateOf(s)'
  BY <1>1, <1>6 DEF Pause, Resume, counts
<1>7. ASSUME PausePerf, UNCHANGED <<inFlight, clock, last, lastSample>>
      PROVE  RateOf(s)'
  <2>1. stop' /\ start'[s] = 0
    BY <1>7 DEF PausePerf, Zero
  <2>. QED
    BY <1>0, <1>7, <2>1 DEF RateOf
<1>8. ASSUME NEW u \in Users, Paused(u)
      PROVE  RateOf(s)'
  BY <1>7, <1>8 DEF Paused
<1>9. ASSUME stop' = FALSE, cnt'[s] = 0 \/ (~stop /\ cnt'[s] = cnt[s]),
             UNCHANGED <<inFlight, clock, stamps>>
      PROVE  RateOf(s)'
  BY <1>0, <1>9 DEF RateOf, OneBatchSeen, Base, stamps
<1>10. ASSUME NEW u \in Users, Resumed(u)
       PROVE  RateOf(s)'
  <2>1. ResumePerf /\ UNCHANGED <<inFlight, clock, stamps>>
    BY <1>10 DEF Resumed
  <2>. QED
    BY <1>9, <2>1, ResumePerfType
<1>11. CASE Destroy
  BY <1>7, <1>11 DEF Destroy
<1>12. CASE Create
  <2>1. StartMeasuring /\ UNCHANGED <<inFlight, clock, stamps>>
    BY <1>12 DEF Create
  <2>2. stop' = FALSE /\ cnt'[s] = 0
    BY <2>1, StartMeasuringType DEF Zero
  <2>. QED
    BY <1>9, <2>1, <2>2
<1>13. CASE UNCHANGED vars
  BY <1>1, <1>13 DEF vars, counts
<1>. QED
  BY <1>2, <1>3, <1>4, <1>5, <1>6, <1>8, <1>10, <1>11, <1>12, <1>13 DEF Next, Step

LEMMA RateCorrect == Spec => [](TypeOK /\ StampsInOrder /\ RateInv)
<1>1. Init => TypeOK /\ StampsInOrder /\ RateInv
  BY TypeInit, RateInit
<1>2. TypeOK /\ StampsInOrder /\ RateInv /\ [Next]_vars
        => (TypeOK /\ StampsInOrder /\ RateInv)'
  BY TypeNext, RateNext
<1>. QED
  BY <1>1, <1>2, PTL DEF Spec

(* A sample never divides a positive number of frames by an empty or        *)
(* negative window (buffer_cnt / time2, deepstream_perf.c:119), whatever    *)
(* pauses came between and whatever a late batch stamped meanwhile, unless  *)
(* they are fewer than a batch's and came in one.                          *)
THEOREM RateIsFinite == Spec => []FiniteRate
<1>1. TypeOK /\ StampsInOrder /\ RateInv => FiniteRate
  <2> SUFFICES ASSUME TypeOK, RateInv, NEW s \in Sources,
                      ~stop, cnt[s] >= FramesPerBatch
               PROVE  Window(s) > 0
    BY DEF FiniteRate
  <2>1. Base(s) < last[s] /\ Base(s) \in Nat /\ last[s] \in Nat
    BY SourceTypes, PerfAssumption DEF RateInv, RateOf, OneBatchSeen, Base
  <2>. QED
    BY <2>1 DEF Window, Base
<1>. QED
  BY <1>1, RateCorrect, PTL

-----------------------------------------------------------------------------
(* As long as no pause, resume or recreation has begun while another was    *)
(* under way, what each of them still has to do fits the pipeline it left.  *)
Idle(u) == caller[u] = "idle"

NoOverlapInv ==
  ~overlap =>
    /\ pipeline = "none" => \A u \in Users : Idle(u)
    /\ \A u, v \in Users : ~Idle(u) /\ ~Idle(v) => u = v
    /\ \A u \in Users : /\ caller[u] = "pausing" => pipeline = "paused"
                        /\ caller[u] = "resuming" => pipeline = "playing"
    /\ pipeline = "playing" /\ (\A u \in Users : Idle(u)) => ~stop

LEMMA NoOverlapInit == Init => NoOverlapInv
BY DEF Init, NoOverlapInv, Idle

LEMMA NoOverlapNext == TypeOK /\ NoOverlapInv /\ [Next]_vars => NoOverlapInv'
<1> SUFFICES ASSUME TypeOK, NoOverlapInv, [Next]_vars
             PROVE  NoOverlapInv'
  OBVIOUS
<1>0. caller \in [Users -> {"idle", "pausing", "resuming"}]
  BY DEF TypeOK
<1>1. ASSUME UNCHANGED <<pipeline, caller, stop, overlap>>
      PROVE  NoOverlapInv'
  BY <1>1 DEF NoOverlapInv, Idle
<1>2. ASSUME Tick \/ ProbeCounts \/ perf_measurement_callback
      PROVE  NoOverlapInv'
  BY <1>1, <1>2 DEF Tick, ProbeCounts, perf_measurement_callback
<1>3. ASSUME NEW batch \in Batches, ProbeTestsStop(batch)
      PROVE  NoOverlapInv'
  BY <1>1, <1>3 DEF ProbeTestsStop
<1>4. ASSUME Call, ~overlap'
      PROVE  ~overlap /\ pipeline # "none" /\ \A u \in Users : Idle(u)
  BY <1>4 DEF Call, Idle
<1>5. ASSUME NEW u \in Users, Pause(u) PROVE NoOverlapInv'
  <2> SUFFICES ASSUME ~overlap' PROVE NoOverlapInv'
    BY DEF NoOverlapInv
  <2>1. ~overlap /\ pipeline # "none" /\ \A v \in Users : Idle(v)
    BY <1>4, <1>5 DEF Pause
  <2>2. pipeline' = "paused" /\ caller' = [caller EXCEPT ![u] = "pausing"]
    BY <1>5, <2>1 DEF Pause
  <2>. QED
    BY <1>0, <2>1, <2>2 DEF NoOverlapInv, Idle
<1>6. ASSUME NEW u \in Users, Resume(u) PROVE NoOverlapInv'
  <2> SUFFICES ASSUME ~overlap' PROVE NoOverlapInv'
    BY DEF NoOverlapInv
  <2>1. ~overlap /\ pipeline # "none" /\ \A v \in Users : Idle(v)
    BY <1>4, <1>6 DEF Resume
  <2>2. pipeline' = "playing" /\ caller' = [caller EXCEPT ![u] = "resuming"]
    BY <1>6, <2>1 DEF Resume
  <2>. QED
    BY <1>0, <2>1, <2>2 DEF NoOverlapInv, Idle
<1>7. ASSUME NEW u \in Users, Paused(u) PROVE NoOverlapInv'
  BY <1>0, <1>7 DEF Paused, NoOverlapInv, Idle
<1>8. ASSUME NEW u \in Users, Resumed(u) PROVE NoOverlapInv'
  <2>1. stop' = FALSE
    BY <1>8, ResumePerfType DEF Resumed
  <2>. QED
    BY <1>0, <1>8, <2>1 DEF Resumed, NoOverlapInv, Idle
<1>9. CASE Destroy
  <2> SUFFICES ASSUME ~overlap' PROVE NoOverlapInv'
    BY DEF NoOverlapInv
  <2>1. ~overlap /\ \A v \in Users : Idle(v)
    BY <1>4, <1>9 DEF Destroy
  <2>2. pipeline' = "none" /\ caller' = caller
    BY <1>9 DEF Destroy
  <2>. QED
    BY <1>0, <2>1, <2>2 DEF NoOverlapInv, Idle
<1>10. CASE Create
  <2>1. /\ pipeline = "none" /\ pipeline' = "playing"
        /\ caller' = caller /\ overlap' = overlap
    BY <1>10 DEF Create
  <2>2. stop' = FALSE
    BY <1>10, StartMeasuringType DEF Create
  <2>. QED
    BY <1>0, <2>1, <2>2 DEF NoOverlapInv, Idle
<1>11. CASE UNCHANGED vars
  BY <1>1, <1>11 DEF vars
<1>. QED
  BY <1>2, <1>3, <1>5, <1>6, <1>7, <1>8, <1>9, <1>10, <1>11 DEF Next, Step

(* The timer of the samples is there as long as none was due while the      *)
(* measurement was stopped.                                                *)
TimerInv == /\ stop /\ clock >= due => lapsed
            /\ timer \/ lapsed

LEMMA TimerInit == Init => TimerInv
BY Zenon DEF Init, TimerInv

LEMMA TimerNext == TypeOK /\ TimerInv /\ [Next]_vars => TimerInv'
<1> SUFFICES ASSUME TypeOK, TimerInv, [Next]_vars PROVE TimerInv'
  OBVIOUS
<1>1. CASE UNCHANGED vars
  BY <1>1 DEF TimerInv, vars, timerVars
<1>2. CASE Next
  <2>1. stop' /\ clock' >= due' => lapsed'
    BY Zenon, <1>2 DEF Next
  <2>2. lapsed => lapsed'
    BY Zenon, <1>2 DEF Next
  <2>3. timer => timer' \/ (stop /\ clock >= due)
    <3>1. CASE perf_measurement_callback
      BY Zenon, <3>1 DEF perf_measurement_callback, SampleWhileStopped, Sample
    <3>2. ASSUME NEW u \in Users, Resumed(u) PROVE timer => timer'
      BY Zenon, <3>2 DEF Resumed, ResumePerf, StartMeasuring, timerVars
    <3>3. CASE Create
      BY Zenon, <3>3 DEF Create, StartMeasuring, timerVars
    <3>4. ASSUME UNCHANGED timerVars PROVE timer => timer'
      BY <3>4 DEF timerVars
    <3>5. ASSUME NEW u \in Users, Pause(u) \/ Paused(u) \/ Resume(u)
          PROVE  timer => timer'
      BY Zenon, <3>4, <3>5 DEF Pause, Paused, Resume
    <3>6. CASE Tick \/ ProbeCounts \/ Destroy
      BY Zenon, <3>4, <3>6 DEF Tick, ProbeCounts, Destroy
    <3>7. ASSUME NEW batch \in Batches, ProbeTestsStop(batch)
          PROVE  timer => timer'
      BY Zenon, <3>4, <3>7 DEF ProbeTestsStop
    <3>. QED
      BY Zenon, <1>2, <3>1, <3>2, <3>3, <3>5, <3>6, <3>7 DEF Next, Step
  <2>. QED
    BY Zenon, <2>1, <2>2, <2>3 DEF TimerInv
<1>. QED
  BY <1>1, <1>2

(* Unless two of them have overlapped, pauses, resumes and recreations leave *)
(* a playing pipeline measured and sampled: the two steps of each, on the    *)
(* pipeline and on the measurement, do not part, and no pause ends the timer *)
(* except one during which a sample was due.                                *)
THEOREM PlayingMeasured == Spec => []PlayingIsMeasured
<1>1. TypeOK /\ NoOverlapInv /\ [Next]_vars => NoOverlapInv'
  BY NoOverlapNext
<1>2. NoOverlapInv /\ TimerInv => PlayingIsMeasured
  BY DEF NoOverlapInv, TimerInv, PlayingIsMeasured, Idle
<1>. QED
  BY <1>1, <1>2, NoOverlapInit, TimerInit, TimerNext, TypeCorrect, PTL DEF Spec
=============================================================================
