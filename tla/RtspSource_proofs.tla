-------------------------- MODULE RtspSource_proofs --------------------------
(* Proofs about RtspSource, for every set of sources and every setting.    *)
EXTENDS RtspSource, TLAPS

USE DEF quitVars

LEMMA TypeInit == Init => TypeOK
<1> SUFFICES ASSUME Init PROVE TypeOK
  OBVIOUS
<1>1. muxProbe \in BOOLEAN
  BY Zenon DEF Init, ProbeInstalled
<1>2. bus \in Seq(Messages)
  BY DEF Init
<1>3. /\ bin \in [Sources -> BinStates]
      /\ idle \in [Sources -> {Never} \cup (0 .. MaxAge)]
  BY DEF Init, BinStates
<1>4. /\ sinceReconnect \in [Sources -> 0 .. MaxAge]
      /\ sinceReset \in 0 .. MaxAge
      /\ queuedResets \in [Sources -> 0 .. MaxQueued]
  BY ConstantsAssumption DEF Init
<1>5. /\ up \in [Sources -> BOOLEAN]
      /\ tries \in [Sources -> Nat]
      /\ asyncTimers \in [Sources -> Nat]
  BY DEF Init
<1>6. /\ broken \in [Sources -> BOOLEAN]
      /\ eos \in [Sources -> BOOLEAN]
      /\ haveEos \in [Sources -> BOOLEAN]
      /\ reconfiguring \in [Sources -> BOOLEAN]
      /\ watchdog \in [Sources -> BOOLEAN]
      /\ asyncRunning \in [Sources -> BOOLEAN]
      /\ paused \in BOOLEAN
      /\ quit \in BOOLEAN
      /\ returnValue \in {0, -1}
      /\ revived \in [Sources -> BOOLEAN]
  BY DEF Init
<1>. QED
  BY <1>1, <1>2, <1>3, <1>4, <1>5, <1>6 DEF TypeOK

(* What CheckAndSendEos leaves of the types.                               *)
LEMMA CheckAndSendEosType ==
  ASSUME NEW t, NEW e, NEW p \in [Sources -> BOOLEAN], TypeOK,
         CheckAndSendEos(t, e, p)
  PROVE  /\ eos' \in [Sources -> BOOLEAN]
         /\ muxProbe' \in BOOLEAN
         /\ bus' \in Seq(Messages)
         /\ quit' \in BOOLEAN
         /\ returnValue' \in {0, -1}
<1> DEFINE stop   == \A s \in Sources : ~BlocksStop(s, t, e)
           probe  == muxProbe /\ ~stop
           errors == IF stop THEN <<<<Exceeded>>>> ELSE <<>>
           ends   == MuxEos(probe, p)
<1>1. /\ eos' = p
      /\ muxProbe' = probe
      /\ bus' = bus \o errors \o ends
      /\ quit' = quit
      /\ returnValue' = returnValue
  BY Zenon DEF CheckAndSendEos
<1>2. probe \in BOOLEAN
  BY DEF TypeOK
<1>3. errors \in Seq(Messages) /\ ends \in Seq(Messages)
  <2>1. <<Exceeded>> \in Messages /\ <<PipelineEos>> \in Messages
    BY Zenon DEF Messages
  <2> HIDE DEF stop, probe
  <2>. QED
    BY <2>1 DEF MuxEos
<1> HIDE DEF stop, probe, errors, ends
<1>. QED
  BY <1>1, <1>2, <1>3 DEF TypeOK

(* A reset keeps the types of what it sets.                                *)
LEMMA ResetSourceType ==
  ASSUME NEW s \in Sources, TypeOK, ResetSource(s)
  PROVE  /\ bin' \in [Sources -> BinStates]
         /\ broken' \in [Sources -> BOOLEAN]
         /\ revived' \in [Sources -> BOOLEAN]
         /\ eos' \in [Sources -> BOOLEAN]
         /\ reconfiguring' \in [Sources -> BOOLEAN]
         /\ asyncRunning' \in [Sources -> BOOLEAN]
         /\ asyncTimers' \in [Sources -> Nat]
         /\ idle' \in [Sources -> {Never} \cup (0 .. MaxAge)]
         /\ sinceReconnect' \in [Sources -> 0 .. MaxAge]
<1>1. /\ broken' \in [Sources -> BOOLEAN]
      /\ revived' \in [Sources -> BOOLEAN]
      /\ eos' \in [Sources -> BOOLEAN]
      /\ idle' \in [Sources -> {Never} \cup (0 .. MaxAge)]
      /\ sinceReconnect' \in [Sources -> 0 .. MaxAge]
  BY ConstantsAssumption DEF TypeOK, ResetSource
<1>2. CASE \E b \in {"async", "paused"} :
             /\ bin' = [bin EXCEPT ![s] = b]
             /\ StartAsyncWatch(s)
             /\ reconfiguring' = [reconfiguring EXCEPT ![s] = TRUE]
  BY <1>1, <1>2 DEF TypeOK, StartAsyncWatch, BinStates
<1>3. CASE /\ bin' = [bin EXCEPT ![s] = "playing"]
           /\ reconfiguring' = [reconfiguring EXCEPT ![s] = FALSE]
           /\ UNCHANGED <<asyncRunning, asyncTimers>>
  BY <1>1, <1>3 DEF TypeOK, BinStates
<1>4. CASE /\ bin' = [bin EXCEPT ![s] = "failed"]
           /\ UNCHANGED <<asyncRunning, asyncTimers, reconfiguring>>
  BY <1>1, <1>4 DEF TypeOK, BinStates
<1>. QED
  BY <1>2, <1>3, <1>4, Zenon DEF ResetSource

(* Recording what a pause or resume starts again keeps the type.           *)
LEMMA ReviveType ==
  ASSUME TypeOK, Revive PROVE revived' \in [Sources -> BOOLEAN]
BY Zenon DEF TypeOK, Revive, Abandoned

(* No action leaves the types; one step per action.                        *)
LEMMA TypeStep == TypeOK /\ [Next]_vars => TypeOK'
<1> SUFFICES ASSUME TypeOK, [Next]_vars PROVE TypeOK'
  OBVIOUS
<1>1. ASSUME NEW s \in Sources, Lose(s) PROVE TypeOK'
  BY <1>1 DEF TypeOK, Lose, binVars, timerVars, ageVars, busVars
<1>2. ASSUME NEW s \in Sources, Recover(s) PROVE TypeOK'
  BY <1>2 DEF TypeOK, Recover, binVars, timerVars, ageVars, busVars
<1>3. ASSUME NEW s \in Sources, Buffer(s) PROVE TypeOK'
  BY <1>3, ConstantsAssumption
  DEF TypeOK, Buffer, binVars, timerVars, busVars, Never
<1>4. ASSUME NEW s \in Sources, EndOfStream(s) PROVE TypeOK'
  <2>1. CASE Interval[s] = 0
    <3>1. [eos EXCEPT ![s] = TRUE] \in [Sources -> BOOLEAN]
      BY DEF TypeOK
    <3>2. haveEos' \in [Sources -> BOOLEAN]
      BY <1>4, <2>1 DEF TypeOK, EndOfStream
    <3>3. CheckAndSendEos(tries, [haveEos EXCEPT ![s] = TRUE],
                          [eos EXCEPT ![s] = TRUE])
      BY <1>4, <2>1 DEF EndOfStream
    <3>. QED
      BY <1>4, <3>1, <3>2, <3>3, CheckAndSendEosType
      DEF TypeOK, EndOfStream, binVars, timerVars, ageVars
  <2>2. CASE Interval[s] # 0
    <3>1. <<PipelineEos>> \in Messages
      BY Zenon DEF Messages
    <3>2. bus' = bus \o <<>> \/ bus' = bus \o <<<<PipelineEos>>>>
      BY <1>4, <2>2, Zenon DEF EndOfStream, MuxEos
    <3>3. bus' \in Seq(Messages)
      <4>1. bus \in Seq(Messages)
        BY DEF TypeOK
      <4>2. bus \o <<>> \in Seq(Messages) /\ bus \o <<<<PipelineEos>>>> \in Seq(Messages)
        BY <3>1, <4>1
      <4>. QED
        BY <3>2, <4>2, Zenon
    <3>4. /\ eos' = [eos EXCEPT ![s] = TRUE]
          /\ haveEos' = haveEos
          /\ UNCHANGED <<muxProbe, quit, returnValue>>
      BY <1>4, <2>2 DEF EndOfStream
    <3>. QED
      BY <1>4, <3>3, <3>4
      DEF TypeOK, EndOfStream, binVars, timerVars, ageVars
  <2>. QED
    BY <2>1, <2>2
<1>5. ASSUME NEW s \in Sources, NEW k \in SourceErrors, PostError(s, k)
      PROVE  TypeOK'
  BY <1>5 DEF TypeOK, PostError, Messages, timerVars, ageVars
<1>5a. ASSUME PostFatal PROVE TypeOK'
  BY <1>5a DEF TypeOK, PostFatal, Messages, envVars, binVars, timerVars, ageVars
<1>6. ASSUME NEW s \in Sources, AsyncDone(s) PROVE TypeOK'
  BY <1>6 DEF TypeOK, AsyncDone, Reachable, BinStates, timerVars, ageVars, busVars
<1>7. ASSUME NEW s \in Sources, QueuedReset(s) PROVE TypeOK'
  <2>1. queuedResets' \in [Sources -> 0 .. MaxQueued]
    BY <1>7, ConstantsAssumption DEF TypeOK, QueuedReset
  <2>. QED
    BY <1>7, <2>1, ResetSourceType DEF TypeOK, QueuedReset, envVars, busVars
<1>8. ASSUME NEW s \in Sources, WatchRetry(s) PROVE TypeOK'
  <2>1. /\ tries' \in [Sources -> Nat]
        /\ sinceReset' \in 0 .. MaxAge
    BY <1>8, ConstantsAssumption DEF TypeOK, WatchRetry, CountTry
  <2>. QED
    BY <1>8, <2>1, ResetSourceType DEF TypeOK, WatchRetry, envVars, busVars
<1>9. ASSUME NEW s \in Sources, WatchStop(s) PROVE TypeOK'
  <2>1. /\ tries' \in [Sources -> Nat]
        /\ bin' \in [Sources -> BinStates]
        /\ broken' \in [Sources -> BOOLEAN]
        /\ watchdog' \in [Sources -> BOOLEAN]
    BY <1>9 DEF TypeOK, WatchStop, CountTry, RemoveWatchdog, BinStates
  <2>2. CheckAndSendEos(tries', haveEos, [eos EXCEPT ![s] = TRUE])
    BY <1>9 DEF WatchStop
  <2>3. [eos EXCEPT ![s] = TRUE] \in [Sources -> BOOLEAN]
    BY DEF TypeOK
  <2>4. /\ eos' \in [Sources -> BOOLEAN]
        /\ muxProbe' \in BOOLEAN
        /\ bus' \in Seq(Messages)
        /\ quit' \in BOOLEAN
        /\ returnValue' \in {0, -1}
    BY <2>2, <2>3, CheckAndSendEosType
  <2>. QED
    BY <1>9, <2>1, <2>4 DEF TypeOK, WatchStop, envVars, ageVars
<1>10. ASSUME NEW s \in Sources, WatchAsync(s) PROVE TypeOK'
  <2>1. bin' \in [Sources -> BinStates]
    BY <1>10 DEF TypeOK, WatchAsync, Reachable, BinStates
  <2>2. asyncTimers' \in [Sources -> Nat]
    BY <1>10 DEF TypeOK, WatchAsync
  <2>3. /\ asyncRunning' \in [Sources -> BOOLEAN]
        /\ reconfiguring' \in [Sources -> BOOLEAN]
    BY <1>10, Zenon DEF TypeOK, WatchAsync
  <2>4. tries' \in [Sources -> Nat]
    <3>1. tries' = tries \/ tries' = [tries EXCEPT ![s] = 0]
      BY <1>10, Zenon DEF WatchAsync
    <3>2. tries \in [Sources -> Nat]
      BY DEF TypeOK
    <3>. QED
      BY <3>1, <3>2
  <2>. QED
    BY <1>10, <2>1, <2>2, <2>3, <2>4 DEF TypeOK, WatchAsync, envVars, ageVars, busVars
<1>11. ASSUME Pause PROVE TypeOK'
  BY <1>11, ReviveType
  DEF TypeOK, Pause, BinStates, timerVars, ageVars, busVars
<1>12. ASSUME Resume PROVE TypeOK'
  BY <1>12, ReviveType
  DEF TypeOK, Resume, BinStates, timerVars, ageVars, busVars
<1>13. ASSUME BusCallback PROVE TypeOK'
  <2>1. bus' \in Seq(Messages)
    BY <1>13 DEF TypeOK, BusCallback
  <2>2. CASE \E k \in SourceErrors, s \in Sources : SourceError(k, s)
    <3>0. PICK k \in SourceErrors, s \in Sources : SourceError(k, s)
      BY <2>2
    <3>1. /\ reconfiguring' \in [Sources -> BOOLEAN]
          /\ queuedResets' \in [Sources -> 0 .. MaxQueued]
          /\ quit' \in BOOLEAN
          /\ returnValue' \in {0, -1}
      <4>1. CASE ~reconfiguring[s] \/ k = "error500"
        <5>1. /\ queuedResets[s] < MaxQueued
              /\ queuedResets' = [queuedResets EXCEPT ![s] = @ + 1]
              /\ reconfiguring' = [reconfiguring EXCEPT ![s] = TRUE]
              /\ quit' = quit
              /\ returnValue' = returnValue
          BY <3>0, <4>1, Zenon DEF SourceError
        <5>. QED
          BY <5>1, ConstantsAssumption DEF TypeOK
      <4>2. CASE ~(~reconfiguring[s] \/ k = "error500")
        BY <3>0, <4>2 DEF TypeOK, SourceError
      <4>. QED
        BY <4>1, <4>2
    <3>. QED
      BY <1>13, <2>1, <3>1 DEF TypeOK, BusCallback, envVars, binVars, ageVars
  <2>3. CASE /\ quit' = TRUE
             /\ returnValue' \in {returnValue, -1}
             /\ UNCHANGED <<reconfiguring, queuedResets>>
    BY <1>13, <2>1, <2>3 DEF TypeOK, BusCallback, envVars, binVars, ageVars
  <2>. QED
    BY <1>13, <2>2, <2>3, Zenon DEF BusCallback
<1>14. ASSUME Tick PROVE TypeOK'
  BY <1>14, ConstantsAssumption
  DEF TypeOK, Tick, Older, Never, envVars, binVars, timerVars, busVars
<1>15. CASE UNCHANGED vars
  BY <1>15 DEF TypeOK, vars
<1>. QED
  BY <1>1, <1>2, <1>3, <1>4, <1>5, <1>5a, <1>6, <1>7, <1>8, <1>9, <1>10, <1>11,
     <1>12, <1>13, <1>14, <1>15 DEF Next

(* Every state of the reconnection has the types of TypeOK.                *)
THEOREM TypeCorrect == Spec => []TypeOK
BY TypeInit, TypeStep, PTL DEF Spec

-----------------------------------------------------------------------------
(* What a reset does to the watch of the asynchronous state change.        *)
LEMMA ResetSourceAsync ==
  ASSUME NEW s \in Sources, TypeOK, ResetSource(s)
  PROVE  \/ StartAsyncWatch(s)
         \/ UNCHANGED <<asyncRunning, asyncTimers>>
BY Zenon DEF ResetSource

(* Starting the watch keeps the flag and the timers in step.               *)
LEMMA StartAsyncWatchOne ==
  ASSUME NEW s \in Sources, TypeOK, OneAsyncWatch, StartAsyncWatch(s)
  PROVE  OneAsyncWatch'
BY DEF TypeOK, OneAsyncWatch, StartAsyncWatch

(* However resets overlap, a source has at most one watch of its state     *)
(* change (:1529-1533).                                                    *)
THEOREM AsyncWatchUnique == Spec => []OneAsyncWatch
<1>1. Init => OneAsyncWatch
  BY DEF Init, OneAsyncWatch
<1>2. TypeOK /\ OneAsyncWatch /\ [Next]_vars => OneAsyncWatch'
  <2> SUFFICES ASSUME TypeOK, OneAsyncWatch, [Next]_vars PROVE OneAsyncWatch'
    OBVIOUS
  <2>1. CASE UNCHANGED <<asyncRunning, asyncTimers>>
    BY <2>1 DEF OneAsyncWatch
  <2>2. ASSUME NEW s \in Sources, ResetSource(s) PROVE OneAsyncWatch'
    BY <2>1, <2>2, ResetSourceAsync, StartAsyncWatchOne
  <2>3. ASSUME NEW s \in Sources, WatchAsync(s) PROVE OneAsyncWatch'
    <3>1. CASE /\ asyncRunning' = [asyncRunning EXCEPT ![s] = FALSE]
               /\ asyncTimers' = [asyncTimers EXCEPT ![s] = @ - 1]
               /\ asyncTimers[s] > 0
      BY <3>1 DEF TypeOK, OneAsyncWatch
    <3>. QED
      BY <2>1, <2>3, <3>1, Zenon DEF WatchAsync
  <2>. QED
    <3>1. CASE UNCHANGED vars
      BY <2>1, <3>1 DEF vars
    <3>2. ASSUME NEW s \in Sources,
                 \/ Lose(s) \/ Recover(s) \/ Buffer(s) \/ EndOfStream(s)
                 \/ AsyncDone(s) \/ WatchStop(s)
                 \/ \E k \in SourceErrors : PostError(s, k)
          PROVE  OneAsyncWatch'
      BY <2>1, <3>2 DEF Lose, Recover, Buffer, EndOfStream, AsyncDone,
         WatchStop, PostError, timerVars
    <3>3. ASSUME NEW s \in Sources, QueuedReset(s) \/ WatchRetry(s)
          PROVE  OneAsyncWatch'
      BY <2>2, <3>3 DEF QueuedReset, WatchRetry
    <3>4. CASE Pause \/ Resume \/ PostFatal \/ BusCallback \/ Tick
      BY <2>1, <3>4 DEF Pause, Resume, PostFatal, BusCallback, Tick, timerVars
    <3>. QED
      BY <2>3, <3>1, <3>2, <3>3, <3>4 DEF Next
<1>. QED
  BY <1>1, <1>2, TypeCorrect, PTL DEF Spec

-----------------------------------------------------------------------------
(* The step of the retry budget.                                           *)
LEMMA RetryBudgetStep == TypeOK /\ RetryBudget /\ [Next]_vars => RetryBudget'
<1> SUFFICES ASSUME TypeOK, RetryBudget, [Next]_vars PROVE RetryBudget'
  OBVIOUS
<1>1. CASE UNCHANGED <<tries, watchdog>>
  BY <1>1 DEF RetryBudget
<1>2. ASSUME NEW s \in Sources, WatchRetry(s) PROVE RetryBudget'
  <2>1. UNCHANGED watchdog /\ tries' = CountTry(s) /\ HasTry(s)
    BY <1>2 DEF WatchRetry
  <2>. QED
    BY <2>1, ConstantsAssumption DEF TypeOK, RetryBudget, CountTry, HasTry
<1>3. ASSUME NEW s \in Sources, WatchStop(s) PROVE RetryBudget'
  <2>1. /\ watchdog' = [watchdog EXCEPT ![s] = FALSE]
        /\ tries' = CountTry(s) /\ ~HasTry(s) /\ watchdog[s]
    BY <1>3 DEF WatchStop, WatchDue, RemoveWatchdog
  <2>2. Attempts[s] # -1 /\ tries[s] = Attempts[s]
    <3>1. Attempts[s] # -1 /\ ~(tries[s] + 1 <= Attempts[s])
      BY <2>1, Zenon DEF HasTry
    <3>2. tries[s] \in Nat /\ Attempts[s] \in Nat
      BY <3>1, ConstantsAssumption DEF TypeOK
    <3>3. tries[s] <= Attempts[s]
      BY <2>1, <3>1 DEF RetryBudget
    <3>. QED
      BY <3>1, <3>2, <3>3
  <2>3. tries' = [tries EXCEPT ![s] = @ + 1]
    BY <2>1, <2>2 DEF CountTry
  <2>4. \A r \in Sources : r # s => tries'[r] = tries[r] /\ watchdog'[r] = watchdog[r]
    BY <2>1, <2>3 DEF TypeOK
  <2>5. tries'[s] = Attempts[s] + 1 /\ ~watchdog'[s]
    BY <2>1, <2>2, <2>3 DEF TypeOK
  <2>. QED
    BY <2>2, <2>4, <2>5, ConstantsAssumption DEF RetryBudget
<1>4. ASSUME NEW s \in Sources, WatchAsync(s) PROVE RetryBudget'
  <2>1. /\ UNCHANGED watchdog
        /\ tries' = tries \/ tries' = [tries EXCEPT ![s] = 0]
    BY <1>4, Zenon DEF WatchAsync
  <2>2. CASE tries' = tries
    BY <1>1, <2>1, <2>2
  <2>3. CASE tries' = [tries EXCEPT ![s] = 0]
    <3>1. \A r \in Sources : r # s => tries'[r] = tries[r]
      BY <2>3 DEF TypeOK
    <3>2. tries'[s] = 0
      BY <2>3 DEF TypeOK
    <3>3. Attempts[s] = -1 \/ Attempts[s] \in Nat
      BY ConstantsAssumption
    <3>. QED
      BY <2>1, <3>1, <3>2, <3>3 DEF RetryBudget
  <2>. QED
    BY <2>1, <2>2, <2>3
<1>. QED
  <2>1. CASE UNCHANGED vars
    BY <1>1, <2>1 DEF vars
  <2>2. ASSUME NEW s \in Sources,
               \/ Lose(s) \/ Recover(s) \/ Buffer(s) \/ EndOfStream(s)
               \/ AsyncDone(s) \/ QueuedReset(s)
               \/ \E k \in SourceErrors : PostError(s, k)
        PROVE  RetryBudget'
    BY <1>1, <2>2 DEF Lose, Recover, Buffer, EndOfStream, AsyncDone,
       QueuedReset, PostError, timerVars
  <2>3. CASE Pause \/ Resume \/ PostFatal \/ BusCallback \/ Tick
    BY <1>1, <2>3 DEF Pause, Resume, PostFatal, BusCallback, Tick, timerVars
  <2>. QED
    BY <1>2, <1>3, <1>4, <2>1, <2>2, <2>3 DEF Next

(* A watched source never uses more attempts than configured, and no       *)
(* counter goes more than one beyond them (:635-641, :678-687).            *)
THEOREM RetryBudgetKept == Spec => []RetryBudget
<1>1. Init => RetryBudget
  <2>1. \A s \in Sources : Attempts[s] = -1 \/ Attempts[s] \in Nat
    BY ConstantsAssumption
  <2>2. Init => tries = [s \in Sources |-> 0]
    BY Zenon DEF Init
  <2>3. Init => \A s \in Sources : tries[s] = 0
    BY <2>2
  <2>4. ASSUME Init, NEW s \in Sources
        PROVE  IF Attempts[s] = -1
               THEN tries[s] = 0
               ELSE /\ tries[s] <= Attempts[s] + 1
                    /\ watchdog[s] => tries[s] <= Attempts[s]
    <3> HIDE DEF Init
    <3>. QED
      BY <2>1, <2>3, <2>4
  <2>. QED
    BY <2>4, Zenon DEF RetryBudget
<1>. QED
  BY <1>1, RetryBudgetStep, TypeCorrect, PTL DEF Spec

-----------------------------------------------------------------------------
(* No source with reconnection enabled and a limit is still watched.       *)
Spent == \A s \in Sources : Interval[s] > 0 /\ Attempts[s] >= 0 => ~watchdog[s]

(* The strengthening: the probe on the mux is the only thing between an    *)
(* end of stream and the end of the application, so it may only be gone    *)
(* when the attempts are spent.                                            *)
QuitInv == (GivingUp \/ ~muxProbe) => Spent

(* The two messages that end the application.                              *)
Final(b) == \E i \in 1 .. Len(b) : b[i] \in {<<Exceeded>>, <<PipelineEos>>}

LEMMA GivingUpFinal == GivingUp <=> GaveUp \/ Final(bus)
BY Zenon DEF GivingUp, Final

(* A watchdog that is gone stays gone.                                     *)
LEMMA SpentStable == ASSUME TypeOK, Spent, [Next]_vars PROVE Spent'
<1>1. CASE watchdog' = watchdog
  BY <1>1 DEF Spent
<1>2. ASSUME NEW s \in Sources, watchdog' = [watchdog EXCEPT ![s] = FALSE]
      PROVE  Spent'
  BY <1>2 DEF TypeOK, Spent
<1>3. CASE UNCHANGED vars
  BY <1>1, <1>3 DEF vars
<1>4. ASSUME NEW s \in Sources,
             \/ Lose(s) \/ Recover(s) \/ Buffer(s) \/ EndOfStream(s)
             \/ AsyncDone(s) \/ QueuedReset(s) \/ WatchRetry(s) \/ WatchAsync(s)
             \/ \E k \in SourceErrors : PostError(s, k)
      PROVE  Spent'
  BY <1>1, <1>4 DEF Lose, Recover, Buffer, EndOfStream, AsyncDone, QueuedReset,
     WatchRetry, WatchAsync, PostError, timerVars
<1>5. ASSUME NEW s \in Sources, WatchStop(s) PROVE Spent'
  BY <1>2, <1>5 DEF WatchStop, RemoveWatchdog
<1>6. CASE Pause \/ Resume \/ PostFatal \/ BusCallback \/ Tick
  BY <1>1, <1>6 DEF Pause, Resume, PostFatal, BusCallback, Tick, timerVars
<1>. QED
  BY <1>3, <1>4, <1>5, <1>6 DEF Next

(* check_rtsp_reconnection_attempts stops the pipeline only when no source *)
(* with a limit is watched any more: a watched one blocks the stop.        *)
LEMMA StopMeansSpent ==
  ASSUME NEW t, NEW e, NEW w, t \in [Sources -> Nat],
         \A s \in Sources : Attempts[s] >= 0 /\ w[s] => t[s] <= Attempts[s],
         \A s \in Sources : ~BlocksStop(s, t, e)
  PROVE  \A s \in Sources : Interval[s] > 0 /\ Attempts[s] >= 0 => ~w[s]
BY ConstantsAssumption DEF BlocksStop

(* RetryBudget as the previous lemma needs it.                             *)
LEMMA BudgetBounds ==
  ASSUME RetryBudget
  PROVE  \A s \in Sources : Attempts[s] >= 0 /\ watchdog[s] => tries[s] <= Attempts[s]
BY ConstantsAssumption DEF RetryBudget

(* The messages of CheckAndSendEos: it puts a final one on the bus, or     *)
(* takes the probe off the mux, only when it stops the pipeline or the     *)
(* probe was gone.                                                         *)
LEMMA CheckAndSendEosFinal ==
  ASSUME NEW t, NEW e, NEW p, TypeOK, CheckAndSendEos(t, e, p)
  PROVE  /\ GivingUp' => \/ GivingUp \/ ~muxProbe
                         \/ \A s \in Sources : ~BlocksStop(s, t, e)
         /\ ~muxProbe' => \/ ~muxProbe
                          \/ \A s \in Sources : ~BlocksStop(s, t, e)
<1> DEFINE stop   == \A s \in Sources : ~BlocksStop(s, t, e)
           probe  == muxProbe /\ ~stop
           errors == IF stop THEN <<<<Exceeded>>>> ELSE <<>>
           ends   == MuxEos(probe, p)
<1>1. /\ muxProbe' = probe
      /\ bus' = bus \o errors \o ends
      /\ quit' = quit
      /\ returnValue' = returnValue
  BY Zenon DEF CheckAndSendEos
<1>2. ~muxProbe' => ~muxProbe \/ stop
  BY <1>1, Zenon
<1>3. ASSUME ~stop, muxProbe PROVE bus' = bus
  <2>1. errors = <<>> /\ ends = <<>>
    BY <1>3, Zenon DEF MuxEos
  <2> HIDE DEF errors, ends
  <2>2. bus \in Seq(Messages)
    BY DEF TypeOK
  <2>. QED
    BY <1>1, <2>1, <2>2
<1>4. ASSUME ~stop, muxProbe PROVE GivingUp' => GivingUp
  BY <1>1, <1>3, <1>4, Zenon DEF GivingUp, GaveUp
<1>. QED
  BY <1>2, <1>4, Zenon

(* Appending a message that is not final, or taking the first message off, *)
(* ends nothing.                                                           *)
LEMMA AppendNotFinal ==
  ASSUME NEW m, m \notin {<<Exceeded>>, <<PipelineEos>>}, TypeOK, Final(Append(bus, m))
  PROVE  Final(bus)
<1>1. bus \in Seq(Messages)
  BY DEF TypeOK
<1>2. PICK i \in 1 .. Len(Append(bus, m)) :
        Append(bus, m)[i] \in {<<Exceeded>>, <<PipelineEos>>}
  BY Zenon DEF Final
<1>3. Len(Append(bus, m)) = Len(bus) + 1 /\ Append(bus, m)[Len(bus) + 1] = m
  BY <1>1
<1>4. i # Len(bus) + 1
  BY <1>2, <1>3, Zenon
<1>5. i \in 1 .. Len(bus)
  BY <1>1, <1>2, <1>3, <1>4
<1>6. Append(bus, m)[i] = bus[i]
  BY <1>1, <1>5
<1>. QED
  BY <1>2, <1>5, <1>6, Zenon DEF Final

LEMMA TailFinal ==
  ASSUME TypeOK, bus # <<>>, Final(Tail(bus))
  PROVE  Final(bus)
<1>1. bus \in Seq(Messages)
  BY DEF TypeOK
<1>2. PICK i \in 1 .. Len(Tail(bus)) :
        Tail(bus)[i] \in {<<Exceeded>>, <<PipelineEos>>}
  BY Zenon DEF Final
<1>3. i + 1 \in 1 .. Len(bus) /\ Tail(bus)[i] = bus[i + 1]
  BY <1>1, <1>2
<1>. QED
  BY <1>2, <1>3, Zenon DEF Final

LEMMA HeadFinal ==
  ASSUME TypeOK, bus # <<>>, Head(bus) \in {<<Exceeded>>, <<PipelineEos>>}
  PROVE  Final(bus)
<1>1. bus \in Seq(Messages)
  BY DEF TypeOK
<1>2. 1 \in 1 .. Len(bus) /\ Head(bus) = bus[1]
  BY <1>1
<1>. QED
  BY <1>2, Zenon DEF Final

(* The error of a source is not one of the two final messages.             *)
LEMMA ErrorNotFinal ==
  ASSUME NEW k, NEW s
  PROVE  <<k, s>> \notin {<<Exceeded>>, <<PipelineEos>>}
<1>1. Len(<<k, s>>) = 2 /\ Len(<<Exceeded>>) = 1 /\ Len(<<PipelineEos>>) = 1
  OBVIOUS
<1>. QED
  BY <1>1

LEMMA FatalNotFinal == <<Fatal>> \notin {<<Exceeded>>, <<PipelineEos>>}
BY DEF Fatal, Exceeded, PipelineEos

(* The step of the strengthening.                                          *)
LEMMA QuitStep ==
  TypeOK /\ RetryBudget /\ QuitInv /\ [Next]_vars => QuitInv'
<1> SUFFICES ASSUME TypeOK, RetryBudget, QuitInv, [Next]_vars,
                    GivingUp' \/ ~muxProbe'
             PROVE  Spent'
  BY DEF QuitInv
<1>0. ASSUME GivingUp \/ ~muxProbe PROVE Spent'
  BY <1>0, SpentStable DEF QuitInv
<1>1. CASE UNCHANGED busVars
  <2>1. GivingUp' = GivingUp /\ muxProbe' = muxProbe
    BY <1>1, Zenon DEF GivingUp, GaveUp, busVars
  <2>. QED
    BY <1>0, <2>1
<1>2. ASSUME NEW s \in Sources, EndOfStream(s) PROVE Spent'
  <2>1. CASE Interval[s] = 0
    <3> DEFINE seen == [haveEos EXCEPT ![s] = TRUE]
               ended == [eos EXCEPT ![s] = TRUE]
    <3>1. CheckAndSendEos(tries, seen, ended)
      BY <1>2, <2>1, Zenon DEF EndOfStream
    <3>2. watchdog' = watchdog
      BY <1>2 DEF EndOfStream, timerVars
    <3> HIDE DEF seen, ended
    <3>3. CASE \A r \in Sources : ~BlocksStop(r, tries, seen)
      <4>1. tries \in [Sources -> Nat]
        BY DEF TypeOK
      <4>. QED
        BY <3>2, <3>3, <4>1, BudgetBounds, StopMeansSpent DEF Spent
    <3>4. CASE ~(\A r \in Sources : ~BlocksStop(r, tries, seen))
      BY <1>0, <3>1, <3>4, CheckAndSendEosFinal
    <3>. QED
      BY <3>3, <3>4
  <2>2. CASE Interval[s] # 0
    <3>1. muxProbe' = muxProbe /\ GaveUp' = GaveUp
      BY <1>2, <2>2, Zenon DEF EndOfStream, GaveUp
    <3>2. muxProbe => bus' = bus
      <4>1. muxProbe => bus' = bus \o <<>>
        BY <1>2, <2>2, Zenon DEF EndOfStream, MuxEos
      <4>2. bus \in Seq(Messages)
        BY DEF TypeOK
      <4>. QED
        BY <4>1, <4>2
    <3>3. bus' = bus => GivingUp' = GivingUp
      BY <3>1, Zenon DEF GivingUp
    <3>. QED
      BY <1>0, <3>1, <3>2, <3>3
  <2>. QED
    BY <2>1, <2>2
<1>3. ASSUME NEW s \in Sources, NEW k \in SourceErrors, PostError(s, k)
      PROVE  Spent'
  <2>1. bus' = Append(bus, <<k, s>>) /\ muxProbe' = muxProbe /\ GaveUp' = GaveUp
    BY <1>3, Zenon DEF PostError, GaveUp
  <2>2. GivingUp' <=> GaveUp' \/ Final(bus')
    BY Zenon DEF GivingUp, Final
  <2>3. GivingUp' => GivingUp
    BY <2>1, <2>2, ErrorNotFinal, AppendNotFinal, GivingUpFinal, Zenon
  <2>. QED
    BY <1>0, <2>1, <2>3
<1>3a. ASSUME PostFatal PROVE Spent'
  <2>1. bus' = Append(bus, <<Fatal>>) /\ muxProbe' = muxProbe /\ GaveUp' = GaveUp
    BY <1>3a, Zenon DEF PostFatal, GaveUp
  <2>2. GivingUp' <=> GaveUp' \/ Final(bus')
    BY Zenon DEF GivingUp, Final
  <2>3. GivingUp' => GivingUp
    BY <2>1, <2>2, FatalNotFinal, AppendNotFinal, GivingUpFinal, Zenon
  <2>. QED
    BY <1>0, <2>1, <2>3
<1>4. ASSUME NEW s \in Sources, WatchStop(s) PROVE Spent'
  <2>1. CheckAndSendEos(tries', haveEos, [eos EXCEPT ![s] = TRUE])
    BY <1>4, Zenon DEF WatchStop
  <2>2. CASE \A r \in Sources : ~BlocksStop(r, tries', haveEos)
    <3>1. tries' \in [Sources -> Nat]
      BY TypeStep DEF TypeOK
    <3>2. RetryBudget'
      BY RetryBudgetStep
    <3>3. \A r \in Sources : Attempts[r] >= 0 /\ watchdog'[r] => tries'[r] <= Attempts[r]
      BY <3>2, ConstantsAssumption DEF RetryBudget
    <3>. QED
      BY <2>2, <3>1, <3>3, StopMeansSpent DEF Spent
  <2>3. CASE ~(\A r \in Sources : ~BlocksStop(r, tries', haveEos))
    BY <1>0, <2>1, <2>3, CheckAndSendEosFinal
  <2>. QED
    BY <2>2, <2>3
<1>5. ASSUME BusCallback PROVE Spent'
  <2>1. muxProbe' = muxProbe /\ bus # <<>> /\ bus' = Tail(bus)
    BY <1>5 DEF BusCallback
  <2>2. GaveUp' => GaveUp \/ Head(bus) \in {<<Exceeded>>, <<PipelineEos>>}
    <3>1. \/ quit' = quit /\ returnValue' = returnValue
          \/ Head(bus) \in {<<Exceeded>>, <<PipelineEos>>}
          \/ returnValue' = -1
      BY <1>5, Zenon DEF BusCallback, SourceError
    <3>2. GaveUp' <=> (quit' /\ returnValue' = 0)
      BY Zenon DEF GaveUp
    <3>3. GaveUp <=> (quit /\ returnValue = 0)
      BY Zenon DEF GaveUp
    <3>4. returnValue' = -1 => returnValue' # 0
      OBVIOUS
    <3>. QED
      BY <3>1, <3>2, <3>3, <3>4, Zenon
  <2>3. GivingUp' <=> GaveUp' \/ Final(bus')
    BY Zenon DEF GivingUp, Final
  <2>4. GivingUp' => GivingUp
    BY <2>1, <2>2, <2>3, TailFinal, HeadFinal, GivingUpFinal, Zenon
  <2>. QED
    BY <1>0, <2>1, <2>4
<1>. QED
  <2>1. CASE UNCHANGED vars
    BY <1>1, <2>1 DEF vars, busVars
  <2>2. ASSUME NEW s \in Sources,
               \/ Lose(s) \/ Recover(s) \/ Buffer(s) \/ AsyncDone(s)
               \/ QueuedReset(s) \/ WatchRetry(s) \/ WatchAsync(s)
        PROVE  Spent'
    BY <1>1, <2>2 DEF Lose, Recover, Buffer, AsyncDone, QueuedReset, WatchRetry,
       WatchAsync
  <2>3. CASE Pause \/ Resume \/ Tick
    BY <1>1, <2>3 DEF Pause, Resume, Tick
  <2>. QED
    BY <1>2, <1>3, <1>3a, <1>4, <1>5, <2>1, <2>2, <2>3 DEF Next

(* The three inductive facts, put together.                                *)
LEMMA QuitInvariant == Spec => [](TypeOK /\ RetryBudget /\ QuitInv)
<1>1. Init => QuitInv
  <2>1. Init => /\ bus = <<>> /\ ~GaveUp
                /\ muxProbe <=> \E s \in Sources : Interval[s] > 0
    BY Zenon DEF Init, ProbeInstalled, GaveUp
  <2>2. bus = <<>> => ~Final(bus)
    BY DEF Final
  <2>3. (~\E s \in Sources : Interval[s] > 0) => Spent
    BY DEF Spent
  <2>. QED
    BY <2>1, <2>2, <2>3, GivingUpFinal, Zenon DEF QuitInv
<1>. QED
  BY <1>1, QuitStep, TypeCorrect, RetryBudgetKept, PTL DEF Spec

(* The application gives up, by the final error or by end of stream, only  *)
(* when every source with reconnection enabled and a limit has used up its *)
(* attempts and lost its watchdog (:586-617, :782-789 and bus_callback).   *)
THEOREM QuitOnlyAfterRetries == Spec => []QuitOnlyWhenRetriesSpent
<1>1. QuitInv => QuitOnlyWhenRetriesSpent
  BY Zenon DEF QuitInv, Spent, QuitOnlyWhenRetriesSpent
<1>. QED
  BY <1>1, QuitInvariant, PTL

-----------------------------------------------------------------------------
(* Every step of the reconnection is a step of the retry policy, or leaves *)
(* its variables alone.                                                    *)
LEMMA PolicyStep ==
  TypeOK /\ RetryBudget /\ QuitInv /\ [Next]_vars => [Policy!Next]_(Policy!policyVars)
<1> SUFFICES ASSUME TypeOK, RetryBudget, QuitInv, [Next]_vars
             PROVE  [Policy!Next]_(Policy!policyVars)
  OBVIOUS
<1> USE DEF Policy!policyVars
<1>1. CASE UNCHANGED <<tries, watchdog, GaveUp>>
  BY <1>1
<1>2. ASSUME NEW s \in Sources, WatchRetry(s), ~quit
      PROVE  [Policy!Next]_(Policy!policyVars)
  <2>1. /\ watchdog[s] /\ HasTry(s) /\ tries' = CountTry(s)
        /\ UNCHANGED <<watchdog, GaveUp>>
    BY <1>2 DEF WatchRetry, WatchDue, busVars, GaveUp
  <2>2. CASE Attempts[s] = -1
    BY <1>1, <2>1, <2>2 DEF CountTry
  <2>3. CASE Attempts[s] # -1
    <3>1. tries[s] \in Nat /\ Attempts[s] \in Nat
      BY <2>3, ConstantsAssumption DEF TypeOK
    <3>2. tries[s] + 1 <= Attempts[s]
      BY <2>1, <2>3, Zenon DEF HasTry
    <3>3. tries' = [tries EXCEPT ![s] = @ + 1]
      BY <2>1, <2>3 DEF CountTry
    <3>4. Policy!Retry(s)
      BY <2>1, <3>1, <3>2, <3>3 DEF Policy!Retry
    <3>. QED
      BY <1>2, <3>4 DEF Policy!Next, GaveUp
  <2>. QED
    BY <2>2, <2>3
<1>3. ASSUME NEW s \in Sources, WatchStop(s), ~quit
      PROVE  [Policy!Next]_(Policy!policyVars)
  <2>1. /\ watchdog[s] /\ ~HasTry(s) /\ tries' = CountTry(s)
        /\ watchdog' = [watchdog EXCEPT ![s] = FALSE]
    BY <1>3 DEF WatchStop, WatchDue, RemoveWatchdog
  <2>2. GaveUp' = GaveUp
    BY <1>3, Zenon DEF WatchStop, CheckAndSendEos, GaveUp
  <2>3. Attempts[s] # -1 /\ ~(tries[s] + 1 <= Attempts[s])
    BY <2>1, Zenon DEF HasTry
  <2>4. tries[s] \in Nat /\ Attempts[s] \in Nat
    BY <2>3, ConstantsAssumption DEF TypeOK
  <2>5. tries[s] <= Attempts[s]
    BY <2>1, <2>3 DEF RetryBudget
  <2>6. tries[s] = Attempts[s]
    BY <2>3, <2>4, <2>5
  <2>7. tries' = [tries EXCEPT ![s] = @ + 1]
    BY <2>1, <2>3 DEF CountTry
  <2>8. Policy!GiveUp(s)
    BY <2>1, <2>2, <2>6, <2>7 DEF Policy!GiveUp
  <2>. QED
    BY <1>3, <2>8 DEF Policy!Next, GaveUp
<1>4. ASSUME NEW s \in Sources, WatchAsync(s), ~quit
      PROVE  [Policy!Next]_(Policy!policyVars)
  <2>1. /\ tries' = tries \/ tries' = [tries EXCEPT ![s] = 0]
        /\ UNCHANGED <<watchdog, GaveUp>>
    BY <1>4, Zenon DEF WatchAsync, busVars, GaveUp
  <2>2. CASE tries' = tries
    BY <1>1, <2>1, <2>2
  <2>3. CASE tries' = [tries EXCEPT ![s] = 0]
    <3>1. Policy!Connected(s)
      BY <2>1, <2>3 DEF Policy!Connected
    <3>. QED
      BY <1>4, <3>1 DEF Policy!Next, GaveUp
  <2>. QED
    BY <2>1, <2>2, <2>3
<1>5. ASSUME BusCallback, ~quit PROVE [Policy!Next]_(Policy!policyVars)
  <2>1. UNCHANGED <<tries, watchdog>> /\ bus # <<>>
    BY <1>5 DEF BusCallback
  <2>2. CASE GaveUp' = GaveUp
    BY <1>1, <2>1, <2>2
  <2>3. GaveUp = FALSE
    BY <1>5 DEF GaveUp
  <2>4. CASE /\ Head(bus) \in {<<Exceeded>>, <<PipelineEos>>}
             /\ quit' = TRUE /\ returnValue' = returnValue
    <3>1. Spent
      BY <2>1, <2>4, HeadFinal, GivingUpFinal DEF QuitInv
    <3>2. CASE returnValue = 0
      <4>1. GaveUp' = TRUE
        BY <2>4, <3>2 DEF GaveUp
      <4>2. Policy!End
        BY <2>1, <4>1, <3>1 DEF Policy!End, Spent
      <4>. QED
        BY <2>3, <4>2 DEF Policy!Next
    <3>3. CASE returnValue # 0
      <4>1. GaveUp' = FALSE
        BY <2>4, <3>3 DEF GaveUp
      <4>. QED
        BY <2>2, <2>3, <4>1
    <3>. QED
      BY <3>2, <3>3
  <2>5. CASE returnValue' = -1
    <3>1. GaveUp' = FALSE
      BY <2>5 DEF GaveUp
    <3>. QED
      BY <2>2, <2>3, <3>1
  <2>6. CASE quit' = quit /\ returnValue' = returnValue
    <3>1. GaveUp' = GaveUp
      BY <2>6, Zenon DEF GaveUp
    <3>. QED
      BY <2>2, <3>1
  <2>7. \/ /\ Head(bus) \in {<<Exceeded>>, <<PipelineEos>>}
           /\ quit' = TRUE /\ returnValue' = returnValue
        \/ returnValue' = -1
        \/ quit' = quit /\ returnValue' = returnValue
    BY <1>5, Zenon DEF BusCallback, SourceError
  <2>. QED
    BY <2>4, <2>5, <2>6, <2>7, Zenon
<1>. QED
  <2>1. CASE UNCHANGED vars
    BY <1>1, <2>1 DEF vars, GaveUp
  <2>2. ASSUME NEW s \in Sources,
               \/ Lose(s) \/ Recover(s) \/ Buffer(s) \/ EndOfStream(s)
               \/ AsyncDone(s) \/ QueuedReset(s)
               \/ \E k \in SourceErrors : PostError(s, k)
        PROVE  [Policy!Next]_(Policy!policyVars)
    <3>1. UNCHANGED <<tries, watchdog>>
      BY <2>2 DEF Lose, Recover, Buffer, EndOfStream, AsyncDone, QueuedReset,
         PostError, timerVars
    <3>2. quit' = quit /\ returnValue' = returnValue
      <4>1. CASE EndOfStream(s)
        <5>1. CASE Interval[s] = 0
          BY <4>1, <5>1, Zenon DEF EndOfStream, CheckAndSendEos
        <5>2. CASE Interval[s] # 0
          BY <4>1, <5>2, Zenon DEF EndOfStream
        <5>. QED
          BY <5>1, <5>2
      <4>. QED
        BY <2>2, <4>1, Zenon DEF Lose, Recover, Buffer, AsyncDone, QueuedReset,
           PostError, busVars
    <3>3. GaveUp' = GaveUp
      BY <3>2, Zenon DEF GaveUp
    <3>. QED
      BY <1>1, <3>1, <3>3
  <2>3. CASE Pause \/ Resume \/ PostFatal \/ Tick
    BY <1>1, <2>3 DEF Pause, Resume, PostFatal, Tick, timerVars, busVars, GaveUp
  <2>. QED
    BY <1>2, <1>3, <1>4, <1>5, <2>1, <2>2, <2>3 DEF Next

(* The reconnection, with its timers, asynchronous state changes, resets   *)
(* and messages, implements the retry policy: no interleaving of them      *)
(* retries a source beyond its limit, gives it up early, or ends the       *)
(* application while a source with a limit is watched.                     *)
THEOREM PolicyImplemented == Spec => ImplementsRetryPolicy
<1>1. Init => Policy!Init
  <2>1. Init => /\ tries = [s \in Sources |-> 0]
                /\ watchdog = [s \in Sources |-> TRUE]
                /\ quit = FALSE
    BY Zenon DEF Init
  <2>. QED
    BY <2>1 DEF Policy!Init, GaveUp
<1>. QED
  BY <1>1, PolicyStep, QuitInvariant, PTL DEF Spec, Policy!Spec, ImplementsRetryPolicy

-----------------------------------------------------------------------------
(* A watched source that is being reconfigured has something under way     *)
(* that will look at it again: the watch of its state change, a queued     *)
(* reset, or a failure that the watchdog itself retries, unless a pause or *)
(* resume has started the failed bin again.                                *)
ResetPending ==
  \A s \in Sources :
    watchdog[s] /\ reconfiguring[s] =>
      \/ asyncRunning[s] \/ queuedResets[s] > 0
      \/ bin[s] = "failed" \/ revived[s]

(* A reset of s leaves nothing of s to the others.                         *)
LEMMA ResetSourcePending ==
  ASSUME NEW s \in Sources, TypeOK, ResetPending, ResetSource(s),
         watchdog' = watchdog,
         \A r \in Sources : r # s => queuedResets'[r] = queuedResets[r]
  PROVE  ResetPending'
<1>1. \A r \in Sources : r # s => /\ bin'[r] = bin[r]
                               /\ asyncRunning'[r] = asyncRunning[r]
                               /\ reconfiguring'[r] = reconfiguring[r]
                               /\ revived'[r] = revived[r]
  BY DEF TypeOK, ResetSource, StartAsyncWatch
<1>2. asyncRunning'[s] \/ ~reconfiguring'[s] \/ bin'[s] = "failed"
  BY DEF TypeOK, ResetSource, StartAsyncWatch
<1>. QED
  BY <1>1, <1>2 DEF ResetPending

LEMMA PendingStep == TypeOK /\ ResetPending /\ [Next]_vars => ResetPending'
<1> SUFFICES ASSUME TypeOK, ResetPending, [Next]_vars PROVE ResetPending'
  OBVIOUS
<1>1. CASE UNCHANGED <<watchdog, reconfiguring, asyncRunning, queuedResets, bin,
                 revived>>
  BY <1>1 DEF ResetPending
<1>2. ASSUME NEW s \in Sources, AsyncDone(s) PROVE ResetPending'
  BY <1>2 DEF TypeOK, ResetPending, AsyncDone, timerVars
<1>3. ASSUME NEW s \in Sources, QueuedReset(s) PROVE ResetPending'
  <2>1. \A r \in Sources : r # s => queuedResets'[r] = queuedResets[r]
    BY <1>3 DEF TypeOK, QueuedReset
  <2>. QED
    BY <1>3, <2>1, ResetSourcePending DEF QueuedReset
<1>4. ASSUME NEW s \in Sources, WatchRetry(s) PROVE ResetPending'
  BY <1>4, ResetSourcePending DEF WatchRetry
<1>5. ASSUME NEW s \in Sources, WatchStop(s) PROVE ResetPending'
  <2>1. /\ UNCHANGED <<reconfiguring, asyncRunning, queuedResets>>
        /\ watchdog' = [watchdog EXCEPT ![s] = FALSE]
        /\ UNCHANGED revived
    BY <1>5 DEF WatchStop, RemoveWatchdog
  <2>2. \A r \in Sources : r # s => bin'[r] = bin[r]
    BY <1>5 DEF TypeOK, WatchStop
  <2>. QED
    BY <2>1, <2>2 DEF TypeOK, ResetPending
<1>6. ASSUME NEW s \in Sources, WatchAsync(s) PROVE ResetPending'
  <2>1. UNCHANGED <<watchdog, queuedResets, revived>>
    BY <1>6 DEF WatchAsync
  <2>2. CASE /\ bin[s] = "failed"
             /\ asyncRunning' = [asyncRunning EXCEPT ![s] = FALSE]
             /\ UNCHANGED <<bin, reconfiguring>>
    BY <2>1, <2>2 DEF TypeOK, ResetPending
  <2>3. CASE /\ asyncRunning' = [asyncRunning EXCEPT ![s] = FALSE]
             /\ reconfiguring' = [reconfiguring EXCEPT ![s] = FALSE]
             /\ UNCHANGED bin
    BY <2>1, <2>3 DEF TypeOK, ResetPending
  <2>4. CASE /\ bin[s] \in {"paused", "null"}
             /\ \E b \in {"async"} \cup (Reachable(s) \ {"paused"}) :
                  bin' = [bin EXCEPT ![s] = b]
             /\ UNCHANGED <<asyncRunning, reconfiguring>>
    BY <2>1, <2>4 DEF TypeOK, ResetPending
  <2>. QED
    BY <1>6, <2>2, <2>3, <2>4, Zenon DEF WatchAsync
<1>7. CASE Pause \/ Resume
  <2>1. Revive /\ UNCHANGED <<watchdog, reconfiguring, asyncRunning, queuedResets>>
    BY <1>7 DEF Pause, Resume, timerVars
  <2>2. ASSUME NEW s \in Sources, bin[s] = "failed", reconfiguring[s]
        PROVE  asyncRunning[s] \/ revived'[s]
    BY <2>1, <2>2, Zenon DEF Revive, Abandoned
  <2>3. ASSUME NEW s \in Sources, revived[s] PROVE revived'[s]
    BY <2>1, <2>3, Zenon DEF Revive
  <2>. QED
    BY <2>1, <2>2, <2>3, Zenon DEF ResetPending
<1>9. CASE BusCallback
  <2>1. UNCHANGED <<watchdog, asyncRunning, bin, revived>>
    BY <1>9 DEF BusCallback, binVars
  <2>2. CASE UNCHANGED <<reconfiguring, queuedResets>>
    BY <1>1, <2>1, <2>2
  <2>3. ASSUME NEW s \in Sources,
               reconfiguring' = [reconfiguring EXCEPT ![s] = TRUE],
               queuedResets' = [queuedResets EXCEPT ![s] = @ + 1]
        PROVE  ResetPending'
    BY <2>1, <2>3, ConstantsAssumption DEF TypeOK, ResetPending
  <2>. QED
    BY <1>9, <2>2, <2>3, Zenon DEF BusCallback, SourceError
<1>. QED
  <2>1. CASE UNCHANGED vars
    BY <1>1, <2>1 DEF vars
  <2>2. ASSUME NEW s \in Sources,
               \/ Lose(s) \/ Recover(s) \/ Buffer(s) \/ EndOfStream(s)
               \/ \E k \in SourceErrors : PostError(s, k)
        PROVE  ResetPending'
    BY <1>1, <2>2 DEF Lose, Recover, Buffer, EndOfStream, PostError, timerVars,
       binVars
  <2>3. CASE PostFatal \/ Tick
    BY <1>1, <2>3 DEF PostFatal, Tick, timerVars, binVars
  <2>. QED
    BY <1>2, <1>3, <1>4, <1>5, <1>6, <1>7, <1>9, <2>1, <2>2, <2>3 DEF Next

(* With reconnect intervals of zero (disabled) or of two seconds and more, *)
(* the watchdog leaves a source that delivers buffers alone (:632-635 and  *)
(* :669-677); an interval of one second is the exception.                  *)
THEOREM LiveStreamNotReset ==
  ASSUME \A s \in Sources : Interval[s] # 1
  PROVE  Spec => NoResetOfLiveStream
<1>1. Init => ResetPending
  <2>1. Init => reconfiguring = [s \in Sources |-> FALSE]
    BY Zenon DEF Init
  <2>. QED
    BY <2>1 DEF ResetPending
<1>2. ASSUME TypeOK, ResetPending, NEW s \in Sources, WatchRetry(s), Delivering(s),
             ~revived[s]
      PROVE  FALSE
  <2>1. /\ bin[s] = "playing" /\ idle[s] \in 0 .. 1
        /\ ~asyncRunning[s] /\ queuedResets[s] = 0 /\ watchdog[s]
    BY <1>2 DEF Delivering, Flowing, WatchRetry, WatchDue
  <2>2. ~reconfiguring[s]
    BY <1>2, <2>1 DEF ResetPending
  <2>3. Interval[s] > 0 /\ idle[s] >= Interval[s]
    BY <1>2, <2>2 DEF WatchRetry, WatchDue
  <2>. QED
    BY <2>1, <2>3, ConstantsAssumption
<1>3. TypeOK /\ ResetPending /\ [Next]_vars
        => [\A s \in Sources :
              WatchRetry(s) => ~Delivering(s) \/ revived[s]]_vars
  BY <1>2
<1>. QED
  BY <1>1, <1>3, PendingStep, TypeCorrect, PTL DEF Spec, NoResetOfLiveStream

=============================================================================
