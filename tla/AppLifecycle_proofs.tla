------------------------- MODULE AppLifecycle_proofs -------------------------
(* Proofs about AppLifecycle, for every number of instances, every choice   *)
(* of the ones with a window and of the ones that are recreated.           *)
EXTENDS AppLifecycle, TLAPS

USE DEF instVars, loopVars, timerVars, histVars

(* The parts of the type invariant.                                        *)
ControlType ==
  /\ pc \in Starting \cup {"loop", "recreate", "stop", "close"} \cup Stopped
  /\ at \in 0 .. N /\ (pc \in Starting \cup {"recreate"} => at < N)
  /\ allocated \subseteq Instances
  /\ handler \in {"none", "ours", "default"}
  /\ xThread \in {"none", "idle", "quitting"}
  /\ stoppedBy \in {"none", "startup", "user", "interrupt", "all"}
PipeType ==
  /\ pipe \in [Instances -> {"none", "created", "paused", "playing", "failed"}]
  /\ bus \in [Instances -> Seq(Kinds)] /\ \A i \in Instances : Len(bus[i]) <= MaxBus
FlagType ==
  /\ watch \in [Instances -> BOOLEAN] /\ instQuit \in [Instances -> BOOLEAN]
  /\ done \in [Instances -> BOOLEAN] /\ recreateTimer \in [Instances -> BOOLEAN]
  /\ instReturn \in [Instances -> {0, -1}] /\ returnValue \in {0, -1}
  /\ quit \in BOOLEAN /\ cintr \in BOOLEAN /\ isRunning \in BOOLEAN
  /\ interruptTimer \in BOOLEAN /\ eventTimer \in BOOLEAN

LEMMA TypeParts ==
  /\ TypeOK <=> ControlType /\ PipeType /\ FlagType
  /\ TypeOK' <=> ControlType' /\ PipeType' /\ FlagType'
BY Zenon DEF TypeOK, ControlType, PipeType, FlagType

LEMMA ConstantTypes ==
  /\ N \in Nat /\ N > 0 /\ MaxBus \in Nat
  /\ Overlay \subseteq Instances /\ Recreated \subseteq Instances
  /\ Kinds \subseteq {"eos", "fatal", "exceeded"}
<1>1. /\ N \in Nat \ {0} /\ MaxBus \in Nat
      /\ Overlay \subseteq Instances /\ Recreated \subseteq Instances
      /\ Kinds \subseteq {"eos", "fatal", "exceeded"}
  BY Zenon, LifecycleAssumption
<1>. QED
  BY <1>1

LEMMA Update ==
  \A S, T, f, x, v : f \in [S -> T] /\ v \in T => [f EXCEPT ![x] = v] \in [S -> T]
OBVIOUS

LEMMA AllType == \A S, v : v \in S => All(v) \in [Instances -> S]
BY DEF All

-----------------------------------------------------------------------------
LEMMA TypeInit == Init => TypeOK
<1> SUFFICES ASSUME Init PROVE TypeOK
  OBVIOUS
<1>1. FALSE \in BOOLEAN /\ 0 \in {0, -1} /\ "none" \in {"none", "created", "paused", "playing", "failed"}
  OBVIOUS
<1>2. ControlType
  <2>1. /\ pc = "parse" /\ at = 0 /\ allocated = {} /\ handler = "none"
        /\ xThread = "none" /\ stoppedBy = "none"
    BY Zenon DEF Init
  <2>. QED
    BY <2>1, ConstantTypes DEF ControlType, Starting
<1>3. PipeType
  <2>1. pipe = All("none") /\ bus = All(<<>>)
    BY Zenon DEF Init
  <2>2. \A i \in Instances : bus[i] = <<>>
    BY <2>1 DEF All
  <2>3. <<>> \in Seq(Kinds) /\ Len(<<>>) <= MaxBus
    BY ConstantTypes
  <2>. QED
    BY Zenon, <1>1, <2>1, <2>2, <2>3, AllType DEF PipeType
<1>4. FlagType
  BY Zenon, <1>1, AllType DEF Init, FlagType
<1>. QED
  BY Zenon, <1>2, <1>3, <1>4, TypeParts

(* The stage after this instance.                                          *)
LEMMA ProceedControl ==
  ASSUME ControlType, NEW next \in Starting, Proceed(next)
  PROVE  /\ at' \in 0 .. N /\ (pc \in Starting => at' < N)
         /\ pc' \in {pc, next}
BY ConstantTypes DEF Proceed, ControlType

LEMMA DestroyType ==
  ASSUME PipeType, FlagType, NEW i \in Instances, DestroyPipeline(i)
  PROVE  /\ PipeType' /\ watch' \in [Instances -> BOOLEAN]
         /\ instQuit' \in [Instances -> BOOLEAN] /\ instReturn' \in [Instances -> {0, -1}]
<1>1. PipeType'
  <2>1. bus' = [bus EXCEPT ![i] = <<>>] /\ pipe' = [pipe EXCEPT ![i] = "none"]
    BY Zenon DEF DestroyPipeline
  <2>2. \A j \in Instances : Len(bus'[j]) <= MaxBus
    BY <2>1, ConstantTypes DEF PipeType
  <2>. QED
    BY <2>1, <2>2 DEF PipeType
<1>2. watch' \in [Instances -> BOOLEAN]
  BY Zenon, Update DEF DestroyPipeline, FlagType
<1>3. \/ UNCHANGED instVars
      \/ /\ instQuit' = [instQuit EXCEPT ![i] = TRUE]
         /\ \E v \in {0, -1} : instReturn' = [instReturn EXCEPT ![i] = v]
  BY Zenon DEF DestroyPipeline, DrainBus, HandleErrors
<1>4. instQuit' \in [Instances -> BOOLEAN] /\ instReturn' \in [Instances -> {0, -1}]
  BY Zenon, <1>3, Update DEF FlagType
<1>. QED
  BY <1>1, <1>2, <1>4

(* What a step that fails leaves of a pipeline.                             *)
LEMMA HalfType ==
  ASSUME NEW i, PipeType, watch \in [Instances -> BOOLEAN], bus' = bus,
         \/ HalfCreated(i)
         \/ HalfSet(i) /\ (watch' = watch \/ watch' = [watch EXCEPT ![i] = TRUE])
  PROVE  PipeType' /\ watch' \in [Instances -> BOOLEAN]
<1>1. \/ pipe' = [pipe EXCEPT ![i] = "created"]
      \/ pipe' = [pipe EXCEPT ![i] = "none"]
      \/ pipe' = [pipe EXCEPT ![i] = "failed"]
  BY DEF HalfCreated, HalfSet
<1>2. \/ watch' = watch
      \/ \E b \in BOOLEAN : watch' = [watch EXCEPT ![i] = b]
  BY DEF HalfCreated
<1>3. pipe' \in [Instances -> {"none", "created", "paused", "playing", "failed"}]
  BY <1>1 DEF PipeType
<1>4. watch' \in [Instances -> BOOLEAN]
  BY <1>2
<1>. QED
  BY Zenon, <1>3, <1>4 DEF PipeType

LEMMA TypeNext == TypeOK /\ [Next]_vars => TypeOK'
<1> SUFFICES ASSUME ControlType, PipeType, FlagType, [Next]_vars
             PROVE  ControlType' /\ PipeType' /\ FlagType'
  BY Zenon, TypeParts
<1>0. /\ 0 \in 0 .. N /\ -1 \in {0, -1} /\ TRUE \in BOOLEAN /\ FALSE \in BOOLEAN
      /\ (at \in Recreated) \in BOOLEAN
  BY ConstantTypes
<1>1. CASE Parse
  <2>1. ControlType'
    <3>1. allocated' \subseteq Instances
      BY <1>1, ConstantTypes DEF Parse, ControlType, Starting, Instances
    <3>2. /\ at' \in 0 .. N /\ (pc' \in Starting \cup {"recreate"} => at' < N)
          /\ pc' \in Starting \cup {"stop"}
          /\ stoppedBy' \in {stoppedBy, "startup"}
      BY <1>1, ConstantTypes, ProceedControl DEF Parse, GiveUp, ControlType, Starting
    <3>. QED
      BY <1>1, <3>1, <3>2 DEF Parse, ControlType
  <2>2. PipeType'
    BY Zenon, <1>1 DEF Parse, PipeType
  <2>3. FlagType'
    BY Zenon, <1>0, <1>1, Update DEF Parse, FlagType
  <2>. QED
    BY Zenon, <2>1, <2>2, <2>3
<1>2. CASE UdsConnect
  <2>1. ControlType'
    BY <1>2, ConstantTypes DEF UdsConnect, ControlType, Starting, Stopped
  <2>2. PipeType'
    BY Zenon, <1>2 DEF UdsConnect, PipeType
  <2>3. FlagType'
    BY Zenon, <1>0, <1>2, Update DEF UdsConnect, FlagType
  <2>. QED
    BY Zenon, <2>1, <2>2, <2>3
<1>3. CASE CreatePipeline
  <2>1. ControlType'
    BY <1>3, ConstantTypes, ProceedControl
    DEF CreatePipeline, Fails, GiveUp, ControlType, Starting, Stopped
  <2>2. PipeType'
    BY Zenon, <1>3, HalfType DEF CreatePipeline, PipeType, FlagType
  <2>3. FlagType'
    BY Zenon, <1>0, <1>3, Update, HalfType DEF CreatePipeline, Fails, GiveUp, FlagType
  <2>. QED
    BY Zenon, <2>1, <2>2, <2>3
<1>4. CASE SetPaused
  <2>1. ControlType'
    BY <1>4, ConstantTypes, ProceedControl
    DEF SetPaused, Fails, GiveUp, ControlType, Starting, Stopped
  <2>2. PipeType'
    BY Zenon, <1>4, HalfType DEF SetPaused, PipeType, FlagType
  <2>3. FlagType'
    BY Zenon, <1>0, <1>4, Update DEF SetPaused, Fails, GiveUp, FlagType
  <2>. QED
    BY Zenon, <2>1, <2>2, <2>3
<1>5. CASE SetPlaying
  <2>1. ControlType'
    BY <1>5, ConstantTypes, ProceedControl
    DEF SetPlaying, Fails, GiveUp, ControlType, Starting, Stopped
  <2>2. PipeType'
    BY Zenon, <1>5, HalfType DEF SetPlaying, PipeType, FlagType
  <2>3. FlagType'
    BY Zenon, <1>0, <1>5, Update DEF SetPlaying, Fails, GiveUp, FlagType
  <2>. QED
    BY Zenon, <2>1, <2>2, <2>3
<1>6. CASE RunLoop
  <2>1. ControlType'
    BY <1>6, ConstantTypes DEF RunLoop, ControlType, Starting, Stopped
  <2>2. PipeType'
    BY Zenon, <1>6 DEF RunLoop, PipeType
  <2>3. FlagType'
    BY Zenon, <1>0, <1>6, Update DEF RunLoop, FlagType
  <2>. QED
    BY Zenon, <2>1, <2>2, <2>3
<1>7. CASE RecreateCreate
  <2>1. ControlType'
    BY <1>7, ConstantTypes DEF RecreateCreate, ControlType, Starting, Stopped
  <2>2. PipeType'
    BY Zenon, <1>7, HalfType DEF RecreateCreate, PipeType, FlagType
  <2>3. FlagType'
    BY Zenon, <1>0, <1>7, Update, HalfType DEF RecreateCreate, FlagType
  <2>. QED
    BY Zenon, <2>1, <2>2, <2>3
<1>8. CASE LeaveLoop
  <2>1. ControlType'
    BY <1>8, ConstantTypes DEF LeaveLoop, ControlType, Starting, Stopped
  <2>2. PipeType'
    BY Zenon, <1>8 DEF LeaveLoop, PipeType
  <2>3. FlagType'
    BY Zenon, <1>0, <1>8, Update DEF LeaveLoop, FlagType
  <2>. QED
    BY Zenon, <2>1, <2>2, <2>3
<1>9. CASE StopInstance
  <2>0. at \in Instances
    BY <1>9, ConstantTypes DEF StopInstance, ControlType, Instances
  <2>1. ControlType'
    BY <1>9, ConstantTypes DEF StopInstance, ControlType, Starting, Stopped
  <2>2. PipeType'
    BY Zenon, <1>9, <2>0, DestroyType DEF StopInstance, PipeType
  <2>3. FlagType'
    BY Zenon, <1>0, <1>9, <2>0, DestroyType DEF StopInstance, FlagType
  <2>. QED
    BY Zenon, <2>1, <2>2, <2>3
<1>10. CASE CloseDisplay
  <2>1. ControlType'
    BY <1>10, ConstantTypes DEF CloseDisplay, ControlType, Starting, Stopped
  <2>2. PipeType'
    BY Zenon, <1>10 DEF CloseDisplay, PipeType
  <2>3. FlagType'
    BY Zenon, <1>0, <1>10, Update DEF CloseDisplay, FlagType
  <2>. QED
    BY Zenon, <2>1, <2>2, <2>3
<1>11. CASE Interrupt
  <2>1. ControlType'
    BY <1>11, ConstantTypes DEF Interrupt, ControlType, Starting, Stopped
  <2>2. PipeType'
    BY Zenon, <1>11 DEF Interrupt, PipeType
  <2>3. FlagType'
    BY Zenon, <1>0, <1>11, Update DEF Interrupt, FlagType
  <2>. QED
    BY Zenon, <2>1, <2>2, <2>3
<1>12. CASE XQuit
  <2>1. ControlType'
    BY <1>12, ConstantTypes DEF XQuit, ControlType, Starting, Stopped
  <2>2. PipeType'
    BY Zenon, <1>12 DEF XQuit, PipeType
  <2>3. FlagType'
    BY Zenon, <1>0, <1>12, Update DEF XQuit, FlagType
  <2>. QED
    BY Zenon, <2>1, <2>2, <2>3
<1>13. CASE XQuitLoop
  <2>1. ControlType'
    BY <1>13, ConstantTypes DEF XQuitLoop, ControlType, Starting, Stopped
  <2>2. PipeType'
    BY Zenon, <1>13 DEF XQuitLoop, PipeType
  <2>3. FlagType'
    BY Zenon, <1>0, <1>13, Update DEF XQuitLoop, FlagType
  <2>. QED
    BY Zenon, <2>1, <2>2, <2>3
<1>14. CASE CheckForInterrupt
  <2>1. ControlType'
    BY Zenon, <1>14 DEF CheckForInterrupt, ControlType
  <2>2. PipeType'
    BY Zenon, <1>14 DEF CheckForInterrupt, PipeType
  <2>3. FlagType'
    BY Zenon, <1>0, <1>14, Update DEF CheckForInterrupt, FlagType
  <2>. QED
    BY Zenon, <2>1, <2>2, <2>3
<1>15. CASE EventAllQuit
  <2>1. ControlType'
    BY <1>15, ConstantTypes DEF EventAllQuit, ControlType, Starting, Stopped
  <2>2. PipeType'
    BY Zenon, <1>15 DEF EventAllQuit, PipeType
  <2>3. FlagType'
    BY Zenon, <1>0, <1>15, Update DEF EventAllQuit, FlagType
  <2>. QED
    BY Zenon, <2>1, <2>2, <2>3
<1>16. CASE EventKeyQuit
  <2>1. ControlType'
    BY <1>16, ConstantTypes DEF EventKeyQuit, ControlType, Starting, Stopped
  <2>2. PipeType'
    BY Zenon, <1>16 DEF EventKeyQuit, PipeType
  <2>3. FlagType'
    BY Zenon, <1>0, <1>16, Update DEF EventKeyQuit, FlagType
  <2>. QED
    BY Zenon, <2>1, <2>2, <2>3
<1>17. ASSUME NEW i \in Instances, BusCallback(i)
      PROVE  ControlType' /\ PipeType' /\ FlagType'
  <2>1. ControlType'
    BY Zenon, <1>17 DEF BusCallback, ControlType
  <2>2. PipeType'
    <3>1. bus[i] # <<>> /\ bus' = [bus EXCEPT ![i] = Tail(@)] /\ pipe' = pipe
      BY Zenon, <1>17 DEF BusCallback
    <3>2. bus[i] \in Seq(Kinds) /\ Len(bus[i]) <= MaxBus
      BY DEF PipeType
    <3>3. Tail(bus[i]) \in Seq(Kinds) /\ Len(Tail(bus[i])) <= MaxBus
      BY <3>1, <3>2, ConstantTypes
    <3>. QED
      BY <3>1, <3>3 DEF PipeType
  <2>3. FlagType'
    BY Zenon, <1>0, <1>17, Update DEF BusCallback, FlagType
  <2>. QED
    BY Zenon, <2>1, <2>2, <2>3
<1>18. ASSUME NEW i \in Instances, RecreateDestroy(i)
      PROVE  ControlType' /\ PipeType' /\ FlagType'
  <2>1. ControlType'
    BY <1>18, ConstantTypes DEF RecreateDestroy, ControlType, Starting, Stopped, Instances
  <2>2. PipeType'
    BY Zenon, <1>18, DestroyType DEF RecreateDestroy
  <2>3. FlagType'
    BY Zenon, <1>18, DestroyType DEF RecreateDestroy, FlagType
  <2>. QED
    BY Zenon, <2>1, <2>2, <2>3
<1>19. ASSUME NEW i \in Instances, NEW k \in Kinds, Post(i, k)
      PROVE  ControlType' /\ PipeType' /\ FlagType'
  <2>1. ControlType'
    BY Zenon, <1>19 DEF Post, ControlType
  <2>2. PipeType'
    <3>1. bus' = [bus EXCEPT ![i] = Append(@, k)] /\ pipe' = pipe /\ Len(bus[i]) < MaxBus
      BY Zenon, <1>19 DEF Post
    <3>2. Append(bus[i], k) \in Seq(Kinds) /\ Len(Append(bus[i], k)) <= MaxBus
      BY <1>19, <3>1, ConstantTypes DEF PipeType
    <3>. QED
      BY <3>1, <3>2 DEF PipeType
  <2>3. FlagType'
    BY Zenon, <1>0, <1>19, Update DEF Post, FlagType
  <2>. QED
    BY Zenon, <2>1, <2>2, <2>3
<1>20. CASE UNCHANGED vars
  <2>1. ControlType'
    BY Zenon, <1>20 DEF vars, ControlType
  <2>2. PipeType'
    BY Zenon, <1>20 DEF vars, PipeType
  <2>3. FlagType'
    BY Zenon, <1>20 DEF vars, FlagType
  <2>. QED
    BY Zenon, <2>1, <2>2, <2>3
<1>. QED
  BY Zenon, <1>1, <1>2, <1>3, <1>4, <1>5, <1>6, <1>7, <1>8, <1>9, <1>10, <1>11, <1>12, <1>13,
      <1>14, <1>15, <1>16, <1>17, <1>18, <1>19, <1>20 DEF Next, Main

(* Every variable keeps its type, whatever main, its callbacks, the signal  *)
(* handler, the X thread and the pipelines do, and main never works on an   *)
(* instance beyond the last one (deepstream_proximity_main.c:661-874).     *)
THEOREM TypeCorrect == Spec => []TypeOK
<1>. QED
  BY TypeInit, TypeNext, PTL DEF Spec

-----------------------------------------------------------------------------
(* What counts as finished.                                                *)

(* A message waits on the bus only of a pipeline that ended or failed.     *)
BusMeansDone == \A i \in Instances : bus[i] # <<>> => done[i]

(* Between the halves of a recreation the pipeline is gone, and so are its  *)
(* messages.                                                               *)
BetweenPipelines ==
  pc = "recreate" => at \in Recreated /\ bus[at] = <<>> /\ pipe[at] = "none"

TimerOfRecreated == \A i \in Instances : recreateTimer[i] => i \in Recreated

(* An instance that is never recreated and has been marked as finished      *)
(* stays finished, and so do all of them once the loop ended for it.       *)
FinishedForGood ==
  \A i \in Instances \ Recreated : instQuit[i] \/ stoppedBy = "all" => done[i]

FinishedInv == BusMeansDone /\ BetweenPipelines /\ TimerOfRecreated /\ FinishedForGood

(* The steps that touch neither a bus, nor what is known of an instance.   *)
Quiet ==
  /\ UNCHANGED <<bus, done, instQuit, recreateTimer>>
  /\ stoppedBy' = "all" => stoppedBy = "all"
  /\ pc' = "recreate" => pc = "recreate" /\ at' = at /\ pipe' = pipe

LEMMA QuietSteps ==
  \/ Parse \/ UdsConnect \/ CreatePipeline \/ SetPaused \/ RunLoop
  \/ LeaveLoop \/ CloseDisplay \/ Interrupt \/ XQuit \/ XQuitLoop
  \/ CheckForInterrupt \/ EventKeyQuit \/ UNCHANGED vars
  => Quiet
<1>1. Parse => Quiet
  BY Zenon DEF Parse, Quiet, Proceed, GiveUp
<1>2. UdsConnect => Quiet
  BY Zenon DEF UdsConnect, Quiet
<1>3. CreatePipeline => Quiet
  BY Zenon DEF CreatePipeline, Quiet, Proceed, Fails, GiveUp
<1>4. SetPaused => Quiet
  BY Zenon DEF SetPaused, Quiet, Proceed, Fails, GiveUp
<1>5. RunLoop => Quiet
  BY Zenon DEF RunLoop, Quiet
<1>6. LeaveLoop => Quiet
  BY Zenon DEF LeaveLoop, Quiet
<1>7. CloseDisplay => Quiet
  BY Zenon DEF CloseDisplay, Quiet
<1>8. Interrupt \/ XQuit \/ XQuitLoop => Quiet
  BY Zenon DEF Interrupt, XQuit, XQuitLoop, Quiet
<1>9. CheckForInterrupt \/ EventKeyQuit => Quiet
  BY Zenon DEF CheckForInterrupt, EventKeyQuit, Quiet
<1>10. UNCHANGED vars => Quiet
  BY Zenon DEF vars, Quiet
<1>. QED
  BY Zenon, <1>1, <1>2, <1>3, <1>4, <1>5, <1>6, <1>7, <1>8, <1>9, <1>10

(* destroy_pipeline takes its own EOS for no end of the pipeline.          *)
LEMMA OwnEosIsNoError ==
  ASSUME NEW own \in {<<>>, <<"eos">>}
  PROVE  BeforeEos(<<>> \o own) = {}
<1>1. CASE own = <<>>
  BY <1>1 DEF BeforeEos
<1>2. CASE own = <<"eos">>
  <2>1. <<>> \o own = <<"eos">>
    BY <1>2
  <2>2. ASSUME NEW n \in DOMAIN <<"eos">> PROVE ~\A m \in 1 .. n : <<"eos">>[m] # "eos"
    <3>1. n = 1 /\ 1 \in 1 .. n /\ <<"eos">>[1] = "eos"
      OBVIOUS
    <3>. QED
      BY <3>1
  <2>. QED
    BY Zenon, <2>1, <2>2 DEF BeforeEos
<1>. QED
  BY <1>1, <1>2

LEMMA DestroyQuits ==
  ASSUME FlagType, BusMeansDone, NEW i \in Instances, DestroyPipeline(i), NEW j \in Instances
  PROVE  instQuit'[j] => instQuit[j] \/ done[j]
<1>1. CASE bus[i] = <<>>
  <2>1. ASSUME NEW own \in {<<>>, <<"eos">>}, DrainBus(i, bus[i] \o own)
        PROVE  UNCHANGED instVars
    <3>1. BeforeEos(bus[i] \o own) = {}
      BY Zenon, <1>1, OwnEosIsNoError
    <3>2. {n \in BeforeEos(bus[i] \o own) : IsError((bus[i] \o own)[n])} = {}
      BY Zenon, <3>1
    <3>. QED
      BY Zenon, <2>1, <3>2 DEF DrainBus, HandleErrors
  <2>2. UNCHANGED instVars
    BY Zenon, <2>1 DEF DestroyPipeline
  <2>. QED
    BY Zenon, <2>2
<1>2. CASE bus[i] # <<>>
  <2>1. instQuit' = instQuit \/ instQuit' = [instQuit EXCEPT ![i] = TRUE]
    BY Zenon DEF DestroyPipeline, DrainBus, HandleErrors
  <2>2. done[i]
    BY Zenon, <1>2 DEF BusMeansDone
  <2>. QED
    BY Zenon, <2>1, <2>2 DEF FlagType
<1>. QED
  BY Zenon, <1>1, <1>2

LEMMA FinishedInit == Init => FinishedInv
<1> SUFFICES ASSUME Init PROVE FinishedInv
  OBVIOUS
<1>1. bus = All(<<>>) /\ recreateTimer = All(FALSE) /\ instQuit = All(FALSE)
  BY Zenon DEF Init
<1>2. pc = "parse" /\ stoppedBy = "none"
  BY Zenon DEF Init
<1>3. \A i \in Instances : bus[i] = <<>> /\ ~recreateTimer[i] /\ ~instQuit[i]
  BY Zenon, <1>1 DEF All
<1>. QED
  BY Zenon, <1>2, <1>3
  DEF FinishedInv, BusMeansDone, BetweenPipelines, TimerOfRecreated, FinishedForGood

(* What any step leaves of the invariant, given what it does to the marks.  *)
LEMMA FinishedKept ==
  ASSUME FinishedInv, BusMeansDone', BetweenPipelines', TimerOfRecreated',
         \A i \in Instances : instQuit'[i] => instQuit[i] \/ done[i],
         \A i \in Instances \ Recreated : done[i] => done'[i],
         stoppedBy' = "all" => stoppedBy = "all" \/ \A i \in Instances : instQuit[i]
  PROVE  FinishedInv'
BY Zenon DEF FinishedInv, FinishedForGood

LEMMA FinishedNext ==
  TypeOK /\ FinishedInv /\ [Next]_vars
    => FinishedInv' /\ \A i \in Instances : instQuit'[i] => instQuit[i] \/ done[i]
<1> SUFFICES ASSUME ControlType, PipeType, FlagType, FinishedInv, [Next]_vars
             PROVE  FinishedInv' /\ \A i \in Instances : instQuit'[i] => instQuit[i] \/ done[i]
  BY Zenon, TypeParts
<1>0. BusMeansDone /\ BetweenPipelines /\ TimerOfRecreated /\ FinishedForGood
  BY Zenon DEF FinishedInv
<1> DEFINE Kept == /\ BusMeansDone' /\ BetweenPipelines' /\ TimerOfRecreated'
                   /\ \A i \in Instances : instQuit'[i] => instQuit[i] \/ done[i]
                   /\ \A i \in Instances \ Recreated : done[i] => done'[i]
                   /\ stoppedBy' = "all" => stoppedBy = "all" \/ \A i \in Instances : instQuit[i]
<1> SUFFICES Kept
  BY Zenon, FinishedKept
<1>1. CASE Quiet
  BY Zenon, <1>0, <1>1 DEF Quiet, BusMeansDone, BetweenPipelines, TimerOfRecreated
<1>2. CASE SetPlaying
  <2>1. UNCHANGED <<bus, done, instQuit>> /\ pc = "play"
    BY Zenon, <1>2 DEF SetPlaying
  <2>2. recreateTimer' = recreateTimer
        \/ recreateTimer' = [recreateTimer EXCEPT ![at] = at \in Recreated]
    BY Zenon, <1>2 DEF SetPlaying
  <2>3. TimerOfRecreated'
    BY Zenon, <1>0, <2>2 DEF TimerOfRecreated, FlagType
  <2>4. pc' \in {"play", "run", "stop"} /\ (stoppedBy' = "all" => stoppedBy = "all")
    BY Zenon, <1>2 DEF SetPlaying, Proceed, Fails, GiveUp
  <2>5. BusMeansDone' /\ BetweenPipelines'
    BY Zenon, <1>0, <2>1, <2>4 DEF BusMeansDone, BetweenPipelines
  <2>. QED
    BY Zenon, <2>1, <2>3, <2>4, <2>5
<1>3. CASE RecreateCreate
  <2>1. /\ pc = "recreate" /\ pc' = "loop"
        /\ UNCHANGED <<bus, instQuit, stoppedBy>>
        /\ \E b \in BOOLEAN : done' = [done EXCEPT ![at] = b]
        /\ recreateTimer' = recreateTimer
           \/ recreateTimer' = [recreateTimer EXCEPT ![at] = FALSE]
    <3>1. TRUE \in BOOLEAN /\ FALSE \in BOOLEAN
      OBVIOUS
    <3>. QED
      BY Zenon, <1>3, <3>1 DEF RecreateCreate
  <2>2. at \in Recreated /\ bus[at] = <<>>
    BY Zenon, <1>0, <2>1 DEF BetweenPipelines
  <2>3. \A i \in Instances : i # at => done'[i] = done[i]
    BY Zenon, <2>1 DEF FlagType
  <2>4. BusMeansDone'
    BY Zenon, <1>0, <2>1, <2>2, <2>3 DEF BusMeansDone
  <2>5. TimerOfRecreated'
    BY Zenon, <1>0, <2>1 DEF TimerOfRecreated, FlagType
  <2>. QED
    BY Zenon, <2>1, <2>2, <2>3, <2>4, <2>5 DEF BetweenPipelines
<1>4. CASE EventAllQuit
  BY Zenon, <1>0, <1>4
  DEF EventAllQuit, AllQuit, BusMeansDone, BetweenPipelines, TimerOfRecreated
<1>5. CASE StopInstance
  <2>1. at \in Instances
    BY <1>5, ConstantTypes DEF StopInstance, ControlType, Instances
  <2>2. /\ pc' \in {"crashed", "stop"} /\ UNCHANGED <<done, recreateTimer, stoppedBy>>
        /\ UNCHANGED <<bus, instQuit>> \/ DestroyPipeline(at)
    BY Zenon, <1>5 DEF StopInstance
  <2>3. \A i \in Instances : instQuit'[i] => instQuit[i] \/ done[i]
    BY Zenon, <1>0, <2>1, <2>2, DestroyQuits
  <2>4. bus' = bus \/ bus' = [bus EXCEPT ![at] = <<>>]
    BY Zenon, <2>2 DEF DestroyPipeline
  <2>5. BusMeansDone'
    BY Zenon, <1>0, <2>2, <2>4 DEF BusMeansDone, PipeType
  <2>. QED
    BY Zenon, <1>0, <2>2, <2>3, <2>5 DEF BetweenPipelines, TimerOfRecreated
<1>6. ASSUME NEW i \in Instances, BusCallback(i) PROVE Kept
  <2>1. /\ pc = "loop" /\ bus[i] # <<>> /\ UNCHANGED <<pc, done, recreateTimer, stoppedBy>>
        /\ bus' = [bus EXCEPT ![i] = Tail(@)] /\ instQuit' = [instQuit EXCEPT ![i] = TRUE]
    BY Zenon, <1>6 DEF BusCallback
  <2>2. done[i]
    BY Zenon, <1>0, <2>1 DEF BusMeansDone
  <2>3. \A j \in Instances : j # i => bus'[j] = bus[j] /\ instQuit'[j] = instQuit[j]
    BY Zenon, <2>1 DEF PipeType, FlagType
  <2>. QED
    BY Zenon, <1>0, <2>1, <2>2, <2>3 DEF BusMeansDone, BetweenPipelines, TimerOfRecreated
<1>7. ASSUME NEW i \in Instances, RecreateDestroy(i) PROVE Kept
  <2>1. /\ recreateTimer[i] /\ at' = i /\ UNCHANGED <<done, recreateTimer, stoppedBy>>
        /\ DestroyPipeline(i)
    BY Zenon, <1>7 DEF RecreateDestroy
  <2>2. bus' = [bus EXCEPT ![i] = <<>>] /\ pipe' = [pipe EXCEPT ![i] = "none"]
    BY Zenon, <2>1 DEF DestroyPipeline
  <2>3. bus'[i] = <<>> /\ pipe'[i] = "none" /\ \A j \in Instances : j # i => bus'[j] = bus[j]
    BY <2>2 DEF PipeType
  <2>4. \A j \in Instances : instQuit'[j] => instQuit[j] \/ done[j]
    BY Zenon, <1>0, <2>1, DestroyQuits
  <2>. QED
    BY Zenon, <1>0, <2>1, <2>3, <2>4 DEF BusMeansDone, BetweenPipelines, TimerOfRecreated
<1>8. ASSUME NEW i \in Instances, NEW k \in Kinds, Post(i, k) PROVE Kept
  <2>1. /\ pipe[i] \in {"paused", "playing", "failed"}
        /\ UNCHANGED <<pc, at, pipe, instQuit, recreateTimer, stoppedBy>>
        /\ bus' = [bus EXCEPT ![i] = Append(@, k)] /\ done' = [done EXCEPT ![i] = TRUE]
    BY Zenon, <1>8 DEF Post
  <2>2. done'[i] /\ \A j \in Instances : j # i => bus'[j] = bus[j] /\ done'[j] = done[j]
    BY Zenon, <2>1 DEF PipeType, FlagType
  <2>3. pipe[i] # "none"
    BY <2>1
  <2>4. pc = "recreate" => at \in Instances /\ bus'[at] = <<>>
    BY Zenon, <1>0, <2>2, <2>3, ConstantTypes DEF BetweenPipelines
  <2>. QED
    BY Zenon, <1>0, <2>1, <2>2, <2>4 DEF BusMeansDone, BetweenPipelines, TimerOfRecreated
<1>. QED
  BY Zenon, QuietSteps, <1>1, <1>2, <1>3, <1>4, <1>5, <1>6, <1>7, <1>8 DEF Next, Main

(* An instance is marked as finished only if its pipeline ended or failed:  *)
(* neither bus_callback nor the draining of the bus in destroy_pipeline     *)
(* takes the EOS sent to flush a pipeline for the end of its stream         *)
(* (deepstream_proximity.c:1653-1674).                                     *)
THEOREM QuitIsCaused == Spec => QuitHasCause
<1> DEFINE Inv == TypeOK /\ FinishedInv
<1>1. Init => Inv
  BY TypeInit, FinishedInit
<1>2. Inv /\ [Next]_vars => Inv'
  BY Zenon, TypeNext, FinishedNext
<1>3. Inv /\ [Next]_vars => [\A i \in Instances : instQuit'[i] => instQuit[i] \/ done[i]]_vars
  BY Zenon, FinishedNext
<1> HIDE DEF Inv
<1>. QED
  BY <1>1, <1>2, <1>3, PTL DEF Spec, QuitHasCause

(* When main leaves the loop because every instance is finished, each       *)
(* pipeline that is never recreated has ended or failed                    *)
(* (deepstream_proximity.c:260-265, deepstream_proximity_main.c:303-313).   *)
THEOREM OthersAreAwaited == Spec => []LoopWaitsForOthers
<1> DEFINE Inv == TypeOK /\ FinishedInv
<1>1. Init => Inv
  BY TypeInit, FinishedInit
<1>2. Inv /\ [Next]_vars => Inv'
  BY Zenon, TypeNext, FinishedNext
<1>3. Inv => LoopWaitsForOthers
  BY Zenon DEF FinishedInv, FinishedForGood, LoopWaitsForOthers, WaitsFor
<1> HIDE DEF Inv
<1>. QED
  BY <1>1, <1>2, <1>3, PTL DEF Spec

-----------------------------------------------------------------------------
(* How a start-up that failed ends.                                        *)

(* Main allocates the instances in order, and no pipeline exists before all *)
(* of them are allocated.                                                  *)
StartInOrder ==
  /\ pc = "parse" => \A i \in Instances : i < at => i \in allocated
  /\ pc \in {"parse", "uds"} => \A i \in Instances : pipe[i] = "none"
  /\ pc \in Starting \ {"parse"} => \A i \in Instances : i \in allocated

(* The instance k could not be parsed: the instances from k on may be       *)
(* missing, but its own return value is met before.                        *)
ParseFailedAt(k) ==
  /\ instReturn[k] = -1 /\ pipe[k] = "none"
  /\ pc \in {"stop"} \cup Stopped
  /\ at <= k => pc = "stop" /\ \A i \in Instances : at <= i /\ i <= k => i \in allocated
  /\ k < at => returnValue = -1

Reported ==
  \/ pc = "exited" /\ returnValue = -1
  \/ pc = "stop" /\ returnValue = -1 /\ \A i \in Instances : at <= i => i \in allocated
  \/ \E k \in Instances : ParseFailedAt(k)

StartInv == StartInOrder /\ (stoppedBy = "startup" => Reported)

LEMMA StartInit == Init => StartInv
<1> SUFFICES ASSUME Init PROVE StartInv
  OBVIOUS
<1>1. pc = "parse" /\ at = 0 /\ pipe = All("none") /\ stoppedBy = "none"
  BY Zenon DEF Init
<1>2. StartInOrder
  BY <1>1, ConstantTypes DEF StartInOrder, Starting, All, Instances
<1>. QED
  BY <1>1, <1>2 DEF StartInv

(* The steps that leave alone what is known of the start-up, and those of   *)
(* a main that has started.                                                *)
Frozen == UNCHANGED <<pc, at, allocated, pipe, instReturn, returnValue, stoppedBy>>
Running ==
  /\ pc \in {"loop", "recreate"} /\ pc' \in {"loop", "recreate", "stop"}
  /\ stoppedBy' = "startup" => stoppedBy = "startup"

LEMMA StepsAfterStart ==
  /\ Interrupt \/ XQuit \/ XQuitLoop \/ CheckForInterrupt \/ UNCHANGED vars => Frozen
  /\ \A i \in Instances, k \in Kinds : Post(i, k) => Frozen
  /\ RecreateCreate \/ LeaveLoop \/ EventAllQuit \/ EventKeyQuit => Running
  /\ \A i \in Instances : BusCallback(i) \/ RecreateDestroy(i) => Running
<1>1. Interrupt \/ XQuit \/ XQuitLoop \/ CheckForInterrupt => Frozen
  BY Zenon DEF Interrupt, XQuit, XQuitLoop, CheckForInterrupt, Frozen
<1>2. UNCHANGED vars => Frozen
  BY Zenon DEF vars, Frozen
<1>3. \A i \in Instances, k \in Kinds : Post(i, k) => Frozen
  BY Zenon DEF Post, Frozen
<1>4. RecreateCreate \/ LeaveLoop => Running
  BY Zenon DEF RecreateCreate, LeaveLoop, Running
<1>5. EventAllQuit \/ EventKeyQuit => Running
  BY Zenon DEF EventAllQuit, EventKeyQuit, Running
<1>6. \A i \in Instances : BusCallback(i) \/ RecreateDestroy(i) => Running
  BY Zenon DEF BusCallback, RecreateDestroy, Running
<1>. QED
  BY Zenon, <1>1, <1>2, <1>3, <1>4, <1>5, <1>6

(* A start-up step that fails after every instance was allocated.          *)
LEMMA FailsReported ==
  ASSUME ControlType, StartInOrder, pc \in Starting \ {"parse"}, Fails, allocated' = allocated
  PROVE  StartInv'
<1>1. pc' = "stop" /\ at' = 0 /\ returnValue' = -1
  BY Zenon DEF Fails, GiveUp
<1>2. \A i \in Instances : i \in allocated
  BY Zenon DEF StartInOrder
<1>3. Reported'
  BY Zenon, <1>1, <1>2 DEF Reported
<1>4. StartInOrder'
  BY <1>1 DEF StartInOrder, Starting
<1>. QED
  BY Zenon, <1>3, <1>4 DEF StartInv

(* A start-up step that succeeds.                                          *)
LEMMA ProceedInOrder ==
  ASSUME ControlType, StartInv, pc \in {"create", "pause", "play"},
         NEW next \in {"pause", "play", "run"}, Proceed(next),
         UNCHANGED <<allocated, stoppedBy>>
  PROVE  StartInv'
<1>1. pc' \in {"create", "pause", "play", "run"}
  BY DEF Proceed
<1>2. stoppedBy # "startup"
  BY DEF StartInv, Reported, ParseFailedAt, Stopped
<1>3. StartInOrder'
  BY <1>1 DEF StartInv, StartInOrder, Starting
<1>. QED
  BY <1>2, <1>3 DEF StartInv

LEMMA StartNext == TypeOK /\ StartInv /\ [Next]_vars => StartInv'
<1> SUFFICES ASSUME ControlType, PipeType, FlagType, StartInv, [Next]_vars PROVE StartInv'
  BY Zenon, TypeParts
<1>0. StartInOrder /\ (stoppedBy = "startup" => pc \in {"stop"} \cup Stopped)
  BY DEF StartInv, Reported, ParseFailedAt, Stopped
<1>1. CASE Frozen
  BY Zenon, <1>1 DEF Frozen, StartInv, StartInOrder, Reported, ParseFailedAt
<1>2. CASE Running
  BY <1>0, <1>2 DEF Running, StartInv, StartInOrder, Stopped, Starting
<1>3. CASE Parse
  <2>0. /\ pc = "parse" /\ allocated' = allocated \cup {at} /\ pipe' = pipe
        /\ \/ Proceed("uds") /\ UNCHANGED stoppedBy
           \/ instReturn' = [instReturn EXCEPT ![at] = -1] /\ GiveUp
    BY Zenon, <1>3 DEF Parse
  <2>1. at \in Instances /\ \A i \in Instances : i <= at => i \in allocated'
    BY <1>0, <2>0, ConstantTypes DEF ControlType, Starting, StartInOrder, Instances
  <2>2. \A i \in Instances : pipe'[i] = "none"
    BY Zenon, <1>0, <2>0 DEF StartInOrder
  <2>3. CASE Proceed("uds") /\ UNCHANGED stoppedBy
    <3>1. StartInOrder'
      BY <2>1, <2>2, <2>3, <2>0, ConstantTypes DEF StartInOrder, Proceed, Starting, Instances
    <3>2. stoppedBy' # "startup"
      BY <1>0, <2>0, <2>3 DEF Stopped
    <3>. QED
      BY Zenon, <3>1, <3>2 DEF StartInv
  <2>4. CASE instReturn' = [instReturn EXCEPT ![at] = -1] /\ GiveUp
    <3>1. pc' = "stop" /\ at' = 0
      BY Zenon, <2>4 DEF GiveUp
    <3>2. instReturn \in [Instances -> {0, -1}]
      BY Zenon DEF FlagType
    <3>3. instReturn'[at] = -1
      BY <2>1, <2>4, <3>2
    <3>4. PICK k \in Instances : k = at
      BY <2>1
    <3>5. at' <= k => pc' = "stop" /\ \A i \in Instances : at' <= i /\ i <= k => i \in allocated'
      BY Zenon, <2>1, <3>1, <3>4
    <3>6. ~(k < at')
      BY <3>1, ConstantTypes DEF Instances
    <3>7. ParseFailedAt(k)'
      BY Zenon, <2>2, <3>1, <3>3, <3>4, <3>5, <3>6 DEF ParseFailedAt
    <3>8. StartInOrder'
      BY <3>1 DEF StartInOrder, Starting
    <3>. QED
      BY Zenon, <3>7, <3>8 DEF StartInv, Reported
  <2>. QED
    BY Zenon, <2>0, <2>3, <2>4
<1>4. CASE UdsConnect
  <2>1. pc = "uds" /\ allocated' = allocated
        /\ \/ pc' = "create" /\ UNCHANGED stoppedBy
           \/ pc' = "exited" /\ returnValue' = -1
    BY Zenon, <1>4 DEF UdsConnect
  <2>. QED
    BY <1>0, <2>1 DEF StartInv, StartInOrder, Reported, Starting, Stopped
<1>5. CASE CreatePipeline \/ SetPaused \/ SetPlaying
  <2>1. /\ pc \in {"create", "pause", "play"} /\ UNCHANGED allocated
        /\ \/ \E next \in {"pause", "play", "run"} : Proceed(next) /\ UNCHANGED stoppedBy
           \/ Fails
    <3>1. {"pause", "play", "run"} = {"pause", "play", "run"}
      OBVIOUS
    <3>. QED
      BY Zenon, <1>5 DEF CreatePipeline, SetPaused, SetPlaying
  <2>2. pc \in Starting \ {"parse"}
    BY <2>1 DEF Starting
  <2>. QED
    BY Zenon, <1>0, <2>1, <2>2, FailsReported, ProceedInOrder
<1>6. CASE RunLoop
  BY <1>0, <1>6 DEF RunLoop, StartInv, StartInOrder, Starting, Stopped
<1>7. CASE StopInstance
  <2>1. pc = "stop" /\ at \in Instances /\ stoppedBy' = stoppedBy
    BY <1>7, ConstantTypes DEF StopInstance, ControlType, Instances
  <2>2. CASE at \notin allocated
    <3>1. /\ pc' = "crashed" /\ at' = at /\ returnValue' = returnValue
          /\ instReturn' = instReturn /\ pipe' = pipe
      BY Zenon, <1>7, <2>2 DEF StopInstance
    <3>2. ASSUME stoppedBy = "startup" PROVE Reported'
      <4>1. \E k \in Instances : ParseFailedAt(k)
        BY <2>1, <2>2, <3>2, ConstantTypes DEF StartInv, Reported, Instances
      <4>2. PICK k \in Instances : ParseFailedAt(k)
        BY Zenon, <4>1
      <4>3. k < at /\ ~(at <= k)
        BY <2>1, <2>2, <4>2, ConstantTypes DEF ParseFailedAt, Instances
      <4>4. ParseFailedAt(k)'
        BY <3>1, <4>2, <4>3 DEF ParseFailedAt, Stopped
      <4>. QED
        BY Zenon, <4>4 DEF Reported
    <3>3. StartInOrder'
      BY <3>1 DEF StartInOrder, Starting
    <3>. QED
      BY Zenon, <2>1, <3>2, <3>3 DEF StartInv
  <2>3. CASE at \in allocated
    <3>1. /\ pc' = "stop" /\ at' = at + 1 /\ allocated' = allocated \ {at}
          /\ returnValue' = IF instReturn[at] = -1 THEN -1 ELSE returnValue
          /\ DestroyPipeline(at)
      BY Zenon, <1>7, <2>1, <2>3 DEF StopInstance
    <3>2. ASSUME NEW k \in Instances, pipe[k] = "none"
          PROVE  pipe'[k] = "none" /\ instReturn'[k] = instReturn[k]
      <4>1. pipe' = [pipe EXCEPT ![at] = "none"]
        BY Zenon, <3>1 DEF DestroyPipeline
      <4>2. \/ instReturn' = instReturn
            \/ /\ pipe[at] # "none"
               /\ \E v \in {0, -1} : instReturn' = [instReturn EXCEPT ![at] = v]
        BY Zenon, <3>1 DEF DestroyPipeline, DrainBus, HandleErrors
      <4>3. instReturn \in [Instances -> {0, -1}]
        BY Zenon DEF FlagType
      <4>. QED
        BY <2>1, <3>2, <4>1, <4>2, <4>3 DEF PipeType
    <3>3. ASSUME stoppedBy = "startup" PROVE Reported'
      <4>1. CASE pc = "stop" /\ returnValue = -1 /\ \A i \in Instances : at <= i => i \in allocated
        <5>1. \A i \in Instances : at' <= i => i \in allocated'
          BY <2>1, <3>1, <4>1, ConstantTypes DEF Instances
        <5>. QED
          BY Zenon, <3>1, <4>1, <5>1 DEF Reported
      <4>2. ASSUME NEW k \in Instances, ParseFailedAt(k) PROVE Reported'
        <5>1. instReturn'[k] = -1 /\ pipe'[k] = "none"
          BY Zenon, <3>2, <4>2 DEF ParseFailedAt
        <5>2. at' <= k => \A i \in Instances : at' <= i /\ i <= k => i \in allocated'
          BY <2>1, <3>1, <4>2, ConstantTypes DEF ParseFailedAt, Instances
        <5>3. k < at' => returnValue' = -1
          BY <2>1, <3>1, <4>2, ConstantTypes DEF ParseFailedAt, Instances
        <5>4. ParseFailedAt(k)'
          BY Zenon, <3>1, <5>1, <5>2, <5>3 DEF ParseFailedAt
        <5>. QED
          BY Zenon, <5>4 DEF Reported
      <4>3. pc # "exited"
        BY <2>1
      <4>. QED
        BY Zenon, <3>3, <4>1, <4>2, <4>3 DEF StartInv, Reported
    <3>4. StartInOrder'
      BY <3>1 DEF StartInOrder, Starting
    <3>. QED
      BY Zenon, <2>1, <3>3, <3>4 DEF StartInv
  <2>. QED
    BY Zenon, <2>2, <2>3
<1>8. CASE CloseDisplay
  <2>1. /\ pc = "stop" /\ pc' = "exited" /\ at = N
        /\ UNCHANGED <<at, pipe, instReturn, returnValue, stoppedBy>>
    BY Zenon, <1>8 DEF CloseDisplay
  <2>2. ASSUME NEW k \in Instances, ParseFailedAt(k) PROVE returnValue = -1
    BY <2>1, <2>2, ConstantTypes DEF ParseFailedAt, Instances
  <2>3. stoppedBy = "startup" => returnValue = -1
    BY Zenon, <2>2 DEF StartInv, Reported
  <2>4. StartInOrder'
    BY <2>1 DEF StartInOrder, Starting
  <2>. QED
    BY Zenon, <2>1, <2>3, <2>4 DEF StartInv, Reported
<1>. QED
  BY Zenon, StepsAfterStart, <1>1, <1>2, <1>3, <1>4, <1>5, <1>6, <1>7, <1>8 DEF Next, Main

(* A start-up that fails ends in an exit code that says so, whichever step  *)
(* of whichever instance failed; main comes upon an AppCtx it never          *)
(* allocated only after an instance that could not be parsed                *)
(* (deepstream_proximity_main.c:674-874).                                   *)
THEOREM FailureIsReported == Spec => []FailedStartIsReported
<1> DEFINE Inv == TypeOK /\ StartInv
<1>1. Init => Inv
  BY TypeInit, StartInit
<1>2. Inv /\ [Next]_vars => Inv'
  BY Zenon, TypeNext, StartNext
<1>3. Inv => FailedStartIsReported
  <2> SUFFICES ASSUME ControlType, StartInv, stoppedBy = "startup"
               PROVE  /\ pc = "exited" => returnValue = -1
                      /\ pc = "crashed" => \E i \in 0 .. at - 1 : instReturn[i] = -1
    BY Zenon, TypeParts DEF FailedStartIsReported
  <2>1. ASSUME NEW k \in Instances, ParseFailedAt(k), pc \in Stopped
        PROVE  returnValue = -1 /\ k \in 0 .. at - 1 /\ instReturn[k] = -1
    BY <2>1, ConstantTypes DEF ParseFailedAt, ControlType, Instances, Stopped
  <2>. QED
    BY <2>1 DEF StartInv, Reported, Stopped
<1> HIDE DEF Inv
<1>. QED
  BY <1>1, <1>2, <1>3, PTL DEF Spec
=============================================================================
