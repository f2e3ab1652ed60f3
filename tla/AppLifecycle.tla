----------------------------- MODULE AppLifecycle -----------------------------
(***************************************************************************)
(* The life of deepstream-proximity-record-app (deepstream_proximity_main.c *)
(* with destroy_pipeline and the closing cases of bus_callback of          *)
(* deepstream_proximity.c): main starts one pipeline per configuration     *)
(* file, runs the GLib main loop until something asks it to stop, and      *)
(* tears everything down.                                                  *)
(*                                                                         *)
(* Four threads of control meet here: main and the callbacks its loop runs *)
(* one at a time; the thread that reads X events, which starts before the  *)
(* loop runs; the signal handler; and the pipelines, which post messages.  *)
(***************************************************************************)
EXTENDS Integers, Sequences

CONSTANTS
  N,           (* num_instances, one per configuration file                  *)
  Overlay,     (* the instances with a video overlay sink, hence a window    *)
  Recreated,   (* the instances with pipeline_recreate_sec set               *)
  Kinds,       (* the messages pipelines post: "eos", "fatal", "exceeded"    *)
  StartFails,  (* may a step of the start-up fail                            *)
  MaxBus       (* bound: messages waiting on a bus                           *)

Instances == 0 .. N - 1

ASSUME LifecycleAssumption ==
  /\ N \in Nat \ {0}
  /\ Overlay \subseteq Instances
  /\ Recreated \subseteq Instances
  /\ Kinds \subseteq {"eos", "fatal", "exceeded"}
  /\ StartFails \in BOOLEAN
  /\ MaxBus \in Nat

VARIABLES
  pc, at,          (* where main is, and for which instance                  *)
  allocated,       (* the instances whose AppCtx exists                      *)
  pipe,            (* state of each pipeline; "failed" when it did not reach *)
                   (* the one it was set to                                  *)
  bus,             (* messages of each pipeline not handled yet              *)
  watch,           (* the bus watch is installed                             *)
  instQuit,        (* appCtx->quit                                           *)
  instReturn,      (* appCtx->return_value                                   *)
  quit, cintr, returnValue,
  isRunning,       (* the main loop has not been asked to stop               *)
  handler,         (* what SIGINT does: "none" before _intr_setup, "ours",   *)
                   (* "default" after the first one                          *)
  interruptTimer, eventTimer, recreateTimer,
  xThread,         (* "none", "idle", or "quitting" between the two          *)
                   (* statements that ask main to stop                       *)
  done,            (* history: the pipeline ended or failed since its        *)
                   (* creation                                               *)
  stoppedBy        (* history: why main left the loop or never entered it    *)

instVars  == <<instQuit, instReturn>>
loopVars  == <<quit, cintr, isRunning>>
timerVars == <<interruptTimer, eventTimer, recreateTimer>>
histVars  == <<done, stoppedBy>>
vars == <<pc, at, allocated, pipe, bus, watch, instVars, loopVars, returnValue,
          handler, timerVars, xThread, histVars>>

Starting == {"parse", "uds", "create", "pause", "play", "run"}
Stopped  == {"exited", "crashed"}

TypeOK ==
  /\ pc \in Starting \cup {"loop", "recreate", "stop", "close"} \cup Stopped
  /\ at \in 0 .. N /\ (pc \in Starting \cup {"recreate"} => at < N)
  /\ allocated \subseteq Instances
  /\ pipe \in [Instances -> {"none", "created", "paused", "playing", "failed"}]
  /\ bus \in [Instances -> Seq(Kinds)] /\ \A i \in Instances : Len(bus[i]) <= MaxBus
  /\ {watch, instQuit, done, recreateTimer} \subseteq [Instances -> BOOLEAN]
  /\ instReturn \in [Instances -> {0, -1}] /\ returnValue \in {0, -1}
  /\ {quit, cintr, isRunning, interruptTimer, eventTimer} \subseteq BOOLEAN
  /\ handler \in {"none", "ours", "default"}
  /\ xThread \in {"none", "idle", "quitting"}
  /\ stoppedBy \in {"none", "startup", "user", "interrupt", "all"}

All(v) == [i \in Instances |-> v]

Init ==
  /\ pc = "parse" /\ at = 0
  /\ allocated = {}
  /\ pipe = All("none") /\ bus = All(<<>>) /\ watch = All(FALSE)
  /\ instQuit = All(FALSE) /\ instReturn = All(0)
  /\ quit = FALSE /\ cintr = FALSE /\ isRunning = FALSE /\ returnValue = 0
  /\ handler = "none"
  /\ interruptTimer = FALSE /\ eventTimer = FALSE
  /\ recreateTimer = All(FALSE)
  /\ xThread = "none"
  /\ done = All(FALSE)
  /\ stoppedBy = "none"

-----------------------------------------------------------------------------
(* Start-up: main goes through the instances once per stage.               *)

(* The next instance of this stage, or the first of the next one.          *)
Proceed(next) ==
  IF at + 1 < N THEN pc' = pc /\ at' = at + 1 ELSE pc' = next /\ at' = 0

(* goto done                                                               *)
GiveUp == pc' = "stop" /\ at' = 0 /\ stoppedBy' = "startup"

FailsSilently == StartFails /\ UNCHANGED returnValue /\ GiveUp   \* mutated

Fails == StartFails /\ returnValue' = -1 /\ GiveUp

Parse ==
  /\ pc = "parse"
  /\ allocated' = allocated \cup {at}
  /\ \/ Proceed("uds") /\ UNCHANGED <<instReturn, stoppedBy>>
     \/ /\ StartFails
        /\ instReturn' = [instReturn EXCEPT ![at] = -1]
        /\ GiveUp
  /\ UNCHANGED <<pipe, bus, watch, instQuit, loopVars, returnValue, handler>>
  /\ UNCHANGED <<timerVars, xThread, done>>

(* Without its server main returns -1 and tears nothing down.              *)
UdsConnect ==
  /\ pc = "uds"
  /\ \/ pc' = "create" /\ UNCHANGED <<returnValue, stoppedBy>>
     \/ /\ StartFails
        /\ pc' = "exited" /\ returnValue' = -1 /\ stoppedBy' = "startup"
  /\ UNCHANGED <<at, allocated, pipe, bus, watch, instVars, loopVars, handler>>
  /\ UNCHANGED <<timerVars, xThread, done>>

(* A creation that fails may have made the pipeline and its bus watch: they *)
(* come first.                                                             *)
HalfCreated(i) ==
  \E made \in BOOLEAN :
    /\ pipe' = [pipe EXCEPT ![i] = IF made THEN "created" ELSE "none"]
    /\ watch' = [watch EXCEPT ![i] = made]

HalfSet(i) == pipe' = [pipe EXCEPT ![i] = "failed"]

CreatePipeline ==
  /\ pc = "create"
  /\ \/ /\ pipe' = [pipe EXCEPT ![at] = "created"]
        /\ watch' = [watch EXCEPT ![at] = TRUE]
        /\ IF at + 1 = N
           THEN handler' = "ours" /\ interruptTimer' = TRUE
           ELSE UNCHANGED <<handler, interruptTimer>>
        /\ Proceed("pause")
        /\ UNCHANGED <<returnValue, stoppedBy>>
     \/ Fails /\ HalfCreated(at) /\ UNCHANGED <<handler, interruptTimer>>
  /\ UNCHANGED <<allocated, bus, instVars, loopVars, eventTimer>>
  /\ UNCHANGED <<recreateTimer, xThread, done>>

(* The pipeline is paused and its window opened; the first window starts   *)
(* the thread that reads X events.                                         *)
SetPaused ==
  /\ pc = "pause"
  /\ \/ /\ pipe' = [pipe EXCEPT ![at] = "paused"]
        /\ xThread' = IF at \in Overlay /\ xThread = "none" THEN "idle" ELSE xThread
        /\ Proceed("play")
        /\ UNCHANGED <<returnValue, stoppedBy>>
     \/ Fails /\ HalfSet(at) /\ UNCHANGED xThread
  /\ UNCHANGED <<allocated, bus, watch, instVars, loopVars, handler, timerVars, done>>

SetPlaying ==
  /\ pc = "play"
  /\ \/ /\ pipe' = [pipe EXCEPT ![at] = "playing"]
        /\ recreateTimer' = [recreateTimer EXCEPT ![at] = at \in Recreated]
        /\ Proceed("run")
        /\ UNCHANGED <<returnValue, stoppedBy>>
     \/ Fails /\ HalfSet(at) /\ UNCHANGED recreateTimer
  /\ UNCHANGED <<allocated, bus, watch, instVars, loopVars, handler>>
  /\ UNCHANGED <<interruptTimer, eventTimer, xThread, done>>

(* g_main_loop_run marks the loop as running, whatever was asked before.   *)
RunLoop ==
  /\ pc = "run"
  /\ pc' = "loop"
  /\ isRunning' = TRUE /\ eventTimer' = TRUE
  /\ UNCHANGED <<at, allocated, pipe, bus, watch, instVars, quit, cintr>>
  /\ UNCHANGED <<returnValue, handler, interruptTimer, recreateTimer, xThread>>
  /\ UNCHANGED histVars

-----------------------------------------------------------------------------
(* The pipelines and the outside world.                                    *)

Post(i, k) ==
  /\ pipe[i] \in {"paused", "playing", "failed"} /\ k \in Kinds
  /\ k = "eos" => pipe[i] = "playing" /\ ~done[i]
  /\ Len(bus[i]) < MaxBus
  /\ bus' = [bus EXCEPT ![i] = Append(@, k)]
  /\ done' = [done EXCEPT ![i] = TRUE]
  /\ UNCHANGED <<pc, at, allocated, pipe, watch, instVars, loopVars>>
  /\ UNCHANGED <<returnValue, handler, timerVars, xThread, stoppedBy>>

(* _intr_handler                                                           *)
Interrupt ==
  /\ handler = "ours" /\ pc \notin Stopped
  /\ handler' = "default" /\ cintr' = TRUE
  /\ UNCHANGED <<pc, at, allocated, pipe, bus, watch, instVars, quit, isRunning>>
  /\ UNCHANGED <<returnValue, timerVars, xThread, histVars>>

(* The X thread on the key Q or a closed window; pc # "exited" stands for  *)
(* a display that is still open.                                           *)
XQuit ==
  /\ xThread = "idle" /\ pc \notin Stopped
  /\ quit' = TRUE
  /\ xThread' = "quitting"
  /\ UNCHANGED <<pc, at, allocated, pipe, bus, watch, instVars, cintr, isRunning>>
  /\ UNCHANGED <<returnValue, handler, timerVars, histVars>>

XQuitLoop ==
  /\ xThread = "quitting"
  /\ isRunning' = FALSE
  /\ xThread' = "idle"
  /\ UNCHANGED <<pc, at, allocated, pipe, bus, watch, instVars, quit, cintr>>
  /\ UNCHANGED <<returnValue, handler, timerVars, histVars>>

-----------------------------------------------------------------------------
(* Callbacks of the main loop.                                             *)

(* bus_callback on the last messages of a pipeline.                        *)
BusCallback(i) ==
  /\ pc = "loop" /\ watch[i] /\ bus[i] # <<>>
  /\ bus' = [bus EXCEPT ![i] = Tail(@)]
  /\ instQuit' = [instQuit EXCEPT ![i] = TRUE]
  /\ LET k == Head(bus[i])
     IN  /\ instReturn' = [instReturn EXCEPT ![i] =
                             CASE k = "fatal"    -> -1
                               [] k = "exceeded" -> 0
                               [] OTHER          -> @]
         /\ watch' = [watch EXCEPT ![i] = k # "eos"]
  /\ UNCHANGED <<pc, at, allocated, pipe, loopVars, returnValue, handler>>
  /\ UNCHANGED <<timerVars, xThread, done, stoppedBy>>

CheckForInterruptLate ==   \* mutated: the timer ends without stopping the loop
  /\ pc = "loop" /\ interruptTimer
  /\ interruptTimer' = ~(quit \/ cintr)
  /\ IF ~quit /\ cintr
     THEN cintr' = FALSE /\ quit' = TRUE /\ isRunning' = isRunning
     ELSE UNCHANGED loopVars
  /\ UNCHANGED <<pc, at, allocated, pipe, bus, watch, instVars, returnValue>>
  /\ UNCHANGED <<handler, eventTimer, recreateTimer, xThread, histVars>>

(* check_for_interrupt, every 400 ms                                       *)
CheckForInterrupt ==
  /\ pc = "loop" /\ interruptTimer
  /\ interruptTimer' = ~(quit \/ cintr)
  /\ IF ~quit /\ cintr
     THEN cintr' = FALSE /\ quit' = TRUE /\ isRunning' = FALSE
     ELSE UNCHANGED loopVars
  /\ UNCHANGED <<pc, at, allocated, pipe, bus, watch, instVars, returnValue>>
  /\ UNCHANGED <<handler, eventTimer, recreateTimer, xThread, histVars>>

AllQuitOneMore ==   \* mutated: the loop runs to num_instances inclusive
  \A i \in 0 .. N : i \in Instances /\ instQuit[i]

AnyQuit == \E i \in Instances : instQuit[i]   \* mutated: one is enough

AllQuit == \A i \in Instances : instQuit[i]

(* event_thread_func, every 40 ms: the end of all instances ...            *)
EventAllQuit ==
  /\ pc = "loop" /\ eventTimer /\ AllQuit
  /\ quit' = TRUE /\ isRunning' = FALSE /\ eventTimer' = FALSE
  /\ stoppedBy' = IF stoppedBy = "none" THEN "all" ELSE stoppedBy
  /\ UNCHANGED <<pc, at, allocated, pipe, bus, watch, instVars, cintr>>
  /\ UNCHANGED <<returnValue, handler, interruptTimer, recreateTimer, xThread, done>>

(* ... or the key q.                                                       *)
EventKeyQuit ==
  /\ pc = "loop" /\ eventTimer /\ ~AllQuit
  /\ quit' = TRUE /\ isRunning' = FALSE /\ eventTimer' = FALSE
  /\ stoppedBy' = IF stoppedBy = "none" THEN "user" ELSE stoppedBy
  /\ UNCHANGED <<pc, at, allocated, pipe, bus, watch, instVars, cintr>>
  /\ UNCHANGED <<returnValue, handler, interruptTimer, recreateTimer, xThread, done>>

-----------------------------------------------------------------------------
(* destroy_pipeline(i): an EOS is sent and given a second, then the bus is *)
(* emptied up to the first EOS, its own if it came in time: errors are     *)
(* handled as bus_callback would, and going to NULL flushes the rest.      *)
IsError(k) == k \in {"fatal", "exceeded"}

BeforeEos(b) == {n \in DOMAIN b : \A m \in 1 .. n : b[m] # "eos"}

HandleErrors(i, b, errors) ==
  IF errors = {}
  THEN UNCHANGED instVars
  ELSE LET last == CHOOSE n \in errors : \A m \in errors : m <= n
       IN  /\ instQuit' = [instQuit EXCEPT ![i] = TRUE]
           /\ instReturn' = [instReturn EXCEPT ![i] = IF b[last] = "fatal" THEN -1 ELSE 0]

DrainAll(i, b) == HandleErrors(i, b, DOMAIN b)   \* mutated: an EOS is handled as well

DrainBus(i, b) == HandleErrors(i, b, {n \in BeforeEos(b) : IsError(b[n])})

DestroyPipeline(i) ==
  /\ IF pipe[i] = "none"
     THEN UNCHANGED instVars
     ELSE \E own \in {<<>>, <<"eos">>} : DrainBus(i, bus[i] \o own)
  /\ bus' = [bus EXCEPT ![i] = <<>>]
  /\ watch' = [watch EXCEPT ![i] = FALSE]
  /\ pipe' = [pipe EXCEPT ![i] = "none"]

(* recreate_pipeline_thread_func, first half                               *)
RecreateDestroy(i) ==
  /\ pc = "loop" /\ recreateTimer[i]
  /\ pc' = "recreate" /\ at' = i
  /\ DestroyPipeline(i)
  /\ UNCHANGED <<allocated, loopVars, returnValue, handler, timerVars, xThread>>
  /\ UNCHANGED <<done, stoppedBy>>

(* Second half: a failure ends the timer and is remembered only in         *)
(* return_value; what was created stays.                                   *)
RecreateCreate ==
  /\ pc = "recreate"
  /\ pc' = "loop" /\ at' = 0
  /\ \/ /\ pipe' = [pipe EXCEPT ![at] = "playing"]
        /\ watch' = [watch EXCEPT ![at] = TRUE]
        /\ done' = [done EXCEPT ![at] = FALSE]
        /\ UNCHANGED <<returnValue, recreateTimer>>
     \/ /\ StartFails
        /\ returnValue' = -1
        /\ recreateTimer' = [recreateTimer EXCEPT ![at] = FALSE]
        /\ done' = [done EXCEPT ![at] = TRUE]
        /\ HalfCreated(at) \/ (HalfSet(at) /\ watch' = [watch EXCEPT ![at] = TRUE])
  /\ UNCHANGED <<allocated, bus, instVars, loopVars, handler, interruptTimer>>
  /\ UNCHANGED <<eventTimer, xThread, stoppedBy>>

LeaveLoop ==
  /\ pc = "loop" /\ ~isRunning
  /\ pc' = "stop" /\ at' = 0
  /\ stoppedBy' = IF stoppedBy = "none" THEN "interrupt" ELSE stoppedBy
  /\ UNCHANGED <<allocated, pipe, bus, watch, instVars, loopVars, returnValue>>
  /\ UNCHANGED <<handler, timerVars, xThread, done>>

(* done: of main, one instance after the other; an AppCtx that was never   *)
(* allocated is a null pointer.                                            *)
StopInstance ==
  /\ pc = "stop" /\ at < N
  /\ IF at \notin allocated
     THEN /\ pc' = "crashed"
          /\ UNCHANGED <<at, allocated, pipe, bus, watch, instVars, returnValue>>
     ELSE /\ returnValue' = IF instReturn[at] = -1 THEN -1 ELSE returnValue
          /\ DestroyPipeline(at)
          /\ allocated' = allocated \ {at}
          /\ at' = at + 1 /\ pc' = pc
  /\ UNCHANGED <<loopVars, handler, timerVars, xThread, done, stoppedBy>>

(* The display is closed under its lock, so not while the X thread is      *)
(* handling an event.                                                      *)
CloseDisplay ==
  /\ pc = "stop" /\ at = N /\ xThread # "quitting"
  /\ pc' = "exited"
  /\ UNCHANGED <<at, allocated, pipe, bus, watch, instVars, loopVars>>
  /\ UNCHANGED <<returnValue, handler, timerVars, xThread, histVars>>

Main ==
  \/ Parse \/ UdsConnect \/ CreatePipeline \/ SetPaused \/ SetPlaying \/ RunLoop
  \/ RecreateCreate \/ LeaveLoop \/ StopInstance \/ CloseDisplay

Next ==
  \/ Main
  \/ Interrupt \/ XQuit \/ XQuitLoop
  \/ CheckForInterrupt \/ EventAllQuit \/ EventKeyQuit
  \/ \E i \in Instances : BusCallback(i) \/ RecreateDestroy(i)
  \/ \E i \in Instances, k \in Kinds : Post(i, k)

Spec == Init /\ [][Next]_vars

(* Main goes on, and the X thread finishes the event it is handling.       *)
(* Recreations are seconds apart: between two of them the loop serves its  *)
(* timers and buses, and returns at the end of the pass in which it was    *)
(* asked to.                                                               *)
Fairness ==
  /\ WF_vars(Main) /\ WF_vars(XQuitLoop)
  /\ SF_vars(LeaveLoop) /\ SF_vars(CheckForInterrupt) /\ SF_vars(EventAllQuit)
  /\ \A i \in Instances : SF_vars(BusCallback(i))

FairSpec == Spec /\ Fairness

-----------------------------------------------------------------------------
(* "Since this application might be running multiple pipelines through     *)
(* configuration files, it should wait till all pipelines are done"        *)
(* (deepstream_proximity.c:260-265).                                       *)
WaitsFor(instances) ==
  pc = "stop" /\ stoppedBy = "all" /\ at = 0 => \A i \in instances : done[i]
LoopWaitsForAll == WaitsFor(Instances)

(* That holds of the instances whose pipeline is never recreated.          *)
LoopWaitsForOthers == WaitsFor(Instances \ Recreated)

(* An instance is marked as finished only if its pipeline ended or failed: *)
(* the EOS that destroy_pipeline sends to flush a pipeline it recreates is *)
(* never taken for one.                                                    *)
QuitHasCause ==
  [][\A i \in Instances : instQuit'[i] => instQuit[i] \/ done[i]]_vars

(* When every pipeline has ended or failed the application ends by itself, *)
(* unless an instance is being recreated or its recreation has failed.     *)
AllDone == \A i \in Instances : done[i] /\ pipe[i] = "playing"
AllDoneEnds == (pc = "loop" /\ AllDone) ~> (pc \in Stopped \/ ~AllDone)

(* "It comes out of loop if application got interrupted"                   *)
(* (deepstream_proximity_main.c:218-219), if the user has not asked it to  *)
(* stop before.                                                            *)
InterruptEndsLoop == (pc = "loop" /\ cintr /\ ~quit) ~> (pc \in {"stop"} \cup Stopped)

(* A start-up that fails ends in an exit with a code that says so; main    *)
(* comes upon an instance it never allocated only if a configuration file  *)
(* before that one could not be parsed.                                    *)
FailedStartIsReported ==
  stoppedBy = "startup" =>
    /\ pc = "exited" => returnValue = -1
    /\ pc = "crashed" => \E i \in 0 .. at - 1 : instReturn[i] = -1
=============================================================================
