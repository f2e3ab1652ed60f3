------------------------------ MODULE RtspSource ------------------------------
(***************************************************************************)
(* Reconnection of RTSP sources (apps-common/src/deepstream_source_bin.c)  *)
(* together with the part of bus_callback (deepstream_proximity.c) that    *)
(* answers the errors of a source and ends the application.                *)
(*                                                                         *)
(* Four kinds of actors touch a source bin:                                *)
(*   - the main loop, which runs one callback at a time: the one second    *)
(*     watchdog, the 20 ms watch of an asynchronous state change, the      *)
(*     queued reset_source_pipeline calls and the bus watch;               *)
(*   - the streaming threads, which deliver buffers and end of stream;     *)
(*   - GStreamer itself, which completes or fails asynchronous state       *)
(*     changes and posts errors on the bus;                                *)
(*   - the user, who may pause and resume the pipeline from the X thread.  *)
(*                                                                         *)
(* Wall clock stamps are kept as ages (seconds since the stamp) that       *)
(* saturate at MaxAge; a stamp that was never set is as old as can be.     *)
(***************************************************************************)
EXTENDS Integers, Sequences

CONSTANTS
  Sources,            (* the RTSP source bins of the pipeline                *)
  Interval,           (* rtsp-reconnect-interval-sec of each, 0 = disabled   *)
  Attempts,           (* rtsp-reconnect-attempts of each, -1 = no limit      *)
  ResetInterval,      (* SOURCE_RESET_INTERVAL_SEC                           *)
  MinSpacing,         (* the 3000 ms between two watchdog resets             *)
  MaxAge,             (* bound: ages saturate here                           *)
  MaxBus,             (* bound: messages waiting on the bus                  *)
  MaxQueued,          (* bound: queued reset_source_pipeline calls           *)
  ErrorKinds,         (* kinds of error the elements may post; "fatal" stands *)
                      (* for one that does not come from a source bin        *)
  Pausing,            (* does the user pause and resume the pipeline         *)
  PlayingNeedsServer, (* does a bin reach PLAYING only if its server answers *)
  Prompt              (* does the main loop serve 1 s timers within a second *)

ASSUME ConstantsAssumption ==
  /\ Interval \in [Sources -> Nat]
  /\ Attempts \in [Sources -> Nat \cup {-1}]
  /\ ResetInterval \in Nat
  /\ MinSpacing \in Nat
  /\ MaxAge \in Nat /\ MaxAge >= ResetInterval /\ MaxAge > MinSpacing
  /\ \A s \in Sources : MaxAge >= Interval[s]
  /\ MaxBus \in Nat
  /\ MaxQueued \in Nat
  /\ ErrorKinds \subseteq {"error", "error500", "fatal"}
  /\ Pausing \in BOOLEAN
  /\ PlayingNeedsServer \in BOOLEAN
  /\ Prompt \in BOOLEAN

VARIABLES
  up,             (* environment: the camera answers                         *)
  bin,            (* GStreamer state of the source bin                       *)
  broken,         (* an element posted an error since the bin was started    *)
  eos,            (* the mux pad of the source is at end of stream           *)
  paused,         (* the user has paused the pipeline                        *)
  haveEos,        (* have_eos                                                *)
  reconfiguring,  (* reconfiguring                                           *)
  tries,          (* num_rtsp_reconnects                                     *)
  watchdog,       (* the watch_source_status timer is installed              *)
  asyncRunning,   (* async_state_watch_running                               *)
  asyncTimers,    (* watch_source_async_state_change timers installed        *)
  queuedResets,   (* g_timeout_add(0, reset_source_pipeline) not yet run     *)
  idle,           (* age of last_buffer_time, Never when it is zero          *)
  sinceReconnect, (* age of last_reconnect_time                              *)
  sinceReset,     (* age of last_reset_time_global, shared by all sources    *)
  muxProbe,       (* the probe that drops the EOS leaving nvstreammux        *)
  bus,            (* messages posted and not yet handled by bus_callback     *)
  quit,           (* appCtx->quit                                            *)
  returnValue,    (* appCtx->return_value                                    *)
  revived         (* history: pausing or resuming has started the bin again  *)
                  (* after a failed reconnection that nothing watches        *)

envVars   == <<up, paused>>
binVars   == <<bin, broken, revived>>
timerVars == <<watchdog, asyncRunning, asyncTimers, queuedResets>>
ageVars   == <<idle, sinceReconnect, sinceReset>>
quitVars  == <<quit, returnValue>>
busVars   == <<muxProbe, bus, quitVars>>
vars == <<up, bin, broken, eos, paused, haveEos, reconfiguring, tries, watchdog,
          asyncRunning, asyncTimers, queuedResets, idle, sinceReconnect,
          sinceReset, muxProbe, bus, quit, returnValue, revived>>

Never    == -1
Exceeded == "exceeded"   (* the "Reconnection attempts exceeded ..." error  *)
PipelineEos == "eos"
BinStates == {"null", "async", "paused", "playing", "failed"}
Fatal == "fatal"
SourceErrors == ErrorKinds \ {Fatal}
Messages ==
  (SourceErrors \X Sources) \cup {<<Exceeded>>, <<PipelineEos>>, <<Fatal>>}

TypeOK ==
  /\ up \in [Sources -> BOOLEAN]
  /\ bin \in [Sources -> BinStates]
  /\ broken \in [Sources -> BOOLEAN]
  /\ eos \in [Sources -> BOOLEAN]
  /\ paused \in BOOLEAN
  /\ haveEos \in [Sources -> BOOLEAN]
  /\ reconfiguring \in [Sources -> BOOLEAN]
  /\ tries \in [Sources -> Nat]
  /\ watchdog \in [Sources -> BOOLEAN]
  /\ asyncRunning \in [Sources -> BOOLEAN]
  /\ asyncTimers \in [Sources -> Nat]
  /\ queuedResets \in [Sources -> 0 .. MaxQueued]
  /\ idle \in [Sources -> {Never} \cup (0 .. MaxAge)]
  /\ sinceReconnect \in [Sources -> 0 .. MaxAge]
  /\ sinceReset \in 0 .. MaxAge
  /\ muxProbe \in BOOLEAN
  /\ bus \in Seq(Messages)
  /\ quit \in BOOLEAN
  /\ returnValue \in {0, -1}
  /\ revived \in [Sources -> BOOLEAN]

(* create_multi_source_bin puts the probe on the mux when a source has     *)
(* asked for it.                                                           *)
ProbeInstalled == \E s \in Sources : Interval[s] > 0

(* create_multi_source_bin and create_rtsp_src_bin, after the pipeline has *)
(* been asked to play: every bin is still on its way up.                   *)
Init ==
  /\ up \in [Sources -> BOOLEAN]
  /\ bin = [s \in Sources |-> "async"]
  /\ broken = [s \in Sources |-> FALSE]
  /\ eos = [s \in Sources |-> FALSE]
  /\ paused = FALSE
  /\ haveEos = [s \in Sources |-> FALSE]
  /\ reconfiguring = [s \in Sources |-> FALSE]
  /\ tries = [s \in Sources |-> 0]
  /\ watchdog = [s \in Sources |-> TRUE]
  /\ asyncRunning = [s \in Sources |-> FALSE]
  /\ asyncTimers = [s \in Sources |-> 0]
  /\ queuedResets = [s \in Sources |-> 0]
  /\ idle = [s \in Sources |-> Never]
  /\ sinceReconnect = [s \in Sources |-> MaxAge]
  /\ sinceReset = MaxAge
  /\ muxProbe = ProbeInstalled
  /\ bus = <<>>
  /\ quit = FALSE
  /\ returnValue = 0
  /\ revived = [s \in Sources |-> FALSE]

-----------------------------------------------------------------------------
(* The environment: cameras, streaming threads, GStreamer, the user.       *)

Lose(s) ==
  /\ up[s]
  /\ up' = [up EXCEPT ![s] = FALSE]
  /\ UNCHANGED <<binVars, eos, paused, haveEos, reconfiguring, tries>>
  /\ UNCHANGED <<timerVars, ageVars, busVars>>

Recover(s) ==
  /\ ~up[s]
  /\ up' = [up EXCEPT ![s] = TRUE]
  /\ UNCHANGED <<binVars, eos, paused, haveEos, reconfiguring, tries>>
  /\ UNCHANGED <<timerVars, ageVars, busVars>>

Flowing(s) ==
  up[s] /\ bin[s] = "playing" /\ ~broken[s] /\ ~eos[s] /\ ~paused

(* rtspsrc_monitor_probe_func on a buffer; the probe sees buffers only when *)
(* the reconnect interval is positive.                                      *)
Buffer(s) ==
  /\ Flowing(s)
  /\ Interval[s] > 0
  /\ idle' = [idle EXCEPT ![s] = 0]
  /\ haveEos' = [haveEos EXCEPT ![s] = FALSE]
  /\ UNCHANGED <<up, binVars, eos, paused, reconfiguring, tries>>
  /\ UNCHANGED <<timerVars, sinceReconnect, sinceReset, busVars>>

BlocksStopEarly(s, t, e) ==   \* mutated: < for <=
  \/ e[s] /\ (Interval[s] = 0 \/ Attempts[s] = 0)
  \/ t[s] < Attempts[s] /\ (Interval[s] > 0 \/ ~e[s])

BlocksStopLate(s, t, e) ==    \* mutated: one attempt too many
  \/ e[s] /\ (Interval[s] = 0 \/ Attempts[s] = 0)
  \/ t[s] <= Attempts[s] + 1 /\ (Interval[s] > 0 \/ ~e[s])

(* Does source s, with counters t and end of stream flags e, keep          *)
(* check_rtsp_reconnection_attempts from stopping the pipeline?            *)
BlocksStop(s, t, e) ==
  \/ e[s] /\ (Interval[s] = 0 \/ Attempts[s] = 0)
  \/ t[s] <= Attempts[s] /\ (Interval[s] > 0 \/ ~e[s])

MuxEosUnprobed(probe, padEos) ==   \* mutated: the EOS is not dropped
  IF \A s \in Sources : padEos[s] THEN <<<<PipelineEos>>>> ELSE <<>>

(* The mux sends an EOS once every pad has one, and the probe on its       *)
(* source pad drops it (nvstreammux_eosmonitor_probe_func).                *)
MuxEos(probe, padEos) ==
  IF ~probe /\ \A s \in Sources : padEos[s] THEN <<<<PipelineEos>>>> ELSE <<>>

(* check_rtsp_reconnection_attempts followed by the end of stream of one   *)
(* source: the probe is gone before the EOS reaches the mux.               *)
CheckAndSendEos(t, e, padEos) ==
  LET stop   == \A s \in Sources : ~BlocksStop(s, t, e)
      probe  == muxProbe /\ ~stop
      errors == IF stop THEN <<<<Exceeded>>>> ELSE <<>>
  IN  /\ eos' = padEos
      /\ muxProbe' = probe
      /\ bus' = bus \o errors \o MuxEos(probe, padEos)
      /\ Len(bus) + 2 <= MaxBus
      /\ UNCHANGED quitVars

(* The server ends the stream; rtspsrc_monitor_probe_func sees the event   *)
(* only when reconnection is disabled for the source.                      *)
EndOfStream(s) ==
  /\ bin[s] = "playing" /\ ~eos[s] /\ ~paused
  /\ LET seen == [haveEos EXCEPT ![s] = TRUE]
         ended == [eos EXCEPT ![s] = TRUE]
     IN  IF Interval[s] = 0
         THEN haveEos' = seen /\ CheckAndSendEos(tries, seen, ended)
         ELSE /\ haveEos' = haveEos /\ eos' = ended
              /\ Len(bus) + 2 <= MaxBus
              /\ bus' = bus \o MuxEos(muxProbe, ended)
              /\ UNCHANGED <<muxProbe, quitVars>>
  /\ UNCHANGED <<up, binVars, paused, reconfiguring, tries>>
  /\ UNCHANGED <<timerVars, ageVars>>

(* An element of the source bin posts an error and stops streaming.        *)
PostError(s, k) ==
  /\ bin[s] # "null" /\ ~broken[s]
  /\ broken' = [broken EXCEPT ![s] = TRUE]
  /\ Len(bus) + 2 < MaxBus
  /\ bus' = Append(bus, <<k, s>>)
  /\ UNCHANGED <<up, bin, revived, eos, paused, haveEos, reconfiguring, tries>>
  /\ UNCHANGED <<timerVars, ageVars, muxProbe, quitVars>>

(* An element outside the source bins posts an error.                      *)
PostFatal ==
  /\ Fatal \in ErrorKinds
  /\ Len(bus) + 2 < MaxBus
  /\ bus' = Append(bus, <<Fatal>>)
  /\ UNCHANGED <<envVars, binVars, eos, haveEos, reconfiguring, tries>>
  /\ UNCHANGED <<timerVars, ageVars, muxProbe, quitVars>>

Reachable(s) ==
  {"paused", "failed"} \cup
  (IF up[s] \/ ~PlayingNeedsServer THEN {"playing"} ELSE {})

(* GStreamer completes an asynchronous state change.                       *)
AsyncDone(s) ==
  /\ bin[s] = "async"
  /\ \E b \in Reachable(s) : bin' = [bin EXCEPT ![s] = b]
  /\ UNCHANGED <<up, broken, revived, eos, paused, haveEos, reconfiguring>>
  /\ UNCHANGED <<tries, timerVars, ageVars, busVars>>

(* A reconnection that has failed and that only the watchdog still follows. *)
Abandoned(s) == bin[s] = "failed" /\ reconfiguring[s] /\ ~asyncRunning[s]

Revive == revived' = [s \in Sources |-> revived[s] \/ Abandoned(s)]

(* pause_pipeline and resume_pipeline change the state of the whole        *)
(* pipeline, and with it of every source bin, the stopped and the failed   *)
(* ones included: these are asked once more.                               *)
Pause ==
  /\ Pausing /\ ~paused
  /\ paused' = TRUE
  /\ bin' = [s \in Sources |-> CASE bin[s] = "playing" -> "paused"
                                 [] bin[s] \in {"null", "failed"} -> "async"
                                 [] OTHER              -> bin[s]]
  /\ Revive
  /\ UNCHANGED <<up, broken, eos, haveEos, reconfiguring, tries>>
  /\ UNCHANGED <<timerVars, ageVars, busVars>>

Resume ==
  /\ Pausing /\ paused
  /\ paused' = FALSE
  /\ bin' = [s \in Sources |-> IF bin[s] \in {"paused", "null", "failed"}
                               THEN "async" ELSE bin[s]]
  /\ Revive
  /\ UNCHANGED <<up, broken, eos, haveEos, reconfiguring, tries>>
  /\ UNCHANGED <<timerVars, ageVars, busVars>>

-----------------------------------------------------------------------------
(* The main loop.                                                          *)

StartAsyncWatchAlways(s) ==   \* mutated: the running watch is not looked at
  /\ asyncTimers' = [asyncTimers EXCEPT ![s] = @ + 1]
  /\ asyncRunning' = [asyncRunning EXCEPT ![s] = TRUE]

StartAsyncWatch(s) ==
  /\ asyncTimers' = [asyncTimers EXCEPT
                       ![s] = IF asyncRunning[s] THEN @ ELSE @ + 1]
  /\ asyncRunning' = [asyncRunning EXCEPT ![s] = TRUE]

(* reset_source_pipeline. The bin goes to NULL and back to the state of    *)
(* its parent; what gst_element_get_state says then decides the rest. A    *)
(* bin that cannot be set to NULL and one that fails on the way up both    *)
(* leave the flags alone.                                                  *)
ResetSource(s) ==
  /\ idle' = [idle EXCEPT ![s] = 0]
  /\ sinceReconnect' = [sinceReconnect EXCEPT ![s] = 0]
  /\ broken' = [broken EXCEPT ![s] = FALSE]
  /\ eos' = [eos EXCEPT ![s] = FALSE]
  /\ revived' = [revived EXCEPT ![s] = FALSE]
  /\ \/ \E b \in {"async", "paused"} :
          /\ bin' = [bin EXCEPT ![s] = b]
          /\ StartAsyncWatch(s)
          /\ reconfiguring' = [reconfiguring EXCEPT ![s] = TRUE]
     \/ /\ "playing" \in Reachable(s) /\ ~paused
        /\ bin' = [bin EXCEPT ![s] = "playing"]
        /\ reconfiguring' = [reconfiguring EXCEPT ![s] = FALSE]
        /\ UNCHANGED <<asyncRunning, asyncTimers>>
     \/ /\ bin' = [bin EXCEPT ![s] = "failed"]
        /\ UNCHANGED <<asyncRunning, asyncTimers, reconfiguring>>

QueuedReset(s) ==
  /\ queuedResets[s] > 0
  /\ queuedResets' = [queuedResets EXCEPT ![s] = @ - 1]
  /\ ResetSource(s)
  /\ UNCHANGED <<envVars, haveEos, tries, watchdog, sinceReset, busVars>>

WatchDueEarly(s) ==           \* mutated: a second too early
  /\ watchdog[s]
  /\ IF reconfiguring[s]
     THEN sinceReconnect[s] >= ResetInterval
     ELSE Interval[s] > 0 /\ idle[s] + 1 >= Interval[s]
  /\ sinceReset > MinSpacing

WatchDueConnected(s) ==       \* mutated: a failed reconnection is not seen
  /\ watchdog[s]
  /\ ~reconfiguring[s] /\ Interval[s] > 0 /\ idle[s] >= Interval[s]
  /\ sinceReset > MinSpacing

(* watch_source_status: when it acts, the retry and the stop branch.       *)
WatchDue(s) ==
  /\ watchdog[s]
  /\ IF reconfiguring[s]
     THEN sinceReconnect[s] >= ResetInterval
     ELSE Interval[s] > 0 /\ idle[s] >= Interval[s]
  /\ sinceReset > MinSpacing

CountTryNever(s) == tries     \* mutated: ++ is lost

CountTryDown(s) ==            \* mutated: decremented
  IF Attempts[s] = -1 THEN tries ELSE [tries EXCEPT ![s] = @ - 1]

CountTry(s) == IF Attempts[s] = -1 THEN tries
               ELSE [tries EXCEPT ![s] = @ + 1]

HasTryPostfix(s) ==           \* mutated: compared before it is incremented
  Attempts[s] = -1 \/ tries[s] <= Attempts[s]

HasTry(s) == Attempts[s] = -1 \/ tries[s] + 1 <= Attempts[s]

KeepWatchdog(s) == UNCHANGED watchdog   \* mutated: TRUE is returned

RemoveWatchdog(s) == watchdog' = [watchdog EXCEPT ![s] = FALSE]

WatchRetry(s) ==
  /\ WatchDue(s)
  /\ HasTry(s)
  /\ tries' = CountTry(s)
  /\ sinceReset' = 0
  /\ ResetSource(s)
  /\ UNCHANGED <<envVars, haveEos, watchdog, queuedResets, busVars>>

WatchStop(s) ==
  /\ WatchDue(s)
  /\ ~HasTry(s)
  /\ tries' = CountTry(s)
  /\ CheckAndSendEos(tries', haveEos, [eos EXCEPT ![s] = TRUE])
  /\ \E b \in {"null", "failed"} : bin' = [bin EXCEPT ![s] = b]
  /\ broken' = [broken EXCEPT ![s] = FALSE]
  /\ RemoveWatchdog(s)
  /\ UNCHANGED <<envVars, haveEos, reconfiguring, asyncRunning, asyncTimers>>
  /\ UNCHANGED <<queuedResets, ageVars, revived>>

(* watch_source_async_state_change: nothing happens while the change goes  *)
(* on; otherwise the watch ends, or asks for PLAYING once more.            *)
WatchAsync(s) ==
  /\ asyncTimers[s] > 0
  /\ bin[s] # "async"
  /\ \/ /\ bin[s] = "failed"
        /\ asyncRunning' = [asyncRunning EXCEPT ![s] = FALSE]
        /\ asyncTimers' = [asyncTimers EXCEPT ![s] = @ - 1]
        /\ UNCHANGED <<bin, reconfiguring, tries>>
     \/ /\ bin[s] = "playing"
        /\ asyncRunning' = [asyncRunning EXCEPT ![s] = FALSE]
        /\ asyncTimers' = [asyncTimers EXCEPT ![s] = @ - 1]
        /\ reconfiguring' = [reconfiguring EXCEPT ![s] = FALSE]
        /\ tries' = [tries EXCEPT ![s] = 0]
        /\ UNCHANGED bin
     \/ /\ bin[s] \in {"paused", "null"}
        /\ \E b \in {"async"} \cup (Reachable(s) \ {"paused"}) :
             bin' = [bin EXCEPT ![s] = b]
        /\ UNCHANGED <<asyncRunning, asyncTimers, reconfiguring, tries>>
  /\ UNCHANGED <<envVars, broken, revived, eos, haveEos, watchdog>>
  /\ UNCHANGED <<queuedResets, ageVars, busVars>>

(* bus_callback: errors of an RTSP source, the final error, end of stream. *)
SourceError(k, s) ==
  /\ IF ~reconfiguring[s] \/ k = "error500"
     THEN /\ queuedResets[s] < MaxQueued
          /\ reconfiguring' = [reconfiguring EXCEPT ![s] = TRUE]
          /\ queuedResets' = [queuedResets EXCEPT ![s] = @ + 1]
     ELSE UNCHANGED <<reconfiguring, queuedResets>>
  /\ UNCHANGED quitVars

BusCallback ==
  /\ bus # <<>>
  /\ bus' = Tail(bus)
  /\ \/ \E k \in SourceErrors, s \in Sources :
          Head(bus) = <<k, s>> /\ SourceError(k, s)
     \/ /\ Head(bus) \in {<<Exceeded>>, <<PipelineEos>>}
        /\ quit' = TRUE
        /\ UNCHANGED <<reconfiguring, queuedResets, returnValue>>
     \/ /\ Head(bus) = <<Fatal>>
        /\ quit' = TRUE
        /\ returnValue' = -1
        /\ UNCHANGED <<reconfiguring, queuedResets>>
  /\ UNCHANGED <<envVars, binVars, eos, haveEos, tries, watchdog, asyncRunning>>
  /\ UNCHANGED <<asyncTimers, ageVars, muxProbe>>

-----------------------------------------------------------------------------
(* Time. A stream that flows delivers at least one buffer a second, the    *)
(* 20 ms watch sees within a second that a state change has ended and, when *)
(* Prompt, so does the one second watchdog when it has something to do.    *)
OnTime(s) ==
  /\ Flowing(s) /\ Interval[s] > 0 => idle[s] = 0
  /\ asyncTimers[s] > 0 => bin[s] \notin {"playing", "failed"}
  /\ Prompt => ~WatchDue(s)

Older(a) == IF a = Never \/ a = MaxAge THEN a ELSE a + 1

Tick ==
  /\ \A s \in Sources : OnTime(s)
  /\ idle' = [s \in Sources |-> Older(idle[s])]
  /\ sinceReconnect' = [s \in Sources |-> Older(sinceReconnect[s])]
  /\ sinceReset' = Older(sinceReset)
  /\ UNCHANGED <<envVars, binVars, eos, haveEos, reconfiguring, tries>>
  /\ UNCHANGED <<timerVars, busVars>>

(* Once quit is set event_thread_func ends the main loop at its next poll. *)
Next ==
  /\ ~quit
  /\ \/ \E s \in Sources :
          \/ Lose(s) \/ Recover(s) \/ Buffer(s) \/ EndOfStream(s)
          \/ \E k \in SourceErrors : PostError(s, k)
          \/ AsyncDone(s) \/ QueuedReset(s)
          \/ WatchRetry(s) \/ WatchStop(s) \/ WatchAsync(s)
     \/ Pause \/ Resume \/ PostFatal \/ BusCallback \/ Tick

Spec == Init /\ [][Next]_vars

(* The main loop and GStreamer keep running and time passes: no infinite   *)
(* burst of events fits in one second. Cameras, users and failures owe     *)
(* nothing.                                                                *)
Settled == /\ sinceReset = MaxAge
           /\ \A s \in Sources : /\ idle[s] \in {Never, MaxAge}
                                 /\ sinceReconnect[s] = MaxAge

Fairness ==
  /\ []<>(quit \/ Settled) \/ []<><<Tick>>_vars
  /\ WF_vars(~quit /\ BusCallback)
  /\ \A s \in Sources :
       /\ WF_vars(~quit /\ QueuedReset(s))
       /\ WF_vars(~quit /\ WatchRetry(s))
       /\ WF_vars(~quit /\ WatchStop(s))
       /\ WF_vars(~quit /\ WatchAsync(s))
       /\ WF_vars(~quit /\ AsyncDone(s))
       /\ WF_vars(~quit /\ Buffer(s))

FairSpec == Spec /\ Fairness

-----------------------------------------------------------------------------
(* At most one watch_source_async_state_change timer exists per source,    *)
(* and the flag says whether it does, however resets overlap (:1529-1533). *)
OneAsyncWatch ==
  \A s \in Sources : asyncTimers[s] = IF asyncRunning[s] THEN 1 ELSE 0

(* A watched source has not used more attempts than configured, and no     *)
(* source ever counts more than one beyond them (:635-641, :678-687).      *)
RetryBudget ==
  \A s \in Sources :
    IF Attempts[s] = -1
    THEN tries[s] = 0
    ELSE /\ tries[s] <= Attempts[s] + 1
         /\ watchdog[s] => tries[s] <= Attempts[s]

(* Unless an element outside the sources fails (returnValue = -1), the     *)
(* application does not give up, by error or by end of stream, while a     *)
(* source with reconnection enabled and a finite number of attempts is     *)
(* still being watched (:586-617, :782-789 and bus_callback).              *)
GaveUp == quit /\ returnValue = 0
GivingUp == \/ GaveUp
            \/ \E i \in 1 .. Len(bus) :
                 bus[i] \in {<<Exceeded>>, <<PipelineEos>>}
QuitOnlyWhenRetriesSpent ==
  GivingUp => \A s \in Sources :
                Interval[s] > 0 /\ Attempts[s] >= 0 => ~watchdog[s]

(* The watchdog never resets a source that is delivering buffers, the last *)
(* one no more than a second ago, and that has neither an error nor an     *)
(* asynchronous state change pending (comments at :619-623 and :674-675).  *)
(* The exception: after a reconnection that failed with reconfiguring left *)
(* TRUE (:737-739), a pause or resume of the pipeline can bring the stream *)
(* back behind the back of the watchdog, which then resets it once.        *)
Delivering(s) == /\ Flowing(s) /\ idle[s] \in 0 .. 1
                 /\ ~asyncRunning[s] /\ queuedResets[s] = 0
NoResetOfLiveStream ==
  [][\A s \in Sources : WatchRetry(s) => ~Delivering(s) \/ revived[s]]_vars

(* The whole of it implements the retry policy.                            *)
Policy == INSTANCE RetryPolicy WITH
  Limit <- Attempts, Enabled <- {s \in Sources : Interval[s] > 0},
  watched <- watchdog, over <- GaveUp
ImplementsRetryPolicy == Policy!Spec

(* When every camera is lost for good the application ends: each source    *)
(* uses up its attempts and the last one to stop posts the final error     *)
(* (:635-662, :678-708 and bus_callback). A source that has neither        *)
(* delivered a buffer nor reported an error is not yet known to be lost.   *)
KnownLost(s) == ~up[s] /\ (idle[s] # Never \/ reconfiguring[s])
NoError500 == \A s \in Sources, i \in DOMAIN bus : bus[i] # <<"error500", s>>
AllLostEndsApplication ==
  <>[](~paused /\ NoError500 /\ \A s \in Sources : KnownLost(s)) => <>quit

(* A camera with a limit on its attempts that is lost for good is stopped, *)
(* however the other cameras keep using the shared three second spacing    *)
(* (:635-663, :678-709).                                                   *)
LostSourceIsStopped ==
  \A s \in {r \in Sources : Attempts[r] >= 0} :
    <>[]KnownLost(s) => <>(quit \/ ~watchdog[s])

(* A lost camera is reset again and again as long as it is watched         *)
(* (comment at :619-623).                                                  *)
LostSourceIsReset ==
  \A s \in Sources :
    <>[](KnownLost(s) /\ watchdog[s] /\ ~quit) => []<>(sinceReconnect[s] = 0)

-----------------------------------------------------------------------------
(* What a message of the code says and the code does not keep.             *)

(* "Number of RTSP reconnect attempts exceeded, stopping source" (:643-644 *)
(* and :689-690): a stopped source stays down.                             *)
StoppedSourceStaysDown ==
  \A s \in Sources : ~watchdog[s] => bin[s] \in {"null", "failed"}
=============================================================================
