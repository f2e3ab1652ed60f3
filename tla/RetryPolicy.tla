----------------------------- MODULE RetryPolicy -----------------------------
(***************************************************************************)
(* What the reconnection of RTSP sources promises, without timers, states  *)
(* or messages: every watched source may be retried a limited number of    *)
(* times, a source out of attempts is given up once, a source that         *)
(* connects gets its attempts back, and the application is over only when  *)
(* no source with a limit is still being watched.                          *)
(***************************************************************************)
EXTENDS Integers

CONSTANTS
  Sources,   (* the sources                                              *)
  Limit,     (* attempts of each, -1 = no limit                          *)
  Enabled    (* the sources with reconnection enabled                    *)

VARIABLES tries, watched, over

policyVars == <<tries, watched, over>>

Init ==
  /\ tries = [s \in Sources |-> 0]
  /\ watched = [s \in Sources |-> TRUE]
  /\ over = FALSE

Retry(s) ==
  /\ watched[s]
  /\ tries[s] < Limit[s]
  /\ tries' = [tries EXCEPT ![s] = @ + 1]
  /\ UNCHANGED <<watched, over>>

GiveUp(s) ==
  /\ watched[s]
  /\ tries[s] = Limit[s]
  /\ tries' = [tries EXCEPT ![s] = @ + 1]
  /\ watched' = [watched EXCEPT ![s] = FALSE]
  /\ UNCHANGED over

Connected(s) ==
  /\ tries' = [tries EXCEPT ![s] = 0]
  /\ UNCHANGED <<watched, over>>

End ==
  /\ \A s \in Enabled : Limit[s] >= 0 => ~watched[s]
  /\ over' = TRUE
  /\ UNCHANGED <<tries, watched>>

Next ==
  /\ ~over
  /\ \/ \E s \in Sources : Retry(s) \/ GiveUp(s) \/ Connected(s)
     \/ End

Spec == Init /\ [][Next]_policyVars
=============================================================================
