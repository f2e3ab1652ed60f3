---------------------------- MODULE InferenceStage ----------------------------
(***************************************************************************)
(* What a bin of parallel engines promises its neighbours, whatever is     *)
(* inside it: frames leave in the order in which they arrived, each once,  *)
(* and each with the result of every engine, unless the end of the stream  *)
(* has arrived meanwhile.  SecondaryGie and SecondaryPreprocess implement   *)
(* it.                                                                     *)
(***************************************************************************)
EXTENDS Naturals, Sequences

VARIABLES
  engines,  (* the engines every frame needs                               *)
  inside,   (* the frames that have not left, in the order of arrival      *)
  results,  (* results[f]: the engines that have seen frame f              *)
  ended,    (* the end of the stream has arrived                           *)
  up        (* there is a pipeline                                         *)

vars == <<engines, inside, results, ended, up>>

Init ==
  /\ inside = << >>
  /\ \A f \in DOMAIN results : results[f] = {}
  /\ ~ended /\ ~up

Arrive(f) ==
  /\ f \notin {inside[i] : i \in 1..Len(inside)}
  /\ inside' = Append(inside, f)
  /\ UNCHANGED <<engines, results, ended, up>>

\* An engine may be late: it may see a frame that left after the end.
Infer(f, e) ==
  /\ e \in engines \ results[f]
  /\ results' = [results EXCEPT ![f] = @ \cup {e}]
  /\ UNCHANGED <<engines, inside, ended, up>>

Leave ==
  /\ inside # << >>
  /\ results[Head(inside)] = engines \/ ended
  /\ inside' = Tail(inside)
  /\ UNCHANGED <<engines, results, ended, up>>

End == ended' = TRUE /\ UNCHANGED <<engines, inside, results, up>>

\* The pipeline goes or a new one comes: empty, not ended, perhaps with other
\* engines.
Renew ==
  /\ up' = ~up
  /\ inside' = << >>
  /\ ~ended'
  /\ UNCHANGED results

Next ==
  \/ \E f \in DOMAIN results : Arrive(f) \/ \E e \in engines : Infer(f, e)
  \/ Leave \/ End \/ Renew

Spec == Init /\ [][Next]_vars
=============================================================================
