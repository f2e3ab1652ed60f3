--------------------------- MODULE MCRtspSource ---------------------------
(* Instances of RtspSource for TLC.                                       *)
EXTENDS RtspSource

CONSTANTS cam1, cam2

(* One camera, reconnection enabled, a single attempt.                    *)
OneInterval == [s \in {cam1} |-> 2]
OneAttempt  == [s \in {cam1} |-> 1]

(* Two cameras with reconnection enabled, one with an attempt, one without *)
BothInterval == [s \in {cam1, cam2} |-> 2]
OneAndNone == [s \in {cam1, cam2} |-> IF s = cam1 THEN 1 ELSE 0]

(* A camera that is retried for ever beside one with a single attempt.    *)
LongInterval == [s \in {cam1, cam2} |-> 3]
NoLimitAndOne == [s \in {cam1, cam2} |-> IF s = cam1 THEN -1 ELSE 1]
===========================================================================
