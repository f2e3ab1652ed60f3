---------------------------- MODULE MCSmartRecord ----------------------------
(* Instances of SmartRecord for TLC.                                       *)
EXTENDS SmartRecord

(* Batches of up to two frames, with fewer, as many and more objects than  *)
(* a packet holds.                                                         *)
SomeBatches == {<<0>>, <<2>>, <<3, 1>>, <<1, 2>>, <<1, 3>>}

(* Bound: the recording moves only while the one sender that is not of     *)
(* appCtx[0] rests, and the other one sends at most a frame without        *)
(* objects then.  Both senders and all batches are explored beside a       *)
(* recording at rest.                                                      *)
RecordingRests == lastCommand = "" /\ ~disturbed
OneSender ==
  /\ \A a \in Senders \ Recreated : Idle(a)
  /\ \A a \in Recreated : packet[a] = NoPacket /\ Len(frames[a]) <= 1
RecordingOrSenders == RecordingRests \/ OneSender
=============================================================================
