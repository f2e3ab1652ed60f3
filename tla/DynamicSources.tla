---------------------------- MODULE DynamicSources ----------------------------
(***************************************************************************)
(* The sources of a pipeline that comes and goes at run time: the messages *)
(* nvmultiurisrcbin posts when a stream is added or removed or an RTSP     *)
(* camera has used up its attempts, and the end of stream of such a        *)
(* pipeline, as bus_callback of deepstream_proximity.c handles them.       *)
(*                                                                         *)
(* The element is not part of the repository.  It announces the streams of *)
(* the configured uri-list or it does not, gives a stream an id that is    *)
(* free, and removes streams that are there.                               *)
(***************************************************************************)
EXTENDS Integers, FiniteSets, FiniteSetsExt

CONSTANTS
  MaxSources    (* MAX_SOURCE_BINS                                          *)

Ids == 0 .. MaxSources - 1

\* Assumed by DisplayControl.
DynamicAssumption == MaxSources \in Nat \ {0}

VARIABLES
  multiUri,     (* use_nvmultiurisrcbin                                      *)
  kind,         (* multi_source_config[i].type                               *)
  exceeded,     (* multi_source_config[i].rtsp_reconnect_attempt_exceeded    *)
  numSources,   (* num_source_sub_bins                                       *)
  sensors,      (* the keys of sensorInfoHash ...                            *)
  fpsSensors,   (* ... and of perf_struct.FPSInfoHash                        *)
  streams,      (* the streams the element has                               *)
  eosReceived, quit,
  watch,        (* the bus watch is installed                                *)
  addedLate     (* history: a stream was added after the end of stream       *)

sourceVars == <<kind, exceeded, numSources, sensors, fpsSensors, streams, addedLate>>
dynamicVars == <<multiUri, sourceVars, eosReceived, quit, watch>>

Kinds == {"none", "rtsp", "uri"}

TypeOK ==
  /\ {multiUri, eosReceived, quit, watch, addedLate} \subseteq BOOLEAN
  /\ kind \in [Ids -> Kinds] /\ exceeded \in [Ids -> BOOLEAN]
  /\ numSources \in 0 .. 2 * MaxSources + 1
  /\ {sensors, fpsSensors, streams} \subseteq SUBSET Ids

(* What parse_config_file and create_pipeline leave: n configured sources  *)
(* in the first slots, or none, and then the count is 1 for the one bin    *)
(* that waits for streams (:1416-1429).                                    *)
Init ==
  \E n \in 0 .. MaxSources :
    /\ n = 0 => multiUri
    /\ numSources = IF n = 0 THEN 1 ELSE n
    /\ kind \in [Ids -> Kinds]
    /\ \A i \in Ids : (kind[i] = "none") <=> (i >= n)
    /\ streams \in IF multiUri THEN {{}, 0 .. n - 1} ELSE {0 .. n - 1}
    /\ exceeded = [i \in Ids |-> FALSE]
    /\ sensors = {} /\ fpsSensors = {}
    /\ eosReceived = FALSE /\ quit = FALSE /\ watch = TRUE /\ addedLate = FALSE

-----------------------------------------------------------------------------
(* Cases of bus_callback.                                                  *)

Served == watch /\ multiUri

StreamAdd(i, k) ==
  /\ Served /\ i \notin streams
  /\ numSources' = numSources + 1
  /\ sensors' = sensors \cup {i} /\ fpsSensors' = fpsSensors \cup {i}
  /\ kind' = [kind EXCEPT ![i] = k]
  /\ streams' = streams \cup {i}
  /\ addedLate' = (addedLate \/ eosReceived)
  /\ UNCHANGED <<multiUri, exceeded, eosReceived, quit, watch>>

(* The type, the uri and the flag of the slot stay.                        *)
StreamRemove(i) ==
  /\ Served /\ i \in streams
  /\ numSources' = numSources - 1
  /\ sensors' = sensors \ {i} /\ fpsSensors' = fpsSensors \ {i}
  /\ streams' = streams \ {i}
  /\ UNCHANGED <<multiUri, kind, exceeded, eosReceived, quit, watch, addedLate>>

Rtsp == {i \in Ids : kind[i] = "rtsp"}

AllExceededAmong(ids, e) == \A i \in ids : e[i]

EverySlotExceeded(e) == AllExceededAmong(Ids, e)   \* mutated: type not tested

(* rec_attempt_exceeded_for_all                                            *)
ExceededForAll(e) == AllExceededAmong(Rtsp, e)

(* attempted: whether the message says that the attempts are exceeded.     *)
ReconnectAttemptExceeded(i, attempted) ==
  /\ Served /\ i \in streams \cap Rtsp
  /\ exceeded' = [exceeded EXCEPT ![i] = @ \/ attempted]
  /\ LET over == eosReceived /\ ExceededForAll(exceeded')
     IN  quit' = (quit \/ over) /\ watch' = ~over
  /\ UNCHANGED <<multiUri, kind, numSources, sensors, fpsSensors, streams>>
  /\ UNCHANGED <<eosReceived, addedLate>>

(* app_quit of the EOS case: each RTSP source of the loop overwrites what  *)
(* the ones before it said.                                                *)
LastExceeded == Rtsp = {} \/ exceeded[Max(Rtsp)]

Eos ==
  /\ watch
  /\ eosReceived' = (eosReceived \/ multiUri)
  /\ LET over == ~multiUri \/ LastExceeded
     IN  quit' = (quit \/ over) /\ watch' = ~over
  /\ UNCHANGED <<multiUri, sourceVars>>

ForcePipelineEos ==
  /\ watch
  /\ quit' = TRUE
  /\ UNCHANGED <<multiUri, sourceVars, eosReceived, watch>>

BusCallback ==
  \/ \E i \in Ids : \/ \E k \in Kinds \ {"none"} : StreamAdd(i, k)
                    \/ StreamRemove(i)
                    \/ \E attempted \in BOOLEAN : ReconnectAttemptExceeded(i, attempted)
  \/ Eos \/ ForcePipelineEos

-----------------------------------------------------------------------------
(* The end is not missed: whichever of the end of stream and the messages  *)
(* of the cameras that are given up comes first, an application that goes  *)
(* on after the end of stream still waits for a camera (:266-289, :354-368).*)
(* A stream added after the end of stream may take the slot of that camera. *)
EndNotMissed ==
  eosReceived /\ watch /\ ~addedLate => \E i \in Rtsp : ~exceeded[i]
=============================================================================
