---------------------------- MODULE DisplayControl ----------------------------
(***************************************************************************)
(* Sources that come and go under a user who selects one of them: the bus  *)
(* callback and the keyboard handler take turns on the main loop, the      *)
(* mouse is served by a thread of its own that reads num_source_sub_bins   *)
(* and writes the display without a lock.  The first instance has the      *)
(* sources of DynamicSources; a second one, of another configuration file, *)
(* has a fixed number of them.                                             *)
(***************************************************************************)
EXTENDS Integers, Sequences, FiniteSets

CONSTANTS
  MaxSources, Rows, Columns, Digits, TiledText,
  SecondSources, (* the number of sources of the second instance             *)
  Scenarios      (* the command lines: number of instances, whether the      *)
                 (* first uses nvmultiurisrcbin, with how many configured    *)
                 (* sources, whether somebody is at keyboard and mouse, and  *)
                 (* a bound on the messages of the bus while they are        *)

VARIABLES
  multiUri, kind, exceeded, numSources, sensors, fpsSensors, streams,
  eosReceived, quit, watch, addedLate,
  numInstances, showSource, activeSource, showText,
  selecting, rrow, rrowsel, rcfg, todo, readingConfig, isRunning, phase, at,
  xThread, windows, pipelines, display, mixed,
  attended,
  messages       (* bound: messages that may still come                      *)

Dynamic == INSTANCE DynamicSources
num == [i \in DOMAIN Rows |-> IF i = 0 THEN numSources ELSE SecondSources]
Tiler == INSTANCE TilerSelection

ASSUME DisplayAssumption ==
  /\ Dynamic!DynamicAssumption /\ Tiler!TilerAssumption
  /\ \A s \in Scenarios : /\ s.instances \in Nat \ {0} /\ s.messages \in Nat
                          /\ 0 .. s.instances - 1 \subseteq DOMAIN Rows
                          /\ {s.multiUri, s.attended} \subseteq BOOLEAN

dynamicVars ==
  <<multiUri, kind, exceeded, numSources, sensors, fpsSensors, streams,
    eosReceived, quit, watch, addedLate>>
tilerVars ==
  <<numInstances, showSource, activeSource, showText, selecting, rrow, rrowsel,
    rcfg, todo, readingConfig, isRunning, phase, at, xThread, windows,
    pipelines, display, mixed>>
vars == <<dynamicVars, tilerVars, attended, messages>>

Init ==
  /\ \E s \in Scenarios :
       /\ numInstances = s.instances /\ multiUri = s.multiUri
       /\ Dynamic!Init
       /\ Cardinality({i \in Dynamic!Ids : kind[i] # "none"}) \in s.configured
       /\ attended = s.attended /\ messages = s.messages
  /\ Tiler!Init

BusCallback ==
  /\ Tiler!MainIdle /\ Dynamic!BusCallback
  /\ attended => messages > 0
  /\ messages' = IF attended THEN messages - 1 ELSE messages
  /\ UNCHANGED <<tilerVars, attended>>

Same == UNCHANGED <<dynamicVars, attended, messages>>

(* event_thread_func finds that every instance has quit; the second one    *)
(* does so at any time.                                                    *)
AllQuit == quit /\ Tiler!MainIdle /\ Tiler!Quit /\ Same

User == attended /\ (Tiler!Keyboard \/ Tiler!XEvent \/ Tiler!Quit) /\ Same
Handlers == (\E t \in {"main", "x"} : Tiler!Write(t)) /\ Same
XWake == attended /\ Tiler!XWake /\ Same
XSleep == Tiler!XSleep /\ Same
XPaused == Tiler!XPaused /\ Same
Main == (Tiler!LeaveLoop \/ Tiler!Teardown) /\ Same

Next ==
  BusCallback \/ AllQuit \/ User \/ Handlers \/ XWake \/ XSleep \/ XPaused \/ Main

Spec == Init /\ [][Next]_vars

(* Both threads go on, pipelines change state in the end, and every time   *)
(* the X thread has come to the end of its queue it sleeps for 50 ms, in   *)
(* which a waiting main gets the lock.                                     *)
Fairness ==
  /\ WF_vars(Handlers) /\ WF_vars(XPaused) /\ SF_vars(XSleep) /\ SF_vars(Main)
FairSpec == Spec /\ Fairness

-----------------------------------------------------------------------------
DisplayAgrees == Tiler!DisplayAgrees
TeardownEnds == Tiler!TeardownEnds
EndNotMissed == Dynamic!EndNotMissed
=============================================================================
