---------------------------- MODULE TilerSelection ----------------------------
(***************************************************************************)
(* Showing one source of the tiled display and going back to the tiles     *)
(* (deepstream_proximity_main.c): the keyboard, read by event_thread_func  *)
(* on the main loop, and the mouse, read by nvds_x_event_thread, write the *)
(* same three places of an instance, one after the other and in different  *)
(* orders: show-source of the tiler, active_source_index and               *)
(* show_bbox_text.  At the end main closes windows and display under       *)
(* disp_lock, which the X thread holds except while it sleeps.             *)
(***************************************************************************)
EXTENDS Integers, Sequences, FiniteSets

CONSTANTS
  Rows, Columns,    (* tiled_display_config of each instance                 *)
  Digits,           (* bound: the digits that are typed                      *)
  TiledText         (* the option --tiledtext (show_bbox_text)               *)

\* Assumed by DisplayControl.
TilerAssumption ==
  /\ Rows \in [DOMAIN Rows -> Nat] /\ Columns \in [DOMAIN Rows -> Nat]
  /\ TiledText \in BOOLEAN
  /\ Digits \subseteq 0 .. 9

VARIABLES
  numInstances,
  num,              (* num_source_sub_bins of each instance                  *)
  showSource, activeSource, showText,
  selecting, rrow, rrowsel, rcfg,
  todo,             (* what the handlers of "main" and "x" still write       *)
  readingConfig,    (* main waits in fgetc for the digit after c             *)
  isRunning,        (* the main loop has not been asked to stop              *)
  phase, at,        (* where main is, and for which instance                 *)
  xThread,          (* "asleep", "looking", "pausing", "ended", or "crashed" *)
                    (* after it used what main has freed                     *)
  windows, pipelines, display,
  mixed             (* history: the last handlers of the instance overlapped *)

shown == <<showSource, activeSource, showText>>
keyVars == <<selecting, rrow, rrowsel, rcfg, readingConfig>>
endVars == <<phase, at, windows, pipelines, display>>
tilerVars == <<numInstances, shown, keyVars, todo, isRunning, xThread, endVars, mixed>>

Slots == DOMAIN Rows
Instances == 0 .. numInstances - 1
Threads == {"main", "x"}
Places == {"tiler", "active", "text"}
Holding == {"looking", "pausing"}   \* the X thread has disp_lock

TypeOK ==
  /\ numInstances \in Nat \ {0} /\ Instances \subseteq Slots
  /\ {showSource, activeSource} \subseteq [Slots -> Int]
  /\ {showText, mixed} \subseteq [Slots -> BOOLEAN]
  /\ {selecting, rrowsel, readingConfig, isRunning, display} \subseteq BOOLEAN
  /\ rrow \in 0 .. 9 /\ rcfg \in Instances
  /\ \A t \in Threads : \A j \in DOMAIN todo[t] :
       todo[t][j].place \in Places /\ todo[t][j].i \in Instances
  /\ phase \in {"loop", "destroy", "window", "display", "exited"}
  /\ at \in 0 .. numInstances
  /\ xThread \in Holding \cup {"asleep", "ended", "crashed"}
  /\ {windows, pipelines} \subseteq SUBSET Instances

Init ==
  /\ showSource = [i \in Slots |-> -1] /\ activeSource = [i \in Slots |-> -1]
  /\ showText = [i \in Slots |-> TiledText]
  /\ selecting = FALSE /\ rrow = 0 /\ rrowsel = FALSE /\ rcfg = 0
  /\ todo = [t \in Threads |-> <<>>] /\ readingConfig = FALSE
  /\ isRunning = TRUE /\ phase = "loop" /\ at = 0
  /\ xThread = "asleep"
  /\ windows = Instances /\ pipelines = Instances /\ display = TRUE
  /\ mixed = [i \in Slots |-> FALSE]

-----------------------------------------------------------------------------
(* What a handler writes, one statement at a time.                         *)
To(place, i, value) == [place |-> place, i |-> i, value |-> value]

KeyShows(i, s) == <<To("text", i, TRUE), To("active", i, s), To("tiler", i, s)>>
ClickShows(i, s) == <<To("tiler", i, s), To("active", i, s), To("text", i, TRUE)>>
ClearText(i) == IF TiledText THEN <<>> ELSE <<To("text", i, FALSE)>>
KeyTiles(i) == ClearText(i) \o <<To("tiler", i, -1), To("active", i, -1)>>
ClickTilesKeepActive(i) ==   \* mutated: active_source_index is not cleared
  <<To("tiler", i, -1)>> \o ClearText(i)
ClickTiles(i) == <<To("tiler", i, -1), To("active", i, -1)>> \o ClearText(i)

Other(t) == CHOOSE u \in Threads : u # t

Handle(t, i, writes) ==
  /\ todo' = [todo EXCEPT ![t] = writes]
  /\ mixed' = [mixed EXCEPT ![i] = \E j \in DOMAIN todo[Other(t)] : todo[Other(t)][j].i = i]

Write(t) ==
  /\ todo[t] # <<>>
  /\ LET w == Head(todo[t])
         written(place, f) == IF w.place = place THEN [f EXCEPT ![w.i] = w.value] ELSE f
     IN  /\ showSource' = written("tiler", showSource)
         /\ activeSource' = written("active", activeSource)
         /\ showText' = written("text", showText)
  /\ todo' = [todo EXCEPT ![t] = Tail(@)]
  /\ UNCHANGED <<numInstances, keyVars, isRunning, xThread, endVars, mixed>>

-----------------------------------------------------------------------------
(* event_thread_func.                                                      *)
MainIdle == phase = "loop" /\ todo["main"] = <<>> /\ ~readingConfig

(* The digit of a row, out of bounds or not, goes to rrow.                 *)
KeyRow(d) ==
  /\ MainIdle /\ selecting /\ ~rrowsel
  /\ rrow' = d /\ rrowsel' = (d < Rows[rcfg])
  /\ UNCHANGED <<numInstances, shown, selecting, rcfg, readingConfig, todo>>
  /\ UNCHANGED <<isRunning, xThread, endVars, mixed>>

(* The digit of a column ends the selection; a tile without a source is    *)
(* not shown.                                                              *)
KeyColumn(d) ==
  /\ MainIdle /\ selecting /\ rrowsel /\ d < Columns[rcfg]
  /\ selecting' = FALSE /\ rrowsel' = FALSE
  /\ LET s == Columns[rcfg] * rrow + d
     IN  IF s >= num[rcfg] THEN UNCHANGED <<todo, mixed>>
         ELSE Handle("main", rcfg, KeyShows(rcfg, s))
  /\ UNCHANGED <<numInstances, shown, rrow, rcfg, readingConfig, isRunning>>
  /\ UNCHANGED <<xThread, endVars>>

KeySelect ==   \* z in tiled mode
  /\ MainIdle /\ showSource[rcfg] = -1 /\ ~selecting
  /\ selecting' = TRUE
  /\ UNCHANGED <<numInstances, shown, rrow, rrowsel, rcfg, readingConfig, todo>>
  /\ UNCHANGED <<isRunning, xThread, endVars, mixed>>

KeyTiled ==    \* z otherwise; a row selected before stays selected
  /\ MainIdle /\ (showSource[rcfg] # -1 \/ selecting)
  /\ selecting' = FALSE /\ rcfg' = 0
  /\ Handle("main", rcfg, KeyTiles(rcfg))
  /\ UNCHANGED <<numInstances, shown, rrow, rrowsel, readingConfig, isRunning>>
  /\ UNCHANGED <<xThread, endVars>>

KeyConfig ==   \* c
  /\ MainIdle /\ showSource[rcfg] = -1 /\ ~selecting
  /\ readingConfig' = TRUE
  /\ UNCHANGED <<numInstances, shown, selecting, rrow, rrowsel, rcfg, todo>>
  /\ UNCHANGED <<isRunning, xThread, endVars, mixed>>

ConfigDigit(d) ==
  /\ readingConfig
  /\ readingConfig' = FALSE
  /\ rcfg' = IF d < numInstances THEN d ELSE 0
  /\ UNCHANGED <<numInstances, shown, selecting, rrow, rrowsel, todo>>
  /\ UNCHANGED <<isRunning, xThread, endVars, mixed>>

ConfigOther ==   \* a key that is no digit
  /\ readingConfig
  /\ readingConfig' = FALSE
  /\ UNCHANGED <<numInstances, shown, selecting, rrow, rrowsel, rcfg, todo>>
  /\ UNCHANGED <<isRunning, xThread, endVars, mixed>>

Quit ==        \* q, on the keyboard or in a window, or a window is closed
  /\ isRunning
  /\ MainIdle \/ (xThread = "looking" /\ todo["x"] = <<>>)
  /\ isRunning' = FALSE
  /\ UNCHANGED <<numInstances, shown, keyVars, todo, xThread, endVars, mixed>>

Keyboard ==
  \/ \E d \in Digits : KeyRow(d) \/ KeyColumn(d) \/ ConfigDigit(d)
  \/ KeySelect \/ KeyTiled \/ KeyConfig \/ ConfigOther

-----------------------------------------------------------------------------
(* nvds_x_event_thread.                                                    *)
LockFreeAwake == xThread = "ended"   \* mutated: disp_lock is kept while asleep

LockFree == xThread \notin Holding

XWake ==
  /\ xThread = "asleep"
  /\ xThread' = IF display THEN "looking" ELSE "ended"
  /\ UNCHANGED <<numInstances, shown, keyVars, todo, isRunning, endVars, mixed>>

XSleep ==
  /\ xThread = "looking" /\ todo["x"] = <<>>
  /\ xThread' = "asleep"
  /\ UNCHANGED <<numInstances, shown, keyVars, todo, isRunning, endVars, mixed>>

XIdle == xThread = "looking" /\ todo["x"] = <<>>

(* Events that wait in the queue of the display may be of a window that is *)
(* gone, whose index is then MAX_INSTANCES, or whose pipeline is.          *)
Gone(i) == i \notin windows \cap pipelines

LeftClick(i, tile) ==
  /\ XIdle /\ ~Gone(i)
  /\ showSource[i] = -1 /\ tile < num[i]
  /\ Handle("x", i, ClickShows(i, tile))
  /\ UNCHANGED <<numInstances, shown, keyVars, isRunning, xThread, endVars>>

RightClick(i) ==
  /\ XIdle /\ ~Gone(i)
  /\ Handle("x", i, ClickTiles(i))
  /\ UNCHANGED <<numInstances, shown, keyVars, isRunning, xThread, endVars>>

LateClick(i) ==
  /\ XIdle /\ Gone(i)
  /\ xThread' \in {"crashed", xThread}
  /\ UNCHANGED <<numInstances, shown, keyVars, todo, isRunning, endVars, mixed>>

(* p and r wait for the pipelines of all instances.                        *)
XPause ==
  /\ XIdle
  /\ xThread' \in IF pipelines = Instances THEN {"pausing"} ELSE {"pausing", "crashed"}
  /\ UNCHANGED <<numInstances, shown, keyVars, todo, isRunning, endVars, mixed>>
XPaused ==
  /\ xThread = "pausing"
  /\ xThread' = "looking"
  /\ UNCHANGED <<numInstances, shown, keyVars, todo, isRunning, endVars, mixed>>

Tiles(i) == 0 .. Rows[i] * Columns[i] - 1
XEvent ==
  \/ \E i \in Instances :
       \/ \E tile \in Tiles(i) : LeftClick(i, tile)
       \/ RightClick(i) \/ LateClick(i)
  \/ XPause

-----------------------------------------------------------------------------
(* main, after the loop.                                                   *)
LeaveLoop ==
  /\ MainIdle /\ ~isRunning
  /\ phase' = "destroy"
  /\ UNCHANGED <<numInstances, shown, keyVars, todo, isRunning, xThread, mixed>>
  /\ UNCHANGED <<at, windows, pipelines, display>>

DestroyPipeline ==
  /\ phase = "destroy"
  /\ phase' = "window"
  /\ pipelines' = pipelines \ {at}
  /\ UNCHANGED <<numInstances, shown, keyVars, todo, isRunning, xThread, mixed>>
  /\ UNCHANGED <<at, windows, display>>

(* The instance is freed right after its window.                           *)
DestroyWindow ==
  /\ phase = "window" /\ LockFree
  /\ windows' = windows \ {at}
  /\ at' = at + 1
  /\ phase' = IF at + 1 < numInstances THEN "destroy" ELSE "display"
  /\ UNCHANGED <<numInstances, shown, keyVars, todo, isRunning, xThread, mixed>>
  /\ UNCHANGED <<pipelines, display>>

CloseDisplay ==
  /\ phase = "display" /\ LockFree
  /\ phase' = "exited" /\ display' = FALSE
  /\ UNCHANGED <<numInstances, shown, keyVars, todo, isRunning, xThread, mixed>>
  /\ UNCHANGED <<at, windows, pipelines>>

Teardown == DestroyPipeline \/ DestroyWindow \/ CloseDisplay

-----------------------------------------------------------------------------
(* When no handler is at work, the tiler, the index that overlay_graphics  *)
(* draws for and the switch of the labels say the same, unless the two     *)
(* last handlers of the instance overlapped: keyboard and mouse write in   *)
(* opposite orders without a lock (:350-352 and :476-478).  The next       *)
(* handler that runs alone mends it.                                       *)
DisplayAgrees ==
  \A i \in Instances :
    todo["main"] = <<>> /\ todo["x"] = <<>> /\ ~mixed[i] =>
      /\ activeSource[i] = showSource[i]
      /\ showText[i] = (TiledText \/ showSource[i] # -1)

(* Once main has left the loop it gets disp_lock for every window and the  *)
(* display and exits, although the X thread holds the lock while it waits  *)
(* for pipelines to change state (:838-854), unless that thread has        *)
(* stumbled over what main has freed.                                      *)
TeardownEnds == (phase # "loop") ~> (phase = "exited" \/ xThread = "crashed")
=============================================================================
