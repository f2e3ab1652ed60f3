------------------------ MODULE DisplayControl_proofs ------------------------
(* Proofs about DisplayControl, for every number of slots and instances,    *)
(* every layout of the tiles and every command line.                       *)
EXTENDS DisplayControl, FiniteSetTheorems, WellFoundedInduction, TLAPS

-----------------------------------------------------------------------------
(* The end of stream and the cameras that are given up.                    *)

LEMMA LeastNumber ==
  ASSUME NEW S \in SUBSET Nat, S # {}
  PROVE  \E m \in S : \A n \in S : m <= n
<1>1. \E m \in S : \A n \in S : ~(<<n, m>> \in OpToRel(<, Nat))
  BY NatLessThanWellFounded, WFMin
<1>2. ASSUME NEW m \in S, NEW n \in S, ~(<<n, m>> \in OpToRel(<, Nat))
      PROVE  m <= n
  BY <1>2 DEF OpToRel
<1>. QED
  BY <1>1, <1>2

(* The last of the cameras is one of them.                                 *)
LEMMA MaxIsMember ==
  ASSUME NEW N \in Nat, NEW S \in SUBSET (0 .. N), S # {}
  PROVE  Dynamic!Max(S) \in S
<1> DEFINE Above == {N - i : i \in S}
<1>1. Above \in SUBSET Nat /\ Above # {}
  <2>1. \A i \in S : N - i \in Nat
    OBVIOUS
  <2>. QED
    BY <2>1
<1>2. PICK m \in Above : \A n \in Above : m <= n
  BY <1>1, LeastNumber
<1>3. PICK x \in S : m = N - x
  BY <1>2
<1>4. ASSUME NEW y \in S PROVE x >= y
  <2>1. N - x <= N - y
    BY <1>2, <1>3
  <2>. QED
    BY <2>1
<1>. QED
  BY <1>4 DEF Dynamic!Max

LEMMA EndInit == Init => EndNotMissed
<1> SUFFICES ASSUME Init PROVE EndNotMissed
  OBVIOUS
<1>1. ~eosReceived
  BY Zenon DEF Init, Dynamic!Init
<1>. QED
  BY Zenon, <1>1 DEF EndNotMissed, Dynamic!EndNotMissed

LEMMA EndNext == EndNotMissed /\ [Next]_vars => EndNotMissed'
<1> SUFFICES ASSUME EndNotMissed, [Next]_vars PROVE EndNotMissed'
  OBVIOUS
<1>. USE DEF EndNotMissed, Dynamic!EndNotMissed, Dynamic!sourceVars
<1>1. CASE UNCHANGED dynamicVars
  BY Zenon, <1>1 DEF dynamicVars, Dynamic!Rtsp
<1>2. ASSUME NEW i \in Dynamic!Ids, NEW k \in Dynamic!Kinds \ {"none"}, Dynamic!StreamAdd(i, k)
      PROVE  EndNotMissed'
  BY Zenon, <1>2 DEF Dynamic!StreamAdd, Dynamic!Rtsp
<1>3. ASSUME NEW i \in Dynamic!Ids, Dynamic!StreamRemove(i)
      PROVE  EndNotMissed'
  BY Zenon, <1>3 DEF Dynamic!StreamRemove, Dynamic!Rtsp
<1>4. ASSUME NEW i \in Dynamic!Ids, NEW attempted \in BOOLEAN,
             Dynamic!ReconnectAttemptExceeded(i, attempted)
      PROVE  EndNotMissed'
  BY Zenon, <1>4 DEF Dynamic!ReconnectAttemptExceeded, Dynamic!ExceededForAll,
     Dynamic!AllExceededAmong, Dynamic!Rtsp
<1>5. CASE Dynamic!Eos
  <2> SUFFICES ASSUME watch' PROVE \E i \in Dynamic!Rtsp : ~exceeded[i]
    BY Zenon, <1>5 DEF Dynamic!Eos, Dynamic!Rtsp
  <2>1. Dynamic!Rtsp # {} /\ ~exceeded[Dynamic!Max(Dynamic!Rtsp)]
    BY Zenon, <1>5 DEF Dynamic!Eos, Dynamic!LastExceeded
  <2>2. Dynamic!Rtsp \in SUBSET (0 .. MaxSources) /\ MaxSources \in Nat
    BY DisplayAssumption DEF Dynamic!DynamicAssumption, Dynamic!Ids, Dynamic!Rtsp
  <2>3. Dynamic!Max(Dynamic!Rtsp) \in Dynamic!Rtsp
    BY Zenon, <2>1, <2>2, MaxIsMember
  <2>. QED
    BY Zenon, <2>1, <2>3
<1>6. CASE Dynamic!ForcePipelineEos
  BY Zenon, <1>6 DEF Dynamic!ForcePipelineEos, Dynamic!Rtsp
<1>7. CASE BusCallback
  BY Zenon, <1>2, <1>3, <1>4, <1>5, <1>6, <1>7 DEF BusCallback, Dynamic!BusCallback
<1>8. ASSUME AllQuit \/ User \/ Handlers \/ XWake \/ XSleep \/ XPaused \/ Main
      PROVE  UNCHANGED dynamicVars
  BY Zenon, <1>8 DEF AllQuit, User, Handlers, XWake, XSleep, XPaused, Main, Same
<1>9. CASE UNCHANGED vars
  BY Zenon, <1>1, <1>9 DEF vars
<1>. QED
  BY Zenon, <1>1, <1>7, <1>8, <1>9 DEF Next

(* Whichever of the end of stream and the cameras that are given up comes   *)
(* first, an application that goes on after the end of stream still waits   *)
(* for a camera: the end of stream looks at the last camera only            *)
(* (bus_callback, deepstream_proximity.c:354-368), which is enough to go on *)
(* and never ends too late.                                                *)
THEOREM EndIsNotMissed == Spec => []EndNotMissed
<1>1. EndNotMissed /\ [Next]_vars => EndNotMissed'
  BY EndNext
<1>. QED
  BY <1>1, EndInit, PTL DEF Spec

-----------------------------------------------------------------------------
(* What the handlers of keyboard and mouse still have to write.             *)

Writes ==
  [place : {"tiler", "active"}, i : Tiler!Instances, value : Int]
    \cup [place : {"text"}, i : Tiler!Instances, value : BOOLEAN]

HandlerWrites(i) ==
  {Tiler!KeyTiles(i), Tiler!ClickTiles(i)}
    \cup {Tiler!KeyShows(i, s) : s \in Nat} \cup {Tiler!ClickShows(i, s) : s \in Nat}

Entries(q) == {q[j] : j \in DOMAIN q}

LEMMA EntriesOfTuples ==
  /\ Entries(<<>>) = {}
  /\ \A a : Entries(<<a>>) = {a}
  /\ \A a, b : Entries(<<a, b>>) = {a, b}
  /\ \A a, b, c : Entries(<<a, b, c>>) = {a, b, c}
<1>1. Entries(<<>>) = {}
  BY DEF Entries
<1>4. ASSUME NEW a PROVE Entries(<<a>>) = {a}
  BY DEF Entries
<1>2. ASSUME NEW a, NEW b PROVE Entries(<<a, b>>) = {a, b}
  BY DEF Entries
<1>3. ASSUME NEW a, NEW b, NEW c PROVE Entries(<<a, b, c>>) = {a, b, c}
  BY DEF Entries
<1>. QED
  BY <1>1, <1>2, <1>3, <1>4

LEMMA TupleIsSeq ==
  ASSUME NEW S, NEW a \in S, NEW b \in S, NEW c \in S
  PROVE  <<>> \in Seq(S) /\ <<a>> \in Seq(S) /\ <<a, b, c>> \in Seq(S)
OBVIOUS

LEMMA EntriesOfTail ==
  ASSUME NEW S, NEW q \in Seq(S), q # <<>>
  PROVE  /\ Entries(q) = {Head(q)} \cup Entries(Tail(q))
         /\ Head(q) \in S /\ Tail(q) \in Seq(S)
<1>1. /\ DOMAIN q = 1 .. Len(q) /\ Len(q) \in Nat /\ Len(q) >= 1
      /\ DOMAIN Tail(q) = 1 .. Len(q) - 1
      /\ \A j \in 1 .. Len(q) - 1 : Tail(q)[j] = q[j + 1]
      /\ Head(q) = q[1]
  OBVIOUS
<1>2. Head(q) \in S /\ Tail(q) \in Seq(S)
  OBVIOUS
<1>3. \A j \in DOMAIN Tail(q) : j + 1 \in DOMAIN q /\ Tail(q)[j] = q[j + 1]
  BY <1>1
<1>4. \A j \in DOMAIN q : j = 1 \/ (j - 1 \in DOMAIN Tail(q) /\ Tail(q)[j - 1] = q[j])
  BY <1>1
<1>5. \A j \in DOMAIN q : q[j] \in {Head(q)} \cup Entries(Tail(q))
  BY <1>1, <1>4 DEF Entries
<1>6. \A j \in DOMAIN Tail(q) : Tail(q)[j] \in Entries(q)
  BY <1>3 DEF Entries
<1>7. Head(q) \in Entries(q)
  BY <1>1 DEF Entries
<1>8. Entries(q) \subseteq {Head(q)} \cup Entries(Tail(q))
  BY Zenon, <1>5 DEF Entries
<1>9. Entries(Tail(q)) \subseteq Entries(q)
  BY Zenon, <1>6 DEF Entries
<1>. QED
  BY <1>2, <1>7, <1>8, <1>9

LEMMA EntriesOfConcat ==
  ASSUME NEW S, NEW q \in Seq(S), NEW r \in Seq(S)
  PROVE  Entries(q \o r) = Entries(q) \cup Entries(r)
<1>1. /\ DOMAIN q = 1 .. Len(q) /\ Len(q) \in Nat
      /\ DOMAIN r = 1 .. Len(r) /\ Len(r) \in Nat
      /\ DOMAIN (q \o r) = 1 .. Len(q) + Len(r)
      /\ \A j \in 1 .. Len(q) : (q \o r)[j] = q[j]
      /\ \A j \in 1 .. Len(r) : (q \o r)[Len(q) + j] = r[j]
  OBVIOUS
<1>2. \A j \in DOMAIN q : (q \o r)[j] = q[j] /\ j \in DOMAIN (q \o r)
  BY <1>1
<1>3. \A j \in DOMAIN r : (q \o r)[Len(q) + j] = r[j] /\ Len(q) + j \in DOMAIN (q \o r)
  BY <1>1
<1>4. ASSUME NEW j \in DOMAIN (q \o r)
      PROVE  \/ j \in DOMAIN q /\ (q \o r)[j] = q[j]
             \/ j - Len(q) \in DOMAIN r /\ (q \o r)[j] = r[j - Len(q)]
  <2>1. CASE j <= Len(q)
    BY <1>1, <2>1
  <2>2. CASE j > Len(q)
    <3>1. j - Len(q) \in 1 .. Len(r) /\ j = Len(q) + (j - Len(q))
      BY <1>1, <2>2
    <3>. QED
      BY <1>1, <3>1
  <2>. QED
    BY <1>1, <2>1, <2>2
<1>5. Entries(q \o r) \subseteq Entries(q) \cup Entries(r)
  BY Zenon, <1>4 DEF Entries
<1>6. Entries(q) \subseteq Entries(q \o r) /\ Entries(r) \subseteq Entries(q \o r)
  BY Zenon, <1>2, <1>3 DEF Entries
<1>. QED
  BY <1>5, <1>6

LabelOn(i)   == Tiler!To("text", i, TRUE)
LabelOff(i)  == Tiler!To("text", i, FALSE)
Tile(i, v)   == Tiler!To("tiler", i, v)
Active(i, v) == Tiler!To("active", i, v)

(* The handlers write each place of one instance, the labels last or first; *)
(* with --tiledtext nobody clears the switch of the labels.                *)
LEMMA WritesOfHandlers ==
  ASSUME NEW i \in Tiler!Instances, NEW s \in Int
  PROVE  /\ {Tiler!KeyShows(i, s), Tiler!ClickShows(i, s), Tiler!KeyTiles(i),
             Tiler!ClickTiles(i)} \subseteq Seq(Writes)
         /\ Entries(Tiler!KeyShows(i, s)) = {LabelOn(i), Active(i, s), Tile(i, s)}
         /\ Entries(Tiler!ClickShows(i, s)) = {LabelOn(i), Active(i, s), Tile(i, s)}
         /\ TiledText => /\ Entries(Tiler!KeyTiles(i)) = {Tile(i, -1), Active(i, -1)}
                         /\ Entries(Tiler!ClickTiles(i)) = {Tile(i, -1), Active(i, -1)}
         /\ ~TiledText =>
              /\ Entries(Tiler!KeyTiles(i)) = {LabelOff(i), Tile(i, -1), Active(i, -1)}
              /\ Entries(Tiler!ClickTiles(i)) = {LabelOff(i), Tile(i, -1), Active(i, -1)}
<1>1. \A v \in Int : Tile(i, v) \in Writes /\ Active(i, v) \in Writes
  BY DEF Writes, Tile, Active, Tiler!To
<1>2. LabelOn(i) \in Writes /\ LabelOff(i) \in Writes
  BY Zenon DEF Writes, LabelOn, LabelOff, Tiler!To
<1> DEFINE tiles == <<Tile(i, -1), Active(i, -1)>>
<1>3. tiles \in Seq(Writes) /\ Entries(tiles) = {Tile(i, -1), Active(i, -1)}
  BY <1>1, EntriesOfTuples
<1>4. Tiler!ClearText(i) \in Seq(Writes)
  <2>1. <<>> \in Seq(Writes) /\ <<LabelOff(i)>> \in Seq(Writes)
    BY Zenon, <1>2, TupleIsSeq
  <2>. QED
    BY Zenon, <2>1 DEF Tiler!ClearText, LabelOff
<1>5. /\ TiledText => Entries(Tiler!ClearText(i)) = {}
      /\ ~TiledText => Entries(Tiler!ClearText(i)) = {LabelOff(i)}
  BY Zenon, EntriesOfTuples DEF Tiler!ClearText, LabelOff
<1>6. /\ Tiler!KeyTiles(i) = Tiler!ClearText(i) \o tiles
      /\ Tiler!ClickTiles(i) = tiles \o Tiler!ClearText(i)
  BY Zenon DEF Tiler!KeyTiles, Tiler!ClickTiles, Tile, Active
<1> HIDE DEF tiles
<1>7. /\ Entries(Tiler!KeyTiles(i)) = Entries(Tiler!ClearText(i)) \cup Entries(tiles)
      /\ Entries(Tiler!ClickTiles(i)) = Entries(Tiler!ClearText(i)) \cup Entries(tiles)
  BY <1>3, <1>4, <1>6, EntriesOfConcat
<1>8. Tiler!KeyTiles(i) \in Seq(Writes) /\ Tiler!ClickTiles(i) \in Seq(Writes)
  BY <1>3, <1>4, <1>6
<1>9. /\ Tiler!KeyShows(i, s) = <<LabelOn(i), Active(i, s), Tile(i, s)>>
      /\ Tiler!ClickShows(i, s) = <<Tile(i, s), Active(i, s), LabelOn(i)>>
  BY Zenon DEF Tiler!KeyShows, Tiler!ClickShows, LabelOn, Active, Tile
<1>10. LabelOn(i) \in Writes /\ Active(i, s) \in Writes /\ Tile(i, s) \in Writes
  BY <1>1, <1>2
<1>11. ASSUME NEW a \in Writes, NEW b \in Writes, NEW c \in Writes
       PROVE  /\ <<a, b, c>> \in Seq(Writes) /\ Entries(<<a, b, c>>) = {a, b, c}
              /\ {c, b, a} = {a, b, c}
  BY TupleIsSeq, EntriesOfTuples
<1>12. Tiler!KeyShows(i, s) \in Seq(Writes) /\ Tiler!ClickShows(i, s) \in Seq(Writes)
  BY <1>9, <1>10, <1>11
<1>13. Entries(Tiler!KeyShows(i, s)) = {LabelOn(i), Active(i, s), Tile(i, s)}
  BY <1>9, <1>10, <1>11
<1>14. Entries(Tiler!ClickShows(i, s)) = {LabelOn(i), Active(i, s), Tile(i, s)}
  BY <1>9, <1>10, <1>11
<1>. QED
  BY <1>3, <1>5, <1>7, <1>8, <1>12, <1>13, <1>14

-----------------------------------------------------------------------------
(* The types that the display and its handlers rest on.                     *)

SelectType ==
  /\ numInstances \in Nat \ {0} /\ Tiler!Instances \subseteq DOMAIN Rows
  /\ rrow \in 0 .. 9 /\ rcfg \in Tiler!Instances

ShownType ==
  /\ showSource \in [DOMAIN Rows -> Int] /\ activeSource \in [DOMAIN Rows -> Int]
  /\ showText \in [DOMAIN Rows -> BOOLEAN] /\ mixed \in [DOMAIN Rows -> BOOLEAN]
  /\ todo \in [{"main", "x"} -> Seq(Writes)]

LEMMA LayoutTypes ==
  /\ Rows \in [DOMAIN Rows -> Nat] /\ Columns \in [DOMAIN Rows -> Nat]
  /\ Digits \subseteq 0 .. 9
BY Zenon, DisplayAssumption DEF Tiler!TilerAssumption

LEMMA SelectInit == Init => SelectType
<1> SUFFICES ASSUME Init PROVE SelectType
  OBVIOUS
<1>1. PICK s \in Scenarios : numInstances = s.instances
  BY Zenon DEF Init
<1>2. s.instances \in Nat \ {0} /\ 0 .. s.instances - 1 \subseteq DOMAIN Rows
  BY Zenon, DisplayAssumption
<1>3. rrow = 0 /\ rcfg = 0
  BY Zenon DEF Init, Tiler!Init
<1>. QED
  BY <1>1, <1>2, <1>3 DEF SelectType, Tiler!Instances

(* A step of an instance's display leaves all of it alone, writes the next  *)
(* place of a handler or begins a handler.                                 *)
Begins(t, i, w) ==
  /\ todo[t] = <<>> /\ Tiler!Handle(t, i, w)
  /\ UNCHANGED <<showSource, activeSource, showText>>

ShownStep ==
  \/ UNCHANGED <<showSource, activeSource, showText, todo, mixed>>
  \/ \E t \in {"main", "x"} : Tiler!Write(t)
  \/ \E t \in {"main", "x"}, i \in Tiler!Instances : \E w \in HandlerWrites(i) : Begins(t, i, w)

LEMMA StepKinds ==
  SelectType /\ [Next]_vars => /\ numInstances' = numInstances
                               /\ SelectType' /\ ShownStep
<1> SUFFICES ASSUME SelectType, [Next]_vars
             PROVE  numInstances' = numInstances /\ SelectType' /\ ShownStep
  OBVIOUS
<1> DEFINE Goal == numInstances' = numInstances /\ SelectType' /\ ShownStep
<1>1. ASSUME UNCHANGED <<numInstances, rrow, rcfg, showSource, activeSource, showText,
                         todo, mixed>>
      PROVE  Goal
  BY Zenon, <1>1 DEF SelectType, Tiler!Instances, ShownStep
<1>2. ASSUME UNCHANGED tilerVars PROVE Goal
  BY Zenon, <1>1, <1>2 DEF tilerVars
<1>3. ASSUME NEW t \in {"main", "x"}, Tiler!Write(t) PROVE Goal
  BY Zenon, <1>3 DEF Tiler!Write, Tiler!keyVars, SelectType, Tiler!Instances, ShownStep
<1>4. ASSUME UNCHANGED <<numInstances, rrow, showSource, activeSource, showText>>,
             rcfg' \in Tiler!Instances,
             NEW t \in {"main", "x"}, NEW i \in Tiler!Instances,
             NEW w \in HandlerWrites(i), todo[t] = <<>>, Tiler!Handle(t, i, w)
      PROVE  Goal
  BY Zenon, <1>4 DEF SelectType, Tiler!Instances, ShownStep, Begins
<1>5. ASSUME NEW d \in Digits, Tiler!KeyRow(d) PROVE Goal
  <2>1. rrow' \in 0 .. 9
    BY Zenon, <1>5, LayoutTypes DEF Tiler!KeyRow
  <2>. QED
    BY Zenon, <1>5, <2>1 DEF Tiler!KeyRow, Tiler!shown, SelectType, Tiler!Instances,
       ShownStep
<1>6. ASSUME NEW d \in Digits, Tiler!KeyColumn(d) PROVE Goal
  <2> DEFINE s == Columns[rcfg] * rrow + d
  <2>1. s \in Nat
    <3>1. Columns[rcfg] \in Nat
      BY LayoutTypes DEF SelectType
    <3>2. d \in Nat /\ rrow \in Nat
      BY LayoutTypes DEF SelectType
    <3>. QED
      BY <3>1, <3>2
  <2>2. /\ todo["main"] = <<>>
        /\ UNCHANGED <<numInstances, rrow, rcfg, showSource, activeSource, showText>>
        /\ UNCHANGED <<todo, mixed>> \/ Tiler!Handle("main", rcfg, Tiler!KeyShows(rcfg, s))
    BY Zenon, <1>6 DEF Tiler!KeyColumn, Tiler!MainIdle, Tiler!shown
  <2> HIDE DEF s
  <2>3. Tiler!KeyShows(rcfg, s) \in HandlerWrites(rcfg) /\ rcfg' \in Tiler!Instances
    BY Zenon, <2>1, <2>2 DEF HandlerWrites, SelectType
  <2>. QED
    BY Zenon, <1>1, <1>4, <2>2, <2>3 DEF SelectType
<1>7. CASE Tiler!KeyTiled
  <2>1. /\ todo["main"] = <<>> /\ rcfg' = 0
        /\ UNCHANGED <<numInstances, rrow, showSource, activeSource, showText>>
        /\ Tiler!Handle("main", rcfg, Tiler!KeyTiles(rcfg))
    BY Zenon, <1>7 DEF Tiler!KeyTiled, Tiler!MainIdle, Tiler!shown
  <2>2. 0 \in Tiler!Instances
    BY DEF SelectType, Tiler!Instances
  <2>3. Tiler!KeyTiles(rcfg) \in HandlerWrites(rcfg) /\ rcfg \in Tiler!Instances
    BY Zenon DEF HandlerWrites, SelectType
  <2>. QED
    BY Zenon, <1>4, <2>1, <2>2, <2>3
<1>8. ASSUME NEW d \in Digits, Tiler!ConfigDigit(d) PROVE Goal
  <2>1. rcfg' = (IF d < numInstances THEN d ELSE 0)
    BY Zenon, <1>8 DEF Tiler!ConfigDigit
  <2>2. d \in 0 .. 9 /\ numInstances \in Nat \ {0}
    BY Zenon, LayoutTypes DEF SelectType
  <2>3. rcfg' \in Tiler!Instances
    BY <2>1, <2>2 DEF Tiler!Instances
  <2>. QED
    BY Zenon, <1>8, <2>3 DEF Tiler!ConfigDigit, Tiler!shown, SelectType, Tiler!Instances,
       ShownStep
<1>9. ASSUME Tiler!KeySelect \/ Tiler!KeyConfig \/ Tiler!ConfigOther PROVE Goal
  BY Zenon, <1>1, <1>9 DEF Tiler!KeySelect, Tiler!KeyConfig, Tiler!ConfigOther, Tiler!shown
<1>10. CASE Tiler!Keyboard
  BY Zenon, <1>5, <1>6, <1>7, <1>8, <1>9, <1>10 DEF Tiler!Keyboard
<1>11. ASSUME NEW i \in Tiler!Instances, NEW tile \in Tiler!Tiles(i), Tiler!LeftClick(i, tile)
       PROVE  Goal
  <2>1. tile \in Nat
    <3>1. i \in DOMAIN Rows
      BY DEF SelectType
    <3>2. Rows[i] * Columns[i] \in Nat
      BY <3>1, LayoutTypes
    <3>. QED
      BY <3>2 DEF Tiler!Tiles
  <2>2. /\ todo["x"] = <<>> /\ Tiler!Handle("x", i, Tiler!ClickShows(i, tile))
        /\ UNCHANGED <<numInstances, rrow, rcfg, showSource, activeSource, showText>>
    BY Zenon, <1>11 DEF Tiler!LeftClick, Tiler!XIdle, Tiler!keyVars, Tiler!shown
  <2>3. Tiler!ClickShows(i, tile) \in HandlerWrites(i) /\ rcfg' \in Tiler!Instances
    BY Zenon, <2>1, <2>2 DEF HandlerWrites, SelectType
  <2>. QED
    BY Zenon, <1>4, <2>2, <2>3
<1>12. ASSUME NEW i \in Tiler!Instances, Tiler!RightClick(i) PROVE Goal
  <2>1. /\ todo["x"] = <<>> /\ Tiler!Handle("x", i, Tiler!ClickTiles(i))
        /\ UNCHANGED <<numInstances, rrow, rcfg, showSource, activeSource, showText>>
    BY Zenon, <1>12 DEF Tiler!RightClick, Tiler!XIdle, Tiler!keyVars, Tiler!shown
  <2>2. Tiler!ClickTiles(i) \in HandlerWrites(i) /\ rcfg' \in Tiler!Instances
    BY Zenon, <2>1 DEF HandlerWrites, SelectType
  <2>. QED
    BY Zenon, <1>4, <2>1, <2>2
<1>13. ASSUME NEW i \in Tiler!Instances, Tiler!LateClick(i) PROVE Goal
  BY Zenon, <1>1, <1>13 DEF Tiler!LateClick, Tiler!keyVars, Tiler!shown
<1>14. CASE Tiler!XEvent
  <2>1. CASE Tiler!XPause
    BY Zenon, <1>1, <2>1 DEF Tiler!XPause, Tiler!keyVars, Tiler!shown
  <2>. QED
    BY Zenon, <1>11, <1>12, <1>13, <1>14, <2>1 DEF Tiler!XEvent
<1>15. CASE Tiler!Quit
  BY Zenon, <1>1, <1>15 DEF Tiler!Quit, Tiler!keyVars, Tiler!shown
<1>16. CASE Main
  BY Zenon, <1>1, <1>16 DEF Main, Tiler!LeaveLoop, Tiler!Teardown, Tiler!DestroyPipeline,
     Tiler!DestroyWindow, Tiler!CloseDisplay, Tiler!keyVars, Tiler!shown
<1>17. ASSUME XWake \/ XSleep \/ XPaused PROVE Goal
  BY Zenon, <1>1, <1>17 DEF XWake, XSleep, XPaused, Tiler!XWake, Tiler!XSleep,
     Tiler!XPaused, Tiler!keyVars, Tiler!shown
<1>18. CASE BusCallback
  BY Zenon, <1>2, <1>18 DEF BusCallback
<1>19. CASE UNCHANGED vars
  BY Zenon, <1>2, <1>19 DEF vars
<1>20. CASE User
  BY Zenon, <1>10, <1>14, <1>15, <1>20 DEF User
<1>21. ASSUME AllQuit \/ Handlers PROVE Goal
  BY Zenon, <1>3, <1>15, <1>21 DEF AllQuit, Handlers
<1>. QED
  BY Zenon, <1>16, <1>17, <1>18, <1>19, <1>20, <1>21 DEF Next

LEMMA WriteTypes ==
  ASSUME NEW w \in Writes
  PROVE  /\ w.i \in Tiler!Instances /\ w.place \in {"tiler", "active", "text"}
         /\ w.place # "text" => w.value \in Int
         /\ w.place = "text" => w.value \in BOOLEAN
<1>1. CASE w \in [place : {"tiler", "active"}, i : Tiler!Instances, value : Int]
  BY <1>1
<1>2. CASE w \in [place : {"text"}, i : Tiler!Instances, value : BOOLEAN]
  BY <1>2
<1>. QED
  BY <1>1, <1>2 DEF Writes

(* What the next write of a handler does to the three places.               *)
LEMMA WriteStep ==
  ASSUME SelectType, ShownType, NEW t \in {"main", "x"}, Tiler!Write(t)
  PROVE  LET w == Head(todo[t])
         IN  /\ w \in Writes /\ Entries(todo[t]) = {w} \cup Entries(todo'[t])
             /\ todo' = [todo EXCEPT ![t] = Tail(todo[t])] /\ todo'[t] \in Seq(Writes)
             /\ mixed' = mixed
             /\ \A i \in DOMAIN Rows :
                  /\ showSource'[i] = IF w.place = "tiler" /\ w.i = i THEN w.value ELSE showSource[i]
                  /\ activeSource'[i] = IF w.place = "active" /\ w.i = i THEN w.value ELSE activeSource[i]
                  /\ showText'[i] = IF w.place = "text" /\ w.i = i THEN w.value ELSE showText[i]
             /\ DOMAIN showSource' = DOMAIN Rows /\ showSource' \in [DOMAIN Rows -> Int]
             /\ activeSource' \in [DOMAIN Rows -> Int]
             /\ showText' \in [DOMAIN Rows -> BOOLEAN]
<1> DEFINE w == Head(todo[t])
<1>1. /\ todo[t] # <<>> /\ todo' = [todo EXCEPT ![t] = Tail(todo[t])] /\ mixed' = mixed
      /\ showSource' = IF w.place = "tiler" THEN [showSource EXCEPT ![w.i] = w.value] ELSE showSource
      /\ activeSource' = IF w.place = "active" THEN [activeSource EXCEPT ![w.i] = w.value] ELSE activeSource
      /\ showText' = IF w.place = "text" THEN [showText EXCEPT ![w.i] = w.value] ELSE showText
  BY Zenon DEF Tiler!Write
<1>2. todo[t] \in Seq(Writes) /\ todo'[t] = Tail(todo[t])
  BY <1>1 DEF ShownType
<1>3. w \in Writes /\ Entries(todo[t]) = {w} \cup Entries(todo'[t]) /\ todo'[t] \in Seq(Writes)
  BY <1>1, <1>2, EntriesOfTail
<1> HIDE DEF w
<1>4. w.i \in DOMAIN Rows
  BY <1>3, WriteTypes DEF SelectType
<1>5. /\ showSource \in [DOMAIN Rows -> Int] /\ activeSource \in [DOMAIN Rows -> Int]
      /\ showText \in [DOMAIN Rows -> BOOLEAN]
  BY Zenon DEF ShownType
<1>6. /\ showSource' \in [DOMAIN Rows -> Int]
      /\ \A i \in DOMAIN Rows :
           showSource'[i] = IF w.place = "tiler" /\ w.i = i THEN w.value ELSE showSource[i]
  BY <1>1, <1>3, <1>4, <1>5, WriteTypes
<1>7. /\ activeSource' \in [DOMAIN Rows -> Int]
      /\ \A i \in DOMAIN Rows :
           activeSource'[i] = IF w.place = "active" /\ w.i = i THEN w.value ELSE activeSource[i]
  BY <1>1, <1>3, <1>4, <1>5, WriteTypes
<1>8. showText' \in [DOMAIN Rows -> BOOLEAN]
  BY <1>1, <1>3, <1>4, <1>5, WriteTypes
<1>9. \A i \in DOMAIN Rows :
        showText'[i] = IF w.place = "text" /\ w.i = i THEN w.value ELSE showText[i]
  <2>1. DOMAIN showText = DOMAIN Rows
    BY <1>5
  <2>. QED
    BY Zenon, <1>1, <2>1
<1>10. DOMAIN showSource' = DOMAIN Rows
  BY <1>6
<1>. QED
  BY Zenon, <1>1, <1>3, <1>6, <1>7, <1>8, <1>9, <1>10 DEF w

LEMMA HandlerTypes ==
  ASSUME NEW i \in Tiler!Instances, NEW w \in HandlerWrites(i)
  PROVE  w \in Seq(Writes) /\ \A e \in Entries(w) : e.i = i
<1>1. PICK s \in Int : w \in {Tiler!KeyShows(i, s), Tiler!ClickShows(i, s), Tiler!KeyTiles(i),
                              Tiler!ClickTiles(i)}
  BY DEF HandlerWrites
<1>2. w \in Seq(Writes)
  <2>1. {Tiler!KeyShows(i, s), Tiler!ClickShows(i, s), Tiler!KeyTiles(i), Tiler!ClickTiles(i)}
          \subseteq Seq(Writes)
    BY WritesOfHandlers
  <2>. QED
    BY <1>1, <2>1
<1>3. Entries(w) \subseteq {LabelOn(i), LabelOff(i), Active(i, s), Tile(i, s), Active(i, -1), Tile(i, -1)}
  <2>1. \/ Entries(w) = {LabelOn(i), Active(i, s), Tile(i, s)}
        \/ Entries(w) = {Tile(i, -1), Active(i, -1)}
        \/ Entries(w) = {LabelOff(i), Tile(i, -1), Active(i, -1)}
    <3>1. CASE w = Tiler!KeyShows(i, s) \/ w = Tiler!ClickShows(i, s)
      BY <3>1, WritesOfHandlers
    <3>2. CASE (w = Tiler!KeyTiles(i) \/ w = Tiler!ClickTiles(i)) /\ TiledText
      BY <3>2, WritesOfHandlers
    <3>3. CASE (w = Tiler!KeyTiles(i) \/ w = Tiler!ClickTiles(i)) /\ ~TiledText
      BY <3>3, WritesOfHandlers
    <3>. QED
      BY Zenon, <1>1, <3>1, <3>2, <3>3
  <2>. QED
    BY <2>1
<1>4. /\ LabelOn(i).i = i /\ LabelOff(i).i = i
      /\ \A v \in Int : Active(i, v).i = i /\ Tile(i, v).i = i
  <2>1. ASSUME NEW p, NEW v PROVE Tiler!To(p, i, v).i = i
    BY DEF Tiler!To
  <2>. QED
    BY Zenon, <2>1 DEF LabelOn, LabelOff, Active, Tile
<1>. QED
  BY <1>2, <1>3, <1>4

LEMMA ShownInit == Init => ShownType
<1> SUFFICES ASSUME Init PROVE ShownType
  OBVIOUS
<1>1. showSource = [i \in DOMAIN Rows |-> -1] /\ activeSource = [i \in DOMAIN Rows |-> -1]
  BY Zenon DEF Init, Tiler!Init, Tiler!Slots
<1>2. showText \in [DOMAIN Rows -> BOOLEAN] /\ mixed \in [DOMAIN Rows -> BOOLEAN]
  BY Zenon, DisplayAssumption DEF Init, Tiler!Init, Tiler!Slots, Tiler!TilerAssumption
<1>3. todo = [t \in {"main", "x"} |-> <<>>]
  BY Zenon DEF Init, Tiler!Init, Tiler!Threads
<1>4. todo \in [{"main", "x"} -> Seq(Writes)]
  BY <1>3
<1>5. showSource \in [DOMAIN Rows -> Int] /\ activeSource \in [DOMAIN Rows -> Int]
  BY <1>1
<1>. QED
  BY Zenon, <1>2, <1>4, <1>5 DEF ShownType

LEMMA ShownNext ==
  SelectType /\ ShownType /\ [Next]_vars => ShownType'
<1> SUFFICES ASSUME SelectType, ShownType, numInstances' = numInstances, ShownStep
             PROVE  ShownType'
  BY Zenon, StepKinds
<1>0. Writes' = Writes
  BY Zenon DEF Writes, Tiler!Instances
<1>1. CASE UNCHANGED <<showSource, activeSource, showText, todo, mixed>>
  BY Zenon, <1>0, <1>1 DEF ShownType
<1>2. ASSUME NEW t \in {"main", "x"}, Tiler!Write(t) PROVE ShownType'
  <2>1. todo' \in [{"main", "x"} -> Seq(Writes)]
    <3>1. /\ todo' = [todo EXCEPT ![t] = Tail(todo[t])] /\ todo'[t] \in Seq(Writes)
      BY Zenon, <1>2, WriteStep
    <3>2. todo \in [{"main", "x"} -> Seq(Writes)]
      BY Zenon DEF ShownType
    <3>. QED
      BY <3>1, <3>2
  <2>. QED
    BY Zenon, <1>0, <1>2, <2>1, WriteStep DEF ShownType
<1>3. ASSUME NEW t \in {"main", "x"}, NEW i \in Tiler!Instances, NEW w \in HandlerWrites(i),
             Begins(t, i, w)
      PROVE  ShownType'
  <2>1. todo' \in [{"main", "x"} -> Seq(Writes)]
    BY Zenon, <1>3, HandlerTypes DEF Begins, Tiler!Handle, ShownType
  <2>2. mixed' \in [DOMAIN Rows -> BOOLEAN]
    BY Zenon, <1>3 DEF Begins, Tiler!Handle, ShownType
  <2>. QED
    BY Zenon, <1>0, <1>3, <2>1, <2>2 DEF ShownType, Begins
<1>. QED
  BY Zenon, <1>1, <1>2, <1>3 DEF ShownStep

-----------------------------------------------------------------------------
(* The places that writes E of a handler of instance i leave behind.        *)

Pending(t, i) == {w \in Entries(todo[t]) : w.i = i}

Reaches(E, place, v, now) ==
  /\ \A w \in E : w.place = place => w.value = v
  /\ (\A w \in E : w.place # place) => now = v

LabelFor(s) == TiledText \/ s # -1

HeadedFor(E, i, s) ==
  /\ Reaches(E, "tiler", s, showSource[i])
  /\ Reaches(E, "active", s, activeSource[i])
  /\ Reaches(E, "text", LabelFor(s), showText[i])

(* With --tiledtext the labels are always on.                               *)
TextKept ==
  TiledText => \A i \in Tiler!Instances :
    /\ showText[i] = TRUE
    /\ \A t \in {"main", "x"} : \A w \in Pending(t, i) : w.place = "text" => w.value = TRUE

(* An instance whose last handlers did not overlap has writes of at most    *)
(* one of them to come, and those agree with the places already written.    *)
AgreeInv ==
  \A i \in Tiler!Instances : ~mixed[i] =>
    /\ Pending("main", i) = {} \/ Pending("x", i) = {}
    /\ \E s \in Int : HeadedFor(Pending("main", i) \cup Pending("x", i), i, s)

(* The whole of a handler's writes leaves the three places in agreement.    *)
LEMMA HandlerSettles ==
  ASSUME NEW i \in Tiler!Instances, NEW w \in HandlerWrites(i),
         TiledText => showText[i] = TRUE
  PROVE  /\ \E s \in Int : HeadedFor(Entries(w), i, s)
         /\ TiledText => \A e \in Entries(w) : e.place = "text" => e.value = TRUE
<1>1. /\ LabelOn(i).place = "text" /\ LabelOff(i).place = "text"
      /\ LabelOn(i).value = TRUE /\ LabelOff(i).value = FALSE
      /\ \A v : Active(i, v).place = "active" /\ Active(i, v).value = v
      /\ \A v : Tile(i, v).place = "tiler" /\ Tile(i, v).value = v
  <2>1. ASSUME NEW p, NEW v
        PROVE  Tiler!To(p, i, v).place = p /\ Tiler!To(p, i, v).value = v
    BY DEF Tiler!To
  <2>. QED
    BY Zenon, <2>1 DEF LabelOn, LabelOff, Active, Tile
<1>2. "text" # "active" /\ "text" # "tiler" /\ "active" # "tiler"
  OBVIOUS
<1>3. ASSUME NEW s \in Nat, Entries(w) = {LabelOn(i), Active(i, s), Tile(i, s)}
      PROVE  HeadedFor(Entries(w), i, s)
  <2>1. LabelFor(s) = TRUE
    <3>1. s # -1
      OBVIOUS
    <3>. QED
      BY Zenon, <3>1 DEF LabelFor
  <2>. QED
    BY Zenon, <1>1, <1>2, <1>3, <2>1 DEF HeadedFor, Reaches
<1>4. ASSUME TiledText, Entries(w) = {Tile(i, -1), Active(i, -1)}
      PROVE  HeadedFor(Entries(w), i, -1)
  BY Zenon, <1>1, <1>2, <1>4 DEF HeadedFor, Reaches, LabelFor
<1>5. ASSUME ~TiledText, Entries(w) = {LabelOff(i), Tile(i, -1), Active(i, -1)}
      PROVE  HeadedFor(Entries(w), i, -1)
  BY Zenon, <1>1, <1>2, <1>5 DEF HeadedFor, Reaches, LabelFor
<1>6. -1 \in Int /\ Nat \subseteq Int
  OBVIOUS
<1>7. ASSUME NEW s \in Nat, w = Tiler!KeyShows(i, s) \/ w = Tiler!ClickShows(i, s)
      PROVE  Entries(w) = {LabelOn(i), Active(i, s), Tile(i, s)}
  <2>1. s \in Int
    OBVIOUS
  <2>. QED
    BY <1>7, <2>1, WritesOfHandlers
<1>8. ASSUME w = Tiler!KeyTiles(i) \/ w = Tiler!ClickTiles(i)
      PROVE  /\ TiledText => Entries(w) = {Tile(i, -1), Active(i, -1)}
             /\ ~TiledText => Entries(w) = {LabelOff(i), Tile(i, -1), Active(i, -1)}
  <2>1. -1 \in Int
    OBVIOUS
  <2>. QED
    BY <1>8, <2>1, WritesOfHandlers
<1>9. \/ \E s \in Nat : Entries(w) = {LabelOn(i), Active(i, s), Tile(i, s)}
      \/ TiledText /\ Entries(w) = {Tile(i, -1), Active(i, -1)}
      \/ ~TiledText /\ Entries(w) = {LabelOff(i), Tile(i, -1), Active(i, -1)}
  BY Zenon, <1>7, <1>8 DEF HandlerWrites
<1>10. \E s \in Int : HeadedFor(Entries(w), i, s)
  BY Zenon, <1>3, <1>4, <1>5, <1>6, <1>9
<1>11. ASSUME TiledText, NEW e \in Entries(w), e.place = "text" PROVE e.value = TRUE
  <2>1. CASE \E s \in Nat : Entries(w) = {LabelOn(i), Active(i, s), Tile(i, s)}
    BY Zenon, <1>1, <1>2, <1>11, <2>1
  <2>2. CASE Entries(w) = {Tile(i, -1), Active(i, -1)}
    BY Zenon, <1>1, <1>2, <1>11, <2>2
  <2>. QED
    BY Zenon, <1>9, <1>11, <2>1, <2>2
<1>. QED
  BY Zenon, <1>10, <1>11

(* A write brings the place it writes to where the writes of its handler    *)
(* lead, and leaves the others on their way.                               *)
LEMMA WriteReaches ==
  ASSUME NEW E, NEW F, NEW w, E = {w} \cup F, NEW place, NEW v, NEW now, NEW next,
         Reaches(E, place, v, now),
         next = IF w.place = place THEN w.value ELSE now
  PROVE  Reaches(F, place, v, next)
<1>1. CASE w.place = place
  BY Zenon, <1>1 DEF Reaches
<1>2. CASE w.place # place
  BY Zenon, <1>2 DEF Reaches
<1>. QED
  BY Zenon, <1>1, <1>2

LEMMA AgreeInit == Init => TextKept /\ AgreeInv
<1> SUFFICES ASSUME Init PROVE TextKept /\ AgreeInv
  OBVIOUS
<1>1. ShownType /\ SelectType
  BY ShownInit, SelectInit
<1>2. todo = [t \in {"main", "x"} |-> <<>>]
  BY Zenon DEF Init, Tiler!Init, Tiler!Threads
<1>3. todo["main"] = <<>> /\ todo["x"] = <<>>
  BY <1>2
<1>4. \A i : Pending("main", i) = {} /\ Pending("x", i) = {}
  BY Zenon, <1>3, EntriesOfTuples DEF Pending
<1>5. /\ showSource = [i \in DOMAIN Rows |-> -1]
      /\ activeSource = [i \in DOMAIN Rows |-> -1]
      /\ showText = [i \in DOMAIN Rows |-> TiledText]
  BY Zenon DEF Init, Tiler!Init, Tiler!Slots
<1>6. TiledText \in BOOLEAN
  BY Zenon, DisplayAssumption DEF Tiler!TilerAssumption
<1>7. ASSUME NEW i \in Tiler!Instances
      PROVE  showSource[i] = -1 /\ activeSource[i] = -1 /\ showText[i] = TiledText
  <2>1. i \in DOMAIN Rows
    BY Zenon, <1>1 DEF SelectType, Tiler!Slots
  <2>. QED
    BY Zenon, <1>5, <2>1
<1>8. ASSUME NEW i \in Tiler!Instances PROVE HeadedFor({}, i, -1)
  <2>1. TiledText = LabelFor(-1)
    BY Zenon, <1>6 DEF LabelFor
  <2>. QED
    BY Zenon, <1>7, <2>1 DEF HeadedFor, Reaches
<1>9. AgreeInv
  <2>1. {} \cup {} = {} /\ -1 \in Int
    OBVIOUS
  <2>. QED
    BY Zenon, <1>4, <1>8, <2>1 DEF AgreeInv
<1>10. TextKept
  BY Zenon, <1>4, <1>6, <1>7 DEF TextKept
<1>. QED
  BY <1>9, <1>10

LEMMA AgreeNext ==
  SelectType /\ ShownType /\ TextKept /\ AgreeInv /\ [Next]_vars => TextKept' /\ AgreeInv'
<1> SUFFICES ASSUME SelectType, ShownType, TextKept, AgreeInv,
                    numInstances' = numInstances, ShownStep
             PROVE  TextKept' /\ AgreeInv'
  BY Zenon, StepKinds
<1>0. Tiler!Instances' = Tiler!Instances /\ Tiler!Instances \subseteq DOMAIN Rows
  BY Zenon DEF Tiler!Instances, SelectType
<1>1. CASE UNCHANGED <<showSource, activeSource, showText, todo, mixed>>
  BY Zenon, <1>0, <1>1 DEF TextKept, AgreeInv, Pending, HeadedFor
<1>2. ASSUME NEW t \in {"main", "x"}, Tiler!Write(t) PROVE TextKept' /\ AgreeInv'
  <2> DEFINE w == Head(todo[t])
  <2>1. /\ w \in Writes /\ Entries(todo[t]) = {w} \cup Entries(todo'[t])
        /\ todo' = [todo EXCEPT ![t] = Tail(todo[t])] /\ mixed' = mixed
        /\ \A i \in DOMAIN Rows :
             /\ showSource'[i] = IF w.place = "tiler" /\ w.i = i THEN w.value ELSE showSource[i]
             /\ activeSource'[i] = IF w.place = "active" /\ w.i = i THEN w.value ELSE activeSource[i]
             /\ showText'[i] = IF w.place = "text" /\ w.i = i THEN w.value ELSE showText[i]
    BY Zenon, <1>2, WriteStep
  <2> HIDE DEF w
  <2>2. \A u \in {"main", "x"} : u # t => todo'[u] = todo[u]
    BY <2>1 DEF ShownType
  <2>3. ASSUME NEW i \in Tiler!Instances
        PROVE  /\ Pending(t, i) = Pending(t, i)' \cup (IF w.i = i THEN {w} ELSE {})
               /\ \A u \in {"main", "x"} : u # t => Pending(u, i)' = Pending(u, i)
    <3>1. \A u \in {"main", "x"} : u # t => Pending(u, i)' = Pending(u, i)
      BY Zenon, <2>2 DEF Pending
    <3>2. Pending(t, i) = Pending(t, i)' \cup (IF w.i = i THEN {w} ELSE {})
      BY <2>1 DEF Pending
    <3>. QED
      BY Zenon, <3>1, <3>2
  <2>4. TextKept'
    <3> SUFFICES ASSUME TiledText, NEW i \in Tiler!Instances
                 PROVE  /\ showText'[i] = TRUE
                        /\ \A u \in {"main", "x"} : \A e \in Pending(u, i)' :
                             e.place = "text" => e.value = TRUE
      BY Zenon, <1>0 DEF TextKept
    <3>1. \A u \in {"main", "x"} : Pending(u, i)' \subseteq Pending(u, i)
      BY Zenon, <2>3
    <3>2. w.i = i => w \in Pending(t, i)
      BY Zenon, <2>3
    <3>3. showText'[i] = IF w.place = "text" /\ w.i = i THEN w.value ELSE showText[i]
      BY Zenon, <1>0, <2>1
    <3>. QED
      BY Zenon, <3>1, <3>2, <3>3 DEF TextKept
  <2>5. AgreeInv'
    <3> SUFFICES ASSUME NEW i \in Tiler!Instances, ~mixed[i]
                 PROVE  /\ Pending("main", i)' = {} \/ Pending("x", i)' = {}
                        /\ \E s \in Int :
                             HeadedFor(Pending("main", i) \cup Pending("x", i), i, s)'
      BY Zenon, <1>0, <2>1 DEF AgreeInv
    <3> DEFINE E == Pending("main", i) \cup Pending("x", i)
    <3>1. E = E' \cup (IF w.i = i THEN {w} ELSE {})
      BY <2>3
    <3>2. \A u \in {"main", "x"} : Pending(u, i)' \subseteq Pending(u, i)
      BY Zenon, <2>3
    <3>3. Pending("main", i) = {} \/ Pending("x", i) = {}
      BY Zenon DEF AgreeInv
    <3>4. PICK s \in Int : HeadedFor(E, i, s)
      BY Zenon DEF AgreeInv
    <3>5. i \in DOMAIN Rows
      BY Zenon, <1>0
    <3> HIDE DEF E
    <3>6. HeadedFor(E, i, s)'
      <4>1. CASE w.i = i
        <5>1. E = {w} \cup E'
          BY <3>1, <4>1
        <5>2. Reaches(E', "tiler", s, showSource'[i])
          <6>1. showSource'[i] = IF w.place = "tiler" THEN w.value ELSE showSource[i]
            BY Zenon, <2>1, <3>5, <4>1
          <6>. QED
            BY Zenon, <3>4, <5>1, <6>1, WriteReaches DEF HeadedFor
        <5>3. Reaches(E', "active", s, activeSource'[i])
          <6>1. activeSource'[i] = IF w.place = "active" THEN w.value ELSE activeSource[i]
            BY Zenon, <2>1, <3>5, <4>1
          <6>. QED
            BY Zenon, <3>4, <5>1, <6>1, WriteReaches DEF HeadedFor
        <5>4. Reaches(E', "text", LabelFor(s), showText'[i])
          <6>1. showText'[i] = IF w.place = "text" THEN w.value ELSE showText[i]
            BY Zenon, <2>1, <3>5, <4>1
          <6>. QED
            BY Zenon, <3>4, <5>1, <6>1, WriteReaches DEF HeadedFor
        <5>. QED
          BY Zenon, <5>2, <5>3, <5>4 DEF HeadedFor
      <4>2. CASE w.i # i
        <5>1. E' = E
          BY <3>1, <4>2
        <5>2. /\ showSource'[i] = showSource[i] /\ activeSource'[i] = activeSource[i]
              /\ showText'[i] = showText[i]
          BY Zenon, <2>1, <3>5, <4>2
        <5>. QED
          BY Zenon, <3>4, <5>1, <5>2 DEF HeadedFor
      <4>. QED
        BY Zenon, <4>1, <4>2
    <3>7. Pending("main", i)' = {} \/ Pending("x", i)' = {}
      BY <3>2, <3>3
    <3>. QED
      BY Zenon, <3>6, <3>7 DEF E
  <2>. QED
    BY <2>4, <2>5
<1>3. ASSUME NEW t \in {"main", "x"}, NEW i \in Tiler!Instances, NEW w \in HandlerWrites(i),
             Begins(t, i, w)
      PROVE  TextKept' /\ AgreeInv'
  <2>1. /\ todo[t] = <<>> /\ todo' = [todo EXCEPT ![t] = w]
        /\ mixed' = [mixed EXCEPT ![i] = \E j \in DOMAIN todo[Tiler!Other(t)] :
                                          todo[Tiler!Other(t)][j].i = i]
        /\ UNCHANGED <<showSource, activeSource, showText>>
    BY Zenon, <1>3 DEF Begins, Tiler!Handle
  <2>2. /\ Tiler!Other(t) \in {"main", "x"} /\ Tiler!Other(t) # t
        /\ {"main", "x"} = {t, Tiler!Other(t)}
    BY DEF Tiler!Other, Tiler!Threads
  <2> DEFINE o == Tiler!Other(t)
  <2> HIDE DEF o
  <2>3. /\ o \in {"main", "x"} /\ o # t /\ {"main", "x"} = {t, o}
    BY Zenon, <2>2 DEF o
  <2>4. todo'[t] = w /\ todo'[o] = todo[o]
    BY <2>1, <2>3 DEF ShownType
  <2>5. /\ Entries(todo[t]) = {} /\ Entries(todo'[t]) = Entries(w)
        /\ Entries(todo'[o]) = Entries(todo[o])
    BY Zenon, <2>1, <2>4, EntriesOfTuples
  <2>6. /\ \A k : Pending(t, k) = {} /\ Pending(o, k)' = Pending(o, k)
        /\ Pending(t, i)' = Entries(w)
        /\ \A k : k # i => Pending(t, k)' = {}
    <3>1. \A e \in Entries(w) : e.i = i
      BY Zenon, HandlerTypes
    <3>. QED
      BY <2>5, <3>1 DEF Pending
  <2>7. /\ TiledText => showText[i] = TRUE
        /\ \E s \in Int : HeadedFor(Entries(w), i, s)
        /\ TiledText => \A e \in Entries(w) : e.place = "text" => e.value = TRUE
    BY Zenon, HandlerSettles DEF TextKept
  <2>8. TextKept'
    <3> SUFFICES ASSUME TiledText, NEW k \in Tiler!Instances
                 PROVE  /\ showText'[k] = TRUE
                        /\ \A u \in {"main", "x"} : \A e \in Pending(u, k)' :
                             e.place = "text" => e.value = TRUE
      BY Zenon, <1>0 DEF TextKept
    <3>1. showText'[k] = TRUE
      BY Zenon, <2>1 DEF TextKept
    <3>2. \A e \in Pending(t, k)' : e.place = "text" => e.value = TRUE
      BY Zenon, <2>6, <2>7
    <3>3. \A e \in Pending(o, k)' : e.place = "text" => e.value = TRUE
      BY Zenon, <2>3, <2>6 DEF TextKept
    <3>. QED
      BY Zenon, <2>3, <3>1, <3>2, <3>3
  <2>9. AgreeInv'
    <3> SUFFICES ASSUME NEW k \in Tiler!Instances, ~mixed'[k]
                 PROVE  /\ Pending("main", k)' = {} \/ Pending("x", k)' = {}
                        /\ \E s \in Int :
                             HeadedFor(Pending("main", k) \cup Pending("x", k), k, s)'
      BY Zenon, <1>0 DEF AgreeInv
    <3>0. k \in DOMAIN mixed /\ mixed \in [DOMAIN Rows -> BOOLEAN]
      BY Zenon, <1>0 DEF ShownType
    <3>1. Pending("main", k) \cup Pending("x", k) = Pending(t, k) \cup Pending(o, k)
      BY <2>3
    <3>2. Pending("main", k)' \cup Pending("x", k)' = Pending(t, k)' \cup Pending(o, k)'
      BY <2>3
    <3>3. CASE k = i
      <4>1. ~\E j \in DOMAIN todo[o] : todo[o][j].i = i
        BY Zenon, <2>1, <3>0, <3>3 DEF o
      <4>2. Pending(o, i) = {}
        BY Zenon, <4>1 DEF Pending, Entries
      <4>3. Pending(o, k)' = {} /\ Pending("main", k)' \cup Pending("x", k)' = Entries(w)
        BY <2>6, <3>2, <3>3, <4>2
      <4>4. \E s \in Int : HeadedFor(Pending("main", k) \cup Pending("x", k), k, s)'
        BY Zenon, <2>1, <2>7, <3>3, <4>3 DEF HeadedFor
      <4>5. Pending("main", k)' = {} \/ Pending("x", k)' = {}
        BY Zenon, <2>3, <4>3
      <4>. QED
        BY Zenon, <4>4, <4>5
    <3>4. CASE k # i
      <4>1. ~mixed[k]
        BY Zenon, <2>1, <3>0, <3>4
      <4>2. Pending(t, k)' = {} /\ Pending(t, k) = {} /\ Pending(o, k)' = Pending(o, k)
        BY Zenon, <2>6, <3>4
      <4>3. Pending("main", k)' \cup Pending("x", k)' = Pending("main", k) \cup Pending("x", k)
        BY <3>1, <3>2, <4>2
      <4>4. \E s \in Int : HeadedFor(Pending("main", k) \cup Pending("x", k), k, s)
        BY Zenon, <4>1 DEF AgreeInv
      <4>5. \E s \in Int : HeadedFor(Pending("main", k) \cup Pending("x", k), k, s)'
        BY Zenon, <2>1, <4>3, <4>4 DEF HeadedFor
      <4>6. Pending("main", k)' = {} \/ Pending("x", k)' = {}
        BY Zenon, <2>3, <4>2
      <4>. QED
        BY Zenon, <4>5, <4>6
    <3>. QED
      BY Zenon, <3>3, <3>4
  <2>. QED
    BY <2>8, <2>9
<1>. QED
  BY Zenon, <1>1, <1>2, <1>3 DEF ShownStep

(* When no handler is at work, the tiler, the index that the overlay is     *)
(* drawn for and the switch of the labels agree, unless the two last        *)
(* handlers of the instance overlapped; and the next handler that runs      *)
(* alone mends what an overlap left (deepstream_proximity_main.c:350-352    *)
(* and :476-478).                                                          *)
THEOREM PlacesAgree == Spec => []DisplayAgrees
<1> DEFINE Inv == SelectType /\ ShownType /\ TextKept /\ AgreeInv
<1>1. Init => Inv
  BY SelectInit, ShownInit, AgreeInit
<1>2. Inv /\ [Next]_vars => Inv'
  BY Zenon, StepKinds, ShownNext, AgreeNext
<1>3. Inv => DisplayAgrees
  <2> SUFFICES ASSUME ShownType, SelectType, AgreeInv, NEW i \in Tiler!Instances,
                      todo["main"] = <<>>, todo["x"] = <<>>, ~mixed[i]
               PROVE  /\ activeSource[i] = showSource[i]
                      /\ showText[i] = (TiledText \/ showSource[i] # -1)
    BY Zenon DEF DisplayAgrees, Tiler!DisplayAgrees
  <2>1. Pending("main", i) = {} /\ Pending("x", i) = {}
    BY Zenon, EntriesOfTuples DEF Pending
  <2>2. {} \cup {} = {}
    OBVIOUS
  <2>3. PICK s \in Int : HeadedFor({}, i, s)
    BY Zenon, <2>1, <2>2 DEF AgreeInv
  <2>. QED
    BY Zenon, <2>3 DEF HeadedFor, Reaches, LabelFor
<1>. QED
  BY <1>1, <1>2, <1>3, PTL DEF Spec
=============================================================================
