--------------------------- MODULE StreamPath_proofs ---------------------------
(* Proofs about StreamPath: the looped file, and the two bins as stages of  *)
(* inference, for every number of frames, of engines and of recreations.   *)
EXTENDS StreamPath, SequenceTheorems, FiniteSetTheorems, WellFoundedInduction, TLAPS

-----------------------------------------------------------------------------
(* The looped file.                                                        *)

LEMMA FileConstants ==
  /\ FrameCount \in Nat /\ FrameCount > 0 /\ MaxFrames \in Nat
  /\ SegmentStop \in Nat /\ SegmentStop >= FrameCount
  /\ LoopOptions \subseteq BOOLEAN
<1>1. /\ FrameCount \in Nat \ {0} /\ MaxFrames \in Nat
      /\ SegmentStop \in Nat /\ SegmentStop >= FrameCount
      /\ LoopOptions \subseteq BOOLEAN
  BY Zenon, StreamAssumption DEF File!FileAssumption
<1>. QED
  BY <1>1

(* What a step of the whole does to the file.                              *)
LEMMA FileSteps ==
  [Next]_vars =>
    \/ File!Segment \/ File!Frame \/ File!LoopEos \/ File!PassEos
    \/ File!SeekDecode \/ File!Close \/ File!Reopen \/ UNCHANGED fileVars
<1> SUFFICES ASSUME [Next]_vars
             PROVE  \/ File!Segment \/ File!Frame \/ File!LoopEos \/ File!PassEos
                    \/ File!SeekDecode \/ File!Close \/ File!Reopen \/ UNCHANGED fileVars
  OBVIOUS
<1>1. CASE Main
  BY Zenon, <1>1 DEF Main, ShouldCreate, Create, SendEos, Destroy, SeekDecode
<1>2. CASE SourceThread
  BY Zenon, <1>2 DEF SourceThread, Segment, LoopEos, FrameIn, EosIn
<1>3. CASE OverThread \/ FrameOut \/ PreStream \/ \E t \in Gie!Threads : GieStream(t)
  BY Zenon, <1>3 DEF OverThread, FrameOver, EosOver, FrameOut, PreStream, GieStream
<1>4. CASE UNCHANGED vars
  BY Zenon, <1>4 DEF vars
<1>. QED
  BY Zenon, <1>1, <1>2, <1>3, <1>4 DEF Next

FileType ==
  /\ demux \in {"segment", "frames", "ended"} /\ pos \in 0 .. FrameCount
  /\ accumulatedBase \in Nat /\ prevAccumulatedBase \in Nat /\ seeks \in Nat
  /\ pts \in Seq(Nat)

(* All time stamps lie below the base that the next round will get, and in  *)
(* a round below the one that its next frame will get.                     *)
TimesBelow(t) == \A i \in 1 .. Len(pts) : pts[i] < t
Sorted == \A i \in 2 .. Len(pts) : pts[i - 1] < pts[i]
RoundInv ==
  /\ Sorted /\ TimesBelow(accumulatedBase)
  /\ demux = "frames" =>
       /\ accumulatedBase = prevAccumulatedBase + SegmentStop
       /\ TimesBelow(prevAccumulatedBase + pos)

FileInv == FileType /\ (loop => RoundInv)

LEMMA FileInit == Init => FileInv
<1> SUFFICES ASSUME Init PROVE FileInv
  OBVIOUS
<1>1. /\ demux = "segment" /\ pos = 0 /\ accumulatedBase = 0
      /\ prevAccumulatedBase = 0 /\ seeks = 0 /\ pts = << >>
  BY Zenon DEF Init, File!Init
<1>2. FileType /\ RoundInv
  BY <1>1, FileConstants DEF FileType, RoundInv, TimesBelow, Sorted
<1>. QED
  BY Zenon, <1>2 DEF FileInv

LEMMA FileNext == FileInv /\ [Next]_vars => FileInv'
<1> SUFFICES ASSUME FileType, loop => RoundInv, [Next]_vars PROVE FileInv'
  BY Zenon DEF FileInv
<1>0. loop' = loop
  BY Zenon, FileSteps DEF fileVars, File!Segment, File!Frame, File!LoopEos, File!PassEos,
     File!SeekDecode, File!Close, File!Reopen
<1>1. CASE File!Segment
  <2>1. demux' = "frames" /\ pos' = 0 /\ pts' = pts /\ seeks' = seeks
    BY Zenon, <1>1 DEF File!Segment, File!seekVars
  <2>2. \/ accumulatedBase' = accumulatedBase /\ prevAccumulatedBase' = prevAccumulatedBase
        \/ /\ prevAccumulatedBase' = accumulatedBase
           /\ accumulatedBase' = accumulatedBase + SegmentStop
    BY Zenon, <1>1 DEF File!Segment
  <2>3. FileType'
    BY <2>1, <2>2, FileConstants DEF FileType
  <2>4. ASSUME loop PROVE RoundInv'
    <3>1. /\ prevAccumulatedBase' = accumulatedBase
          /\ accumulatedBase' = accumulatedBase + SegmentStop
      BY Zenon, <1>1, <2>4 DEF File!Segment
    <3>2. RoundInv
      BY Zenon, <2>4
    <3>. QED
      BY <2>1, <3>1, <3>2, FileConstants DEF RoundInv, TimesBelow, Sorted, FileType
  <2>. QED
    BY Zenon, <1>0, <2>3, <2>4 DEF FileInv
<1>2. CASE File!Frame
  <2>1. /\ demux = "frames" /\ pos < FrameCount /\ pos' = pos + 1
        /\ pts' = Append(pts, pos + prevAccumulatedBase)
        /\ UNCHANGED <<demux, accumulatedBase, prevAccumulatedBase, seeks>>
    BY Zenon, <1>2 DEF File!Frame, File!seekVars
  <2>2. FileType'
    BY <2>1, FileConstants DEF FileType
  <2>3. ASSUME RoundInv PROVE RoundInv'
    <3>1. /\ Len(pts') = Len(pts) + 1 /\ pts'[Len(pts')] = pos + prevAccumulatedBase
          /\ \A i \in 1 .. Len(pts) : pts'[i] = pts[i]
          /\ Len(pts) \in Nat /\ \A i \in 1 .. Len(pts) : pts[i] \in Nat
      BY <2>1 DEF FileType
    <3>2. TimesBelow(prevAccumulatedBase + pos)
      BY <2>1, <2>3 DEF RoundInv
    <3>3. accumulatedBase = prevAccumulatedBase + SegmentStop
      BY <2>1, <2>3 DEF RoundInv
    <3>4. /\ prevAccumulatedBase' = prevAccumulatedBase /\ accumulatedBase' = accumulatedBase
          /\ pos' = pos + 1 /\ pos < FrameCount
      BY <2>1
    <3>5. TimesBelow(prevAccumulatedBase + pos)'
      BY <3>1, <3>2, <3>4 DEF TimesBelow, FileType
    <3>6. TimesBelow(accumulatedBase)'
      BY <3>1, <3>2, <3>3, <3>4, FileConstants DEF TimesBelow, FileType
    <3>7. Sorted'
      <4>1. \A i \in 2 .. Len(pts) : pts[i - 1] < pts[i]
        BY <2>3 DEF RoundInv, Sorted
      <4>2. ASSUME NEW i \in 2 .. Len(pts') PROVE pts'[i - 1] < pts'[i]
        <5>1. CASE i \in 2 .. Len(pts)
          BY <3>1, <4>1, <5>1
        <5>2. CASE i = Len(pts')
          <6>1. i - 1 \in 1 .. Len(pts)
            BY <3>1, <4>2, <5>2
          <6>2. pts[i - 1] < prevAccumulatedBase + pos
            BY Zenon, <3>2, <6>1 DEF TimesBelow
          <6>3. pts'[i - 1] = pts[i - 1] /\ pts'[i] = pos + prevAccumulatedBase
            BY <3>1, <5>2, <6>1
          <6>4. pos \in Int /\ prevAccumulatedBase \in Int
            BY FileConstants DEF FileType
          <6>. QED
            BY <6>2, <6>3, <6>4
        <5>. QED
          BY <3>1, <4>2, <5>1, <5>2
      <4>. QED
        BY Zenon, <4>2 DEF Sorted
    <3>. QED
      BY <3>3, <3>4, <3>5, <3>6, <3>7 DEF RoundInv
  <2>. QED
    BY Zenon, <1>0, <2>2, <2>3 DEF FileInv
<1>3. CASE File!LoopEos \/ File!PassEos \/ File!SeekDecode \/ File!Reopen
  <2>1. /\ \/ demux' \in {"ended", "segment"} /\ pos' \in {pos, 0}
           \/ UNCHANGED <<demux, pos>>
        /\ UNCHANGED <<accumulatedBase, prevAccumulatedBase, pts>>
        /\ \/ seeks' \in {seeks, seeks + 1}
           \/ seeks > 0 /\ seeks' = seeks - 1
    <3>1. CASE File!LoopEos \/ File!PassEos
      BY Zenon, <3>1 DEF File!LoopEos, File!PassEos, File!seekVars
    <3>2. CASE File!SeekDecode \/ File!Reopen
      BY Zenon, <3>2 DEF File!SeekDecode, File!Reopen
    <3>. QED
      BY Zenon, <1>3, <3>1, <3>2
  <2>2. FileType'
    BY <2>1, FileConstants DEF FileType
  <2>3. RoundInv => RoundInv'
    BY <2>1 DEF RoundInv, TimesBelow, Sorted
  <2>. QED
    BY Zenon, <1>0, <2>2, <2>3 DEF FileInv
<1>4. CASE File!Close \/ UNCHANGED fileVars
  <2>1. UNCHANGED <<demux, pos, accumulatedBase, prevAccumulatedBase, seeks, pts>>
    BY Zenon, <1>4 DEF File!Close, File!seekVars, fileVars
  <2>. QED
    BY Zenon, <1>0, <2>1 DEF FileInv, FileType, RoundInv, TimesBelow, Sorted
<1>. QED
  BY Zenon, FileSteps, <1>1, <1>2, <1>3, <1>4

(* The time stamps of a looped file go forward over all its rounds and over *)
(* the recreations of the pipeline, wherever a seek or a recreation cuts a  *)
(* round short (deepstream_source_bin.c:297-346).                          *)
THEOREM TimesGoForward == Spec => []FrameTimesGoForward
<1>1. FileInv => FrameTimesGoForward
  BY Zenon DEF FileInv, RoundInv, Sorted, FrameTimesGoForward, File!FrameTimesGoForward
<1>. QED
  BY FileInit, FileNext, <1>1, PTL DEF Spec

-----------------------------------------------------------------------------
(* Facts about numbers and exit queues.                                    *)

LEMMA LeastNumber ==
  ASSUME NEW S \in SUBSET Nat, S # {}
  PROVE  \E m \in S : \A n \in S : m <= n
<1>1. \E m \in S : \A n \in S : ~(<<n, m>> \in OpToRel(<, Nat))
  BY NatLessThanWellFounded, WFMin
<1>2. ASSUME NEW m \in S, NEW n \in S, ~(<<n, m>> \in OpToRel(<, Nat))
      PROVE  m <= n
  BY <1>2 DEF OpToRel
<1>. QED
  BY <1>1, <1>2

LEMMA MinIsMember ==
  ASSUME NEW S \in SUBSET Nat, S # {}
  PROVE  Pre!Min(S) \in S /\ Gie!Min(S) \in S
<1>1. \E m \in S : \A n \in S : m <= n
  BY LeastNumber
<1>2. Pre!Min(S) \in S
  BY Zenon, <1>1 DEF Pre!Min
<1>3. Gie!Min(S) \in S
  BY Zenon, <1>1 DEF Gie!Min
<1>. QED
  BY <1>2, <1>3

Holds(q, x) == \E i \in 1 .. Len(q) : q[i] = x

LEMMA HoldsAppend ==
  ASSUME NEW S, NEW q \in Seq(S), NEW y \in S
  PROVE  \A x : Holds(Append(q, y), x) <=> Holds(q, x) \/ x = y
<1>1. /\ Len(q) \in Nat /\ Len(Append(q, y)) = Len(q) + 1
      /\ \A i \in 1 .. Len(q) : Append(q, y)[i] = q[i]
      /\ Append(q, y)[Len(q) + 1] = y
  OBVIOUS
<1>2. \A i : i \in 1 .. Len(q) + 1 <=> i \in 1 .. Len(q) \/ i = Len(q) + 1
  BY <1>1
<1>. QED
  BY Zenon, <1>1, <1>2 DEF Holds

LEMMA HoldsTail ==
  ASSUME NEW S, NEW q \in Seq(S), q # << >>
  PROVE  \A x : Holds(q, x) <=> x = Head(q) \/ Holds(Tail(q), x)
<1>1. /\ Len(q) \in Nat /\ Len(q) > 0 /\ Len(Tail(q)) = Len(q) - 1 /\ Head(q) = q[1]
      /\ \A i \in 1 .. Len(q) - 1 : Tail(q)[i] = q[i + 1]
  OBVIOUS
<1>2. ASSUME NEW x, Holds(q, x) PROVE x = Head(q) \/ Holds(Tail(q), x)
  <2>1. PICK i \in 1 .. Len(q) : q[i] = x
    BY Zenon, <1>2 DEF Holds
  <2>2. CASE i = 1
    BY <1>1, <2>1, <2>2
  <2>3. CASE i # 1
    <3>1. i - 1 \in 1 .. Len(q) - 1 /\ (i - 1) + 1 = i
      BY <1>1, <2>1, <2>3
    <3>2. Tail(q)[i - 1] = x
      BY <1>1, <2>1, <3>1
    <3>. QED
      BY <1>1, <3>1, <3>2 DEF Holds
  <2>. QED
    BY <2>2, <2>3
<1>3. ASSUME NEW x, Holds(Tail(q), x) PROVE Holds(q, x)
  <2>1. PICK i \in 1 .. Len(q) - 1 : Tail(q)[i] = x
    BY <1>1, <1>3 DEF Holds
  <2>. QED
    BY <1>1, <2>1 DEF Holds
<1>4. Holds(q, Head(q))
  BY <1>1 DEF Holds
<1>. QED
  BY Zenon, <1>2, <1>3, <1>4

(* A queue of frames that the end of the stream, 0, may close.             *)
ExitQueue(q) == q \in Seq(Nat) /\ \A i \in 1 .. Len(q) : q[i] = 0 => i = Len(q)
Open(q) == q \in Seq(Nat) /\ \A i \in 1 .. Len(q) : q[i] # 0
Shorter(q) == SubSeq(q, 1, Len(q) - 1)
Inside(q) == IF q # << >> /\ q[Len(q)] = 0 THEN Shorter(q) ELSE q

LEMMA ShorterIs ==
  ASSUME NEW q \in Seq(Nat), q # << >>
  PROVE  /\ Shorter(q) \in Seq(Nat) /\ Len(Shorter(q)) = Len(q) - 1
         /\ \A i \in 1 .. Len(q) - 1 : Shorter(q)[i] = q[i]
<1>1. Len(q) \in Nat /\ Len(q) > 0 /\ \A i \in 1 .. Len(q) : q[i] \in Nat
  OBVIOUS
<1> DEFINE n == Len(q) - 1
<1>2. n \in Int /\ n >= 0 /\ \A i \in 1 .. n : q[i] \in Nat
  BY <1>1
<1> HIDE DEF n
<1>3. /\ SubSeq(q, 1, n) \in Seq(Nat)
      /\ Len(SubSeq(q, 1, n)) = IF 1 <= n THEN n - 1 + 1 ELSE 0
      /\ \A i \in 1 .. n - 1 + 1 : SubSeq(q, 1, n)[i] = q[1 + i - 1]
  BY <1>2, SubSeqProperties
<1>4. /\ Len(SubSeq(q, 1, n)) = n
      /\ \A i \in 1 .. n : SubSeq(q, 1, n)[i] = q[i]
  BY <1>2, <1>3
<1>. QED
  BY Zenon, <1>3, <1>4 DEF Shorter, n

LEMMA InsideIsFrames == \A q : Pre!FramesOf(q) = Inside(q) /\ Gie!FramesOf(q) = Inside(q)
BY DEF Pre!FramesOf, Gie!FramesOf, Pre!Eos, Gie!Eos, Inside, Shorter

LEMMA InsideArrive ==
  ASSUME NEW q, Open(q), NEW f \in Nat, f # 0
  PROVE  /\ ExitQueue(Append(q, f)) /\ Open(Append(q, f))
         /\ Inside(q) = q /\ Inside(Append(q, f)) = Append(Inside(q), f)
<1>1. Open(Append(q, f))
  BY DEF Open
<1>2. ASSUME NEW r, Open(r) PROVE ExitQueue(r) /\ Inside(r) = r
  BY <1>2 DEF Open, ExitQueue, Inside
<1>. QED
  BY <1>1, <1>2

LEMMA InsideEnd ==
  ASSUME NEW q, Open(q)
  PROVE  ExitQueue(Append(q, 0)) /\ Inside(Append(q, 0)) = Inside(q)
<1> DEFINE r == Append(q, 0)
<1>0. q \in Seq(Nat)
  BY Zenon DEF Open
<1>1. ExitQueue(r)
  BY DEF Open, ExitQueue
<1>2. Inside(q) = q
  BY DEF Open, Inside
<1>3. /\ r \in Seq(Nat) /\ r # << >> /\ r[Len(r)] = 0 /\ Len(r) - 1 = Len(q)
      /\ \A i \in 1 .. Len(q) : r[i] = q[i]
  BY <1>0
<1> HIDE DEF r
<1>4. Shorter(r) = q
  <2>1. /\ Shorter(r) \in Seq(Nat) /\ Len(Shorter(r)) = Len(q)
        /\ \A i \in 1 .. Len(Shorter(r)) : Shorter(r)[i] = q[i]
    BY <1>3, ShorterIs
  <2>. QED
    BY <1>0, <2>1, SeqEqual
<1>5. Inside(r) = q
  BY Zenon, <1>3, <1>4 DEF Inside
<1>. QED
  BY Zenon, <1>1, <1>2, <1>5 DEF r

LEMMA InsideLeave ==
  ASSUME NEW q, ExitQueue(q), q # << >>
  PROVE  /\ ExitQueue(Tail(q)) /\ (Open(q) => Open(Tail(q)))
         /\ Head(q) = 0 => Inside(q) = << >> /\ Inside(Tail(q)) = << >>
         /\ Head(q) # 0 => /\ Inside(q) # << >> /\ Head(Inside(q)) = Head(q)
                           /\ Inside(Tail(q)) = Tail(Inside(q))
<1> DEFINE t == Tail(q)
<1>0. q \in Seq(Nat) /\ \A i \in 1 .. Len(q) : q[i] = 0 => i = Len(q)
  BY Zenon DEF ExitQueue
<1>1. /\ Len(q) \in Nat /\ Len(q) > 0 /\ t \in Seq(Nat) /\ Len(t) = Len(q) - 1
      /\ \A i \in 1 .. Len(q) - 1 : t[i] = q[i + 1]
      /\ Head(q) = q[1]
  BY <1>0
<1> HIDE DEF t
<1>2. ExitQueue(t)
  BY <1>0, <1>1 DEF ExitQueue
<1>3. Open(q) => Open(t)
  BY <1>0, <1>1 DEF Open
<1>4. ASSUME Head(q) = 0 PROVE Inside(q) = << >> /\ Inside(t) = << >>
  <2>1. Len(q) = 1
    BY <1>0, <1>1, <1>4
  <2>2. t = << >>
    BY <1>1, <2>1
  <2>3. Shorter(q) = << >>
    BY <1>0, <2>1, ShorterIs
  <2>. QED
    BY <1>1, <1>4, <2>1, <2>2, <2>3 DEF Inside
<1>5. ASSUME Head(q) # 0
      PROVE  /\ Inside(q) # << >> /\ Head(Inside(q)) = Head(q)
             /\ Inside(t) = Tail(Inside(q))
  <2>1. CASE q[Len(q)] # 0
    <3>1. Inside(q) = q
      BY Zenon, <2>1 DEF Inside
    <3>2. Inside(t) = t
      BY <1>0, <1>1, <2>1 DEF Inside
    <3>. QED
      BY Zenon, <3>1, <3>2 DEF t
  <2>2. CASE q[Len(q)] = 0
    <3>1. Len(q) > 1
      BY <1>1, <1>5, <2>2
    <3>2. Inside(q) = Shorter(q)
      BY Zenon, <2>2 DEF Inside
    <3>3. Inside(t) = Shorter(t) /\ t # << >>
      BY <1>1, <2>2, <3>1 DEF Inside
    <3>4. /\ Shorter(q) \in Seq(Nat) /\ Len(Shorter(q)) = Len(q) - 1
          /\ \A i \in 1 .. Len(q) - 1 : Shorter(q)[i] = q[i]
      BY <1>0, ShorterIs
    <3>5. /\ Shorter(t) \in Seq(Nat) /\ Len(Shorter(t)) = Len(t) - 1
          /\ \A i \in 1 .. Len(t) - 1 : Shorter(t)[i] = t[i]
      BY <1>1, <3>3, ShorterIs
    <3> DEFINE a == Shorter(q)
               b == Shorter(t)
    <3> HIDE DEF a, b
    <3>6. /\ a \in Seq(Nat) /\ Len(a) = Len(q) - 1 /\ \A i \in 1 .. Len(q) - 1 : a[i] = q[i]
          /\ b \in Seq(Nat) /\ Len(b) = Len(q) - 2 /\ \A i \in 1 .. Len(q) - 2 : b[i] = t[i]
      BY <1>1, <3>1, <3>4, <3>5 DEF a, b
    <3>7. a # << >> /\ Head(a) = Head(q) /\ Tail(a) \in Seq(Nat) /\ Len(Tail(a)) = Len(b)
      BY <1>1, <3>1, <3>6
    <3>8. ASSUME NEW i \in 1 .. Len(b) PROVE b[i] = Tail(a)[i]
      <4>1. i \in 1 .. Len(q) - 2 /\ i + 1 \in 1 .. Len(q) - 1 /\ i \in 1 .. Len(q) - 1
        BY <1>1, <3>6
      <4>2. Tail(a)[i] = a[i + 1]
        BY <3>6, <3>7, HeadTailProperties
      <4>3. a[i + 1] = q[i + 1] /\ b[i] = t[i] /\ t[i] = q[i + 1]
        BY Zenon, <1>1, <3>6, <4>1
      <4>. QED
        BY Zenon, <4>2, <4>3
    <3>9. b = Tail(a)
      BY <3>6, <3>7, <3>8, SeqEqual
    <3>. QED
      BY Zenon, <3>2, <3>3, <3>7, <3>9 DEF a, b
  <2>. QED
    BY <2>1, <2>2
<1>. QED
  BY Zenon, <1>2, <1>3, <1>4, <1>5 DEF t

-----------------------------------------------------------------------------
(* The bin of secondary preprocessing.                                     *)

LEMMA PreConstants ==
  /\ Units \in SUBSET Nat /\ QueueSize \in Nat /\ QueueSize > 0 /\ MaxFrames \in Nat
<1>1. Units \subseteq Nat \ {0} /\ QueueSize \in Nat \ {0} /\ MaxFrames \in Nat
  BY Zenon, StreamAssumption DEF Pre!PreAssumption
<1>. QED
  BY <1>1

(* What a step of the whole does to this bin.                              *)
PreQuiet == UNCHANGED <<preVars, running, loop>>
PreSteps ==
  /\ loop' = loop
  /\ \/ Pre!Create \/ Pre!Arrive \/ Pre!PushBranch \/ Pre!Leave
     \/ \E u \in Units : Pre!Take(u) \/ Pre!Prepare(u)
     \/ Pre!EosArrives /\ ~loop
     \/ Pre!Teardown /\ closing
     \/ PreQuiet

LEMMA PreStepKinds == [Next]_vars => PreSteps
<1> SUFFICES ASSUME [Next]_vars PROVE PreSteps
  OBVIOUS
<1>0. loop' = loop
  BY Zenon, FileSteps DEF fileVars, File!Segment, File!Frame, File!LoopEos, File!PassEos,
     File!SeekDecode, File!Close, File!Reopen
<1>1. CASE Create \/ Destroy
  BY Zenon, <1>0, <1>1 DEF PreSteps, Create, Destroy
<1>2. CASE ShouldCreate \/ SendEos \/ SeekDecode
  BY Zenon, <1>0, <1>2 DEF PreSteps, PreQuiet, ShouldCreate, SendEos, SeekDecode, Gie!Ask
<1>3. CASE Segment \/ LoopEos
  BY Zenon, <1>0, <1>3 DEF PreSteps, PreQuiet, Segment, LoopEos
<1>4. CASE FrameIn \/ EosIn
  BY Zenon, <1>0, <1>4 DEF PreSteps, FrameIn, EosIn, File!PassEos
<1>5. CASE OverThread
  BY Zenon, <1>0, <1>5 DEF PreSteps, OverThread, FrameOver, EosOver
<1>6. CASE FrameOut
  BY Zenon, <1>0, <1>6 DEF PreSteps, PreQuiet, FrameOut, Gie!Leave
<1>7. CASE PreStream
  BY Zenon, <1>0, <1>7 DEF PreSteps, PreStream, Pre!Stream
<1>8. ASSUME NEW t \in Gie!Threads, GieStream(t) PROVE PreSteps
  BY Zenon, <1>0, <1>8
  DEF PreSteps, PreQuiet, GieStream, Gie!PushBranch, Gie!Infer, Gie!Take
<1>9. CASE UNCHANGED vars
  BY Zenon, <1>0, <1>9 DEF PreSteps, PreQuiet, vars
<1>. QED
  BY Zenon, <1>1, <1>2, <1>3, <1>4, <1>5, <1>6, <1>7, <1>8, <1>9
  DEF Next, Main, SourceThread

(* The units that are configured for this bin.                             *)
Wanted == {u \in Units : preConfig.enable[u] /\ preConfig.primary[u]}

PreShape ==
  /\ preCreated \subseteq Units
  /\ ExitQueue(preExit) /\ \A f : Holds(preExit, f) => f <= preArrived
  /\ preQueue \in [Units -> Seq(1 .. MaxFrames)]
  /\ preTee \in [frame : 0 .. MaxFrames, todo : SUBSET Units]
  /\ preAt \in [Units -> 0 .. MaxFrames]
  /\ preResults \in [1 .. MaxFrames -> SUBSET Units]
  /\ preArrived \in 0 .. MaxFrames

(* Work is only under way in a pipeline, and in the units that were created. *)
PreWork ==
  /\ preTee.todo \subseteq preCreated /\ (preTee.todo # {} => preTee.frame # 0 /\ running)
  /\ \A u \in Units : preQueue[u] # << >> \/ preAt[u] # 0 => u \in preCreated /\ running
  /\ \A f \in 1 .. MaxFrames : preResults[f] \subseteq preCreated

(* A frame that has not left was seen by every unit, or is on its way to    *)
(* the ones that did not see it.                                           *)
PreComing(u, f) ==
  (preTee.frame = f /\ u \in preTee.todo) \/ Holds(preQueue[u], f) \/ preAt[u] = f
PreCover ==
  \A f \in 1 .. MaxFrames : Holds(preExit, f) =>
    \A u \in preCreated : u \in preResults[f] \/ PreComing(u, f)

(* Without a pipeline the bin is empty; with one, its units are the wanted  *)
(* ones; and the end of the stream is in the exit queue only after it       *)
(* arrived.                                                                *)
PreUp ==
  /\ preCreated \subseteq Wanted /\ (running => preCreated = Wanted)
  /\ ~running => preExit = << >> /\ ~preEnded
  /\ ~preEnded => Open(preExit)

(* The bin stops waiting only at the end of a stream that is not looped.    *)
PreStopInv == (preStop => preEnded) /\ (preEnded => ~loop)

PreInv == PreShape /\ PreWork /\ PreCover /\ PreUp

LEMMA PreInit == Init => PreInv /\ PreStopInv
<1> SUFFICES ASSUME Init PROVE PreInv /\ PreStopInv
  OBVIOUS
<1>1. /\ preCreated = {} /\ preExit = << >> /\ preQueue = [u \in Units |-> << >>]
      /\ preTee = [frame |-> 0, todo |-> {}] /\ preAt = [u \in Units |-> 0]
      /\ preResults = [f \in 1 .. MaxFrames |-> {}] /\ preArrived = 0
  BY Zenon DEF Init, Pre!Init, Pre!Empty, Pre!Frames
<1>2. ~running /\ ~preStop /\ ~preEnded
  BY Zenon DEF Init, Pre!Init
<1>3. Open(preExit)
  BY <1>1 DEF Open
<1>4. PreShape
  BY <1>1, PreConstants DEF PreShape, ExitQueue, Holds
<1>5. PreWork /\ PreCover
  <2>1. /\ preTee.todo = {} /\ \A u \in Units : preQueue[u] = << >> /\ preAt[u] = 0
        /\ \A f \in 1 .. MaxFrames : preResults[f] = {} /\ ~Holds(preExit, f)
    BY <1>1 DEF Holds
  <2>2. PreWork
    BY Zenon, <2>1 DEF PreWork
  <2>3. PreCover
    BY Zenon, <2>1 DEF PreCover
  <2>. QED
    BY <2>2, <2>3
<1>6. PreUp /\ PreStopInv
  BY Zenon, <1>1, <1>2, <1>3 DEF PreUp, PreStopInv
<1>. QED
  BY <1>4, <1>5, <1>6 DEF PreInv

(* The actions of InferenceStage, in the terms above.                      *)
PreEngines == IF running THEN Wanted ELSE {}
PreStageStep == [Pre!Stage!Next]_(Pre!Stage!vars)

LEMMA PreStageArrives ==
  ASSUME NEW f \in 1 .. MaxFrames, preResults \in [1 .. MaxFrames -> SUBSET Units],
         \A i \in 1 .. Len(Inside(preExit)) : Inside(preExit)[i] # f,
         Inside(preExit') = Append(Inside(preExit), f),
         UNCHANGED <<running, preConfig, preResults, preEnded>>
  PROVE  PreStageStep
<1>1. f \in DOMAIN preResults
  OBVIOUS
<1>2. Pre!Stage!Arrive(f)
  BY Zenon, InsideIsFrames DEF Pre!Stage!Arrive
<1>. QED
  BY Zenon, <1>1, <1>2 DEF PreStageStep, Pre!Stage!Next

LEMMA PreStageInfers ==
  ASSUME NEW f \in 1 .. MaxFrames, preResults \in [1 .. MaxFrames -> SUBSET Units],
         NEW u \in PreEngines,
         preResults' = [preResults EXCEPT ![f] = @ \cup {u}],
         UNCHANGED <<running, preConfig, preExit, preEnded>>
  PROVE  PreStageStep
<1>1. f \in DOMAIN preResults
  OBVIOUS
<1>2. CASE u \in preResults[f]
  <2>1. preResults[f] \cup {u} = preResults[f]
    BY <1>2
  <2>2. preResults' = preResults
    BY <2>1
  <2>3. UNCHANGED Pre!Stage!vars
    BY Zenon, <2>2 DEF Pre!Stage!vars
  <2>. QED
    BY Zenon, <2>3 DEF PreStageStep
<1>3. CASE u \notin preResults[f]
  <2>1. u \in (IF running THEN Wanted ELSE {}) \ preResults[f]
    BY Zenon, <1>3 DEF PreEngines
  <2>2. Pre!Stage!Infer(f, u)
    BY Zenon, <2>1 DEF Pre!Stage!Infer, Wanted
  <2>. QED
    BY Zenon, <1>1, <2>2 DEF PreStageStep, Pre!Stage!Next, PreEngines, Wanted
<1>. QED
  BY Zenon, <1>2, <1>3

LEMMA PreStageLeaves ==
  ASSUME Inside(preExit) # << >>,
         preResults[Head(Inside(preExit))] = PreEngines \/ preEnded,
         Inside(preExit') = Tail(Inside(preExit)),
         UNCHANGED <<running, preConfig, preResults, preEnded>>
  PROVE  PreStageStep
<1>1. Pre!Stage!Leave
  BY Zenon, InsideIsFrames DEF Pre!Stage!Leave, PreEngines, Wanted
<1>. QED
  BY Zenon, <1>1 DEF PreStageStep, Pre!Stage!Next

LEMMA PreStageEnds ==
  ASSUME preEnded', Inside(preExit') = Inside(preExit),
         UNCHANGED <<running, preConfig, preResults>>
  PROVE  PreStageStep
<1>1. preEnded' = TRUE
  OBVIOUS
<1>2. Pre!Stage!End
  BY Zenon, <1>1, InsideIsFrames DEF Pre!Stage!End
<1>. QED
  BY Zenon, <1>2 DEF PreStageStep, Pre!Stage!Next

LEMMA PreStageRenews ==
  ASSUME running' = ~running, Inside(preExit') = << >>, ~preEnded', preResults' = preResults
  PROVE  PreStageStep
<1>1. Pre!Stage!Renew
  BY Zenon, InsideIsFrames DEF Pre!Stage!Renew
<1>. QED
  BY Zenon, <1>1 DEF PreStageStep, Pre!Stage!Next

LEMMA PreStageStutters ==
  ASSUME Inside(preExit') = Inside(preExit),
         UNCHANGED <<running, preConfig, preResults, preEnded>>
  PROVE  PreStageStep
<1>1. UNCHANGED Pre!Stage!vars
  BY Zenon, InsideIsFrames DEF Pre!Stage!vars
<1>. QED
  BY Zenon, <1>1 DEF PreStageStep

LEMMA PreStageInit == Init => Pre!Stage!Init
<1> SUFFICES ASSUME Init PROVE Pre!Stage!Init
  OBVIOUS
<1>1. preExit = << >> /\ preResults = [f \in 1 .. MaxFrames |-> {}]
  BY Zenon DEF Init, Pre!Init, Pre!Frames
<1>2. ~running /\ ~preEnded
  BY Zenon DEF Init, Pre!Init
<1>3. Pre!FramesOf(preExit) = << >> /\ \A f \in DOMAIN preResults : preResults[f] = {}
  BY <1>1, InsideIsFrames DEF Inside
<1>. QED
  BY Zenon, <1>2, <1>3 DEF Pre!Stage!Init

(* What PreUp and PreStopInv keep when neither the units nor the history of *)
(* the stream change.                                                      *)
LEMMA PreUpKept ==
  ASSUME PreUp, PreStopInv, Open(preExit) => Open(preExit'), running \/ preExit' = << >>,
         UNCHANGED <<preConfig, preCreated, running, preStop, preEnded, loop>>
  PROVE  PreUp' /\ PreStopInv'
BY Zenon DEF PreUp, PreStopInv, Wanted

LEMMA PreArrives ==
  ASSUME PreInv, PreStopInv, Pre!Arrive, loop' = loop
  PROVE  PreInv' /\ PreStopInv' /\ PreStageStep
<1> DEFINE f == preArrived + 1
<1>1. /\ running /\ ~preEnded /\ preTee = [frame |-> 0, todo |-> {}]
      /\ preArrived < MaxFrames /\ preArrived' = f /\ preExit' = Append(preExit, f)
      /\ preTee' = IF preCreated = {} THEN [frame |-> 0, todo |-> {}]
                   ELSE [frame |-> f, todo |-> preCreated]
      /\ UNCHANGED <<preConfig, preCreated, running, preStop, preQueue, preAt,
                     preResults, preEnded>>
  BY Zenon DEF Pre!Arrive, Pre!Empty
<1>2. PreShape /\ PreWork /\ PreCover /\ PreUp /\ Open(preExit)
  BY Zenon, <1>1 DEF PreInv, PreUp
<1>3. f \in Nat /\ f # 0 /\ f \in 1 .. MaxFrames
  BY <1>1, <1>2, PreConstants DEF PreShape
<1> HIDE DEF f
<1>4. /\ ExitQueue(preExit') /\ Open(preExit')
      /\ Inside(preExit) = preExit /\ Inside(preExit') = Append(Inside(preExit), f)
  BY Zenon, <1>1, <1>2, <1>3, InsideArrive
<1>5. /\ \A g : Holds(preExit', g) <=> Holds(preExit, g) \/ g = f
      /\ \A g : Holds(preExit, g) => g \in Nat /\ g # 0 /\ g <= preArrived
  <2>1. preExit \in Seq(Nat)
    BY Zenon, <1>2 DEF Open
  <2>2. \A g : Holds(preExit, g) => g \in Nat /\ g # 0
    BY <1>2 DEF Open, Holds
  <2>. QED
    BY Zenon, <1>1, <1>2, <1>3, <2>1, <2>2, HoldsAppend DEF PreShape
<1>6. PreShape'
  <2>1. \A g : Holds(preExit', g) => g <= preArrived'
    <3>1. preArrived \in Nat /\ preArrived' = preArrived + 1 /\ f = preArrived + 1
      BY <1>1, <1>2, PreConstants DEF PreShape, f
    <3>. QED
      BY <1>5, <3>1
  <2>2. preTee' \in [frame : 0 .. MaxFrames, todo : SUBSET Units]
    BY <1>1, <1>2, <1>3 DEF PreShape
  <2>3. preArrived' \in 0 .. MaxFrames
    BY <1>1, <1>3
  <2>. QED
    BY Zenon, <1>1, <1>2, <1>4, <2>1, <2>2, <2>3 DEF PreShape
<1>7. PreWork'
  <2>1. preTee'.todo \subseteq preCreated /\ (preTee'.todo # {} => preTee'.frame # 0)
    BY <1>1, <1>3
  <2>. QED
    BY Zenon, <1>1, <1>2, <2>1 DEF PreWork
<1>8. PreCover'
  <2> SUFFICES ASSUME NEW g \in 1 .. MaxFrames, Holds(preExit', g), NEW u \in preCreated
               PROVE  u \in preResults[g] \/ PreComing(u, g)'
    BY Zenon, <1>1 DEF PreCover
  <2>1. CASE g = f
    <3>1. preTee'.frame = f /\ u \in preTee'.todo
      BY <1>1
    <3>. QED
      BY Zenon, <2>1, <3>1 DEF PreComing
  <2>2. CASE Holds(preExit, g)
    <3>1. u \notin preTee.todo
      BY <1>1
    <3>. QED
      BY Zenon, <1>1, <1>2, <2>2, <3>1 DEF PreCover, PreComing
  <2>. QED
    BY Zenon, <1>5, <2>1, <2>2
<1>9. PreUp' /\ PreStopInv'
  BY Zenon, <1>1, <1>2, <1>4, PreUpKept
<1>10. \A i \in 1 .. Len(Inside(preExit)) : Inside(preExit)[i] # f
  <2> SUFFICES ASSUME NEW i \in 1 .. Len(preExit) PROVE preExit[i] # f
    BY Zenon, <1>4
  <2>1. Holds(preExit, preExit[i])
    BY Zenon DEF Holds
  <2>2. preExit[i] \in Nat /\ preExit[i] <= preArrived /\ preArrived \in Nat
    BY <1>2, <1>5, <2>1 DEF PreShape
  <2>. QED
    BY <2>2 DEF f
<1>11. preResults \in [1 .. MaxFrames -> SUBSET Units]
  BY Zenon, <1>2 DEF PreShape
<1>12. PreStageStep
  BY Zenon, <1>1, <1>3, <1>4, <1>10, <1>11, PreStageArrives
<1>. QED
  BY Zenon, <1>6, <1>7, <1>8, <1>9, <1>12 DEF PreInv

LEMMA PreEnds ==
  ASSUME PreInv, PreStopInv, Pre!EosArrives, ~loop, loop' = loop
  PROVE  PreInv' /\ PreStopInv' /\ PreStageStep
<1>1. /\ running /\ ~preEnded /\ preStop' /\ preEnded' /\ preExit' = Append(preExit, 0)
      /\ UNCHANGED <<preConfig, preCreated, running, preQueue, preTee, preAt,
                     preResults, preArrived>>
  BY Zenon DEF Pre!EosArrives, Pre!Eos
<1>2. PreShape /\ PreWork /\ PreCover /\ PreUp /\ Open(preExit)
  BY Zenon, <1>1 DEF PreInv, PreUp
<1>3. ExitQueue(preExit') /\ Inside(preExit') = Inside(preExit)
  BY Zenon, <1>1, <1>2, InsideEnd
<1>4. \A g : Holds(preExit', g) <=> Holds(preExit, g) \/ g = 0
  <2>1. preExit \in Seq(Nat) /\ 0 \in Nat
    BY <1>2 DEF Open
  <2>. QED
    BY Zenon, <1>1, <2>1, HoldsAppend
<1>5. PreShape'
  <2>1. 0 <= preArrived
    BY <1>2 DEF PreShape
  <2>. QED
    BY Zenon, <1>1, <1>2, <1>3, <1>4, <2>1 DEF PreShape
<1>6. PreWork'
  BY Zenon, <1>1, <1>2 DEF PreWork
<1>7. PreCover'
  <2>1. \A g \in 1 .. MaxFrames : g # 0
    OBVIOUS
  <2>. QED
    BY Zenon, <1>1, <1>2, <1>4, <2>1 DEF PreCover, PreComing
<1>8. PreUp' /\ PreStopInv'
  BY Zenon, <1>1, <1>2 DEF PreUp, PreStopInv, Wanted
<1>9. PreStageStep
  BY Zenon, <1>1, <1>3, PreStageEnds
<1>. QED
  BY Zenon, <1>5, <1>6, <1>7, <1>8, <1>9 DEF PreInv

(* The steps inside the bin leave the exit queue alone.                    *)
LEMMA PreInner ==
  ASSUME PreInv, PreStopInv,
         UNCHANGED <<preConfig, preCreated, running, preStop, preExit, preArrived, preEnded, loop>>,
         preQueue' \in [Units -> Seq(1 .. MaxFrames)],
         preTee' \in [frame : 0 .. MaxFrames, todo : SUBSET Units],
         preAt' \in [Units -> 0 .. MaxFrames],
         preResults' \in [1 .. MaxFrames -> SUBSET Units],
         PreWork',
         \A f \in 1 .. MaxFrames, u \in preCreated :
           u \in preResults[f] \/ PreComing(u, f) => u \in preResults'[f] \/ PreComing(u, f)'
  PROVE  PreInv' /\ PreStopInv'
<1>1. PreShape'
  BY Zenon DEF PreInv, PreShape
<1>2. PreCover'
  BY Zenon DEF PreInv, PreCover
<1>3. PreUp' /\ PreStopInv'
  BY Zenon DEF PreInv, PreUp, PreStopInv, Wanted
<1>. QED
  BY Zenon, <1>1, <1>2, <1>3 DEF PreInv

LEMMA PrePushes ==
  ASSUME PreInv, PreStopInv, Pre!PushBranch, loop' = loop
  PROVE  PreInv' /\ PreStopInv' /\ PreStageStep
<1> DEFINE v == Pre!Min(preTee.todo)
           rest == preTee.todo \ {v}
<1>1. /\ preTee.todo # {}
      /\ preQueue' = [preQueue EXCEPT ![v] = Append(@, preTee.frame)]
      /\ preTee' = IF rest = {} THEN [frame |-> 0, todo |-> {}] ELSE [preTee EXCEPT !.todo = rest]
      /\ UNCHANGED <<preConfig, preCreated, running, preStop, preExit, preAt, preResults,
                     preArrived, preEnded>>
  BY Zenon DEF Pre!PushBranch, Pre!Empty
<1>2. PreShape /\ PreWork
  BY Zenon DEF PreInv
<1>3. v \in preTee.todo
  <2>1. preTee.todo \in SUBSET Nat
    BY <1>2, PreConstants DEF PreShape
  <2>. QED
    BY Zenon, <1>1, <2>1, MinIsMember
<1> HIDE DEF v
<1>4. v \in Units /\ v \in preCreated /\ preTee.frame \in 1 .. MaxFrames /\ running
  <2>1. v \in preCreated /\ preTee.frame # 0 /\ running
    BY Zenon, <1>1, <1>2, <1>3 DEF PreWork
  <2>. QED
    BY <1>2, <2>1, PreConstants DEF PreShape
<1>5. preQueue' \in [Units -> Seq(1 .. MaxFrames)]
  BY <1>1, <1>2, <1>4 DEF PreShape
<1>6. /\ preTee' \in [frame : 0 .. MaxFrames, todo : SUBSET Units]
      /\ preTee'.todo = rest /\ (rest # {} => preTee'.frame = preTee.frame)
  <2>1. preTee \in [frame : 0 .. MaxFrames, todo : SUBSET Units]
    BY Zenon, <1>2 DEF PreShape
  <2>2. rest \in SUBSET Units
    BY <2>1
  <2> HIDE DEF rest
  <2>3. CASE rest = {}
    BY <1>1, <2>3, PreConstants
  <2>4. CASE rest # {}
    BY <1>1, <2>1, <2>2, <2>4
  <2>. QED
    BY <2>3, <2>4
<1>7. /\ \A f : Holds(preQueue'[v], f) <=> Holds(preQueue[v], f) \/ f = preTee.frame
      /\ \A u \in Units : u # v => preQueue'[u] = preQueue[u]
  <2>1. preQueue'[v] = Append(preQueue[v], preTee.frame) /\ preQueue[v] \in Seq(1 .. MaxFrames)
    BY <1>1, <1>2, <1>4 DEF PreShape
  <2>2. \A u \in Units : u # v => preQueue'[u] = preQueue[u]
    BY <1>1, <1>2, <1>4 DEF PreShape
  <2>3. \A f : Holds(Append(preQueue[v], preTee.frame), f) <=> Holds(preQueue[v], f) \/ f = preTee.frame
    BY <1>4, <2>1, HoldsAppend
  <2>. QED
    BY Zenon, <2>1, <2>2, <2>3
<1>8. PreWork'
  <2>0. preTee.todo \subseteq preCreated
    BY Zenon, <1>2 DEF PreWork
  <2>1. preTee'.todo \subseteq preCreated /\ (preTee'.todo # {} => preTee'.frame # 0)
    BY <1>4, <1>6, <2>0
  <2>. QED
    BY Zenon, <1>1, <1>2, <1>4, <1>7, <2>1 DEF PreWork
<1>9. ASSUME NEW f \in 1 .. MaxFrames, NEW u \in preCreated, PreComing(u, f)
      PROVE  PreComing(u, f)'
  <2>1. u \in Units
    BY <1>2 DEF PreShape
  <2>2. preTee.frame = f /\ u \in preTee.todo => u = v \/ (preTee'.frame = f /\ u \in preTee'.todo)
    BY <1>6
  <2>. QED
    BY Zenon, <1>1, <1>7, <1>9, <2>1, <2>2 DEF PreComing
<1>10. PreInv' /\ PreStopInv'
  <2>1. preAt' \in [Units -> 0 .. MaxFrames] /\ preResults' \in [1 .. MaxFrames -> SUBSET Units]
    BY Zenon, <1>1, <1>2 DEF PreShape
  <2>. QED
    BY Zenon, <1>1, <1>5, <1>6, <1>8, <1>9, <2>1, PreInner
<1>11. PreStageStep
  BY Zenon, <1>1, PreStageStutters
<1>. QED
  BY Zenon, <1>10, <1>11

LEMMA PreTakes ==
  ASSUME PreInv, PreStopInv, NEW v \in Units, Pre!Take(v), loop' = loop
  PROVE  PreInv' /\ PreStopInv' /\ PreStageStep
<1>1. /\ preAt[v] = 0 /\ preQueue[v] # << >>
      /\ preAt' = [preAt EXCEPT ![v] = Head(preQueue[v])]
      /\ preQueue' = [preQueue EXCEPT ![v] = Tail(@)]
      /\ UNCHANGED <<preConfig, preCreated, running, preStop, preExit, preTee, preResults,
                     preArrived, preEnded>>
  BY Zenon DEF Pre!Take
<1>2. PreShape /\ PreWork
  BY Zenon DEF PreInv
<1>3. preQueue[v] \in Seq(1 .. MaxFrames) /\ v \in preCreated /\ running
  <2>1. v \in preCreated /\ running
    BY Zenon, <1>1, <1>2 DEF PreWork
  <2>. QED
    BY <1>2, <2>1 DEF PreShape
<1>4. Head(preQueue[v]) \in 1 .. MaxFrames /\ Tail(preQueue[v]) \in Seq(1 .. MaxFrames)
  BY <1>1, <1>3, HeadTailProperties
<1>5. preQueue' \in [Units -> Seq(1 .. MaxFrames)]
  BY <1>1, <1>2, <1>4 DEF PreShape
<1>6. preAt' \in [Units -> 0 .. MaxFrames]
  BY <1>1, <1>2, <1>4 DEF PreShape
<1>7. /\ preQueue'[v] = Tail(preQueue[v]) /\ preAt'[v] = Head(preQueue[v])
      /\ \A u \in Units : u # v => preQueue'[u] = preQueue[u] /\ preAt'[u] = preAt[u]
  BY <1>1, <1>2 DEF PreShape
<1>8. \A f : Holds(preQueue[v], f) => f = Head(preQueue[v]) \/ Holds(Tail(preQueue[v]), f)
  BY Zenon, <1>1, <1>3, HoldsTail
<1>9. PreWork'
  BY Zenon, <1>1, <1>2, <1>3, <1>7 DEF PreWork
<1>10. ASSUME NEW f \in 1 .. MaxFrames, NEW u \in preCreated, PreComing(u, f)
       PROVE  PreComing(u, f)'
  <2>1. u \in Units /\ f # 0
    BY <1>2 DEF PreShape
  <2>. QED
    BY Zenon, <1>1, <1>7, <1>8, <1>10, <2>1 DEF PreComing
<1>11. PreInv' /\ PreStopInv'
  <2>1. /\ preTee' \in [frame : 0 .. MaxFrames, todo : SUBSET Units]
        /\ preResults' \in [1 .. MaxFrames -> SUBSET Units]
    BY Zenon, <1>1, <1>2 DEF PreShape
  <2>. QED
    BY Zenon, <1>1, <1>5, <1>6, <1>9, <1>10, <2>1, PreInner
<1>12. PreStageStep
  BY Zenon, <1>1, PreStageStutters
<1>. QED
  BY Zenon, <1>11, <1>12

LEMMA PrePrepares ==
  ASSUME PreInv, PreStopInv, NEW v \in Units, Pre!Prepare(v), loop' = loop
  PROVE  PreInv' /\ PreStopInv' /\ PreStageStep
<1> DEFINE g == preAt[v]
<1>1. /\ g # 0
      /\ preResults' = [preResults EXCEPT ![g] = @ \cup {v}]
      /\ preAt' = [preAt EXCEPT ![v] = 0]
      /\ UNCHANGED <<preConfig, preCreated, running, preStop, preExit, preQueue, preTee,
                     preArrived, preEnded>>
  BY Zenon DEF Pre!Prepare
<1>2. PreShape /\ PreWork /\ PreUp
  BY Zenon DEF PreInv
<1>3. g \in 1 .. MaxFrames /\ v \in preCreated /\ running
  <2>1. v \in preCreated /\ running
    BY Zenon, <1>1, <1>2 DEF PreWork
  <2>2. g \in 0 .. MaxFrames
    BY <1>2 DEF PreShape
  <2>. QED
    BY <1>1, <2>1, <2>2, PreConstants
<1>4. preAt' \in [Units -> 0 .. MaxFrames]
  BY <1>1, <1>2, PreConstants DEF PreShape
<1> HIDE DEF g
<1>5. /\ preResults' \in [1 .. MaxFrames -> SUBSET Units]
      /\ preResults'[g] = preResults[g] \cup {v}
      /\ \A f \in 1 .. MaxFrames : f # g => preResults'[f] = preResults[f]
  BY <1>1, <1>2, <1>3 DEF PreShape
<1>6. /\ preAt'[v] = 0 /\ \A u \in Units : u # v => preAt'[u] = preAt[u]
  BY <1>1, <1>2 DEF PreShape
<1>7. PreWork'
  <2>0. \A f \in 1 .. MaxFrames : preResults[f] \subseteq preCreated
    BY Zenon, <1>2 DEF PreWork
  <2>1. \A f \in 1 .. MaxFrames : preResults'[f] \subseteq preCreated
    BY <1>3, <1>5, <2>0
  <2>. QED
    BY Zenon, <1>1, <1>2, <1>6, <2>1 DEF PreWork
<1>8. ASSUME NEW f \in 1 .. MaxFrames, NEW u \in preCreated,
             u \in preResults[f] \/ PreComing(u, f)
      PROVE  u \in preResults'[f] \/ PreComing(u, f)'
  <2>1. u \in Units
    BY <1>2 DEF PreShape
  <2>2. u \in preResults[f] => u \in preResults'[f]
    BY <1>5
  <2>3. v \in preResults'[g]
    BY <1>5
  <2>. QED
    BY Zenon, <1>1, <1>6, <1>8, <2>1, <2>2, <2>3 DEF PreComing, g
<1>9. PreInv' /\ PreStopInv'
  <2>1. /\ preTee' \in [frame : 0 .. MaxFrames, todo : SUBSET Units]
        /\ preQueue' \in [Units -> Seq(1 .. MaxFrames)]
    BY Zenon, <1>1, <1>2 DEF PreShape
  <2>. QED
    BY Zenon, <1>1, <1>4, <1>5, <1>7, <1>8, <2>1, PreInner
<1>10. PreStageStep
  <2>1. v \in PreEngines
    BY Zenon, <1>2, <1>3 DEF PreUp, PreEngines
  <2>2. preResults \in [1 .. MaxFrames -> SUBSET Units]
    BY Zenon, <1>2 DEF PreShape
  <2>. QED
    BY Zenon, <1>1, <1>3, <2>1, <2>2, PreStageInfers
<1>. QED
  BY Zenon, <1>9, <1>10

LEMMA PreLeaves ==
  ASSUME PreInv, PreStopInv, Pre!Leave, loop' = loop
  PROVE  PreInv' /\ PreStopInv' /\ PreStageStep
<1> DEFINE f == Head(preExit)
<1>1. /\ preExit # << >> /\ preExit' = Tail(preExit)
      /\ f = 0 \/ ~Pre!Held(f) \/ preStop
      /\ UNCHANGED <<preConfig, preCreated, running, preStop, preQueue, preTee, preAt,
                     preResults, preArrived, preEnded>>
  BY Zenon DEF Pre!Leave, Pre!WaitQueueBufProbe, Pre!Eos
<1>2. PreShape /\ PreWork /\ PreCover /\ PreUp /\ running /\ ExitQueue(preExit)
  BY Zenon, <1>1 DEF PreInv, PreUp, PreShape
<1>3. preExit \in Seq(Nat)
  BY Zenon, <1>2 DEF ExitQueue
<1>4. \A g : Holds(preExit, g) <=> g = f \/ Holds(preExit', g)
  BY Zenon, <1>1, <1>3, HoldsTail
<1>5. /\ ExitQueue(preExit') /\ (Open(preExit) => Open(preExit'))
      /\ f = 0 => Inside(preExit) = << >> /\ Inside(preExit') = << >>
      /\ f # 0 => /\ Inside(preExit) # << >> /\ Head(Inside(preExit)) = f
                  /\ Inside(preExit') = Tail(Inside(preExit))
  BY Zenon, <1>1, <1>2, InsideLeave
<1>6. PreShape' /\ PreWork' /\ PreCover'
  <2>1. PreShape'
    BY Zenon, <1>1, <1>2, <1>4, <1>5 DEF PreShape
  <2>2. PreWork'
    BY Zenon, <1>1, <1>2 DEF PreWork
  <2>3. PreCover'
    BY Zenon, <1>1, <1>2, <1>4 DEF PreCover, PreComing
  <2>. QED
    BY Zenon, <2>1, <2>2, <2>3
<1>7. PreUp' /\ PreStopInv'
  BY Zenon, <1>1, <1>2, <1>5, PreUpKept
<1>8. f = 0 => PreStageStep
  BY Zenon, <1>1, <1>5, PreStageStutters
<1>9. ASSUME f # 0 PROVE PreStageStep
  <2>1. f \in 1 .. MaxFrames
    <3>1. Holds(preExit, f)
      BY Zenon, <1>4
    <3>2. f <= preArrived /\ preArrived \in 0 .. MaxFrames
      BY Zenon, <1>2, <3>1 DEF PreShape
    <3>3. f \in Nat
      BY <1>1, <1>3
    <3>. QED
      BY <1>9, <3>2, <3>3, PreConstants
  <2>2. ASSUME ~Pre!Held(f) PROVE preResults[f] = PreEngines
    <3>1. \A u \in preCreated : ~PreComing(u, f)
      BY Zenon, <1>2, <2>2 DEF Pre!Held, PreComing, Holds, PreShape
    <3>2. \A u \in preCreated : u \in preResults[f]
      BY Zenon, <1>2, <1>4, <2>1, <3>1 DEF PreCover
    <3>3. preResults[f] \subseteq preCreated /\ PreEngines = preCreated
      BY Zenon, <1>2, <2>1 DEF PreWork, PreUp, PreEngines
    <3>. QED
      BY Zenon, <3>2, <3>3
  <2>3. preResults[f] = PreEngines \/ preEnded
    BY Zenon, <1>1, <1>9, <2>2 DEF PreStopInv
  <2>. QED
    BY Zenon, <1>1, <1>5, <1>9, <2>3, PreStageLeaves
<1>. QED
  BY Zenon, <1>6, <1>7, <1>8, <1>9 DEF PreInv

LEMMA PreCreates ==
  ASSUME PreInv, PreStopInv, Pre!Create, loop' = loop
  PROVE  PreInv' /\ PreStopInv' /\ PreStageStep
<1>1. /\ ~running /\ running'
      /\ preCreated' = {u \in Units : Pre!ShouldCreate(u)}
      /\ UNCHANGED <<preConfig, preStop, preExit, preQueue, preTee, preAt, preResults,
                     preArrived, preEnded>>
  BY Zenon DEF Pre!Create, Pre!flow
<1>2. PreShape /\ PreWork /\ PreUp /\ preExit = << >> /\ ~preEnded
  BY Zenon, <1>1 DEF PreInv, PreUp
<1>3. preCreated' = Wanted /\ preCreated' \subseteq Units /\ preCreated \subseteq preCreated'
  <2>1. preCreated \subseteq Wanted
    BY Zenon, <1>2 DEF PreUp
  <2>. QED
    BY Zenon, <1>1, <2>1 DEF Pre!ShouldCreate, Wanted
<1>4. PreShape'
  BY Zenon, <1>1, <1>2, <1>3 DEF PreShape
<1>5. PreWork'
  BY Zenon, <1>1, <1>2, <1>3 DEF PreWork
<1>6. PreCover'
  <2>1. \A g : ~Holds(preExit', g)
    BY <1>1, <1>2 DEF Holds
  <2>. QED
    BY Zenon, <2>1 DEF PreCover
<1>7. PreUp' /\ PreStopInv'
  BY Zenon, <1>1, <1>2, <1>3 DEF PreUp, PreStopInv, Wanted
<1>8. PreStageStep
  <2>1. Inside(preExit') = << >>
    BY Zenon, <1>1, <1>2 DEF Inside
  <2>2. running' = ~running
    BY Zenon, <1>1
  <2>. QED
    BY Zenon, <1>1, <1>2, <2>1, <2>2, PreStageRenews
<1>. QED
  BY Zenon, <1>4, <1>5, <1>6, <1>7, <1>8 DEF PreInv

LEMMA PreTearsDown ==
  ASSUME PreInv, PreStopInv, Pre!Teardown, loop, loop' = loop
  PROVE  PreInv' /\ PreStopInv' /\ PreStageStep
<1>1. /\ running /\ ~running' /\ ~preEnded'
      /\ preExit' = << >> /\ preQueue' = [u \in Units |-> << >>]
      /\ preTee' = [frame |-> 0, todo |-> {}] /\ preAt' = [u \in Units |-> 0]
      /\ UNCHANGED <<preConfig, preCreated, preStop, preResults, preArrived>>
  BY Zenon DEF Pre!Teardown, Pre!Empty
<1>2. PreShape /\ PreWork /\ PreUp
  BY Zenon DEF PreInv
<1>3. /\ ExitQueue(preExit') /\ Open(preExit') /\ \A g : ~Holds(preExit', g)
      /\ Inside(preExit') = << >>
  BY <1>1 DEF ExitQueue, Open, Holds, Inside
<1>4. /\ preQueue' \in [Units -> Seq(1 .. MaxFrames)]
      /\ preTee' \in [frame : 0 .. MaxFrames, todo : SUBSET Units]
      /\ preAt' \in [Units -> 0 .. MaxFrames]
      /\ preTee'.todo = {} /\ \A u \in Units : preQueue'[u] = << >> /\ preAt'[u] = 0
  BY <1>1, PreConstants
<1>5. PreShape'
  BY Zenon, <1>1, <1>2, <1>3, <1>4 DEF PreShape
<1>6. PreWork'
  BY Zenon, <1>1, <1>2, <1>4 DEF PreWork
<1>7. PreCover'
  BY Zenon, <1>3 DEF PreCover
<1>8. PreUp' /\ PreStopInv'
  BY Zenon, <1>1, <1>2, <1>3 DEF PreUp, PreStopInv, Wanted
<1>9. PreStageStep
  <2>1. running /\ running' = FALSE
    BY Zenon DEF Pre!Teardown
  <2>2. running' = ~running
    BY <2>1
  <2>. QED
    BY Zenon, <1>1, <1>3, <2>2, PreStageRenews
<1>. QED
  BY Zenon, <1>5, <1>6, <1>7, <1>8, <1>9 DEF PreInv

LEMMA PreRests ==
  ASSUME PreInv, PreStopInv, PreQuiet
  PROVE  PreInv' /\ PreStopInv' /\ PreStageStep
<1>1. UNCHANGED <<preConfig, preCreated, preStop, preExit, preQueue, preTee, preAt,
                  preResults, preArrived, preEnded, running, loop>>
  BY Zenon DEF PreQuiet, preVars
<1>2. PreInv' /\ PreStopInv'
  BY Zenon, <1>1
  DEF PreInv, PreStopInv, PreShape, PreWork, PreCover, PreComing, PreUp, Wanted
<1>3. PreStageStep
  BY Zenon, <1>1, PreStageStutters
<1>. QED
  BY Zenon, <1>2, <1>3

(* A pipeline is only taken down for a looped file, unless those of other   *)
(* sources are recreated too.                                              *)
ClosingInv == closing => loop

LEMMA ClosingKept ==
  ASSUME ~RecreateWithoutLoop
  PROVE  (Init => ClosingInv) /\ (ClosingInv /\ [Next]_vars => ClosingInv')
<1>1. Init => ClosingInv
  BY Zenon DEF Init, File!Init, ClosingInv
<1>2. ASSUME ClosingInv, [Next]_vars PROVE ClosingInv'
  <2>1. CASE File!Close
    <3>1. ASSUME SendEos PROVE loop /\ loop' = loop
      BY Zenon, <3>1 DEF SendEos, File!Close
    <3>2. closing' => closing \/ SendEos
      <4>1. CASE Main
        BY Zenon, <4>1 DEF Main, ShouldCreate, Create, Destroy, SeekDecode,
           File!Reopen, File!SeekDecode, fileVars
      <4>2. CASE SourceThread
        BY Zenon, <4>2 DEF SourceThread, Segment, LoopEos, FrameIn, EosIn,
           File!Segment, File!LoopEos, File!Frame, File!PassEos
      <4>3. CASE OverThread \/ FrameOut \/ PreStream \/ \E t \in Gie!Threads : GieStream(t)
        BY Zenon, <4>3 DEF OverThread, FrameOver, EosOver, FrameOut, PreStream, GieStream,
           fileVars
      <4>4. CASE UNCHANGED vars
        BY Zenon, <4>4 DEF vars, fileVars
      <4>. QED
        BY Zenon, <1>2, <4>1, <4>2, <4>3, <4>4 DEF Next
    <3>3. loop' = loop
      BY Zenon, <2>1 DEF File!Close
    <3>. QED
      BY Zenon, <1>2, <3>1, <3>2, <3>3 DEF ClosingInv
  <2>2. CASE ~File!Close
    BY Zenon, <1>2, <2>2, FileSteps
    DEF ClosingInv, fileVars, File!Segment, File!Frame, File!LoopEos, File!PassEos,
        File!SeekDecode, File!Reopen
  <2>. QED
    BY Zenon, <2>1, <2>2
<1>. QED
  BY <1>1, <1>2

LEMMA PreNext ==
  ASSUME PreInv, PreStopInv, ClosingInv, [Next]_vars
  PROVE  PreInv' /\ PreStopInv' /\ PreStageStep
BY Zenon, PreStepKinds, PreCreates, PreArrives, PrePushes, PreLeaves, PreTakes, PrePrepares,
   PreEnds, PreTearsDown, PreRests
DEF PreSteps, ClosingInv

(* The bin of secondary preprocessing keeps the promise of InferenceStage:  *)
(* frames leave it in the order of their arrival, each once, and each seen  *)
(* by every unit that operates on the primary engine, unless the stream has *)
(* ended meanwhile (deepstream_secondary_preprocess.c:20-27, 41-51).        *)
THEOREM PreIsAStage == ~RecreateWithoutLoop => (Spec => Pre!ImplementsInference)
<1> SUFFICES ASSUME ~RecreateWithoutLoop PROVE Spec => Pre!ImplementsInference
  OBVIOUS
<1> DEFINE I == PreInv /\ PreStopInv /\ ClosingInv
<1>1. Init => I /\ Pre!Stage!Init
  BY Zenon, PreInit, PreStageInit, ClosingKept
<1>2. I /\ [Next]_vars => I' /\ [Pre!Stage!Next]_(Pre!Stage!vars)
  BY Zenon, PreNext, ClosingKept DEF PreStageStep
<1> HIDE DEF I
<1>. QED
  BY <1>1, <1>2, PTL DEF Spec, Pre!ImplementsInference, Pre!Stage!Spec
-----------------------------------------------------------------------------
(* The chain of targets.                                                   *)

(* The operators of FiniteSets, as the instance of SecondaryGie has them.   *)
LEMMA SameSize ==
  /\ \A S : Gie!Cardinality(S) = Cardinality(S)
  /\ \A S : Gie!IsFiniteSet(S) <=> IsFiniteSet(S)
BY Zenon DEF Gie!Cardinality, Cardinality, Gie!IsFiniteSet, IsFiniteSet

N == Cardinality(Engines)

LEMMA GieConstants ==
  /\ N \in Nat /\ Engines = 1 .. N /\ Engines \in SUBSET Nat /\ IsFiniteSet(Engines)
  /\ 0 \notin Engines /\ -1 \notin Engines
  /\ QueueSize \in Nat /\ QueueSize > 0 /\ MaxFrames \in Nat
<1>1. /\ IsFiniteSet(Engines) /\ Engines = 1 .. N
      /\ QueueSize \in Nat \ {0} /\ MaxFrames \in Nat
  BY Zenon, StreamAssumption, SameSize DEF Gie!GieAssumption, N
<1>2. N \in Nat
  BY Zenon, <1>1, FS_CardinalityType DEF N
<1>. QED
  BY <1>1, <1>2

(* The engine that x operates on, 0 if there is none.                      *)
Up(c, x) == IF x = 0 THEN 0 ELSE Gie!Target(c, x)
Climbs(c, e, n, g) ==
  /\ g \in [0 .. n -> Engines \cup {0}] /\ g[0] = e
  /\ \A k \in 1 .. n : g[k] = Up(c, g[k - 1])

LEMMA UpIsEngine ==
  ASSUME NEW c, NEW x
  PROVE  Up(c, x) \in Engines \cup {0}
<1> DEFINE hits == {i \in Engines : c.uid[i] = c.on[x]}
<1>1. hits \in SUBSET Nat /\ hits \subseteq Engines
  BY Zenon, GieConstants
<1>2. Gie!Target(c, x) = IF hits = {} THEN 0 ELSE Gie!Min(hits)
  BY Zenon DEF Gie!Target, Gie!None
<1> HIDE DEF hits
<1>3. hits # {} => Gie!Min(hits) \in hits
  BY Zenon, <1>1, MinIsMember
<1>. QED
  BY <1>1, <1>2, <1>3 DEF Up

LEMMA ClimbExists ==
  ASSUME NEW c, NEW e \in Engines, NEW n \in Nat
  PROVE  \E g : Climbs(c, e, n, g)
<1> DEFINE bad == {m \in Nat : ~\E g : Climbs(c, e, m, g)}
<1>1. SUFFICES ASSUME bad # {} PROVE FALSE
  BY Zenon
<1>2. PICK m \in bad : \A k \in bad : m <= k
  BY Zenon, <1>1, LeastNumber
<1>3. m # 0
  <2>1. Climbs(c, e, 0, [k \in 0 .. 0 |-> e])
    BY DEF Climbs
  <2>. QED
    BY Zenon, <2>1
<1>4. m \in Nat /\ m - 1 \in Nat /\ ~(m <= m - 1)
  BY <1>3
<1>5. PICK h : Climbs(c, e, m - 1, h)
  BY Zenon, <1>2, <1>4
<1> DEFINE g == [k \in 0 .. m |-> IF k = m THEN Up(c, h[m - 1]) ELSE h[k]]
<1>6. Climbs(c, e, m, g)
  <2>1. /\ h \in [0 .. m - 1 -> Engines \cup {0}] /\ h[0] = e
        /\ \A k \in 1 .. m - 1 : h[k] = Up(c, h[k - 1])
    BY Zenon, <1>5 DEF Climbs
  <2>2. g \in [0 .. m -> Engines \cup {0}]
    BY <1>4, <2>1, UpIsEngine
  <2>3. g[0] = e
    BY <1>4, <1>3, <2>1
  <2>4. \A k \in 0 .. m - 1 : g[k] = h[k]
    BY <1>4
  <2>5. g[m] = Up(c, h[m - 1])
    BY <1>4
  <2> HIDE DEF g
  <2>6. ASSUME NEW k \in 1 .. m PROVE g[k] = Up(c, g[k - 1])
    <3>1. CASE k = m
      BY <1>3, <1>4, <2>4, <2>5, <3>1
    <3>2. CASE k # m
      <4>1. k \in 1 .. m - 1 /\ k \in 0 .. m - 1 /\ k - 1 \in 0 .. m - 1
        BY <1>4, <3>2
      <4>. QED
        BY Zenon, <2>1, <2>4, <4>1
    <3>. QED
      BY <3>1, <3>2
  <2>. QED
    BY Zenon, <2>2, <2>3, <2>6 DEF Climbs
<1>. QED
  BY Zenon, <1>6

LEMMA ChainClimbs ==
  ASSUME NEW c, NEW e \in Engines
  PROVE  Climbs(c, e, N, Gie!Chain(c, e))
<1> DEFINE Body(hop, k) ==
        IF k = 0 THEN e ELSE IF hop[k - 1] = 0 THEN 0 ELSE Gie!Target(c, hop[k - 1])
<1>1. PICK g : Climbs(c, e, N, g)
  BY Zenon, GieConstants, ClimbExists
<1>2. \A k \in 0 .. N : Body(g, k) = g[k]
  <2>1. g[0] = e /\ \A k \in 1 .. N : g[k] = Up(c, g[k - 1])
    BY Zenon, <1>1 DEF Climbs
  <2>2. \A k \in 0 .. N : k = 0 \/ k \in 1 .. N
    BY GieConstants
  <2>. QED
    BY Zenon, <2>1, <2>2 DEF Up
<1>3. g = [k \in 0 .. N |-> Body(g, k)]
  <2>1. g \in [0 .. N -> Engines \cup {0}]
    BY Zenon, <1>1 DEF Climbs
  <2> HIDE DEF Body
  <2>. QED
    BY <1>2, <2>1
<1>4. Gie!Chain(c, e) = [k \in 0 .. N |-> Body(Gie!Chain(c, e), k)]
  <2>1. Gie!Chain(c, e) = CHOOSE hop : hop = [k \in 0 .. Gie!Cardinality(Engines) |-> Body(hop, k)]
    BY Zenon DEF Gie!Chain, Gie!None
  <2>2. Gie!Cardinality(Engines) = N
    BY Zenon, SameSize DEF N
  <2> HIDE DEF Body
  <2>. QED
    BY Zenon, <1>3, <2>1, <2>2
<1> DEFINE hop == Gie!Chain(c, e)
<1>5. \A k \in 0 .. N : hop[k] = Body(hop, k)
  <2> HIDE DEF Body, hop
  <2>. QED
    BY Zenon, <1>4 DEF hop
<1> HIDE DEF hop
<1>6. hop[0] = e /\ \A k \in 1 .. N : hop[k] = Up(c, hop[k - 1])
  <2>1. 0 \in 0 .. N /\ \A k \in 1 .. N : k # 0 /\ k \in 0 .. N
    BY GieConstants
  <2>. QED
    BY Zenon, <1>5, <2>1 DEF Up
<1>7. hop \in [0 .. N -> Engines \cup {0}]
  <2>1. DOMAIN hop = 0 .. N /\ hop = [k \in 0 .. N |-> hop[k]]
    <3> HIDE DEF Body
    <3>. QED
      BY <1>4 DEF hop
  <2>2. \A k \in 0 .. N : k = 0 \/ k \in 1 .. N
    BY GieConstants
  <2>3. \A k \in 0 .. N : hop[k] \in Engines \cup {0}
    BY Zenon, <1>6, <2>2, UpIsEngine
  <2>. QED
    BY <2>1, <2>3
<1>. QED
  BY Zenon, <1>6, <1>7 DEF Climbs, hop

-----------------------------------------------------------------------------
(* What should_create_secondary_gie does to the tree.                      *)

Enabled(e) == config.enable[e]
OnPrimary(e) == config.on[e] = PrimaryId

(* The recursion ends at x.                                                *)
Stops(x) == x \in created \/ x = 0 \/ ~Enabled(x) \/ OnPrimary(x)
(* It goes from e along hop and ends at hop[last].                         *)
Way(e, hop, last) ==
  /\ Climbs(config, e, N, hop) /\ last \in 0 .. N
  /\ Stops(hop[last]) /\ \A k \in 0 .. last - 1 : ~Stops(hop[k])
Works(hop, last) == hop[last] # 0 /\ Enabled(hop[last])
On(hop, last) == {hop[j] : j \in 0 .. last}

(* What the call does to the tree when it went along hop.                  *)
Does(hop, last) ==
  /\ ~Works(hop, last) => UNCHANGED <<created, parent, children>>
  /\ Works(hop, last) =>
       /\ created' = created \cup On(hop, last)
       /\ parent' = [i \in Engines |->
            IF {j \in 0 .. last - 1 : hop[j] = i} # {}
            THEN hop[Gie!Min({j \in 0 .. last - 1 : hop[j] = i}) + 1]
            ELSE IF i = hop[last] /\ hop[last] \notin created THEN -1 ELSE parent[i]]
       /\ children' = [i \in Engines |->
            children[i] + Gie!Cardinality({j \in 1 .. last : hop[j] = i})]

LEMMA WayExists ==
  ASSUME config \in Configs, NEW e \in Engines, Gie!ShouldCreate(e)
  PROVE  \E hop, last : Way(e, hop, last) /\ Does(hop, last)
<1> DEFINE hop == Gie!Chain(config, e)
           ends == {k \in DOMAIN hop : Gie!ReturnsAt(e, k)}
           last == Gie!Min(ends)
<1>1. Climbs(config, e, N, hop)
  BY Zenon, ChainClimbs
<1>2. DOMAIN hop = 0 .. N
  <2> HIDE DEF hop
  <2>1. hop \in [0 .. N -> Engines \cup {0}]
    BY Zenon, <1>1 DEF Climbs
  <2>. QED
    BY <2>1
<1>3. \A k : Gie!ReturnsAt(e, k) <=> Stops(hop[k])
  BY Zenon DEF Gie!ReturnsAt, Gie!EndsAt, Gie!None, Stops, Enabled, OnPrimary
<1>4. ends # {} /\ ends \in SUBSET Nat
  <2>1. Gie!Terminates(config)
    BY Zenon, StreamAssumption DEF Gie!GieAssumption
  <2>2. \E k \in 0 .. Gie!Cardinality(Engines) : Gie!EndsAt(config, e, k)
    BY Zenon, <2>1 DEF Gie!Terminates
  <2>3. \E k \in 0 .. N : Gie!EndsAt(config, e, k)
    BY Zenon, <2>2, SameSize DEF N
  <2>4. ends # {}
    BY Zenon, <1>2, <2>3 DEF Gie!ReturnsAt
  <2>5. 0 .. N \in SUBSET Nat
    BY GieConstants
  <2>. QED
    BY Zenon, <1>2, <2>4, <2>5
<1> HIDE DEF hop
<1>5. last \in ends /\ \A k \in ends : last <= k
  <2> HIDE DEF ends, last
  <2>1. \E m \in ends : \A k \in ends : m <= k
    BY Zenon, <1>4, LeastNumber
  <2>. QED
    BY Zenon, <2>1 DEF last, Gie!Min
<1>6. last \in 0 .. N /\ Stops(hop[last]) /\ \A k \in 0 .. N : Stops(hop[k]) => last <= k
  <2> HIDE DEF last
  <2>. QED
    BY Zenon, <1>2, <1>3, <1>5
<1>7. Way(e, hop, last)
  <2> HIDE DEF last
  <2>1. \A k \in 0 .. last - 1 : k \in 0 .. N /\ ~(last <= k)
    BY <1>6, GieConstants
  <2>. QED
    BY Zenon, <1>1, <1>6, <2>1 DEF Way
<1>8. Does(hop, last)
  BY Zenon DEF Gie!ShouldCreate, Gie!None, Gie!Root, Does, Works, Enabled, On, hop
<1>. QED
  <2> HIDE DEF last
  <2>. QED
    BY Zenon, <1>7, <1>8

(* The engines on the way are all different, and all but the last are new.  *)
WayIs(e, hop, last) ==
  /\ last \in Nat /\ hop[0] = e
  /\ \A j \in 0 .. last : hop[j] \in Engines \cup {0}
  /\ \A j \in 0 .. last - 1 :
       /\ hop[j] \in Engines /\ hop[j] \notin created
       /\ Enabled(hop[j]) /\ ~OnPrimary(hop[j])
       /\ hop[j + 1] = Gie!Target(config, hop[j])
  /\ \A i, j \in 0 .. last : hop[i] = hop[j] => i = j

LEMMA WayFacts ==
  ASSUME NEW e \in Engines, NEW hop, NEW last, Way(e, hop, last)
  PROVE  WayIs(e, hop, last)
<1>1. /\ hop \in [0 .. N -> Engines \cup {0}] /\ hop[0] = e
      /\ \A k \in 1 .. N : hop[k] = Up(config, hop[k - 1])
      /\ last \in 0 .. N /\ Stops(hop[last]) /\ \A k \in 0 .. last - 1 : ~Stops(hop[k])
  BY Zenon DEF Way, Climbs
<1>2. N \in Nat /\ last \in Nat
  BY <1>1, GieConstants
<1>3. \A j \in 0 .. last : hop[j] \in Engines \cup {0}
  BY <1>1, <1>2
<1>4. ASSUME NEW j \in 0 .. last - 1
      PROVE  /\ hop[j] \in Engines /\ hop[j] \notin created
             /\ Enabled(hop[j]) /\ ~OnPrimary(hop[j])
             /\ hop[j + 1] = Gie!Target(config, hop[j])
  <2>1. j + 1 \in 1 .. N /\ (j + 1) - 1 = j /\ j \in 0 .. last
    BY <1>1, <1>2
  <2>2. hop[j + 1] = Up(config, hop[j])
    BY <1>1, <2>1
  <2>3. hop[j] # 0 /\ hop[j] \notin created /\ Enabled(hop[j]) /\ ~OnPrimary(hop[j])
    BY Zenon, <1>1 DEF Stops
  <2>4. hop[j] \in Engines
    BY <1>3, <2>1, <2>3
  <2>. QED
    BY Zenon, <2>2, <2>3, <2>4 DEF Up
<1>5. ASSUME NEW i \in 0 .. last, NEW j \in 0 .. last, i < j PROVE hop[i] # hop[j]
  <2>1. SUFFICES ASSUME hop[i] = hop[j] PROVE FALSE
    OBVIOUS
  <2> DEFINE bad == {m \in Nat : m <= last - j /\ hop[i + m] # hop[j + m]}
  <2>2. CASE bad = {}
    <3>1. last - j \in Nat /\ last - j <= last - j /\ j + (last - j) = last
          /\ i + (last - j) \in 0 .. last - 1
      BY <1>2, <1>5
    <3>2. hop[i + (last - j)] = hop[last]
      BY Zenon, <2>2, <3>1
    <3>. QED
      BY Zenon, <1>1, <3>1, <3>2
  <2>3. CASE bad # {}
    <3>1. PICK m \in bad : \A k \in bad : m <= k
      BY Zenon, <2>3, LeastNumber
    <3>2. m \in Nat /\ m <= last - j /\ hop[i + m] # hop[j + m]
      BY Zenon, <3>1
    <3>3. m # 0
      BY <2>1, <3>2, <1>2
    <3>4. m - 1 \in Nat /\ m - 1 <= last - j /\ ~(m <= m - 1)
      BY <1>2, <3>2, <3>3
    <3>5. hop[i + (m - 1)] = hop[j + (m - 1)]
      BY Zenon, <3>1, <3>4
    <3>6. /\ i + m \in 1 .. N /\ j + m \in 1 .. N
          /\ (i + m) - 1 = i + (m - 1) /\ (j + m) - 1 = j + (m - 1)
      BY <1>1, <1>2, <1>5, <3>2, <3>3
    <3>7. hop[i + m] = Up(config, hop[(i + m) - 1]) /\ hop[j + m] = Up(config, hop[(j + m) - 1])
      BY Zenon, <1>1, <3>6
    <3>. QED
      BY Zenon, <3>2, <3>5, <3>6, <3>7
  <2>. QED
    BY <2>2, <2>3
<1>6. \A i, j \in 0 .. last : i = j \/ i < j \/ j < i
  BY <1>2
<1>7. \A i, j \in 0 .. last : hop[i] = hop[j] => i = j
  BY Zenon, <1>5, <1>6
<1>. QED
  BY Zenon, <1>1, <1>2, <1>3, <1>4, <1>7 DEF WayIs

(* An engine is created once, below the one it operates on, and counted as  *)
(* its child once.                                                         *)
Grows(hop, last) ==
  /\ created' = created \cup On(hop, last)
  /\ parent' \in [Engines -> Engines \cup {-1, 0}] /\ children' \in [Engines -> Nat]
  /\ \A j \in 0 .. last - 1 : parent'[hop[j]] = hop[j + 1]
  /\ hop[last] \notin created => parent'[hop[last]] = -1
  /\ \A i \in created : parent'[i] = parent[i]
  /\ \A j \in 1 .. last : children'[hop[j]] = children[hop[j]] + 1
  /\ \A i \in Engines : (\A j \in 1 .. last : hop[j] # i) => children'[i] = children[i]

LEMMA AskGrows ==
  ASSUME config \in Configs, NEW e \in Engines, Gie!ShouldCreate(e), created \subseteq Engines,
         parent \in [Engines -> Engines \cup {-1, 0}], children \in [Engines -> Nat]
  PROVE  \E hop, last :
           /\ Way(e, hop, last)
           /\ ~Works(hop, last) => UNCHANGED <<created, parent, children>>
           /\ Works(hop, last) => Grows(hop, last)
<1>1. PICK hop, last : Way(e, hop, last) /\ Does(hop, last)
  BY Zenon, WayExists
<1> SUFFICES ASSUME Works(hop, last) PROVE Grows(hop, last)
  BY Zenon, <1>1 DEF Does
<1>2. /\ last \in Nat /\ hop[0] = e
      /\ \A j \in 0 .. last : hop[j] \in Engines \cup {0}
      /\ \A j \in 0 .. last - 1 : hop[j] \in Engines /\ hop[j] \notin created
      /\ \A i, j \in 0 .. last : hop[i] = hop[j] => i = j
  <2>1. WayIs(e, hop, last)
    BY Zenon, <1>1, WayFacts
  <2>. QED
    BY Zenon, <2>1 DEF WayIs
<1>3. hop[last] \in Engines
  <2>1. hop[last] # 0
    BY Zenon DEF Works
  <2>. QED
    BY <1>2, <2>1
<1> DEFINE Below(i) == {j \in 0 .. last - 1 : hop[j] = i}
           Parent(i) == IF Below(i) # {} THEN hop[Gie!Min(Below(i)) + 1]
                        ELSE IF i = hop[last] /\ hop[last] \notin created THEN -1 ELSE parent[i]
           Count(i) == Gie!Cardinality({j \in 1 .. last : hop[j] = i})
<1>4. /\ created' = created \cup On(hop, last)
      /\ parent' = [i \in Engines |-> Parent(i)]
      /\ children' = [i \in Engines |-> children[i] + Count(i)]
  BY Zenon, <1>1 DEF Does
<1>5. ASSUME NEW j \in 0 .. last - 1 PROVE Parent(hop[j]) = hop[j + 1]
  <2>1. Below(hop[j]) # {}
    BY Zenon
  <2>2. Below(hop[j]) \in SUBSET Nat
    BY <1>2
  <2>3. Gie!Min(Below(hop[j])) \in Below(hop[j])
    <3> HIDE DEF Below
    <3>. QED
      BY Zenon, <2>1, <2>2, MinIsMember
  <2>4. \A k \in Below(hop[j]) : k = j
    BY <1>2
  <2>5. Gie!Min(Below(hop[j])) = j
    BY Zenon, <2>3, <2>4
  <2>. QED
    BY Zenon, <2>1, <2>5
<1>6. \A i : i \in created \/ i = hop[last] => Below(i) = {}
  <2>1. \A j \in 0 .. last - 1 : hop[j] # hop[last]
    <3>1. \A j \in 0 .. last - 1 : j \in 0 .. last /\ last \in 0 .. last /\ j # last
      BY <1>2
    <3>. QED
      BY Zenon, <1>2, <3>1
  <2>. QED
    BY Zenon, <1>2, <2>1
<1>7. /\ hop[last] \notin created => Parent(hop[last]) = -1
      /\ \A i \in created : Parent(i) = parent[i]
  BY Zenon, <1>6
<1>8. \A i \in Engines : Parent(i) \in Engines \cup {-1, 0}
  <2> SUFFICES ASSUME NEW i \in Engines PROVE Parent(i) \in Engines \cup {-1, 0}
    OBVIOUS
  <2>1. CASE Below(i) # {}
    <3>1. PICK j \in 0 .. last - 1 : hop[j] = i
      BY Zenon, <2>1
    <3>2. Parent(i) = hop[j + 1]
      <4>1. Parent(hop[j]) = hop[j + 1]
        BY Zenon, <1>5
      <4> HIDE DEF Parent
      <4>. QED
        BY <3>1, <4>1
    <3>3. j + 1 \in 0 .. last
      BY <1>2
    <3>4. hop[j + 1] \in Engines \cup {0}
      BY Zenon, <1>2, <3>3
    <3> HIDE DEF Parent
    <3>. QED
      BY <3>2, <3>4
  <2>2. CASE Below(i) = {}
    <3>1. Parent(i) = -1 \/ Parent(i) = parent[i]
      BY Zenon, <2>2
    <3> HIDE DEF Parent
    <3>. QED
      BY <3>1
  <2>. QED
    BY Zenon, <2>1, <2>2
<1>9. ASSUME NEW j \in 1 .. last PROVE Count(hop[j]) = 1
  <2>1. {k \in 1 .. last : hop[k] = hop[j]} = {j}
    BY <1>2
  <2>2. Count(hop[j]) = Cardinality({j})
    BY Zenon, <2>1, SameSize
  <2>. QED
    BY Zenon, <2>2, FS_Singleton
<1>10. ASSUME NEW i, \A j \in 1 .. last : hop[j] # i PROVE Count(i) = 0
  <2>1. {k \in 1 .. last : hop[k] = i} = {}
    BY Zenon, <1>10
  <2>2. Count(i) = Cardinality({})
    BY Zenon, <2>1, SameSize
  <2>. QED
    BY Zenon, <2>2, FS_EmptySet
<1>11. \A i : Count(i) \in {0, 1}
  <2>1. \A i : (\A j \in 1 .. last : hop[j] # i) \/ \E j \in 1 .. last : hop[j] = i
    BY Zenon
  <2> HIDE DEF Count
  <2>2. \A i : Count(i) = 0 \/ Count(i) = 1
    BY <1>9, <1>10, <2>1
  <2>. QED
    BY <2>2
<1> HIDE DEF Below, Parent, Count
<1>12. parent' \in [Engines -> Engines \cup {-1, 0}] /\ \A i \in Engines : parent'[i] = Parent(i)
  BY <1>4, <1>8
<1>13. children' \in [Engines -> Nat] /\ \A i \in Engines : children'[i] = children[i] + Count(i)
  BY <1>4, <1>11
<1>14. \A j \in 1 .. last : hop[j] \in Engines
  <2>1. \A j \in 1 .. last : j \in 0 .. last - 1 \/ j = last
    BY <1>2
  <2>. QED
    BY Zenon, <1>2, <1>3, <2>1
<1>15. /\ \A j \in 1 .. last : children'[hop[j]] = children[hop[j]] + 1
       /\ \A i \in Engines : (\A j \in 1 .. last : hop[j] # i) => children'[i] = children[i]
  <2>1. \A j \in 1 .. last : children'[hop[j]] = children[hop[j]] + 1
    BY Zenon, <1>9, <1>13, <1>14
  <2>2. \A i \in Engines : children[i] \in Nat
    OBVIOUS
  <2>3. \A i \in Engines : Count(i) = 0 => children'[i] = children[i]
    BY <1>13, <2>2
  <2>. QED
    BY Zenon, <1>10, <2>1, <2>3
<1>16. \A i \in created : parent'[i] = parent[i]
  BY <1>7, <1>12
<1>17. /\ \A j \in 0 .. last - 1 : parent'[hop[j]] = hop[j + 1]
       /\ hop[last] \notin created => parent'[hop[last]] = -1
  BY Zenon, <1>2, <1>3, <1>5, <1>7, <1>12
<1>. QED
  BY Zenon, <1>4, <1>12, <1>13, <1>15, <1>16, <1>17 DEF Grows

-----------------------------------------------------------------------------
(* The tree.                                                               *)

(* Where e hangs; what hangs under p.                                      *)
Hangs(e) == IF OnPrimary(e) THEN -1 ELSE Gie!Target(config, e)
Kids(p) == {c \in created : parent[c] = p}

TreeShape ==
  /\ config \in Configs /\ created \subseteq Engines
  /\ parent \in [Engines -> Engines \cup {-1, 0}] /\ children \in [Engines -> Nat]

(* Every created engine is enabled and hangs under the one it operates on,  *)
(* which is created too, or under the primary engine.                      *)
TreeParents ==
  \A e \in created :
    Enabled(e) /\ parent[e] = Hangs(e) /\ parent[e] \in created \cup {-1}
TreeChildren == \A p \in Engines : children[p] = Cardinality(Kids(p))

(* No engines hang only under each other.                                  *)
TreeRooted == \A S \in SUBSET created : S # {} => \E e \in S : parent[e] \notin S

TreeInv == TreeShape /\ TreeParents /\ TreeChildren /\ TreeRooted

LEMMA KidsGrow ==
  ASSUME TreeShape, NEW e \in Engines, NEW hop, NEW last, Way(e, hop, last),
         Works(hop, last), Grows(hop, last), NEW p \in Engines
  PROVE  /\ \A j \in 1 .. last : hop[j] = p =>
              Kids(p)' = Kids(p) \cup {hop[j - 1]} /\ hop[j - 1] \notin Kids(p)
         /\ (\A j \in 1 .. last : hop[j] # p) => Kids(p)' = Kids(p)
<1>1. WayIs(e, hop, last)
  BY Zenon, WayFacts
<1>2. /\ last \in Nat
      /\ \A j \in 0 .. last - 1 : hop[j] \in Engines /\ hop[j] \notin created
      /\ \A i, j \in 0 .. last : hop[i] = hop[j] => i = j
  BY Zenon, <1>1 DEF WayIs
<1>3. \A x : x \in created' <=> x \in created \/ \E j \in 0 .. last : x = hop[j]
  BY Zenon DEF Grows, On
<1>4. \A x : x \in created' <=>
        x \in created \/ (\E j \in 0 .. last - 1 : x = hop[j]) \/ x = hop[last]
  <2>1. \A j : j \in 0 .. last <=> j \in 0 .. last - 1 \/ j = last
    BY <1>2
  <2>. QED
    BY Zenon, <1>3, <2>1
<1>5. /\ \A j \in 0 .. last - 1 : parent'[hop[j]] = hop[j + 1]
      /\ hop[last] \notin created => parent'[hop[last]] # p
      /\ \A i \in created : parent'[i] = parent[i]
  <2>1. p # -1
    BY GieConstants
  <2>. QED
    BY Zenon, <2>1 DEF Grows
<1>6. \A x : x \in Kids(p)' <=>
        x \in Kids(p) \/ \E j \in 0 .. last - 1 : x = hop[j] /\ hop[j + 1] = p
  <2>1. \A x : x \in Kids(p)' <=> x \in created' /\ parent'[x] = p
    BY Zenon DEF Kids
  <2>2. \A x : x \in Kids(p) <=> x \in created /\ parent[x] = p
    BY Zenon DEF Kids
  <2>3. ASSUME NEW x, x \in Kids(p)', x \notin Kids(p)
        PROVE  \E j \in 0 .. last - 1 : x = hop[j] /\ hop[j + 1] = p
    <3>1. x \notin created
      BY Zenon, <1>5, <2>1, <2>2, <2>3
    <3>2. x # hop[last]
      BY Zenon, <1>5, <2>1, <2>3, <3>1
    <3>3. PICK j \in 0 .. last - 1 : x = hop[j]
      BY Zenon, <1>4, <2>1, <2>3, <3>1, <3>2
    <3>4. parent'[hop[j]] = p
      BY Zenon, <2>1, <2>3, <3>3
    <3>. QED
      BY Zenon, <1>5, <3>3, <3>4
  <2>4. ASSUME NEW x, x \in Kids(p) PROVE x \in Kids(p)'
    BY Zenon, <1>4, <1>5, <2>1, <2>2, <2>4
  <2>5. ASSUME NEW j \in 0 .. last - 1, hop[j + 1] = p PROVE hop[j] \in Kids(p)'
    <3>1. hop[j] \in created'
      BY Zenon, <1>4
    <3>2. parent'[hop[j]] = p
      BY Zenon, <1>5, <2>5
    <3>. QED
      BY Zenon, <2>1, <3>1, <3>2
  <2>. QED
    BY Zenon, <2>3, <2>4, <2>5
<1>7. ASSUME NEW j \in 1 .. last, hop[j] = p
      PROVE  Kids(p)' = Kids(p) \cup {hop[j - 1]} /\ hop[j - 1] \notin Kids(p)
  <2>1. j - 1 \in 0 .. last - 1 /\ (j - 1) + 1 = j
    BY <1>2
  <2>2. \A k \in 0 .. last - 1 : hop[k + 1] = p => k = j - 1
    <3>1. \A k \in 0 .. last - 1 : k + 1 \in 0 .. last /\ j \in 0 .. last /\ (k + 1 = j => k = j - 1)
      BY <1>2
    <3>. QED
      BY Zenon, <1>2, <1>7, <3>1
  <2>3. \A x : x \in Kids(p)' <=> x \in Kids(p) \/ x = hop[j - 1]
    BY Zenon, <1>6, <1>7, <2>1, <2>2
  <2>4. hop[j - 1] \notin Kids(p)
    BY Zenon, <1>2, <2>1 DEF Kids
  <2>. QED
    BY Zenon, <2>3, <2>4
<1>8. ASSUME \A j \in 1 .. last : hop[j] # p PROVE Kids(p)' = Kids(p)
  <2>1. \A j \in 0 .. last - 1 : j + 1 \in 1 .. last
    BY <1>2
  <2>2. \A x : x \in Kids(p)' <=> x \in Kids(p)
    BY Zenon, <1>6, <1>8, <2>1
  <2>. QED
    BY Zenon, <2>2
<1>. QED
  BY <1>7, <1>8

LEMMA TreeGrows ==
  ASSUME TreeInv, NEW e \in Engines, NEW hop, NEW last, Way(e, hop, last),
         Works(hop, last), Grows(hop, last), config' = config
  PROVE  TreeInv' /\ e \in created'
<1>1. TreeShape /\ TreeParents /\ TreeChildren /\ TreeRooted
  BY Zenon DEF TreeInv
<1>2. WayIs(e, hop, last)
  BY Zenon, WayFacts
<1>3. /\ last \in Nat /\ hop[0] = e
      /\ \A j \in 0 .. last : hop[j] \in Engines \cup {0}
      /\ \A i, j \in 0 .. last : hop[i] = hop[j] => i = j
  BY Zenon, <1>2 DEF WayIs
<1>4. \A j \in 0 .. last - 1 :
        /\ hop[j] \in Engines /\ hop[j] \notin created
        /\ Enabled(hop[j]) /\ ~OnPrimary(hop[j])
        /\ hop[j + 1] = Gie!Target(config, hop[j])
  BY Zenon, <1>2 DEF WayIs
<1>5. /\ hop[last] \in Engines /\ Enabled(hop[last])
      /\ hop[last] \in created \/ OnPrimary(hop[last])
  <2>1. hop[last] # 0 /\ Enabled(hop[last])
    BY Zenon DEF Works
  <2>2. Stops(hop[last])
    BY Zenon DEF Way
  <2>3. hop[last] \in Engines
    BY <1>3, <2>1
  <2>. QED
    BY Zenon, <2>1, <2>2, <2>3 DEF Stops
<1>6. /\ created' = created \cup On(hop, last)
      /\ parent' \in [Engines -> Engines \cup {-1, 0}] /\ children' \in [Engines -> Nat]
      /\ \A j \in 0 .. last - 1 : parent'[hop[j]] = hop[j + 1]
      /\ hop[last] \notin created => parent'[hop[last]] = -1
      /\ \A i \in created : parent'[i] = parent[i]
      /\ \A j \in 1 .. last : children'[hop[j]] = children[hop[j]] + 1
      /\ \A i \in Engines : (\A j \in 1 .. last : hop[j] # i) => children'[i] = children[i]
  BY Zenon DEF Grows
<1>7. \A j : j \in 0 .. last <=> j \in 0 .. last - 1 \/ j = last
  BY <1>3
<1>8. \A x : x \in created' <=>
        x \in created \/ (\E j \in 0 .. last - 1 : x = hop[j]) \/ x = hop[last]
  BY Zenon, <1>6, <1>7 DEF On
<1>9. TreeShape'
  <2>1. created' \subseteq Engines
    BY Zenon, <1>1, <1>4, <1>5, <1>8 DEF TreeShape
  <2>2. config' \in Configs
    BY Zenon, <1>1 DEF TreeShape
  <2>. QED
    BY Zenon, <1>6, <2>1, <2>2 DEF TreeShape
<1>10. TreeParents'
  <2>1. \A x : (Enabled(x)' <=> Enabled(x)) /\ (OnPrimary(x)' <=> OnPrimary(x)) /\ Hangs(x)' = Hangs(x)
    BY Zenon DEF Enabled, OnPrimary, Hangs
  <2>2. ASSUME NEW x \in created
        PROVE  Enabled(x) /\ parent'[x] = Hangs(x) /\ parent'[x] \in created' \cup {-1}
    <3>1. Enabled(x) /\ parent[x] = Hangs(x) /\ parent[x] \in created \cup {-1}
      BY Zenon, <1>1 DEF TreeParents
    <3>2. parent'[x] = parent[x]
      BY Zenon, <1>6
    <3>3. parent[x] \in created' \cup {-1}
      BY <1>6, <3>1
    <3>. QED
      BY Zenon, <3>1, <3>2, <3>3
  <2>3. ASSUME NEW j \in 0 .. last - 1
        PROVE  /\ Enabled(hop[j]) /\ parent'[hop[j]] = Hangs(hop[j])
               /\ parent'[hop[j]] \in created' \cup {-1}
    <3>1. parent'[hop[j]] = hop[j + 1] /\ hop[j + 1] = Hangs(hop[j])
      BY Zenon, <1>4, <1>6 DEF Hangs
    <3>2. j + 1 \in 0 .. last
      BY <1>3
    <3>3. hop[j + 1] \in created'
      BY Zenon, <1>6, <3>2 DEF On
    <3>. QED
      BY Zenon, <1>4, <3>1, <3>3
  <2>4. ASSUME hop[last] \notin created
        PROVE  /\ Enabled(hop[last]) /\ parent'[hop[last]] = Hangs(hop[last])
               /\ parent'[hop[last]] \in created' \cup {-1}
    BY Zenon, <1>5, <1>6, <2>4 DEF Hangs
  <2>5. ASSUME NEW x, x \in created'
        PROVE  Enabled(x) /\ parent'[x] = Hangs(x) /\ parent'[x] \in created' \cup {-1}
    BY Zenon, <1>8, <2>2, <2>3, <2>4, <2>5
  <2>. QED
    BY Zenon, <2>1, <2>5 DEF TreeParents
<1>11. TreeChildren'
  <2> SUFFICES ASSUME NEW p \in Engines PROVE children'[p] = Cardinality(Kids(p)')
    BY Zenon DEF TreeChildren
  <2>1. children[p] = Cardinality(Kids(p))
    BY Zenon, <1>1 DEF TreeChildren
  <2>2. IsFiniteSet(Kids(p))
    <3>1. Kids(p) \subseteq Engines
      BY Zenon, <1>1 DEF Kids, TreeShape
    <3>. QED
      BY Zenon, <3>1, GieConstants, FS_Subset
  <2>3. ASSUME NEW j \in 1 .. last, hop[j] = p PROVE children'[p] = Cardinality(Kids(p)')
    <3>1. Kids(p)' = Kids(p) \cup {hop[j - 1]} /\ hop[j - 1] \notin Kids(p)
      BY <1>1, <2>3, KidsGrow
    <3>2. children'[p] = children[p] + 1
      BY Zenon, <1>6, <2>3
    <3>3. Cardinality(Kids(p) \cup {hop[j - 1]}) = Cardinality(Kids(p)) + 1
      <4> DEFINE x == hop[j - 1]
                 K == Kids(p)
      <4>1. IsFiniteSet(K) /\ x \notin K
        BY Zenon, <2>2, <3>1
      <4> HIDE DEF x, K
      <4>2. Cardinality(K \cup {x}) = Cardinality(K) + 1
        BY <4>1, FS_AddElement
      <4>. QED
        BY Zenon, <4>2 DEF x, K
    <3>. QED
      BY Zenon, <2>1, <3>1, <3>2, <3>3
  <2>4. ASSUME \A j \in 1 .. last : hop[j] # p PROVE children'[p] = Cardinality(Kids(p)')
    <3>1. Kids(p)' = Kids(p)
      BY <1>1, <2>4, KidsGrow
    <3>. QED
      BY Zenon, <1>6, <2>1, <2>4, <3>1
  <2>. QED
    BY Zenon, <2>3, <2>4
<1>12. TreeRooted'
  <2> SUFFICES ASSUME NEW S \in SUBSET created', S # {} PROVE \E x \in S : parent'[x] \notin S
    BY Zenon DEF TreeRooted
  <2>0. -1 \notin S
    BY <1>9, GieConstants DEF TreeShape
  <2>1. CASE S \cap created # {}
    <3>1. S \cap created \in SUBSET created
      OBVIOUS
    <3>2. PICK x \in S \cap created : parent[x] \notin S \cap created
      BY Zenon, <1>1, <2>1, <3>1 DEF TreeRooted
    <3>3. parent'[x] = parent[x] /\ parent[x] \in created \cup {-1}
      BY Zenon, <1>1, <1>6, <3>2 DEF TreeParents
    <3>4. parent[x] \notin S
      BY <2>0, <3>2, <3>3
    <3>. QED
      BY Zenon, <3>2, <3>3, <3>4
  <2>2. CASE S \cap created = {}
    <3> DEFINE later == {k \in Nat : k <= last /\ hop[last - k] \in S}
    <3>1. \A j \in 0 .. last : hop[j] \in S => last - j \in later
      <4>1. \A j \in 0 .. last : last - j \in Nat /\ last - j <= last /\ last - (last - j) = j
        BY <1>3
      <4>. QED
        BY Zenon, <4>1
    <3>2. \E j \in 0 .. last : hop[j] \in S
      <4>1. PICK x \in S : TRUE
        BY Zenon
      <4>2. x \in On(hop, last)
        BY <1>6, <2>2, <4>1
      <4>. QED
        BY Zenon, <4>1, <4>2 DEF On
    <3>3. PICK k \in later : \A i \in later : k <= i
      <4>1. later # {} /\ later \in SUBSET Nat
        BY Zenon, <3>1, <3>2
      <4> HIDE DEF later
      <4>. QED
        BY Zenon, <4>1, LeastNumber
    <3>4. k \in Nat /\ k <= last /\ hop[last - k] \in S
      BY Zenon, <3>3
    <3>5. hop[last - k] \notin created
      BY <2>2, <3>4
    <3>6. CASE k = 0
      <4>1. last - k = last
        BY <1>3, <3>6
      <4>. QED
        BY Zenon, <1>6, <2>0, <3>4, <3>5, <4>1
    <3>7. CASE k # 0
      <4> DEFINE j == last - k
      <4>1. /\ j \in 0 .. last - 1 /\ j + 1 \in 0 .. last /\ last - (j + 1) = k - 1
            /\ ~(k <= k - 1)
        BY <1>3, <3>4, <3>7
      <4>2. hop[j + 1] \notin S
        <5>1. last - (j + 1) \notin later
          BY Zenon, <3>3, <4>1
        <5>. QED
          BY Zenon, <3>1, <4>1, <5>1
      <4>3. parent'[hop[j]] = hop[j + 1] /\ hop[j] \in S
        BY Zenon, <1>6, <3>4, <4>1
      <4>. QED
        BY Zenon, <4>2, <4>3
    <3>. QED
      BY <3>6, <3>7
  <2>. QED
    BY <2>1, <2>2
<1>13. e \in created'
  <2>1. 0 \in 0 .. last
    BY <1>3
  <2>. QED
    BY Zenon, <1>3, <1>6, <2>1 DEF On
<1>. QED
  BY Zenon, <1>9, <1>10, <1>11, <1>12, <1>13 DEF TreeInv

(* Every engine that was asked and belongs in the tree is there.           *)
TreeAsked == asked \in 0 .. N /\ \A e \in 1 .. asked : e \in Gie!Reached => e \in created

LEMMA NotReached ==
  ASSUME NEW e \in Engines, NEW hop, NEW last, Way(e, hop, last), ~Works(hop, last)
  PROVE  e \notin Gie!Reached
<1> DEFINE S == Engines \ On(hop, last)
<1>1. WayIs(e, hop, last)
  BY Zenon, WayFacts
<1>2. last \in Nat /\ hop[0] = e
  BY Zenon, <1>1 DEF WayIs
<1>3. \A j \in 0 .. last - 1 : ~OnPrimary(hop[j]) /\ hop[j + 1] = Gie!Target(config, hop[j])
  BY Zenon, <1>1 DEF WayIs
<1>4. \A j : j \in 0 .. last <=> j \in 0 .. last - 1 \/ j = last
  BY <1>2
<1>5. \A j \in 0 .. last - 1 : j + 1 \in 0 .. last
  BY <1>2
<1>6. ASSUME NEW x \in Engines, Enabled(x), OnPrimary(x) \/ Gie!Target(config, x) \in S,
             x \in On(hop, last)
      PROVE  FALSE
  <2>1. PICK j \in 0 .. last : x = hop[j]
    BY Zenon, <1>6 DEF On
  <2>2. CASE j = last
    <3>1. x # 0
      BY <1>6, GieConstants
    <3>. QED
      BY Zenon, <1>6, <2>1, <2>2, <3>1 DEF Works
  <2>3. CASE j \in 0 .. last - 1
    <3>1. Gie!Target(config, x) \in On(hop, last) /\ ~OnPrimary(x)
      BY Zenon, <1>3, <1>5, <2>1, <2>3 DEF On
    <3>. QED
      BY Zenon, <1>6, <3>1
  <2>. QED
    BY Zenon, <1>4, <2>1, <2>2, <2>3
<1>7. \A x \in Engines : Enabled(x) /\ (OnPrimary(x) \/ Gie!Target(config, x) \in S) => x \in S
  BY Zenon, <1>6
<1>8. e \notin S
  <2>1. 0 \in 0 .. last
    BY <1>2
  <2>. QED
    BY Zenon, <1>2, <2>1 DEF On
<1>9. S \in SUBSET Engines
  BY Zenon
<1> HIDE DEF S
<1>10. Gie!Closed(S)
  BY Zenon, <1>7 DEF Gie!Closed, Enabled, OnPrimary
<1>. QED
  BY Zenon, <1>8, <1>9, <1>10 DEF Gie!Reached

LEMMA TreeKept ==
  ASSUME TreeInv, UNCHANGED <<config, created, parent, children>>
  PROVE  TreeInv'
<1>1. \A x : /\ Kids(x)' = Kids(x) /\ Hangs(x)' = Hangs(x)
             /\ Enabled(x)' <=> Enabled(x)
  BY Zenon DEF Kids, Hangs, Enabled, OnPrimary
<1>2. TreeShape'
  BY Zenon DEF TreeInv, TreeShape
<1>3. TreeParents'
  BY Zenon, <1>1 DEF TreeInv, TreeParents
<1>4. TreeChildren'
  BY Zenon, <1>1 DEF TreeInv, TreeChildren
<1>5. TreeRooted'
  BY Zenon DEF TreeInv, TreeRooted
<1>. QED
  BY Zenon, <1>2, <1>3, <1>4, <1>5 DEF TreeInv

LEMMA AskTree ==
  ASSUME TreeInv, TreeAsked, Gie!Ask
  PROVE  TreeInv' /\ TreeAsked' /\ created \subseteq created'
<1> DEFINE e == asked + 1
<1>1. /\ asked < Gie!Cardinality(Engines) /\ Gie!ShouldCreate(e) /\ asked' = e
      /\ config' = config
  BY Zenon DEF Gie!Ask
<1>2. TreeShape /\ asked \in 0 .. N /\ asked < N
  BY Zenon, <1>1, SameSize DEF TreeInv, TreeAsked, N
<1>3. e \in Engines /\ e \in 0 .. N /\ \A x : x \in 1 .. e <=> x \in 1 .. asked \/ x = e
  BY <1>2, GieConstants
<1> HIDE DEF e
<1>4. PICK hop, last :
        /\ Way(e, hop, last)
        /\ ~Works(hop, last) => UNCHANGED <<created, parent, children>>
        /\ Works(hop, last) => Grows(hop, last)
  BY Zenon, <1>1, <1>2, <1>3, AskGrows DEF TreeShape
<1>5. Gie!Reached' = Gie!Reached
  BY Zenon, <1>1 DEF Gie!Reached, Gie!Closed
<1>6. CASE Works(hop, last)
  <2>1. TreeInv' /\ e \in created'
    BY Zenon, <1>1, <1>3, <1>4, <1>6, TreeGrows
  <2>2. created \subseteq created'
    BY Zenon, <1>4, <1>6 DEF Grows
  <2>3. TreeAsked'
    BY Zenon, <1>1, <1>3, <1>5, <2>1, <2>2 DEF TreeAsked
  <2>. QED
    BY Zenon, <2>1, <2>2, <2>3
<1>7. CASE ~Works(hop, last)
  <2>1. UNCHANGED <<config, created, parent, children>>
    BY Zenon, <1>1, <1>4, <1>7
  <2>2. TreeInv'
    BY Zenon, <2>1, TreeKept
  <2>3. e \notin Gie!Reached
    BY Zenon, <1>3, <1>4, <1>7, NotReached
  <2>4. TreeAsked'
    BY Zenon, <1>1, <1>3, <1>5, <2>1, <2>3 DEF TreeAsked
  <2>. QED
    BY Zenon, <2>1, <2>2, <2>4
<1>. QED
  BY <1>6, <1>7

(* What a step of the whole does to the tree.                              *)
TreeStays ==
  /\ UNCHANGED <<config, created, parent, children>>
  /\ asked' = asked \/ asked' = 0

LEMMA TreeSteps == [Next]_vars => Gie!Ask \/ TreeStays
<1> SUFFICES ASSUME [Next]_vars PROVE Gie!Ask \/ TreeStays
  OBVIOUS
<1>1. CASE ShouldCreate
  BY Zenon, <1>1 DEF ShouldCreate
<1>2. CASE Create \/ SendEos \/ Destroy \/ SeekDecode
  BY Zenon, <1>2 DEF TreeStays, Create, SendEos, Destroy, SeekDecode, Gie!Create, Gie!Teardown,
     Gie!tree, gieVars
<1>3. CASE SourceThread
  BY Zenon, <1>3 DEF TreeStays, SourceThread, Segment, LoopEos, FrameIn, EosIn, gieVars
<1>4. CASE OverThread \/ FrameOut
  BY Zenon, <1>4 DEF TreeStays, OverThread, FrameOver, EosOver, FrameOut, Gie!Arrive,
     Gie!EosArrives, Gie!Leave, Gie!tree
<1>5. CASE PreStream
  BY Zenon, <1>5 DEF TreeStays, PreStream, gieVars
<1>6. ASSUME NEW t \in Gie!Threads, GieStream(t) PROVE TreeStays
  BY Zenon, <1>6 DEF TreeStays, GieStream, Gie!PushBranch, Gie!Infer, Gie!Take, Gie!tree
<1>7. CASE UNCHANGED vars
  BY Zenon, <1>7 DEF TreeStays, vars, gieVars
<1>. QED
  BY Zenon, <1>1, <1>2, <1>3, <1>4, <1>5, <1>6, <1>7 DEF Next, Main

LEMMA TreeInit == Init => TreeInv /\ TreeAsked
<1> SUFFICES ASSUME Init PROVE TreeInv /\ TreeAsked
  OBVIOUS
<1>1. /\ config \in Configs /\ asked = 0 /\ created = {}
      /\ parent = [e \in Engines |-> 0] /\ children = [e \in Engines |-> 0]
  BY Zenon DEF Init, Gie!Init, Gie!None
<1>2. TreeShape /\ TreeParents /\ TreeRooted
  <2>1. /\ created \subseteq Engines
        /\ parent \in [Engines -> Engines \cup {-1, 0}] /\ children \in [Engines -> Nat]
    BY <1>1
  <2>2. \A S \in SUBSET created : S = {}
    BY <1>1
  <2>. QED
    BY Zenon, <1>1, <2>1, <2>2 DEF TreeShape, TreeParents, TreeRooted
<1>3. TreeChildren
  <2>1. \A p \in Engines : Kids(p) = {} /\ children[p] = 0
    BY <1>1 DEF Kids
  <2>. QED
    BY Zenon, <2>1, FS_EmptySet DEF TreeChildren
<1>4. TreeAsked
  BY <1>1, GieConstants DEF TreeAsked
<1>. QED
  BY Zenon, <1>2, <1>3, <1>4 DEF TreeInv

LEMMA TreeNext ==
  ASSUME TreeInv, TreeAsked, [Next]_vars
  PROVE  TreeInv' /\ TreeAsked'
<1>1. CASE Gie!Ask
  BY Zenon, <1>1, AskTree
<1>2. CASE TreeStays
  <2>1. UNCHANGED <<config, created, parent, children>> /\ (asked' = asked \/ asked' = 0)
    BY Zenon, <1>2 DEF TreeStays
  <2>2. TreeInv'
    BY Zenon, <2>1, TreeKept
  <2>3. Gie!Reached' = Gie!Reached
    BY Zenon, <2>1 DEF Gie!Reached, Gie!Closed
  <2>4. asked' \in 0 .. N /\ 1 .. asked' \subseteq 1 .. asked
    BY <2>1, GieConstants DEF TreeAsked
  <2>5. TreeAsked'
    BY Zenon, <2>1, <2>3, <2>4 DEF TreeAsked
  <2>. QED
    BY Zenon, <2>2, <2>5
<1>. QED
  BY Zenon, <1>1, <1>2, TreeSteps

LEMMA TreeIs == TreeInv /\ TreeAsked => TreeIsReachable
<1> SUFFICES ASSUME TreeInv, TreeAsked, asked = N
             PROVE  /\ created = Gie!Reached
                    /\ \A e \in created :
                         /\ parent[e] = IF config.on[e] = PrimaryId THEN -1
                                        ELSE Gie!Target(config, e)
                         /\ children[e] = Gie!Cardinality(Gie!Branches(e))
  BY Zenon, SameSize DEF TreeIsReachable, Gie!TreeIsReachable, Gie!Root, N
<1>1. TreeShape /\ TreeParents /\ TreeChildren /\ TreeRooted /\ 1 .. asked = Engines
  BY Zenon, GieConstants DEF TreeInv
<1>2. Gie!Reached \subseteq created
  <2>1. Gie!Reached \subseteq Engines
    BY Zenon DEF Gie!Reached
  <2>. QED
    BY Zenon, <1>1, <2>1 DEF TreeAsked
<1>3. created \subseteq Gie!Reached
  <2> SUFFICES ASSUME NEW S \in SUBSET Engines, Gie!Closed(S) PROVE created \subseteq S
    BY Zenon, <1>1 DEF Gie!Reached, TreeShape
  <2>1. SUFFICES ASSUME created \ S # {} PROVE FALSE
    BY Zenon
  <2>2. created \ S \in SUBSET created
    OBVIOUS
  <2>3. PICK e \in created \ S : parent[e] \notin created \ S
    BY Zenon, <1>1, <2>1, <2>2 DEF TreeRooted
  <2>4. Enabled(e) /\ parent[e] = Hangs(e) /\ parent[e] \in created \cup {-1} /\ e \in Engines
    BY Zenon, <1>1, <2>3 DEF TreeParents, TreeShape
  <2>5. ~OnPrimary(e) /\ Gie!Target(config, e) \notin S
    BY Zenon, <2>3, <2>4 DEF Gie!Closed, Enabled, OnPrimary
  <2>6. Gie!Target(config, e) = -1
    BY Zenon, <2>3, <2>4, <2>5 DEF Hangs
  <2>7. Gie!Target(config, e) # -1
    <3>1. e # 0
      BY <2>4, GieConstants
    <3>2. Gie!Target(config, e) \in Engines \cup {0}
      BY Zenon, <3>1, UpIsEngine DEF Up
    <3>. QED
      BY <3>2, GieConstants
  <2>. QED
    BY <2>6, <2>7
<1>4. ASSUME NEW e \in created
      PROVE  /\ parent[e] = IF config.on[e] = PrimaryId THEN -1 ELSE Gie!Target(config, e)
             /\ children[e] = Gie!Cardinality(Gie!Branches(e))
  <2>1. Gie!Branches(e) = Kids(e)
    BY Zenon DEF Gie!Branches, Kids
  <2>2. e \in Engines
    BY Zenon, <1>1 DEF TreeShape
  <2>. QED
    BY Zenon, <1>1, <2>1, <2>2, SameSize DEF TreeParents, TreeChildren, Hangs, OnPrimary
<1>. QED
  BY Zenon, <1>2, <1>3, <1>4

(* Once every engine was asked, the tree is the one the configuration       *)
(* describes, in whatever order the groups are listed and however often the *)
(* pipeline is recreated (deepstream_secondary_gie_bin.c:273-304).          *)
THEOREM TreeIsBuilt == Spec => []TreeIsReachable
<1>1. Init => TreeInv /\ TreeAsked
  BY TreeInit
<1>2. TreeInv /\ TreeAsked /\ [Next]_vars => (TreeInv /\ TreeAsked)'
  BY Zenon, TreeNext
<1>. QED
  BY <1>1, <1>2, TreeIs, PTL DEF Spec

-----------------------------------------------------------------------------
(* The bin as a stage of inference.                                        *)

(* What a step of the whole does to this bin.                              *)
GieQuiet == UNCHANGED <<gieVars, running, loop>>
EosInPre == preExit # << >> /\ Head(preExit) = 0
GieSteps ==
  /\ loop' = loop
  /\ \/ Gie!Ask \/ Gie!Create \/ Gie!Arrive \/ Gie!Leave
     \/ \E t \in Gie!Threads : Gie!PushBranch(t) \/ Gie!Infer(t)
     \/ \E e \in Engines : Gie!Take(e)
     \/ Gie!EosArrives /\ EosInPre
     \/ Gie!Teardown /\ closing
     \/ GieQuiet

LEMMA GieStepKinds == [Next]_vars => GieSteps
<1> SUFFICES ASSUME [Next]_vars PROVE GieSteps
  OBVIOUS
<1>0. loop' = loop
  BY Zenon, FileSteps DEF fileVars, File!Segment, File!Frame, File!LoopEos, File!PassEos,
     File!SeekDecode, File!Close, File!Reopen
<1>1. CASE Create \/ Destroy \/ ShouldCreate
  BY Zenon, <1>0, <1>1 DEF GieSteps, Create, Destroy, ShouldCreate
<1>2. CASE SendEos \/ SeekDecode
  BY Zenon, <1>0, <1>2 DEF GieSteps, GieQuiet, SendEos, SeekDecode
<1>3. CASE Segment \/ LoopEos
  BY Zenon, <1>0, <1>3 DEF GieSteps, GieQuiet, Segment, LoopEos
<1>4. CASE FrameIn \/ EosIn
  BY Zenon, <1>0, <1>4 DEF GieSteps, GieQuiet, FrameIn, EosIn, Pre!Arrive, Pre!EosArrives
<1>5. CASE OverThread
  BY Zenon, <1>0, <1>5 DEF GieSteps, EosInPre, OverThread, FrameOver, EosOver, Pre!Eos
<1>6. CASE FrameOut
  BY Zenon, <1>0, <1>6 DEF GieSteps, FrameOut
<1>7. CASE PreStream
  BY Zenon, <1>0, <1>7
  DEF GieSteps, GieQuiet, PreStream, Pre!Stream, Pre!PushBranch, Pre!Take, Pre!Prepare
<1>8. ASSUME NEW t \in Gie!Threads, GieStream(t) PROVE GieSteps
  BY Zenon, <1>0, <1>8 DEF GieSteps, GieStream
<1>9. CASE UNCHANGED vars
  BY Zenon, <1>0, <1>9 DEF GieSteps, GieQuiet, vars
<1>. QED
  BY Zenon, <1>1, <1>2, <1>3, <1>4, <1>5, <1>6, <1>7, <1>8, <1>9
  DEF Next, Main, SourceThread

GieShape ==
  /\ ExitQueue(exitQueue) /\ (\A f : Holds(exitQueue, f) => f <= arrived)
  /\ queue \in [Engines -> Seq(1 .. arrived)]
  /\ thread \in [Engines \cup {0} ->
                  [frame : 0 .. arrived, at : Engines \cup {0}, todo : SUBSET Engines]]
  /\ results \in [1 .. MaxFrames -> SUBSET Engines] /\ arrived \in 0 .. MaxFrames

(* Work is only under way in a pipeline and in engines of the tree, and a   *)
(* frame that did not arrive yet has no results.                           *)
GieWork ==
  /\ \A t \in Engines \cup {0} :
       /\ thread[t].todo \subseteq created /\ thread[t].at \in created \cup {0}
       /\ thread[t].todo # {} \/ thread[t].at # 0 => thread[t].frame # 0 /\ running
       /\ thread[t].at # 0 => thread[t].todo = {}
  /\ \A e \in Engines : queue[e] # << >> => e \in created /\ running
  /\ \A f \in 1 .. MaxFrames :
       results[f] \subseteq created /\ (f > arrived => results[f] = {})

(* A frame that has not left was seen by every engine of the tree, or is on *)
(* its way to the ones that did not see it, or these have still to wait for *)
(* the engine they hang under.                                             *)
GieComing(e, f) ==
  \/ Holds(queue[e], f)
  \/ \E t \in Engines \cup {0} :
       thread[t].frame = f /\ (thread[t].at = e \/ e \in thread[t].todo)
GieDue(e, f) ==
  e \in results[f] \/ GieComing(e, f) \/ (parent[e] \in created /\ parent[e] \notin results[f])
GieCover ==
  \A f \in 1 .. MaxFrames : Holds(exitQueue, f) => \A e \in created : GieDue(e, f)

GieUp ==
  /\ ~running => exitQueue = << >> /\ ~ended
  /\ ~ended => Open(exitQueue)

GieStopInv == (stop => ended) /\ (ended => ~loop)

GieInv == GieShape /\ GieWork /\ GieCover /\ GieUp

LEMMA GieThreads == Gie!Threads = Engines \cup {0}
BY Zenon DEF Gie!Threads, Gie!Upstream

LEMMA GieInit == Init => GieInv /\ GieStopInv
<1> SUFFICES ASSUME Init PROVE GieInv /\ GieStopInv
  OBVIOUS
<1>1. /\ created = {} /\ exitQueue = << >> /\ queue = [e \in Engines |-> << >>]
      /\ thread = [t \in Engines \cup {0} |-> [frame |-> 0, at |-> 0, todo |-> {}]]
      /\ results = [f \in 1 .. MaxFrames |-> {}] /\ arrived = 0
  BY Zenon, GieThreads DEF Init, Gie!Init, Gie!Idle, Gie!Frames, Gie!None
<1>2. ~running /\ ~stop /\ ~ended
  BY Zenon DEF Init, Gie!Init
<1>3. Open(exitQueue) /\ ExitQueue(exitQueue) /\ \A f : ~Holds(exitQueue, f)
  BY <1>1 DEF Open, ExitQueue, Holds
<1>4. GieShape
  <2>1. queue \in [Engines -> Seq(1 .. arrived)]
    BY <1>1
  <2>2. thread \in [Engines \cup {0} ->
                  [frame : 0 .. arrived, at : Engines \cup {0}, todo : SUBSET Engines]]
    BY <1>1
  <2>3. results \in [1 .. MaxFrames -> SUBSET Engines] /\ arrived \in 0 .. MaxFrames
    BY <1>1, GieConstants
  <2>. QED
    BY Zenon, <1>3, <2>1, <2>2, <2>3 DEF GieShape
<1>5. GieWork /\ GieCover
  <2>1. /\ \A t \in Engines \cup {0} : thread[t].todo = {} /\ thread[t].at = 0
        /\ \A e \in Engines : queue[e] = << >>
        /\ \A f \in 1 .. MaxFrames : results[f] = {}
    BY <1>1
  <2>2. 0 \in created \cup {0}
    BY Zenon
  <2>3. GieWork
    BY Zenon, <2>1, <2>2 DEF GieWork
  <2>4. GieCover
    BY Zenon, <1>3 DEF GieCover
  <2>. QED
    BY <2>3, <2>4
<1>6. GieUp /\ GieStopInv
  BY Zenon, <1>1, <1>2, <1>3 DEF GieUp, GieStopInv
<1>. QED
  BY <1>4, <1>5, <1>6 DEF GieInv

(* The actions of InferenceStage, in the terms above.                      *)
GieEngines == IF running THEN created ELSE {}
GieStageStep == [Gie!Stage!Next]_(Gie!Stage!vars)

LEMMA GieStageArrives ==
  ASSUME NEW f \in 1 .. MaxFrames, results \in [1 .. MaxFrames -> SUBSET Engines],
         \A i \in 1 .. Len(Inside(exitQueue)) : Inside(exitQueue)[i] # f,
         Inside(exitQueue') = Append(Inside(exitQueue), f),
         UNCHANGED <<running, created, results, ended>>
  PROVE  GieStageStep
<1>1. f \in DOMAIN results
  OBVIOUS
<1>2. Gie!Stage!Arrive(f)
  BY Zenon, InsideIsFrames DEF Gie!Stage!Arrive
<1>. QED
  BY Zenon, <1>1, <1>2 DEF GieStageStep, Gie!Stage!Next

LEMMA GieStageInfers ==
  ASSUME NEW f \in 1 .. MaxFrames, results \in [1 .. MaxFrames -> SUBSET Engines],
         NEW e \in GieEngines,
         results' = [results EXCEPT ![f] = @ \cup {e}],
         UNCHANGED <<running, created, exitQueue, ended>>
  PROVE  GieStageStep
<1>1. f \in DOMAIN results
  OBVIOUS
<1>2. CASE e \in results[f]
  <2>1. results[f] \cup {e} = results[f]
    BY <1>2
  <2>2. results' = results
    BY <2>1
  <2>3. UNCHANGED Gie!Stage!vars
    BY Zenon, <2>2 DEF Gie!Stage!vars
  <2>. QED
    BY Zenon, <2>3 DEF GieStageStep
<1>3. CASE e \notin results[f]
  <2>1. e \in (IF running THEN created ELSE {}) \ results[f]
    BY Zenon, <1>3 DEF GieEngines
  <2>2. Gie!Stage!Infer(f, e)
    BY Zenon, <2>1 DEF Gie!Stage!Infer
  <2>. QED
    BY Zenon, <1>1, <2>2 DEF GieStageStep, Gie!Stage!Next, GieEngines
<1>. QED
  BY Zenon, <1>2, <1>3

LEMMA GieStageLeaves ==
  ASSUME Inside(exitQueue) # << >>,
         results[Head(Inside(exitQueue))] = GieEngines \/ ended,
         Inside(exitQueue') = Tail(Inside(exitQueue)),
         UNCHANGED <<running, created, results, ended>>
  PROVE  GieStageStep
<1>1. Gie!Stage!Leave
  BY Zenon, InsideIsFrames DEF Gie!Stage!Leave, GieEngines
<1>. QED
  BY Zenon, <1>1 DEF GieStageStep, Gie!Stage!Next

LEMMA GieStageEnds ==
  ASSUME ended', Inside(exitQueue') = Inside(exitQueue),
         UNCHANGED <<running, created, results>>
  PROVE  GieStageStep
<1>1. ended' = TRUE
  OBVIOUS
<1>2. Gie!Stage!End
  BY Zenon, <1>1, InsideIsFrames DEF Gie!Stage!End
<1>. QED
  BY Zenon, <1>2 DEF GieStageStep, Gie!Stage!Next

LEMMA GieStageRenews ==
  ASSUME running' = ~running, Inside(exitQueue') = << >>, ~ended', results' = results
  PROVE  GieStageStep
<1>1. Gie!Stage!Renew
  BY Zenon, InsideIsFrames DEF Gie!Stage!Renew
<1>. QED
  BY Zenon, <1>1 DEF GieStageStep, Gie!Stage!Next

LEMMA GieStageStutters ==
  ASSUME Inside(exitQueue') = Inside(exitQueue), GieEngines' = GieEngines,
         UNCHANGED <<running, results, ended>>
  PROVE  GieStageStep
<1>1. UNCHANGED Gie!Stage!vars
  BY Zenon, InsideIsFrames DEF Gie!Stage!vars, GieEngines
<1>. QED
  BY Zenon, <1>1 DEF GieStageStep

LEMMA GieStageInit == Init => Gie!Stage!Init
<1> SUFFICES ASSUME Init PROVE Gie!Stage!Init
  OBVIOUS
<1>1. exitQueue = << >> /\ results = [f \in 1 .. MaxFrames |-> {}]
  BY Zenon DEF Init, Gie!Init, Gie!Frames
<1>2. ~running /\ ~ended
  BY Zenon DEF Init, Gie!Init
<1>3. Gie!FramesOf(exitQueue) = << >> /\ \A f \in DOMAIN results : results[f] = {}
  BY <1>1, InsideIsFrames DEF Inside
<1>. QED
  BY Zenon, <1>2, <1>3 DEF Gie!Stage!Init

(* A branch of the tee at the entry, or of an engine with several children, *)
(* has a queue.                                                            *)
LEMMA TreeLinks ==
  ASSUME TreeInv
  PROVE  /\ Gie!TeeBranches(-1) = Kids(-1)
         /\ \A e \in created :
              /\ Gie!SubBin(e).sink <=> Kids(e) = {}
              /\ Gie!SubBin(e).tee => Gie!TeeBranches(e) = Kids(e)
              /\ ~Gie!SubBin(e).sink /\ ~Gie!SubBin(e).tee => Kids(e) = {Gie!Min(Gie!Branches(e))}
<1>1. \A p : Gie!Branches(p) = Kids(p)
  BY Zenon DEF Gie!Branches, Kids
<1>2. \A e : /\ Gie!SubBin(e).queue <=> parent[e] = -1 \/ children[parent[e]] > 1
             /\ Gie!SubBin(e).sink <=> children[e] = 0
             /\ Gie!SubBin(e).tee <=> children[e] > 1
  BY DEF Gie!SubBin, Gie!Root
<1>3. Gie!TeeBranches(-1) = Kids(-1)
  BY Zenon, <1>1, <1>2 DEF Gie!TeeBranches, Kids
<1>4. ASSUME NEW e \in created
      PROVE  /\ Gie!SubBin(e).sink <=> Kids(e) = {}
             /\ Gie!SubBin(e).tee => Gie!TeeBranches(e) = Kids(e)
             /\ ~Gie!SubBin(e).sink /\ ~Gie!SubBin(e).tee => Kids(e) = {Gie!Min(Gie!Branches(e))}
  <2>1. created \subseteq Engines /\ children[e] = Cardinality(Kids(e))
    BY Zenon DEF TreeInv, TreeShape, TreeChildren
  <2>2. Kids(e) \subseteq Engines /\ IsFiniteSet(Kids(e))
    <3>1. Kids(e) \subseteq Engines
      BY Zenon, <2>1 DEF Kids
    <3>. QED
      BY Zenon, <3>1, GieConstants, FS_Subset
  <2>3. Gie!SubBin(e).sink <=> Kids(e) = {}
    BY Zenon, <1>2, <2>1, <2>2, FS_EmptySet
  <2>4. ASSUME Gie!SubBin(e).tee PROVE Gie!TeeBranches(e) = Kids(e)
    BY Zenon, <1>1, <1>2, <2>4 DEF Gie!TeeBranches, Kids
  <2>5. ASSUME ~Gie!SubBin(e).sink, ~Gie!SubBin(e).tee PROVE Kids(e) = {Gie!Min(Gie!Branches(e))}
    <3>1. children[e] # 0 /\ ~(children[e] > 1)
      BY Zenon, <1>2, <2>5
    <3>2. children[e] \in Nat
      BY Zenon, <2>1, <2>2, FS_CardinalityType
    <3>3. Cardinality(Kids(e)) = 1
      BY <2>1, <3>1, <3>2
    <3>4. PICK x : Kids(e) = {x}
      BY Zenon, <2>2, <3>3, FS_Singleton
    <3>5. Gie!Min(Kids(e)) \in Kids(e)
      <4>1. Kids(e) \in SUBSET Nat /\ Kids(e) # {}
        BY <2>2, <3>4, GieConstants
      <4>. QED
        BY Zenon, <4>1, MinIsMember
    <3>. QED
      BY Zenon, <1>1, <3>4, <3>5
  <2>. QED
    BY <2>3, <2>4, <2>5
<1>. QED
  BY <1>3, <1>4

-----------------------------------------------------------------------------
(* The steps of this bin.                                                  *)

LEMMA GieUpKept ==
  ASSUME GieUp, GieStopInv, Open(exitQueue) => Open(exitQueue'),
         running \/ exitQueue' = << >>,
         UNCHANGED <<running, stop, ended, loop>>
  PROVE  GieUp' /\ GieStopInv'
BY Zenon DEF GieUp, GieStopInv

LEMMA SeqWidens ==
  ASSUME NEW S, NEW T, S \subseteq T
  PROVE  Seq(S) \subseteq Seq(T)
<1> SUFFICES ASSUME NEW q \in Seq(S) PROVE q \in Seq(T)
  OBVIOUS
<1>1. Len(q) \in Nat /\ DOMAIN q = 1 .. Len(q) /\ \A i \in 1 .. Len(q) : q[i] \in S
  OBVIOUS
<1>2. q \in [1 .. Len(q) -> T]
  <2>1. q \in [1 .. Len(q) -> S]
    BY <1>1, LenProperties
  <2>. QED
    BY <2>1
<1>. QED
  BY <1>1, <1>2, SeqDef

LEMMA GieArrives ==
  ASSUME TreeInv, GieInv, GieStopInv, Gie!Arrive, loop' = loop
  PROVE  GieInv' /\ GieStopInv' /\ GieStageStep
<1> DEFINE f == arrived + 1
           tee == IF Kids(-1) = {} THEN [frame |-> 0, at |-> 0, todo |-> {}]
                  ELSE [frame |-> f, at |-> 0, todo |-> Kids(-1)]
<1>1. /\ running /\ ~ended /\ thread[0].frame = 0
      /\ arrived < MaxFrames /\ arrived' = f /\ exitQueue' = Append(exitQueue, f)
      /\ thread' = [thread EXCEPT ![0] = tee]
      /\ UNCHANGED <<config, asked, created, parent, children, running, stop, queue,
                     results, ended>>
  <2>1. Gie!TeeBranches(-1) = Kids(-1)
    BY Zenon, TreeLinks
  <2>2. running /\ ~ended /\ arrived < MaxFrames /\ arrived' = f /\ exitQueue' = Append(exitQueue, f)
    BY Zenon DEF Gie!Arrive
  <2>3. UNCHANGED <<config, asked, created, parent, children, running, stop, queue, results, ended>>
    BY Zenon DEF Gie!Arrive, Gie!tree
  <2>4. thread[0].frame = 0
    BY Zenon DEF Gie!Arrive, Gie!InThread, Gie!Upstream
  <2>5. thread' = [thread EXCEPT ![0] = tee]
    BY Zenon, <2>1 DEF Gie!Arrive, Gie!Upstream, Gie!Root, Gie!Idle, Gie!None
  <2>. QED
    BY Zenon, <2>2, <2>3, <2>4, <2>5
<1>2. GieShape /\ GieWork /\ GieCover /\ GieUp /\ Open(exitQueue) /\ created \subseteq Engines
  BY Zenon, <1>1 DEF GieInv, GieUp, TreeInv, TreeShape
<1>3. f \in Nat /\ f # 0 /\ f \in 1 .. MaxFrames /\ f > arrived /\ arrived \in Nat
  BY <1>1, <1>2, GieConstants DEF GieShape
<1>4. /\ arrived' \in 0 .. MaxFrames /\ 1 .. arrived \subseteq 1 .. arrived'
      /\ 0 .. arrived \subseteq 0 .. arrived'
  BY <1>1, <1>3
<1>5. /\ tee.frame \in {0, f} /\ tee.at = 0 /\ tee.todo = Kids(-1)
      /\ Kids(-1) # {} => tee.frame = f
      /\ Kids(-1) \subseteq created
  BY DEF Kids
<1>6. tee \in [frame : 0 .. arrived', at : Engines \cup {0}, todo : SUBSET Engines]
  <2> DEFINE K == Kids(-1)
  <2>1. K \in SUBSET Engines
    BY <1>2, <1>5
  <2>2. f \in 0 .. arrived' /\ 0 \in 0 .. arrived'
    BY <1>1, <1>3
  <2> HIDE DEF K, f
  <2>3. [frame |-> 0, at |-> 0, todo |-> {}]
          \in [frame : 0 .. arrived', at : Engines \cup {0}, todo : SUBSET Engines]
    BY <2>2
  <2>4. [frame |-> f, at |-> 0, todo |-> K]
          \in [frame : 0 .. arrived', at : Engines \cup {0}, todo : SUBSET Engines]
    BY <2>1, <2>2
  <2>. QED
    BY Zenon, <2>3, <2>4 DEF K
<1> HIDE DEF f, tee
<1>7. /\ ExitQueue(exitQueue') /\ Open(exitQueue')
      /\ Inside(exitQueue) = exitQueue /\ Inside(exitQueue') = Append(Inside(exitQueue), f)
  BY Zenon, <1>1, <1>2, <1>3, InsideArrive
<1>8. /\ \A g : Holds(exitQueue', g) <=> Holds(exitQueue, g) \/ g = f
      /\ \A g : Holds(exitQueue, g) => g \in Nat /\ g # 0 /\ g <= arrived
  <2>1. exitQueue \in Seq(Nat)
    BY Zenon, <1>2 DEF Open
  <2>2. \A g : Holds(exitQueue, g) => g \in Nat /\ g # 0
    BY <1>2 DEF Open, Holds
  <2>. QED
    BY Zenon, <1>1, <1>2, <1>3, <2>1, <2>2, HoldsAppend DEF GieShape
<1>9. /\ thread'[0] = tee /\ \A t \in Engines : thread'[t] = thread[t] /\ t # 0
  BY <1>1, <1>2, GieConstants DEF GieShape
<1>10. GieShape'
  <2>1. \A g : Holds(exitQueue', g) => g <= arrived'
    BY <1>1, <1>3, <1>8 DEF f
  <2>2. queue' \in [Engines -> Seq(1 .. arrived')]
    <3>1. queue \in [Engines -> Seq(1 .. arrived)]
      BY Zenon, <1>2 DEF GieShape
    <3>2. Seq(1 .. arrived) \subseteq Seq(1 .. arrived')
      BY Zenon, <1>4, SeqWidens
    <3>. QED
      BY <1>1, <3>1, <3>2
  <2>3. thread' \in [Engines \cup {0} ->
                      [frame : 0 .. arrived', at : Engines \cup {0}, todo : SUBSET Engines]]
    <3>1. thread \in [Engines \cup {0} ->
                       [frame : 0 .. arrived, at : Engines \cup {0}, todo : SUBSET Engines]]
      BY Zenon, <1>2 DEF GieShape
    <3>2. [frame : 0 .. arrived, at : Engines \cup {0}, todo : SUBSET Engines]
            \subseteq [frame : 0 .. arrived', at : Engines \cup {0}, todo : SUBSET Engines]
      BY <1>4
    <3>. QED
      BY <1>1, <1>6, <3>1, <3>2
  <2>4. results' \in [1 .. MaxFrames -> SUBSET Engines]
    BY Zenon, <1>1, <1>2 DEF GieShape
  <2>. QED
    BY Zenon, <1>4, <1>7, <2>1, <2>2, <2>3, <2>4 DEF GieShape
<1>11. GieWork'
  <2>1. ASSUME NEW t \in Engines \cup {0}
        PROVE  /\ thread'[t].todo \subseteq created' /\ thread'[t].at \in created' \cup {0}
               /\ thread'[t].todo # {} \/ thread'[t].at # 0 => thread'[t].frame # 0 /\ running'
               /\ thread'[t].at # 0 => thread'[t].todo = {}
    <3>1. CASE t = 0
      <4>1. 0 \in created' \cup {0}
        OBVIOUS
      <4>. QED
        BY Zenon, <1>1, <1>3, <1>5, <1>9, <3>1, <4>1
    <3>2. CASE t \in Engines
      BY Zenon, <1>1, <1>2, <1>9, <3>2 DEF GieWork
    <3>. QED
      BY Zenon, <2>1, <3>1, <3>2
  <2>2. \A g \in 1 .. MaxFrames : g > arrived' => g > arrived
    BY <1>1, <1>3
  <2>. QED
    BY Zenon, <1>1, <1>2, <2>1, <2>2 DEF GieWork
<1>12. GieCover'
  <2> SUFFICES ASSUME NEW g \in 1 .. MaxFrames, Holds(exitQueue', g), NEW e \in created
               PROVE  GieDue(e, g)'
    BY Zenon, <1>1 DEF GieCover
  <2>1. CASE g = f
    <3>1. parent[e] \in created \cup {-1}
      BY Zenon DEF TreeInv, TreeParents
    <3>2. results[f] = {}
      BY Zenon, <1>2, <1>3 DEF GieWork
    <3>3. CASE parent[e] = -1
      <4>1. e \in Kids(-1)
        BY Zenon, <3>3 DEF Kids
      <4>2. thread'[0].frame = f /\ e \in thread'[0].todo
        BY Zenon, <1>5, <1>9, <4>1
      <4>3. 0 \in Engines \cup {0}
        OBVIOUS
      <4>. QED
        BY Zenon, <2>1, <4>2, <4>3 DEF GieDue, GieComing
    <3>4. CASE parent[e] \in created
      BY Zenon, <1>1, <2>1, <3>2, <3>4 DEF GieDue
    <3>. QED
      BY <3>1, <3>3, <3>4
  <2>2. CASE Holds(exitQueue, g)
    <3>1. GieDue(e, g)
      BY Zenon, <1>2, <2>2 DEF GieCover
    <3>2. \A t \in Engines \cup {0} :
            thread[t].frame = g => thread'[t] = thread[t]
      <4>1. g # 0
        BY <1>8, <2>2
      <4>. QED
        BY Zenon, <1>1, <1>9, <4>1
    <3>. QED
      BY Zenon, <1>1, <3>1, <3>2 DEF GieDue, GieComing
  <2>. QED
    BY Zenon, <1>8, <2>1, <2>2
<1>13. GieUp' /\ GieStopInv'
  BY Zenon, <1>1, <1>2, <1>7, GieUpKept
<1>14. \A i \in 1 .. Len(Inside(exitQueue)) : Inside(exitQueue)[i] # f
  <2> SUFFICES ASSUME NEW i \in 1 .. Len(exitQueue) PROVE exitQueue[i] # f
    BY Zenon, <1>7
  <2>1. Holds(exitQueue, exitQueue[i])
    BY Zenon DEF Holds
  <2>2. exitQueue[i] \in Nat /\ exitQueue[i] <= arrived
    BY <1>8, <2>1
  <2>. QED
    BY <1>3, <2>2
<1>15. GieStageStep
  <2>1. results \in [1 .. MaxFrames -> SUBSET Engines]
    BY Zenon, <1>2 DEF GieShape
  <2>. QED
    BY Zenon, <1>1, <1>3, <1>7, <1>14, <2>1, GieStageArrives
<1>. QED
  BY Zenon, <1>10, <1>11, <1>12, <1>13, <1>15 DEF GieInv

LEMMA GieEnds ==
  ASSUME GieInv, GieStopInv, Gie!EosArrives, ~loop, loop' = loop
  PROVE  GieInv' /\ GieStopInv' /\ GieStageStep
<1>1. /\ running /\ ~ended /\ stop' /\ ended' /\ exitQueue' = Append(exitQueue, 0)
      /\ UNCHANGED <<config, asked, created, parent, children, running, queue, thread,
                     results, arrived>>
  BY Zenon DEF Gie!EosArrives, Gie!Eos, Gie!tree
<1>2. GieShape /\ GieWork /\ GieCover /\ GieUp /\ Open(exitQueue)
  BY Zenon, <1>1 DEF GieInv, GieUp
<1>3. ExitQueue(exitQueue') /\ Inside(exitQueue') = Inside(exitQueue)
  BY Zenon, <1>1, <1>2, InsideEnd
<1>4. \A g : Holds(exitQueue', g) <=> Holds(exitQueue, g) \/ g = 0
  <2>1. exitQueue \in Seq(Nat) /\ 0 \in Nat
    BY <1>2 DEF Open
  <2>. QED
    BY Zenon, <1>1, <2>1, HoldsAppend
<1>5. GieShape'
  <2>1. 0 <= arrived
    BY <1>2 DEF GieShape
  <2>. QED
    BY Zenon, <1>1, <1>2, <1>3, <1>4, <2>1 DEF GieShape
<1>6. GieWork'
  BY Zenon, <1>1, <1>2 DEF GieWork
<1>7. GieCover'
  <2>1. \A g \in 1 .. MaxFrames : g # 0
    OBVIOUS
  <2>. QED
    BY Zenon, <1>1, <1>2, <1>4, <2>1 DEF GieCover, GieDue, GieComing
<1>8. GieUp' /\ GieStopInv'
  BY Zenon, <1>1, <1>2 DEF GieUp, GieStopInv
<1>9. GieStageStep
  BY Zenon, <1>1, <1>3, GieStageEnds
<1>. QED
  BY Zenon, <1>5, <1>6, <1>7, <1>8, <1>9 DEF GieInv

(* A frame that leaves was seen by every engine of the tree, unless the     *)
(* stream has ended.                                                       *)
LEMMA GieLeavesSeen ==
  ASSUME TreeInv, GieInv, GieStopInv, Gie!Leave, Head(exitQueue) # 0
  PROVE  results[Head(exitQueue)] = created \/ ended
<1> DEFINE f == Head(exitQueue)
<1>1. exitQueue # << >> /\ (f = 0 \/ ~Gie!Held(f) \/ stop)
  BY Zenon DEF Gie!Leave, Gie!WaitQueueBufProbe, Gie!Eos
<1>2. GieShape /\ GieWork /\ GieCover /\ ExitQueue(exitQueue)
  BY Zenon DEF GieInv, GieShape
<1>3. exitQueue \in Seq(Nat)
  BY Zenon, <1>2 DEF ExitQueue
<1>4. Holds(exitQueue, f)
  BY Zenon, <1>1, <1>3, HoldsTail
<1>5. f \in 1 .. MaxFrames
  <2>1. Holds(exitQueue, f)
    BY Zenon, <1>4
  <2>2. f <= arrived /\ arrived \in 0 .. MaxFrames
    BY Zenon, <1>2, <2>1 DEF GieShape
  <2>3. f \in Nat
    BY <1>1, <1>3
  <2>. QED
    BY <2>2, <2>3, GieConstants
<1>6. ASSUME ~Gie!Held(f) PROVE results[f] = created
  <2> DEFINE U == created \ results[f]
  <2>0. created \subseteq Engines
    BY Zenon DEF TreeInv, TreeShape
  <2>1. \A e \in created : ~GieComing(e, f)
    BY Zenon, <1>6, <2>0, GieThreads DEF Gie!Held, GieComing, Holds
  <2>2. \A e \in created : GieDue(e, f)
    BY Zenon, <1>2, <1>4, <1>5 DEF GieCover
  <2>3. \A e \in U : parent[e] \in U
    BY <2>1, <2>2 DEF GieDue
  <2>4. U = {}
    <3>1. U \in SUBSET created
      OBVIOUS
    <3> HIDE DEF U
    <3>. QED
      BY Zenon, <2>3, <3>1 DEF TreeInv, TreeRooted
  <2>5. results[f] \subseteq created
    BY Zenon, <1>2, <1>5 DEF GieWork
  <2>. QED
    BY <2>4, <2>5
<1>. QED
  BY Zenon, <1>1, <1>6 DEF GieStopInv

LEMMA GieLeaves ==
  ASSUME TreeInv, GieInv, GieStopInv, Gie!Leave, loop' = loop
  PROVE  GieInv' /\ GieStopInv' /\ GieStageStep
<1> DEFINE f == Head(exitQueue)
<1>1. /\ exitQueue # << >> /\ exitQueue' = Tail(exitQueue)
      /\ f = 0 \/ ~Gie!Held(f) \/ stop
      /\ UNCHANGED <<config, asked, created, parent, children, running, stop, queue, thread,
                     results, arrived, ended>>
  BY Zenon DEF Gie!Leave, Gie!WaitQueueBufProbe, Gie!Eos, Gie!tree
<1>2. GieShape /\ GieWork /\ GieCover /\ GieUp /\ running /\ ExitQueue(exitQueue)
  BY Zenon, <1>1 DEF GieInv, GieUp, GieShape
<1>3. exitQueue \in Seq(Nat)
  BY Zenon, <1>2 DEF ExitQueue
<1>4. \A g : Holds(exitQueue, g) <=> g = f \/ Holds(exitQueue', g)
  BY Zenon, <1>1, <1>3, HoldsTail
<1>5. /\ ExitQueue(exitQueue') /\ (Open(exitQueue) => Open(exitQueue'))
      /\ f = 0 => Inside(exitQueue) = << >> /\ Inside(exitQueue') = << >>
      /\ f # 0 => /\ Inside(exitQueue) # << >> /\ Head(Inside(exitQueue)) = f
                  /\ Inside(exitQueue') = Tail(Inside(exitQueue))
  BY Zenon, <1>1, <1>2, InsideLeave
<1>6. GieShape' /\ GieWork' /\ GieCover'
  <2>1. GieShape'
    BY Zenon, <1>1, <1>2, <1>4, <1>5 DEF GieShape
  <2>2. GieWork'
    BY Zenon, <1>1, <1>2 DEF GieWork
  <2>3. GieCover'
    BY Zenon, <1>1, <1>2, <1>4 DEF GieCover, GieDue, GieComing
  <2>. QED
    BY Zenon, <2>1, <2>2, <2>3
<1>7. GieUp' /\ GieStopInv'
  BY Zenon, <1>1, <1>2, <1>5, GieUpKept
<1>8. f = 0 => GieStageStep
  BY Zenon, <1>1, <1>5, GieStageStutters DEF GieEngines
<1>9. ASSUME f # 0 PROVE GieStageStep
  <2>1. results[f] = GieEngines \/ ended
    BY Zenon, <1>2, <1>9, GieLeavesSeen DEF GieEngines
  <2>. QED
    BY Zenon, <1>1, <1>5, <1>9, <2>1, GieStageLeaves
<1>. QED
  BY Zenon, <1>6, <1>7, <1>8, <1>9 DEF GieInv

(* The steps inside the bin leave the tree and the exit queue alone; of the *)
(* threads they change one.                                                *)
Thread == [frame : 0 .. arrived, at : Engines \cup {0}, todo : SUBSET Engines]
InnerFrame ==
  UNCHANGED <<config, asked, created, parent, children, running, stop, exitQueue,
              arrived, ended, loop>>
ThreadIs(t, new) ==
  /\ new \in Thread
  /\ thread'[t] = new
  /\ thread' = [thread EXCEPT ![t] = new]
  /\ \A u \in Engines \cup {0} : u # t => thread'[u] = thread[u]
  /\ new.todo \subseteq created /\ new.at \in created \cup {0}
  /\ new.todo # {} \/ new.at # 0 => new.frame # 0 /\ running
  /\ new.at # 0 => new.todo = {}

LEMMA GieInner ==
  ASSUME GieInv, GieStopInv, InnerFrame, NEW t \in Engines \cup {0}, NEW new, ThreadIs(t, new),
         queue' \in [Engines -> Seq(1 .. arrived)],
         \A e \in Engines : queue'[e] # << >> => e \in created /\ running,
         results' \in [1 .. MaxFrames -> SUBSET Engines],
         \A f \in 1 .. MaxFrames :
           results'[f] \subseteq created /\ (f > arrived => results'[f] = {}),
         \A f \in 1 .. MaxFrames, e \in created : GieDue(e, f) => GieDue(e, f)'
  PROVE  GieInv' /\ GieStopInv'
<1>1. UNCHANGED <<config, asked, created, parent, children, running, stop, exitQueue,
                  arrived, ended, loop>>
  BY Zenon DEF InnerFrame
<1>2. GieShape /\ GieWork /\ GieCover /\ GieUp
  BY Zenon DEF GieInv
<1>3. GieShape'
  <2>1. thread' \in [Engines \cup {0} -> Thread]
    <3>1. thread \in [Engines \cup {0} -> Thread]
      BY Zenon, <1>2 DEF GieShape, Thread
    <3>2. new \in Thread /\ thread' = [thread EXCEPT ![t] = new]
      BY Zenon DEF ThreadIs
    <3>. QED
      BY <3>1, <3>2
  <2>. QED
    BY Zenon, <1>1, <1>2, <2>1 DEF GieShape, Thread
<1>4. GieWork'
  <2>1. ASSUME NEW u \in Engines \cup {0}
        PROVE  /\ thread'[u].todo \subseteq created /\ thread'[u].at \in created \cup {0}
               /\ thread'[u].todo # {} \/ thread'[u].at # 0 => thread'[u].frame # 0 /\ running
               /\ thread'[u].at # 0 => thread'[u].todo = {}
    <3>1. CASE u = t
      BY Zenon, <3>1 DEF ThreadIs
    <3>2. CASE u # t
      <4>1. thread'[u] = thread[u]
        BY Zenon, <3>2 DEF ThreadIs
      <4>. QED
        BY Zenon, <1>2, <4>1 DEF GieWork
    <3>. QED
      BY <3>1, <3>2
  <2>. QED
    BY Zenon, <1>1, <2>1 DEF GieWork
<1>5. GieCover'
  BY Zenon, <1>1, <1>2 DEF GieCover
<1>6. GieUp' /\ GieStopInv'
  BY Zenon, <1>1, <1>2 DEF GieUp, GieStopInv
<1>. QED
  BY Zenon, <1>3, <1>4, <1>5, <1>6 DEF GieInv

LEMMA GiePushes ==
  ASSUME TreeInv, GieInv, GieStopInv, NEW t \in Engines \cup {0}, Gie!PushBranch(t), loop' = loop
  PROVE  GieInv' /\ GieStopInv' /\ GieStageStep
<1> DEFINE r == thread[t]
           e == Gie!Min(r.todo)
           rest == r.todo \ {e}
           new == IF rest = {} THEN [frame |-> 0, at |-> 0, todo |-> {}]
                  ELSE [r EXCEPT !.todo = rest]
<1>1. /\ r.todo # {} /\ queue' = [queue EXCEPT ![e] = Append(@, r.frame)]
      /\ thread' = [thread EXCEPT ![t] =
           IF rest = {} THEN [frame |-> 0, at |-> 0, todo |-> {}] ELSE [@ EXCEPT !.todo = rest]]
      /\ UNCHANGED <<config, asked, created, parent, children, running, stop, exitQueue,
                     results, arrived, ended>>
  BY Zenon DEF Gie!PushBranch, Gie!Idle, Gie!None, Gie!tree
<1>2. GieShape /\ GieWork /\ created \subseteq Engines
  BY Zenon DEF GieInv, TreeInv, TreeShape
<1>3. /\ thread \in [Engines \cup {0} -> Thread]
      /\ queue \in [Engines -> Seq(1 .. arrived)]
      /\ results \in [1 .. MaxFrames -> SUBSET Engines] /\ arrived \in Nat
  BY <1>2, GieConstants DEF GieShape, Thread
<1>4. r \in [frame : 0 .. arrived, at : Engines \cup {0}, todo : SUBSET Engines]
  BY <1>3 DEF Thread
<1>5. /\ r.todo \subseteq created /\ r.frame # 0 /\ running /\ r.at = 0
  BY Zenon, <1>1, <1>2 DEF GieWork
<1>6. thread' = [thread EXCEPT ![t] = new]
  <2>1. thread' = [thread EXCEPT ![t] =
           IF rest = {} THEN [frame |-> 0, at |-> 0, todo |-> {}] ELSE [r EXCEPT !.todo = rest]]
    BY <1>1, <1>3
  <2>. QED
    BY Zenon, <2>1
<1> HIDE DEF r
<1>7. e \in r.todo
  <2>1. r.todo \in SUBSET Nat
    BY <1>4, GieConstants
  <2>. QED
    BY Zenon, <1>1, <2>1, MinIsMember
<1> HIDE DEF e
<1>8. e \in created /\ e \in Engines /\ r.frame \in 1 .. arrived
  <2>1. e \in created
    BY Zenon, <1>5, <1>7
  <2>2. r.frame \in 0 .. arrived
    BY <1>4
  <2>. QED
    BY <1>2, <1>3, <1>5, <2>1, <2>2
<1>9. /\ new.todo = rest /\ new.at = 0 /\ (rest # {} => new.frame = r.frame)
      /\ new \in [frame : 0 .. arrived, at : Engines \cup {0}, todo : SUBSET Engines]
  <2>1. rest \in SUBSET Engines
    BY <1>4
  <2> HIDE DEF rest
  <2>2. CASE rest = {}
    <3>1. new = [frame |-> 0, at |-> 0, todo |-> {}]
      BY Zenon, <2>2
    <3>. QED
      BY <1>3, <2>2, <3>1
  <2>3. CASE rest # {}
    <3>1. new = [r EXCEPT !.todo = rest]
      BY Zenon, <2>3
    <3>. QED
      BY <1>4, <1>5, <2>1, <2>3, <3>1
  <2>. QED
    BY <2>2, <2>3
<1> HIDE DEF new
<1>10. ThreadIs(t, new)
  <2>1. thread'[t] = new /\ \A u \in Engines \cup {0} : u # t => thread'[u] = thread[u]
    BY <1>3, <1>6
  <2>2. new.todo \subseteq created
    BY <1>5, <1>9
  <2>3. new.at \in created \cup {0}
    BY <1>9
  <2>4. new.todo # {} \/ new.at # 0 => new.frame # 0 /\ running
    BY Zenon, <1>5, <1>9
  <2>. QED
    BY Zenon, <1>6, <1>9, <2>1, <2>2, <2>3, <2>4 DEF ThreadIs, Thread
<1>11. /\ queue' \in [Engines -> Seq(1 .. arrived)]
       /\ queue'[e] = Append(queue[e], r.frame)
       /\ \A x \in Engines : x # e => queue'[x] = queue[x]
  BY <1>1, <1>3, <1>8
<1>12. \A f : Holds(queue'[e], f) <=> Holds(queue[e], f) \/ f = r.frame
  <2>1. \A f : Holds(Append(queue[e], r.frame), f) <=> Holds(queue[e], f) \/ f = r.frame
    BY <1>3, <1>8, HoldsAppend
  <2>. QED
    BY Zenon, <1>11, <2>1
<1>13. \A x \in Engines : queue'[x] # << >> => x \in created /\ running
  BY Zenon, <1>2, <1>5, <1>8, <1>11 DEF GieWork
<1>14. ASSUME NEW f \in 1 .. MaxFrames, NEW x \in created, GieDue(x, f)
       PROVE  GieDue(x, f)'
  <2>1. x \in Engines
    BY <1>2
  <2>2. Holds(queue[x], f) => Holds(queue'[x], f)
    BY Zenon, <1>11, <1>12, <2>1
  <2>3. ASSUME NEW u \in Engines \cup {0}, thread[u].frame = f,
               thread[u].at = x \/ x \in thread[u].todo
        PROVE  GieComing(x, f)'
    <3>1. CASE u # t
      BY Zenon, <1>10, <2>3, <3>1 DEF ThreadIs, GieComing
    <3>2. CASE u = t
      <4>1. r.frame = f /\ x \in r.todo
        <5>1. thread[t].at = 0 /\ x # 0
          BY Zenon, <1>5, <2>1, GieConstants DEF r
        <5>. QED
          BY Zenon, <2>3, <3>2, <5>1 DEF r
      <4>2. CASE x = e
        BY Zenon, <1>12, <4>1, <4>2 DEF GieComing
      <4>3. CASE x # e
        <5>1. x \in rest
          BY <4>1, <4>3
        <5>2. x \in thread'[t].todo /\ thread'[t].frame = f
          BY Zenon, <1>9, <1>10, <4>1, <5>1 DEF ThreadIs
        <5>. QED
          BY Zenon, <5>2 DEF GieComing
      <4>. QED
        BY <4>2, <4>3
    <3>. QED
      BY <3>1, <3>2
  <2>4. GieComing(x, f) => GieComing(x, f)'
    <3>1. Holds(queue'[x], f) => GieComing(x, f)'
      BY Zenon DEF GieComing
    <3>. QED
      BY Zenon, <2>2, <2>3, <3>1 DEF GieComing
  <2>. QED
    BY Zenon, <1>1, <1>14, <2>4 DEF GieDue
<1>15. GieInv' /\ GieStopInv'
  <2>1. \A f \in 1 .. MaxFrames :
          results'[f] \subseteq created /\ (f > arrived => results'[f] = {})
    BY Zenon, <1>1, <1>2 DEF GieWork
  <2>2. results' \in [1 .. MaxFrames -> SUBSET Engines] /\ InnerFrame
    BY Zenon, <1>1, <1>3 DEF InnerFrame
  <2>. QED
    BY Zenon, <1>10, <1>11, <1>13, <1>14, <2>1, <2>2, GieInner
<1>16. GieStageStep
  BY Zenon, <1>1, GieStageStutters DEF GieEngines
<1>. QED
  BY Zenon, <1>15, <1>16

LEMMA GieTakes ==
  ASSUME TreeInv, GieInv, GieStopInv, NEW e \in Engines, Gie!Take(e), loop' = loop
  PROVE  GieInv' /\ GieStopInv' /\ GieStageStep
<1> DEFINE new == [frame |-> Head(queue[e]), at |-> e, todo |-> {}]
<1>1. /\ thread[e].frame = 0 /\ queue[e] # << >>
      /\ thread' = [thread EXCEPT ![e] = new]
      /\ queue' = [queue EXCEPT ![e] = Tail(@)]
      /\ UNCHANGED <<config, asked, created, parent, children, running, stop, exitQueue,
                     results, arrived, ended>>
  BY Zenon DEF Gie!Take, Gie!InThread, Gie!tree
<1>2. GieShape /\ GieWork /\ created \subseteq Engines
  BY Zenon DEF GieInv, TreeInv, TreeShape
<1>3. /\ thread \in [Engines \cup {0} -> Thread]
      /\ queue \in [Engines -> Seq(1 .. arrived)]
      /\ results \in [1 .. MaxFrames -> SUBSET Engines] /\ arrived \in Nat
  BY <1>2, GieConstants DEF GieShape, Thread
<1>4. e \in created /\ running /\ e \in Engines \cup {0} /\ e # 0
  <2>1. e \in created /\ running
    BY Zenon, <1>1, <1>2 DEF GieWork
  <2>. QED
    BY <2>1, GieConstants
<1>5. queue[e] \in Seq(1 .. arrived)
  BY <1>3
<1>6. Head(queue[e]) \in 1 .. arrived /\ Tail(queue[e]) \in Seq(1 .. arrived)
  BY <1>1, <1>5, HeadTailProperties
<1>7. /\ queue' \in [Engines -> Seq(1 .. arrived)]
      /\ queue'[e] = Tail(queue[e])
      /\ \A x \in Engines : x # e => queue'[x] = queue[x]
  BY <1>1, <1>3, <1>6
<1>8. \A f : Holds(queue[e], f) => f = Head(queue[e]) \/ Holds(queue'[e], f)
  BY Zenon, <1>1, <1>5, <1>7, HoldsTail
<1>9. /\ new.frame = Head(queue[e]) /\ new.at = e /\ new.todo = {}
      /\ new \in [frame : 0 .. arrived, at : Engines \cup {0}, todo : SUBSET Engines]
  <2>1. Head(queue[e]) \in 0 .. arrived
    BY <1>3, <1>6
  <2>. QED
    BY <1>4, <2>1
<1> HIDE DEF new
<1>10. ThreadIs(e, new)
  <2>1. thread'[e] = new /\ \A u \in Engines \cup {0} : u # e => thread'[u] = thread[u]
    BY <1>1, <1>3
  <2>2. new.todo \subseteq created /\ new.at \in created \cup {0} /\ new.frame # 0
    BY <1>3, <1>4, <1>6, <1>9
  <2>. QED
    BY Zenon, <1>1, <1>4, <1>9, <2>1, <2>2 DEF ThreadIs, Thread
<1>11. \A x \in Engines : queue'[x] # << >> => x \in created /\ running
  BY Zenon, <1>2, <1>4, <1>7 DEF GieWork
<1>12. ASSUME NEW f \in 1 .. MaxFrames, NEW x \in created, GieDue(x, f)
       PROVE  GieDue(x, f)'
  <2>1. x \in Engines /\ f # 0
    BY <1>2
  <2>2. Holds(queue[x], f) => GieComing(x, f)'
    <3>1. thread'[e].frame = Head(queue[e]) /\ thread'[e].at = e
      BY Zenon, <1>9, <1>10 DEF ThreadIs
    <3>. QED
      BY Zenon, <1>4, <1>7, <1>8, <2>1, <3>1 DEF GieComing
  <2>3. \A u \in Engines \cup {0} : thread[u].frame = f => thread'[u] = thread[u]
    BY Zenon, <1>1, <1>10, <2>1 DEF ThreadIs
  <2>4. GieComing(x, f) => GieComing(x, f)'
    BY Zenon, <2>2, <2>3 DEF GieComing
  <2>. QED
    BY Zenon, <1>1, <1>12, <2>4 DEF GieDue
<1>13. GieInv' /\ GieStopInv'
  <2>1. \A f \in 1 .. MaxFrames :
          results'[f] \subseteq created /\ (f > arrived => results'[f] = {})
    BY Zenon, <1>1, <1>2 DEF GieWork
  <2>2. results' \in [1 .. MaxFrames -> SUBSET Engines] /\ InnerFrame
    BY Zenon, <1>1, <1>3 DEF InnerFrame
  <2>. QED
    BY Zenon, <1>4, <1>7, <1>10, <1>11, <1>12, <2>1, <2>2, GieInner
<1>14. GieStageStep
  BY Zenon, <1>1, GieStageStutters DEF GieEngines
<1>. QED
  BY Zenon, <1>13, <1>14

LEMMA GieInfers ==
  ASSUME TreeInv, GieInv, GieStopInv, NEW t \in Engines \cup {0}, Gie!Infer(t), loop' = loop
  PROVE  GieInv' /\ GieStopInv' /\ GieStageStep
<1> DEFINE r == thread[t]
           e == r.at
           f == r.frame
           new == IF Gie!SubBin(e).sink THEN [frame |-> 0, at |-> 0, todo |-> {}]
                  ELSE IF Gie!SubBin(e).tee
                       THEN [r EXCEPT !.at = 0, !.todo = Gie!TeeBranches(e)]
                       ELSE [r EXCEPT !.at = Gie!Min(Gie!Branches(e))]
<1>1. /\ e # 0 /\ results' = [results EXCEPT ![f] = @ \cup {e}]
      /\ UNCHANGED <<config, asked, created, parent, children, running, stop, exitQueue,
                     queue, arrived, ended>>
  BY Zenon DEF Gie!Infer, Gie!None, Gie!tree
<1>2. GieShape /\ GieWork /\ created \subseteq Engines
  BY Zenon DEF GieInv, TreeInv, TreeShape
<1>3. /\ thread \in [Engines \cup {0} -> Thread]
      /\ queue \in [Engines -> Seq(1 .. arrived)]
      /\ results \in [1 .. MaxFrames -> SUBSET Engines]
      /\ arrived \in Nat /\ arrived <= MaxFrames
  BY <1>2, GieConstants DEF GieShape, Thread
<1>4. r \in [frame : 0 .. arrived, at : Engines \cup {0}, todo : SUBSET Engines]
  BY <1>3 DEF Thread
<1>5. thread' = [thread EXCEPT ![t] = new]
  <2>1. thread' = [thread EXCEPT ![t] =
           IF Gie!SubBin(e).sink THEN [frame |-> 0, at |-> 0, todo |-> {}]
           ELSE IF Gie!SubBin(e).tee
                THEN [@ EXCEPT !.at = 0, !.todo = Gie!TeeBranches(e)]
                ELSE [@ EXCEPT !.at = Gie!Min(Gie!Branches(e))]]
    BY Zenon DEF Gie!Infer, Gie!Idle, Gie!None
  <2>. QED
    BY <1>3, <2>1
<1>6. e \in created /\ e \in Engines /\ running /\ r.todo = {} /\ f # 0
  <2>1. r.at \in created \cup {0} /\ running /\ r.todo = {} /\ f # 0
    BY Zenon, <1>1, <1>2 DEF GieWork
  <2>. QED
    BY <1>1, <1>2, <2>1
<1>7. f \in 1 .. arrived /\ f \in 1 .. MaxFrames
  <2>1. f \in 0 .. arrived
    BY <1>4
  <2> HIDE DEF f
  <2>. QED
    BY <1>3, <1>6, <2>1, GieConstants
<1>8. Kids(e) \subseteq created /\ Kids(e) \subseteq Engines
  BY Zenon, <1>2 DEF Kids
<1> HIDE DEF r
<1>9. /\ Gie!SubBin(e).sink <=> Kids(e) = {}
      /\ Gie!SubBin(e).tee => Gie!TeeBranches(e) = Kids(e)
      /\ ~Gie!SubBin(e).sink /\ ~Gie!SubBin(e).tee => Kids(e) = {Gie!Min(Gie!Branches(e))}
  BY Zenon, <1>6, TreeLinks
<1> HIDE DEF e, f
<1>10. /\ new \in [frame : 0 .. arrived, at : Engines \cup {0}, todo : SUBSET Engines]
       /\ new.todo \subseteq created /\ new.at \in created \cup {0}
       /\ new.todo # {} \/ new.at # 0 => new.frame = f
       /\ new.at # 0 => new.todo = {}
       /\ \A c \in Kids(e) : new.at = c \/ c \in new.todo
  <2> DEFINE K == Kids(e)
             only == Gie!Min(Gie!Branches(e))
  <2>0. K \subseteq created /\ K \subseteq Engines /\ (K # {} => 0 \notin K)
    BY <1>8, GieConstants
  <2>1. CASE Gie!SubBin(e).sink
    <3>1. new = [frame |-> 0, at |-> 0, todo |-> {}] /\ K = {}
      BY Zenon, <1>9, <2>1
    <3> HIDE DEF K, new
    <3>. QED
      BY <1>3, <3>1 DEF K
  <2>2. CASE ~Gie!SubBin(e).sink /\ Gie!SubBin(e).tee
    <3>1. new = [r EXCEPT !.at = 0, !.todo = K]
      BY Zenon, <1>9, <2>2
    <3> HIDE DEF K, new
    <3>2. new = [frame |-> f, at |-> 0, todo |-> K] /\ f \in 0 .. arrived
      BY <1>4, <3>1 DEF f
    <3>. QED
      BY <2>0, <3>2 DEF K
  <2>3. CASE ~Gie!SubBin(e).sink /\ ~Gie!SubBin(e).tee
    <3>1. new = [r EXCEPT !.at = only] /\ K = {only}
      BY Zenon, <1>9, <2>3
    <3> HIDE DEF K, new, only
    <3>2. new = [frame |-> f, at |-> only, todo |-> {}] /\ f \in 0 .. arrived
      BY <1>4, <1>6, <3>1 DEF f
    <3>3. only \in created /\ only \in Engines /\ only # 0
      BY <2>0, <3>1
    <3>4. /\ new \in [frame : 0 .. arrived, at : Engines \cup {0}, todo : SUBSET Engines]
          /\ new.frame = f /\ new.at = only /\ new.todo = {}
      BY <3>2, <3>3
    <3>5. \A c \in Kids(e) : new.at = c
      BY Zenon, <3>1, <3>4 DEF K
    <3>6. new.todo \subseteq created /\ new.at \in created \cup {0}
      BY <3>3, <3>4
    <3>. QED
      BY Zenon, <3>4, <3>5, <3>6
  <2>. QED
    BY Zenon, <2>1, <2>2, <2>3
<1> HIDE DEF new
<1>11. ThreadIs(t, new)
  <2>1. thread'[t] = new /\ \A u \in Engines \cup {0} : u # t => thread'[u] = thread[u]
    BY <1>3, <1>5
  <2>. QED
    BY Zenon, <1>5, <1>6, <1>10, <2>1 DEF ThreadIs, Thread
<1>12. /\ results' \in [1 .. MaxFrames -> SUBSET Engines]
       /\ results'[f] = results[f] \cup {e}
       /\ \A g \in 1 .. MaxFrames : g # f => results'[g] = results[g]
  BY <1>1, <1>3, <1>6, <1>7
<1>13. ASSUME NEW g \in 1 .. MaxFrames
       PROVE  results'[g] \subseteq created /\ (g > arrived => results'[g] = {})
  <2>1. results[g] \subseteq created /\ (g > arrived => results[g] = {})
    BY Zenon, <1>2 DEF GieWork
  <2>2. g > arrived => g # f
    BY <1>3, <1>7
  <2>. QED
    BY <1>6, <1>12, <2>1, <2>2
<1>14. ASSUME NEW g \in 1 .. MaxFrames, NEW x \in created, GieDue(x, g)
       PROVE  GieDue(x, g)'
  <2>1. \A u \in Engines \cup {0} : u # t => thread'[u] = thread[u]
    BY Zenon, <1>11 DEF ThreadIs
  <2>2. r.at = e /\ r.frame = f /\ r = thread[t]
    BY Zenon DEF r, e, f
  <2>3. CASE g # f
    <3>1. GieComing(x, g) => GieComing(x, g)'
      BY Zenon, <1>1, <2>1, <2>2, <2>3 DEF GieComing
    <3>. QED
      BY Zenon, <1>1, <1>12, <1>14, <2>3, <3>1 DEF GieDue
  <2>4. CASE g = f /\ x = e
    BY <1>12, <2>4 DEF GieDue
  <2>5. CASE g = f /\ x # e
    <3>1. GieComing(x, g) => GieComing(x, g)'
      BY Zenon, <1>1, <1>6, <2>1, <2>2, <2>5 DEF GieComing
    <3>2. x \in results[g] => x \in results'[g]
      BY <1>12, <2>5
    <3>3. ASSUME parent[x] = e PROVE GieComing(x, g)'
      <4>1. x \in Kids(e)
        BY Zenon, <3>3 DEF Kids
      <4>2. /\ thread'[t] = new /\ (new.at = x \/ x \in new.todo)
        BY Zenon, <1>10, <1>11, <4>1 DEF ThreadIs
      <4>3. new.at = x => new.at # 0
        <5>1. x # 0
          BY <1>2, GieConstants
        <5>. QED
          BY Zenon, <5>1
      <4>4. new.frame = f
        <5>1. x \in new.todo => new.todo # {}
          BY Zenon
        <5>. QED
          BY Zenon, <1>10, <4>2, <4>3, <5>1
      <4>. QED
        BY Zenon, <2>5, <4>2, <4>4 DEF GieComing
    <3>4. parent[x] # e /\ parent[x] \notin results[g] => parent[x] \notin results'[g]
      BY <1>12, <2>5
    <3>. QED
      BY Zenon, <1>1, <1>14, <2>5, <3>1, <3>2, <3>3, <3>4 DEF GieDue
  <2>. QED
    BY Zenon, <2>3, <2>4, <2>5
<1>15. GieInv' /\ GieStopInv'
  <2>1. \A x \in Engines : queue'[x] # << >> => x \in created /\ running
    BY Zenon, <1>1, <1>2 DEF GieWork
  <2>2. queue' \in [Engines -> Seq(1 .. arrived)] /\ InnerFrame
    BY Zenon, <1>1, <1>3 DEF InnerFrame
  <2>. QED
    BY Zenon, <1>11, <1>12, <1>13, <1>14, <2>1, <2>2, GieInner
<1>16. GieStageStep
  <2>1. e \in GieEngines
    BY Zenon, <1>6 DEF GieEngines
  <2>. QED
    BY Zenon, <1>1, <1>3, <1>7, <2>1, GieStageInfers
<1>. QED
  BY Zenon, <1>15, <1>16

LEMMA GieAsks ==
  ASSUME TreeInv, TreeAsked, GieInv, GieStopInv, Gie!Ask, loop' = loop
  PROVE  GieInv' /\ GieStopInv' /\ GieStageStep
<1>1. /\ ~running
      /\ UNCHANGED <<config, running, stop, exitQueue, queue, thread, results, arrived, ended>>
  BY Zenon DEF Gie!Ask, Gie!flow
<1>2. GieShape /\ GieWork /\ GieUp /\ exitQueue = << >>
  BY Zenon, <1>1 DEF GieInv, GieUp
<1>3. created \subseteq created'
  BY Zenon, AskTree
<1>4. GieShape'
  BY Zenon, <1>1, <1>2 DEF GieShape
<1>5. GieWork'
  <2>1. \A S : S \subseteq created => S \subseteq created'
    BY Zenon, <1>3
  <2>2. created \cup {0} \subseteq created' \cup {0}
    BY <1>3
  <2>. QED
    BY Zenon, <1>1, <1>2, <1>3, <2>1, <2>2 DEF GieWork
<1>6. GieCover'
  <2>1. \A g : ~Holds(exitQueue', g)
    BY <1>1, <1>2 DEF Holds
  <2>. QED
    BY Zenon, <2>1 DEF GieCover
<1>7. GieUp' /\ GieStopInv'
  BY Zenon, <1>1, <1>2, GieUpKept
<1>8. GieStageStep
  BY Zenon, <1>1, GieStageStutters DEF GieEngines
<1>. QED
  BY Zenon, <1>4, <1>5, <1>6, <1>7, <1>8 DEF GieInv

LEMMA GieCreates ==
  ASSUME GieInv, GieStopInv, Gie!Create, loop' = loop
  PROVE  GieInv' /\ GieStopInv' /\ GieStageStep
<1>1. /\ ~running /\ running'
      /\ UNCHANGED <<config, created, parent, children, stop, exitQueue, queue, thread,
                     results, arrived, ended>>
  BY Zenon DEF Gie!Create, Gie!flow, Gie!tree
<1>2. GieShape /\ GieWork /\ GieCover /\ GieUp /\ exitQueue = << >> /\ ~ended
  BY Zenon, <1>1 DEF GieInv, GieUp
<1>3. GieShape'
  BY Zenon, <1>1, <1>2 DEF GieShape
<1>4. GieWork'
  BY Zenon, <1>1, <1>2 DEF GieWork
<1>5. GieCover'
  BY Zenon, <1>1, <1>2 DEF GieCover, GieDue, GieComing
<1>6. GieUp' /\ GieStopInv'
  BY Zenon, <1>1, <1>2 DEF GieUp, GieStopInv
<1>7. GieStageStep
  <2>1. Inside(exitQueue') = << >>
    BY Zenon, <1>1, <1>2 DEF Inside
  <2>2. running' = ~running
    BY Zenon, <1>1 DEF Gie!Create
  <2>. QED
    BY Zenon, <1>1, <1>2, <2>1, <2>2, GieStageRenews
<1>. QED
  BY Zenon, <1>3, <1>4, <1>5, <1>6, <1>7 DEF GieInv

LEMMA GieTearsDown ==
  ASSUME GieInv, GieStopInv, Gie!Teardown, loop, loop' = loop
  PROVE  GieInv' /\ GieStopInv' /\ GieStageStep
<1>1. /\ running /\ ~running' /\ ~ended'
      /\ exitQueue' = << >> /\ queue' = [e \in Engines |-> << >>]
      /\ thread' = [t \in Engines \cup {0} |-> [frame |-> 0, at |-> 0, todo |-> {}]]
      /\ UNCHANGED <<config, created, parent, children, stop, results, arrived>>
  BY Zenon, GieThreads DEF Gie!Teardown, Gie!Idle, Gie!None
<1>2. GieShape /\ GieWork /\ GieUp
  BY Zenon DEF GieInv
<1>3. /\ ExitQueue(exitQueue') /\ Open(exitQueue') /\ \A g : ~Holds(exitQueue', g)
      /\ Inside(exitQueue') = << >>
  BY <1>1 DEF ExitQueue, Open, Holds, Inside
<1>4. /\ queue' \in [Engines -> Seq(1 .. arrived)]
      /\ \A e \in Engines : queue'[e] = << >>
  BY <1>1
<1>5. /\ thread' \in [Engines \cup {0} ->
                  [frame : 0 .. arrived, at : Engines \cup {0}, todo : SUBSET Engines]]
      /\ \A t \in Engines \cup {0} : thread'[t].todo = {} /\ thread'[t].at = 0
  <2>1. arrived \in Nat
    BY <1>2, GieConstants DEF GieShape
  <2>. QED
    BY <1>1, <2>1
<1>6. GieShape'
  BY Zenon, <1>1, <1>2, <1>3, <1>4, <1>5 DEF GieShape
<1>7. GieWork'
  <2>1. 0 \in created' \cup {0}
    BY Zenon
  <2>. QED
    BY Zenon, <1>1, <1>2, <1>4, <1>5, <2>1 DEF GieWork
<1>8. GieCover'
  BY Zenon, <1>3 DEF GieCover
<1>9. GieUp' /\ GieStopInv'
  BY Zenon, <1>1, <1>2, <1>3 DEF GieUp, GieStopInv
<1>10. GieStageStep
  <2>1. running /\ running' = FALSE
    BY Zenon DEF Gie!Teardown
  <2>2. running' = ~running
    BY <2>1
  <2>. QED
    BY Zenon, <1>1, <1>3, <2>2, GieStageRenews
<1>. QED
  BY Zenon, <1>6, <1>7, <1>8, <1>9, <1>10 DEF GieInv

LEMMA GieRests ==
  ASSUME GieInv, GieStopInv, GieQuiet
  PROVE  GieInv' /\ GieStopInv' /\ GieStageStep
<1>1. UNCHANGED <<config, created, parent, children, stop, exitQueue, queue, thread,
                  results, arrived, ended, running, loop>>
  BY Zenon DEF GieQuiet, gieVars
<1>2. GieShape' /\ GieWork'
  BY Zenon, <1>1 DEF GieInv, GieShape, GieWork
<1>3. GieCover'
  BY Zenon, <1>1 DEF GieInv, GieCover, GieDue, GieComing
<1>4. GieUp' /\ GieStopInv'
  BY Zenon, <1>1 DEF GieInv, GieUp, GieStopInv
<1>5. GieStageStep
  BY Zenon, <1>1, GieStageStutters DEF GieEngines
<1>. QED
  BY Zenon, <1>2, <1>3, <1>4, <1>5 DEF GieInv

(* The event at the head of the exit queue of preprocessing: the stream is   *)
(* not looped.                                                             *)
LEMMA EosIsNotLooped ==
  ASSUME PreInv, PreStopInv, EosInPre
  PROVE  ~loop
<1>1. ExitQueue(preExit) /\ (~preEnded => Open(preExit)) /\ (preEnded => ~loop)
  BY Zenon DEF PreInv, PreShape, PreUp, PreStopInv
<1>2. Head(preExit) = 0 /\ preExit # << >>
  BY Zenon DEF EosInPre
<1>3. ~Open(preExit)
  BY <1>2 DEF Open
<1>. QED
  BY Zenon, <1>1, <1>3

LEMMA GieNext ==
  ASSUME PreInv, PreStopInv, TreeInv, TreeAsked, GieInv, GieStopInv, ClosingInv, [Next]_vars
  PROVE  GieInv' /\ GieStopInv' /\ GieStageStep
<1>1. GieSteps /\ loop' = loop
  BY Zenon, GieStepKinds DEF GieSteps
<1>2. CASE Gie!Ask \/ Gie!Create \/ Gie!Arrive \/ Gie!Leave
  BY Zenon, <1>1, <1>2, GieAsks, GieCreates, GieArrives, GieLeaves
<1>3. ASSUME NEW t \in Gie!Threads, Gie!PushBranch(t) \/ Gie!Infer(t)
      PROVE  GieInv' /\ GieStopInv' /\ GieStageStep
  <2>1. t \in Engines \cup {0}
    BY Zenon, GieThreads
  <2>. QED
    BY Zenon, <1>1, <1>3, <2>1, GiePushes, GieInfers
<1>4. ASSUME NEW e \in Engines, Gie!Take(e) PROVE GieInv' /\ GieStopInv' /\ GieStageStep
  BY Zenon, <1>1, <1>4, GieTakes
<1>5. CASE Gie!EosArrives /\ EosInPre
  BY Zenon, <1>1, <1>5, GieEnds, EosIsNotLooped
<1>6. CASE Gie!Teardown /\ closing
  BY Zenon, <1>1, <1>6, GieTearsDown DEF ClosingInv
<1>7. CASE GieQuiet
  BY Zenon, <1>7, GieRests
<1>. QED
  BY Zenon, <1>1, <1>2, <1>3, <1>4, <1>5, <1>6, <1>7 DEF GieSteps

(* Both bins keep the promise of InferenceStage, for every tree of engines: *)
(* frames leave in the order of their arrival, each once, and each with the *)
(* result of every engine, unless the stream has ended meanwhile            *)
(* (deepstream_secondary_gie_bin.c:25-49,                                  *)
(* deepstream_secondary_preprocess.c:20-51).  The hypothesis says that no   *)
(* pipeline is recreated after the end of a stream that is not looped:     *)
(* bin->stop would survive there, and the next pipeline would not wait.     *)
THEOREM BinsAreStages == ~RecreateWithoutLoop => (Spec => ImplementsStages)
<1> SUFFICES ASSUME ~RecreateWithoutLoop PROVE Spec => ImplementsStages
  OBVIOUS
<1> DEFINE I == /\ PreInv /\ PreStopInv /\ ClosingInv /\ TreeInv /\ TreeAsked
                /\ GieInv /\ GieStopInv
<1>1. Init => I /\ Pre!Stage!Init /\ Gie!Stage!Init
  BY Zenon, PreInit, PreStageInit, ClosingKept, TreeInit, GieInit, GieStageInit
<1>2. I /\ [Next]_vars =>
        I' /\ [Pre!Stage!Next]_(Pre!Stage!vars) /\ [Gie!Stage!Next]_(Gie!Stage!vars)
  <2> SUFFICES ASSUME I, [Next]_vars
               PROVE  I' /\ [Pre!Stage!Next]_(Pre!Stage!vars) /\ [Gie!Stage!Next]_(Gie!Stage!vars)
    OBVIOUS
  <2>1. PreInv' /\ PreStopInv' /\ PreStageStep
    BY Zenon, PreNext
  <2>2. GieInv' /\ GieStopInv' /\ GieStageStep
    BY Zenon, GieNext
  <2>3. ClosingInv' /\ TreeInv' /\ TreeAsked'
    BY Zenon, ClosingKept, TreeNext
  <2>. QED
    BY Zenon, <2>1, <2>2, <2>3 DEF PreStageStep, GieStageStep
<1> HIDE DEF I
<1>. QED
  BY <1>1, <1>2, PTL DEF Spec, ImplementsStages, Pre!ImplementsInference, Pre!Stage!Spec,
     Gie!ImplementsInference, Gie!Stage!Spec

(* Under the same hypothesis a frame leaves the bin only when every engine  *)
(* of the tree has seen it, the end of its own stream excepted              *)
(* (deepstream_secondary_gie_bin.c:25-31); without it TLC finds the         *)
(* recreation after which it does not.                                     *)
THEOREM FramesWait == ~RecreateWithoutLoop => (Spec => FrameWaitsForEveryEngine)
<1> SUFFICES ASSUME ~RecreateWithoutLoop PROVE Spec => FrameWaitsForEveryEngine
  OBVIOUS
<1> DEFINE I == /\ PreInv /\ PreStopInv /\ ClosingInv /\ TreeInv /\ TreeAsked
                /\ GieInv /\ GieStopInv
           Waits == (exitQueue # << >> /\ exitQueue' = Tail(exitQueue) /\ running') =>
             Head(exitQueue) = 0 \/ ended \/ results[Head(exitQueue)] = created
<1>1. Init => I
  BY Zenon, PreInit, ClosingKept, TreeInit, GieInit
<1>2. I /\ [Next]_vars => I'
  BY Zenon, PreNext, ClosingKept, TreeNext, GieNext
<1>3. I /\ [Next]_vars => Waits
  <2> SUFFICES ASSUME I, [Next]_vars, exitQueue # << >>, exitQueue' = Tail(exitQueue), running'
               PROVE  Head(exitQueue) = 0 \/ ended \/ results[Head(exitQueue)] = created
    OBVIOUS
  <2>1. exitQueue \in Seq(Nat)
    BY Zenon DEF GieInv, GieShape, ExitQueue
  <2>2. exitQueue' # exitQueue /\ \A f : exitQueue' # Append(exitQueue, f)
    BY <2>1
  <2>3. running
    BY Zenon DEF GieInv, GieUp
  <2>4. Gie!Leave
    <3>1. ~Gie!Ask /\ ~Gie!Create
      BY Zenon, <2>3 DEF Gie!Ask, Gie!Create
    <3>2. ~Gie!Arrive /\ ~Gie!EosArrives
      BY Zenon, <2>2 DEF Gie!Arrive, Gie!EosArrives
    <3>3. \A t : ~Gie!PushBranch(t) /\ ~Gie!Infer(t) /\ ~Gie!Take(t)
      BY Zenon, <2>2 DEF Gie!PushBranch, Gie!Infer, Gie!Take
    <3>4. ~Gie!Teardown /\ ~GieQuiet
      BY Zenon, <2>2 DEF Gie!Teardown, GieQuiet, gieVars
    <3>. QED
      BY Zenon, <3>1, <3>2, <3>3, <3>4, GieStepKinds DEF GieSteps
  <2>. QED
    BY Zenon, <2>4, GieLeavesSeen
<1>4. Waits /\ exitQueue # << >> /\ exitQueue' = Tail(exitQueue) /\ running' =>
        LET f == Head(exitQueue) IN f = Gie!Eos \/ ended \/ results[f] = created
  BY Zenon DEF Gie!Eos
<1>5. I /\ [Next]_vars => [(exitQueue # << >> /\ exitQueue' = Tail(exitQueue) /\ running') =>
        LET f == Head(exitQueue) IN f = Gie!Eos \/ ended \/ results[f] = created]_(Gie!vars)
  BY Zenon, <1>3, <1>4
<1> HIDE DEF I, Waits
<1>. QED
  BY <1>1, <1>2, <1>5, PTL DEF Spec, FrameWaitsForEveryEngine, Gie!FrameWaitsForEveryEngine
=============================================================================
