------------------------- MODULE ConfigParser_proofs -------------------------
(* Proofs about the NvDsConfig that the parser of ConfigParser hands to    *)
(* PipelineBuild: the GPU of every component, the sources a file describes, *)
(* and why a file is refused.  The theorems are about BuildSpec, whose     *)
(* steps include every step of the parser.                                 *)
EXTENDS PipelineBuild_proofs

-----------------------------------------------------------------------------
(* GPUs.  The slot of an enabled group is below the number of groups of    *)
(* its kind that are enabled, and later groups do not move it.             *)
Many(gs, kind) == Cardinality(TurnedOn(gs, kind))

LEMMA SlotIsTaken ==
  ASSUME NEW S, NEW gs \in Seq(S), NEW kind
  PROVE  /\ IsFiniteSet(TurnedOn(gs, kind)) /\ Many(gs, kind) \in Nat
         /\ \A n \in TurnedOn(gs, kind) :
              SlotOf(gs, n) \in Nat /\ SlotOf(gs, n) < Many(gs, kind)
<1> DEFINE T == TurnedOn(gs, kind)
           B(n) == {m \in T : m < n}
<1>1. Len(gs) \in Nat /\ T \in SUBSET (1 .. Len(gs))
  BY DEF TurnedOn
<1>2. IsFiniteSet(1 .. Len(gs))
  BY <1>1, FS_Interval
<1>3. IsFiniteSet(T)
  BY Zenon, <1>1, <1>2, FS_Subset
<1>4. Cardinality(T) \in Nat
  BY Zenon, <1>3, FS_CardinalityType
<1>5. ASSUME NEW n \in T
      PROVE  Cardinality(B(n)) \in Nat /\ Cardinality(B(n)) < Cardinality(T)
  <2>1. B(n) \in SUBSET T /\ n \notin B(n)
    BY <1>1
  <2> HIDE DEF T, B
  <2>2. /\ IsFiniteSet(B(n)) /\ Cardinality(B(n)) <= Cardinality(T)
        /\ Cardinality(B(n)) # Cardinality(T)
    BY Zenon, <1>3, <1>5, <2>1, FS_Subset
  <2>3. Cardinality(B(n)) \in Nat
    BY Zenon, <2>2, FS_CardinalityType
  <2>. QED
    BY <1>4, <2>2, <2>3
<1>6. \A n \in T : SlotOf(gs, n) = Cardinality(B(n))
  BY Zenon DEF SlotOf, TurnedOn
<1>. QED
  BY Zenon, <1>3, <1>4, <1>5, <1>6 DEF Many

SlotsGrow(gs, g, kind) ==
  LET t == Append(gs, g) IN
  /\ \A n \in TurnedOn(gs, kind) :
       n \in TurnedOn(t, kind) /\ t[n] = gs[n] /\ SlotOf(t, n) = SlotOf(gs, n)
  /\ g.kind = kind /\ ~Off(g) =>
       /\ Many(t, kind) = Many(gs, kind) + 1
       /\ \A n \in TurnedOn(t, kind) :
            \/ n \in TurnedOn(gs, kind)
            \/ t[n] = g /\ SlotOf(t, n) = Many(gs, kind)
  /\ ~(g.kind = kind /\ ~Off(g)) => TurnedOn(t, kind) = TurnedOn(gs, kind)

LEMMA SlotsAppend ==
  ASSUME NEW S, NEW gs \in Seq(S), NEW g, NEW kind
  PROVE  SlotsGrow(gs, g, kind)
<1> DEFINE t == Append(gs, g)
           T == TurnedOn(gs, kind)
           last == Len(gs) + 1
           new == g.kind = kind /\ ~Off(g)
<1>1. /\ TurnedOn(t, kind) = T \cup IF new THEN {last} ELSE {}
      /\ \A n \in T : n # last /\ t[n] = gs[n]
      /\ t[last] = g
  <2>1. Adds(gs, g, kind)
    BY Zenon, TurnedOnAppend
  <2>. QED
    BY Zenon, <2>1 DEF Adds
<1>2. Len(gs) \in Nat /\ \A n \in T : n \in 1 .. Len(gs) /\ gs[n].kind = kind
  BY DEF TurnedOn
<1>3. \A n \in T : n < last /\ ~(last < n)
  BY <1>2
<1>4. IsFiniteSet(T)
  BY Zenon, SlotIsTaken
<1> HIDE DEF t, T, last, new
<1>5. ASSUME NEW n \in T PROVE SlotOf(t, n) = SlotOf(gs, n)
  <2>1. {m \in TurnedOn(t, kind) : m < n} = {m \in T : m < n}
    BY <1>1, <1>3, <1>5
  <2>. QED
    BY Zenon, <1>1, <1>2, <2>1 DEF SlotOf, T
<1>6. ~new => TurnedOn(t, kind) = T
  BY Zenon, <1>1
<1>7. ASSUME new
      PROVE  /\ Many(t, kind) = Many(gs, kind) + 1
             /\ SlotOf(t, last) = Many(gs, kind)
  <2>1. TurnedOn(t, kind) = T \cup {last} /\ last \notin T
    BY Zenon, <1>1, <1>7
  <2>2. Many(t, kind) = Many(gs, kind) + 1
    BY Zenon, <1>4, <2>1, FS_AddElement DEF Many, T
  <2>3. {m \in TurnedOn(t, kind) : m < last} = T
    <3>1. ~(last < last)
      BY <1>2 DEF last
    <3>. QED
      BY <1>3, <2>1, <3>1
  <2>4. t[last].kind = kind
    BY Zenon, <1>1, <1>7 DEF new
  <2>. QED
    BY Zenon, <2>2, <2>3, <2>4 DEF SlotOf, Many, T
<1>8. ASSUME new, NEW n \in TurnedOn(t, kind)
      PROVE  n \in T \/ (t[n] = g /\ SlotOf(t, n) = Many(gs, kind))
  BY Zenon, <1>1, <1>7, <1>8
<1>9. \A n \in T : n \in TurnedOn(t, kind)
  BY Zenon, <1>1
<1>. QED
  BY Zenon, <1>1, <1>5, <1>6, <1>7, <1>8, <1>9 DEF SlotsGrow, t, T, new

(* The array a holds the groups of a kind: every enabled one in its slot,  *)
(* with the GPU it asks for, and from the first free slot on nothing but,  *)
(* perhaps, the GPU of [application].                                      *)
Placed(gs, kind, a, global) ==
  \A n \in TurnedOn(gs, kind) :
    (kind = "sink" => gs[n].keys.enable = 1) =>
      a[SlotOf(gs, n)].gpu = GpuOf(global, gs[n])

Slotted(a, n, size, global) ==
  /\ DOMAIN a = Slots(size)
  /\ \A i \in Slots(size) :
       /\ {"enable", "gpu"} \subseteq DOMAIN a[i]
       /\ i >= n => a[i].enable = 0 /\ (global = -1 => a[i].gpu = 0)

Taken(gs, kind, a, n, size, global) ==
  n = Many(gs, kind) /\ Placed(gs, kind, a, global) /\ Slotted(a, n, size, global)

LEMMA TakenOther ==
  ASSUME NEW S, NEW gs \in Seq(S), NEW g, NEW kind, g.kind # kind,
         NEW a, NEW n, NEW size, NEW global, Taken(gs, kind, a, n, size, global)
  PROVE  Taken(Append(gs, g), kind, a, n, size, global)
<1>1. SlotsGrow(gs, g, kind)
  BY Zenon, SlotsAppend
<1>2. /\ TurnedOn(Append(gs, g), kind) = TurnedOn(gs, kind)
      /\ \A m \in TurnedOn(gs, kind) :
           Append(gs, g)[m] = gs[m] /\ SlotOf(Append(gs, g), m) = SlotOf(gs, m)
  BY Zenon, <1>1 DEF SlotsGrow
<1>. QED
  BY Zenon, <1>2 DEF Taken, Placed, Many

(* What the group g makes of the free slot, x; and the array it leaves.    *)
Fits(g, kind, x, global) ==
  /\ {"enable", "gpu"} \subseteq DOMAIN x
  /\ Off(g) => x.enable = 0 /\ (global = -1 => x.gpu = 0)
  /\ ~Off(g) => x.enable # 0 /\
                   ((kind = "sink" => g.keys.enable = 1) => x.gpu = GpuOf(global, g))
Took(gs, kind, a, n, x, size, global) ==
  Taken(gs, kind, [a EXCEPT ![n] = x], IF x.enable # 0 THEN n + 1 ELSE n, size, global)

LEMMA TakenNext ==
  ASSUME NEW S, NEW gs \in Seq(S), NEW g, NEW kind, g.kind = kind,
         NEW a, NEW n, NEW size \in Nat, NEW global,
         Taken(gs, kind, a, n, size, global), n < size,
         NEW x, Fits(g, kind, x, global)
  PROVE  Took(Append(gs, g), kind, a, n, x, size, global)
<1> DEFINE t == Append(gs, g)
           b == [a EXCEPT ![n] = x]
<1>0. /\ {"enable", "gpu"} \subseteq DOMAIN x
      /\ Off(g) => x.enable = 0 /\ (global = -1 => x.gpu = 0)
      /\ ~Off(g) => x.enable # 0 /\
                      ((kind = "sink" => g.keys.enable = 1) => x.gpu = GpuOf(global, g))
  BY Zenon DEF Fits
<1>1. /\ n = Many(gs, kind) /\ Placed(gs, kind, a, global)
      /\ DOMAIN a = Slots(size)
      /\ \A i \in Slots(size) :
           /\ {"enable", "gpu"} \subseteq DOMAIN a[i]
           /\ i >= n => a[i].enable = 0 /\ (global = -1 => a[i].gpu = 0)
  BY Zenon DEF Taken, Slotted
<1>2. /\ n \in Nat
      /\ \A m \in TurnedOn(gs, kind) : SlotOf(gs, m) \in Nat /\ SlotOf(gs, m) < n
  BY Zenon, <1>1, SlotIsTaken
<1>3. n \in Slots(size) /\ \A m \in TurnedOn(gs, kind) : SlotOf(gs, m) # n
  BY <1>2 DEF Slots
<1>4. \A m \in TurnedOn(gs, kind) : SlotOf(gs, m) \in Slots(size)
  BY <1>2 DEF Slots
<1>5. DOMAIN b = Slots(size) /\ \A i \in Slots(size) : b[i] = IF i = n THEN x ELSE a[i]
  BY Zenon, <1>1
<1>6. /\ \A m \in TurnedOn(gs, kind) :
           m \in TurnedOn(t, kind) /\ t[m] = gs[m] /\ SlotOf(t, m) = SlotOf(gs, m)
      /\ ~Off(g) =>
           /\ Many(t, kind) = n + 1
           /\ \A m \in TurnedOn(t, kind) :
                m \in TurnedOn(gs, kind) \/ (t[m] = g /\ SlotOf(t, m) = n)
      /\ Off(g) => TurnedOn(t, kind) = TurnedOn(gs, kind)
  <2>1. SlotsGrow(gs, g, kind)
    BY Zenon, SlotsAppend
  <2>. QED
    BY Zenon, <1>1, <2>1 DEF SlotsGrow
<1> HIDE DEF t, b
<1>7. ASSUME NEW m \in TurnedOn(gs, kind), kind = "sink" => t[m].keys.enable = 1
      PROVE  b[SlotOf(t, m)].gpu = GpuOf(global, t[m])
  <2>1. t[m] = gs[m] /\ SlotOf(t, m) = SlotOf(gs, m)
    BY Zenon, <1>6, <1>7
  <2>2. a[SlotOf(gs, m)].gpu = GpuOf(global, gs[m])
    BY Zenon, <1>1, <1>7, <2>1 DEF Placed
  <2>3. b[SlotOf(gs, m)] = a[SlotOf(gs, m)]
    BY Zenon, <1>3, <1>4, <1>5, <1>7
  <2>. QED
    BY Zenon, <2>1, <2>2, <2>3
<1>8. CASE Off(g)
  <2>1. Many(t, kind) = n /\ Placed(t, kind, b, global)
    BY Zenon, <1>1, <1>6, <1>7, <1>8 DEF Placed, Many
  <2>2. Slotted(b, n, size, global)
    BY Zenon, <1>0, <1>1, <1>5, <1>8 DEF Slotted
  <2>. QED
    BY Zenon, <1>0, <1>8, <2>1, <2>2 DEF Took, Taken, t, b
<1>9. CASE ~Off(g)
  <2>1. Placed(t, kind, b, global)
    BY Zenon, <1>0, <1>3, <1>5, <1>6, <1>7, <1>9 DEF Placed
  <2>2. \A i \in Slots(size) : i >= n + 1 => i # n /\ i >= n
    BY <1>2 DEF Slots
  <2>3. Slotted(b, n + 1, size, global)
    BY Zenon, <1>0, <1>1, <1>5, <2>2 DEF Slotted
  <2>. QED
    BY Zenon, <1>0, <1>6, <1>9, <2>1, <2>3 DEF Took, Taken, t, b
<1>. QED
  BY Zenon, <1>8, <1>9

(* Components a file describes at most once, and the GPU they get.         *)
Once == {"streammux"} \cup (Parts \ {"img-save"})
PartGpu(c, kind) == IF kind = "streammux" THEN c.mux.gpu ELSE c.part[kind].gpu

PartsPlaced(gs, c) ==
  \A n \in 1 .. Len(gs) :
    gs[n].kind \in Once => PartGpu(c, gs[n].kind) = GpuOf(c.global, gs[n])
PartsFree(gs, c) ==
  \A kind \in Once :
    (\A n \in 1 .. Len(gs) : gs[n].kind # kind) /\ c.global = -1 => PartGpu(c, kind) = 0

(* While the groups of a file are read, with what was read of it, r.       *)
Reads(r, c) ==
  /\ r.list = <<>> =>
       /\ c.listed = FALSE /\ c.total = 0
       /\ Taken(r.groups, "source", c.src, c.nsrc, MaxSources, c.global)
  /\ Taken(r.groups, "secondary-gie", c.gie, c.ngie, MaxGies, c.global)
  /\ Taken(r.groups, "sink", c.sink, c.nsink, MaxSinks, c.global)
  /\ "gpu" \in DOMAIN c.mux /\ DOMAIN c.part = Parts
  /\ PartsPlaced(r.groups, c) /\ PartsFree(r.groups, c)

(* What is left of it once they are all read.                              *)
Shown(r, c) ==
  /\ r.list = <<>> =>
       /\ Placed(r.groups, "source", c.src, c.global)
       /\ \A n \in TurnedOn(r.groups, "source") :
            SlotOf(r.groups, n) \in Nat /\ SlotOf(r.groups, n) < c.nsrc
  /\ Placed(r.groups, "secondary-gie", c.gie, c.global)
  /\ Placed(r.groups, "sink", c.sink, c.global)
  /\ PartsPlaced(r.groups, c)

GpuAt ==
  /\ stage = "app" => cfg = EmptyConfig /\ read = NothingRead
  /\ stage = "list" => read.list = <<>>
  /\ stage \in {"list", "attr"} => read.groups = <<>>
  /\ stage \in {"list", "attr", "groups"} => Reads(read, cfg)
  /\ stage = "groups" => \A n \in 1 .. Len(read.groups) : read.groups[n] \in family.groups
  /\ stage = "expand" => Shown(read, cfg)

GpuInv == GpuAt /\ \A n \in 1 .. Len(parsed) : Shown(parsed[n].read, parsed[n].cfg)

LEMMA GpuInvIsEnough ==
  ASSUME \A n \in 1 .. Len(parsed) : Shown(parsed[n].read, parsed[n].cfg)
  PROVE  GpuPrecedence
<1> SUFFICES ASSUME NEW f \in Accepted, NEW n \in 1 .. Len(f.read.groups)
             PROVE  LET groups == f.read.groups
                        g == groups[n]
                        on(kind) == n \in TurnedOn(groups, kind)
                        slot == SlotOf(groups, n)
                        c == f.cfg
                    IN /\ on("source") /\ f.read.list = <<>> => c.src[slot].gpu = GpuOf(c.global, g)
                       /\ on("secondary-gie") => c.gie[slot].gpu = GpuOf(c.global, g)
                       /\ on("sink") /\ g.keys.enable = 1 => c.sink[slot].gpu = GpuOf(c.global, g)
                       /\ g.kind = "streammux" => c.mux.gpu = GpuOf(c.global, g)
                       /\ g.kind \in Parts \ {"img-save"} =>
                            c.part[g.kind].gpu = GpuOf(c.global, g)
  BY Zenon DEF GpuPrecedence
<1> DEFINE gs == f.read.groups
           c == f.cfg
<1>1. Shown(f.read, c)
  BY Zenon DEF Accepted
<1>2. /\ n \in TurnedOn(gs, "source") /\ f.read.list = <<>> =>
           c.src[SlotOf(gs, n)].gpu = GpuOf(c.global, gs[n])
      /\ n \in TurnedOn(gs, "secondary-gie") =>
           c.gie[SlotOf(gs, n)].gpu = GpuOf(c.global, gs[n])
  <2>1. "source" # "sink" /\ "secondary-gie" # "sink"
    OBVIOUS
  <2>. QED
    BY Zenon, <1>1, <2>1 DEF Shown, Placed
<1>3. n \in TurnedOn(gs, "sink") /\ gs[n].keys.enable = 1 =>
        c.sink[SlotOf(gs, n)].gpu = GpuOf(c.global, gs[n])
  BY Zenon, <1>1 DEF Shown, Placed
<1>4. gs[n].kind \in Once => PartGpu(c, gs[n].kind) = GpuOf(c.global, gs[n])
  BY Zenon, <1>1 DEF Shown, PartsPlaced
<1>5. gs[n].kind = "streammux" => c.mux.gpu = GpuOf(c.global, gs[n])
  BY Zenon, <1>4 DEF Once, PartGpu
<1>6. gs[n].kind \in Parts \ {"img-save"} => c.part[gs[n].kind].gpu = GpuOf(c.global, gs[n])
  <2>1. "streammux" \notin Parts
    BY DEF Parts
  <2>. QED
    BY Zenon, <1>4, <2>1 DEF Once, PartGpu
<1>. QED
  BY Zenon, <1>2, <1>3, <1>5, <1>6

(* Nothing read yet.                                                       *)
LEMMA NoneTaken ==
  ASSUME NEW kind, NEW X, X.enable = 0, X.gpu = 0, {"enable", "gpu"} \subseteq DOMAIN X,
         NEW size \in Nat, NEW global
  PROVE  Taken(<<>>, kind, [i \in Slots(size) |-> X], 0, size, global)
<1>1. TurnedOn(<<>>, kind) = {}
  BY DEF TurnedOn
<1>2. Many(<<>>, kind) = 0
  BY Zenon, <1>1, FS_EmptySet DEF Many
<1>3. Placed(<<>>, kind, [i \in Slots(size) |-> X], global)
  BY Zenon, <1>1 DEF Placed
<1>4. Slotted([i \in Slots(size) |-> X], 0, size, global)
  BY Zenon DEF Slotted
<1>. QED
  BY Zenon, <1>2, <1>3, <1>4 DEF Taken

(* The fields that matter here.                                            *)
Used == {"global", "listed", "total", "src", "nsrc", "gie", "ngie", "sink", "nsink", "mux",
         "part"}
LEMMA ReadsSame ==
  ASSUME NEW r, NEW s, NEW c, NEW d, Reads(r, c), s.groups = r.groups,
         s.list = <<>> => r.list = <<>>,
         d.global = c.global, d.gie = c.gie, d.ngie = c.ngie, d.sink = c.sink,
         d.nsink = c.nsink, d.mux = c.mux, d.part = c.part,
         s.list = <<>> =>
           d.listed = c.listed /\ d.total = c.total /\ d.src = c.src /\ d.nsrc = c.nsrc
  PROVE  Reads(s, d)
<1>1. PartsPlaced(s.groups, d) /\ PartsFree(s.groups, d)
  BY Zenon DEF Reads, PartsPlaced, PartsFree, PartGpu
<1>. QED
  BY Zenon, <1>1 DEF Reads

LEMMA GpuOver ==
  ASSUME stage' \in {"failed", "done"}
  PROVE  GpuAt'
<1>1. stage' \notin {"app", "list", "attr", "groups", "expand"}
  OBVIOUS
<1>. QED
  BY <1>1 DEF GpuAt

(* Nothing is written to the arrays before the groups are read.            *)
LEMMA GpuApp ==
  ASSUME GpuAt, NEW g, ParseApp(g)
  PROVE  GpuAt'
<1>1. CASE stage' = "failed"
  BY <1>1, GpuOver
<1>2. CASE ~(stage' = "failed")
  <2> DEFINE global == Get(g, "gpu", -1)
  <2>1. /\ stage = "app" /\ stage' = "list" /\ read' = [read EXCEPT !.app = <<g>>]
        /\ cfg' = [cfg EXCEPT !.global = global]
    BY Zenon, <1>2 DEF ParseApp, Fail
  <2> HIDE DEF global
  <2>2. cfg = EmptyConfig /\ read = NothingRead
    BY <2>1 DEF GpuAt
  <2>3. read'.list = <<>> /\ read'.groups = <<>>
    BY <2>1, <2>2 DEF NothingRead
  <2>4. /\ EmptyConfig.nsrc = 0 /\ EmptyConfig.src = [i \in Slots(MaxSources) |-> NoSource]
        /\ EmptyConfig.ngie = 0 /\ EmptyConfig.gie = [i \in Slots(MaxGies) |-> NoGie]
        /\ EmptyConfig.nsink = 0 /\ EmptyConfig.sink = [i \in Slots(MaxSinks) |-> NoSink]
        /\ EmptyConfig.listed = FALSE /\ EmptyConfig.total = 0
        /\ EmptyConfig.mux = [gpu |-> 0, batch |-> 0, parsed |-> FALSE]
        /\ EmptyConfig.part = [p \in Parts |-> NoPart]
    BY DEF EmptyConfig
  <2>5. /\ Used \subseteq DOMAIN EmptyConfig
    BY FieldsOfConfig DEF Used
  <2>6. cfg'.global = global /\ \A k \in Used : k # "global" => cfg'[k] = EmptyConfig[k]
    <3>1. \A k \in DOMAIN cfg : cfg'[k] = IF k = "global" THEN global ELSE cfg[k]
      BY Zenon, <2>1
    <3>2. "global" \in Used
      BY DEF Used
    <3>. QED
      BY Zenon, <2>2, <2>5, <3>1, <3>2
  <2>7. /\ cfg'.nsrc = EmptyConfig.nsrc /\ cfg'.src = EmptyConfig.src
        /\ cfg'.ngie = EmptyConfig.ngie /\ cfg'.gie = EmptyConfig.gie
        /\ cfg'.nsink = EmptyConfig.nsink /\ cfg'.sink = EmptyConfig.sink
        /\ cfg'.listed = EmptyConfig.listed /\ cfg'.total = EmptyConfig.total
        /\ cfg'.mux = EmptyConfig.mux /\ cfg'.part = EmptyConfig.part
    BY <2>6 DEF Used
  <2>8. /\ NoSource.enable = 0 /\ NoSource.gpu = 0 /\ {"enable", "gpu"} \subseteq DOMAIN NoSource
        /\ NoGie.enable = 0 /\ NoGie.gpu = 0 /\ {"enable", "gpu"} \subseteq DOMAIN NoGie
        /\ NoSink.enable = 0 /\ NoSink.gpu = 0 /\ {"enable", "gpu"} \subseteq DOMAIN NoSink
        /\ NoPart.gpu = 0
    BY DEF NoSource, NoGie, NoSink, NoPart
  <2>9. MaxSources \in Nat /\ MaxGies \in Nat /\ MaxSinks \in Nat
    BY ConfigAssumption
  <2>10. /\ Taken(<<>>, "source", cfg'.src, cfg'.nsrc, MaxSources, global)
         /\ Taken(<<>>, "secondary-gie", cfg'.gie, cfg'.ngie, MaxGies, global)
         /\ Taken(<<>>, "sink", cfg'.sink, cfg'.nsink, MaxSinks, global)
    <3>1. /\ Taken(<<>>, "source", [i \in Slots(MaxSources) |-> NoSource], 0, MaxSources, global)
          /\ Taken(<<>>, "secondary-gie", [i \in Slots(MaxGies) |-> NoGie], 0, MaxGies, global)
          /\ Taken(<<>>, "sink", [i \in Slots(MaxSinks) |-> NoSink], 0, MaxSinks, global)
      BY Zenon, <2>8, <2>9, NoneTaken
    <3>. QED
      BY Zenon, <2>4, <2>7, <3>1
  <2>11. DOMAIN cfg'.part = Parts /\ "gpu" \in DOMAIN cfg'.mux /\ cfg'.mux.gpu = 0
         /\ \A p \in Parts : cfg'.part[p].gpu = 0
    <3>1. "gpu" \in DOMAIN EmptyConfig.mux /\ EmptyConfig.mux.gpu = 0
      BY <2>4
    <3>2. DOMAIN cfg'.part = Parts /\ \A p \in Parts : cfg'.part[p] = NoPart
      BY Zenon, <2>4, <2>7
    <3>. QED
      BY Zenon, <2>7, <2>8, <3>1, <3>2
  <2>12. PartsPlaced(<<>>, cfg') /\ PartsFree(<<>>, cfg')
    <3>1. 1 .. Len(<<>>) = {}
      OBVIOUS
    <3>2. \A kind \in Once : PartGpu(cfg', kind) = 0
      BY Zenon, <2>11 DEF Once, PartGpu
    <3>. QED
      BY Zenon, <3>1, <3>2 DEF PartsPlaced, PartsFree
  <2>13. Reads(read', cfg')
    BY Zenon, <2>3, <2>4, <2>6, <2>7, <2>10, <2>11, <2>12 DEF Reads
  <2>. QED
    BY <2>1, <2>3, <2>13 DEF GpuAt
<1>. QED
  BY Zenon, <1>1, <1>2

LEMMA GpuList ==
  ASSUME FilesType, ParserTypes, GpuAt, NEW l, ParseSourceList(l)
  PROVE  GpuAt'
<1>1. CASE stage' = "failed"
  BY <1>1, GpuOver
<1>2. CASE ~(stage' = "failed")
  <2>1. /\ stage = "list" /\ stage' = "attr" /\ read' = [read EXCEPT !.list = <<l>>]
        /\ cfg' = [cfg EXCEPT !.listed = TRUE, !.total = ListTotal(l),
                              !.nsrc = ListTotal(l),
                              !.uris = Get(l, "uri-list", <<>>),
                              !.multi = Get(l, "use-nvmultiurisrcbin", 0),
                              !.maxBatch = Get(l, "max-batch-size", 0),
                              !.sgieBatch = Get(l, "sgie-batch-size", 0)]
    BY Zenon, <1>2 DEF ParseSourceList, Fail
  <2>2. read.groups = <<>> /\ Reads(read, cfg)
    BY <2>1 DEF GpuAt
  <2>3. DOMAIN read = {"app", "list", "attr", "groups"} /\ DOMAIN cfg = DOMAIN EmptyConfig
    BY Zenon DEF FilesType, ParserTypes, Counts
  <2>4. read'.groups = read.groups /\ read'.list = <<l>>
    BY <2>1, <2>3
  <2>5. /\ cfg'.global = cfg.global /\ cfg'.gie = cfg.gie /\ cfg'.ngie = cfg.ngie
        /\ cfg'.sink = cfg.sink /\ cfg'.nsink = cfg.nsink /\ cfg'.mux = cfg.mux
        /\ cfg'.part = cfg.part
    BY <2>1, <2>3, FieldsOfConfig
  <2>6. read'.list # <<>>
    BY <2>4
  <2>7. Reads(read', cfg')
    BY Zenon, <2>2, <2>4, <2>5, <2>6, ReadsSame
  <2>. QED
    BY <2>1, <2>2, <2>4, <2>7 DEF GpuAt
<1>. QED
  BY Zenon, <1>1, <1>2

LEMMA GpuNone ==
  ASSUME GpuAt, NoSourceList \/ NoAttrAll
  PROVE  GpuAt'
<1>1. CASE stage' = "failed"
  BY <1>1, GpuOver
<1>2. CASE ~(stage' = "failed")
  <2>1. /\ stage \in {"list", "attr"} /\ stage' \in {"attr", "groups"}
        /\ cfg' = cfg /\ read' = read
    BY Zenon, <1>2 DEF NoSourceList, NoAttrAll, Fail
  <2>2. read.groups = <<>> /\ Reads(read, cfg)
    BY <2>1 DEF GpuAt
  <2>3. 1 .. Len(read'.groups) = {}
    BY <2>1, <2>2
  <2>. QED
    BY <2>1, <2>2, <2>3 DEF GpuAt
<1>. QED
  BY Zenon, <1>1, <1>2

LEMMA GpuAttr ==
  ASSUME FilesType, ParserTypes, GpuAt, NEW g, ParseAttrAll(g)
  PROVE  GpuAt'
<1>1. CASE stage' = "failed"
  BY <1>1, GpuOver
<1>2. CASE ~(stage' = "failed")
  <2> DEFINE attr == SourceKeys([NoSource EXCEPT !.gpu = GlobalOr(0)], g)
  <2>1. stage = "attr" /\ stage' = "groups" /\ read' = [read EXCEPT !.attr = <<g>>]
    BY Zenon, <1>2 DEF ParseAttrAll, Fail
  <2>2. /\ DOMAIN read = {"app", "list", "attr", "groups"}
        /\ DOMAIN cfg = DOMAIN EmptyConfig /\ DOMAIN cfg.src = Slots(MaxSources)
    BY Zenon DEF FilesType, ParserTypes, Counts
  <2>3. /\ Rest(cfg, cfg', {"attrAll", "src"})
        /\ cfg'.src = [i \in Slots(MaxSources) |->
                         IF i < cfg.total THEN ListedSource(attr, cfg.uris, i)
                         ELSE cfg.src[i]]
    BY Zenon, <1>2, <2>2, AttrWrites
  <2> HIDE DEF attr
  <2>4. read'.list = read.list /\ read'.groups = read.groups
    BY <2>1, <2>2
  <2>5. read.groups = <<>> /\ Reads(read, cfg)
    BY <2>1 DEF GpuAt
  <2>6. /\ cfg'.global = cfg.global /\ cfg'.gie = cfg.gie /\ cfg'.ngie = cfg.ngie
        /\ cfg'.sink = cfg.sink /\ cfg'.nsink = cfg.nsink /\ cfg'.mux = cfg.mux
        /\ cfg'.part = cfg.part /\ cfg'.nsrc = cfg.nsrc /\ cfg'.total = cfg.total
    BY <2>2, <2>3, FieldsOfConfig DEF Rest
  <2>7. cfg'.listed = cfg.listed
    <3>1. "listed" \in DOMAIN cfg \ {"attrAll", "src"}
      BY <2>2, FieldsOfConfig
    <3>. QED
      BY Zenon, <2>3, <3>1 DEF Rest
  <2>8. ASSUME read.list = <<>>
        PROVE  Taken(read.groups, "source", cfg'.src, cfg.nsrc, MaxSources, cfg.global)
    <3>1. /\ cfg.total = 0
          /\ Taken(read.groups, "source", cfg.src, cfg.nsrc, MaxSources, cfg.global)
      BY Zenon, <2>5, <2>8 DEF Reads
    <3>2. \A i \in Slots(MaxSources) : ~(i < 0)
      BY DEF Slots
    <3>3. \A i \in Slots(MaxSources) : cfg'.src[i] = cfg.src[i]
      BY Zenon, <2>3, <3>1, <3>2
    <3>4. TurnedOn(read.groups, "source") = {}
      BY <2>5 DEF TurnedOn
    <3>5. DOMAIN cfg'.src = Slots(MaxSources)
      BY Zenon, <2>3
    <3>. QED
      BY Zenon, <3>1, <3>3, <3>4, <3>5 DEF Taken, Placed, Slotted
  <2>9. PartsPlaced(read'.groups, cfg') /\ PartsFree(read'.groups, cfg')
    BY Zenon, <2>4, <2>5, <2>6 DEF Reads, PartsPlaced, PartsFree, PartGpu
  <2>10. Reads(read', cfg')
    BY Zenon, <2>4, <2>5, <2>6, <2>7, <2>8, <2>9 DEF Reads
  <2>11. 1 .. Len(read'.groups) = {}
    BY <2>4, <2>5
  <2>. QED
    BY <2>1, <2>10, <2>11 DEF GpuAt
<1>. QED
  BY Zenon, <1>1, <1>2

(* What the groups that are not numbered write of the GPUs.                *)
PartsWritten(g, d) ==
  /\ g.kind \notin {"source", "secondary-gie", "sink"}
  /\ "gpu" \in DOMAIN d.mux /\ DOMAIN d.part = Parts
  /\ \A kind \in Once : kind # g.kind => PartGpu(d, kind) = PartGpu(cfg, kind)
  /\ g.kind \in Once =>
       PartGpu(d, g.kind) = Get(g, "gpu-id", GlobalOr(PartGpu(cfg, g.kind)))

LEMMA PartsWrite ==
  ASSUME DOMAIN cfg = DOMAIN EmptyConfig, "gpu" \in DOMAIN cfg.mux, DOMAIN cfg.part = Parts,
         NEW g,
         \/ ParsePrimaryGie(g) \/ ParsePreprocess(g) \/ ParseStreammux(g)
         \/ ParseOsd(g) \/ ParseTracker(g) \/ ParseTiledDisplay(g)
         \/ ParseDsExample(g) \/ ParseImageSave(g) \/ ParseMsgconv(g)
         \/ ParseTests(g)
  PROVE  stage' = "failed" \/ PartsWritten(g, cfg')
<1>1. {"primary", "preprocess", "mux", "part", "tiles", "msgconv"} \subseteq DOMAIN cfg
  BY FieldsOfConfig
<1>2. SUFFICES ASSUME ~(stage' = "failed") PROVE PartsWritten(g, cfg')
  BY Zenon
<1>3. ASSUME NEW d, d.mux = cfg.mux, d.part = cfg.part,
             g.kind \notin Once \cup {"source", "secondary-gie", "sink"}
      PROVE  PartsWritten(g, d)
  BY Zenon, <1>3 DEF PartsWritten, PartGpu
<1>4. ASSUME NEW d, NEW kind \in Parts, g.kind = kind, NEW x, d.mux = cfg.mux,
             d.part = [cfg.part EXCEPT ![kind] = x],
             kind # "img-save" => x.gpu = Get(g, "gpu-id", GlobalOr(cfg.part[kind].gpu))
      PROVE  PartsWritten(g, d)
  <2>1. DOMAIN d.part = Parts /\ \A p \in Parts : d.part[p] = IF p = kind THEN x ELSE cfg.part[p]
    BY Zenon, <1>4
  <2>2. /\ kind \notin {"source", "secondary-gie", "sink"} /\ kind # "streammux"
        /\ \A p \in Once : p = "streammux" \/ (p \in Parts /\ p # "img-save")
    BY <1>4 DEF Once, Parts
  <2>3. kind \in Once => PartGpu(d, kind) = Get(g, "gpu-id", GlobalOr(PartGpu(cfg, kind)))
    BY Zenon, <1>4, <2>1, <2>2 DEF PartGpu
  <2>4. \A p \in Once : p # kind => PartGpu(d, p) = PartGpu(cfg, p)
    BY Zenon, <1>4, <2>1, <2>2 DEF PartGpu
  <2>. QED
    BY Zenon, <1>4, <2>1, <2>2, <2>3, <2>4 DEF PartsWritten
<1>5. /\ \A kind \in {"primary-gie", "pre-process", "message-converter", "tests"} :
           kind \notin Once \cup {"source", "secondary-gie", "sink"}
      /\ {"osd", "tracker", "tiled-display", "ds-example", "img-save"} \subseteq Parts
  BY DEF Once, Parts
<1>6. ASSUME NEW kind \in {"primary-gie", "pre-process", "message-converter", "tests"},
             g.kind = kind, NEW k \in {"primary", "preprocess", "msgconv"}, NEW x,
             cfg' = [cfg EXCEPT ![k] = x] \/ cfg' = cfg
      PROVE  PartsWritten(g, cfg')
  <2>1. cfg'.mux = cfg.mux /\ cfg'.part = cfg.part
    BY <1>1, <1>6
  <2>. QED
    BY Zenon, <1>3, <1>5, <1>6, <2>1
<1>7. CASE ParsePrimaryGie(g) \/ ParsePreprocess(g) \/ ParseMsgconv(g) \/ ParseTests(g)
  <2>1. CASE ParsePrimaryGie(g)
    <3>1. g.kind = "primary-gie" /\ cfg' = [cfg EXCEPT !.primary = ParsedGie(GlobalGie(@), g)]
      BY Zenon, <1>2, <2>1 DEF ParsePrimaryGie, Reading, Outcome, Fail
    <3>. QED
      BY <1>6, <3>1
  <2>2. CASE ParsePreprocess(g)
    <3>1. g.kind = "pre-process" /\ cfg' = [cfg EXCEPT !.preprocess = ParsedPreprocess(@, g)]
      BY Zenon, <1>2, <2>2 DEF ParsePreprocess, Reading, Outcome, Fail
    <3>. QED
      BY <1>6, <3>1
  <2>3. CASE ParseMsgconv(g)
    <3>1. g.kind = "message-converter" /\ cfg' = [cfg EXCEPT !.msgconv = Get(g, "enable", @)]
      BY Zenon, <1>2, <2>3 DEF ParseMsgconv, Reading, Outcome, Fail
    <3>. QED
      BY <1>6, <3>1
  <2>4. CASE ParseTests(g)
    <3>1. g.kind = "tests" /\ cfg' = cfg
      BY Zenon, <1>2, <2>4 DEF ParseTests, Reading, Outcome, Fail
    <3>. QED
      BY <1>6, <3>1
  <2>. QED
    BY Zenon, <1>7, <2>1, <2>2, <2>3, <2>4
<1>8. CASE ParseStreammux(g)
  <2> DEFINE gpu == Get(g, "gpu-id", GlobalOr(cfg.mux.gpu))
             batch == Get(g, "batch-size", cfg.mux.batch)
  <2>1. /\ g.kind = "streammux"
        /\ cfg' = [cfg EXCEPT !.mux = [gpu |-> Get(g, "gpu-id", GlobalOr(@.gpu)),
                                       batch |-> Get(g, "batch-size", @.batch),
                                       parsed |-> TRUE]]
    BY Zenon, <1>2, <1>8 DEF ParseStreammux, Reading, Outcome, Fail
  <2>2. cfg' = [cfg EXCEPT !.mux = [gpu |-> gpu, batch |-> batch, parsed |-> TRUE]]
    BY <2>1
  <2> HIDE DEF gpu, batch
  <2>3. cfg'.part = cfg.part /\ cfg'.mux.gpu = gpu /\ "gpu" \in DOMAIN cfg'.mux
    BY <1>1, <2>2
  <2>4. g.kind \notin {"source", "secondary-gie", "sink"}
    BY <2>1
  <2>5. PartGpu(cfg', g.kind) = gpu /\ PartGpu(cfg, g.kind) = cfg.mux.gpu
    BY Zenon, <2>1, <2>3 DEF PartGpu
  <2>6. \A kind \in Once : kind # g.kind => PartGpu(cfg', kind) = PartGpu(cfg, kind)
    <3>1. g.kind = "streammux" /\ cfg'.part = cfg.part
      BY Zenon, <2>1, <2>3
    <3>2. ASSUME NEW kind, kind # g.kind PROVE PartGpu(cfg', kind) = PartGpu(cfg, kind)
      BY <3>1, <3>2 DEF PartGpu
    <3>. QED
      BY Zenon, <3>2
  <2>7. PartGpu(cfg', g.kind) = Get(g, "gpu-id", GlobalOr(PartGpu(cfg, g.kind)))
    BY <2>5 DEF gpu
  <2>8. DOMAIN cfg'.part = Parts
    BY <2>3
  <2>. QED
    BY Zenon, <2>3, <2>4, <2>6, <2>7, <2>8 DEF PartsWritten
<1>9. ASSUME NEW kind \in Parts, g.kind = kind
      PROVE  PartsWritten(g, WithPart(g, kind))
  <2> DEFINE x == [enable |-> Get(g, "enable", cfg.part[kind].enable),
                   gpu |-> Get(g, "gpu-id", GlobalOr(cfg.part[kind].gpu))]
             d == WithPart(g, kind)
  <2>1. d = [cfg EXCEPT !.part = [cfg.part EXCEPT ![kind] = x]]
    <3>1. d = [cfg EXCEPT !.part[kind] = [enable |-> Get(g, "enable", @.enable),
                                          gpu |-> Get(g, "gpu-id", GlobalOr(@.gpu))]]
      BY Zenon DEF WithPart
    <3> HIDE DEF d
    <3>. QED
      BY <1>1, <1>9, <3>1
  <2>2. x.gpu = Get(g, "gpu-id", GlobalOr(cfg.part[kind].gpu))
    BY Zenon
  <2> HIDE DEF x, d
  <2>3. d.mux = cfg.mux /\ d.part = [cfg.part EXCEPT ![kind] = x]
    BY <1>1, <2>1
  <2>4. PartsWritten(g, d)
    BY Zenon, <1>4, <1>9, <2>2, <2>3
  <2>. QED
    BY Zenon, <2>4 DEF d
<1>10. CASE ParseOsd(g) \/ ParseTracker(g) \/ ParseDsExample(g)
  BY Zenon, <1>2, <1>5, <1>9, <1>10 DEF ParseOsd, ParseTracker, ParseDsExample, ParsePart,
     Reading, Outcome, Fail
<1>11. CASE ParseTiledDisplay(g)
  <2> DEFINE c == WithPart(g, "tiled-display")
  <2>1. /\ g.kind = "tiled-display"
        /\ cfg' = [c EXCEPT !.tiles = [rows |-> Get(g, "rows", @.rows),
                                       columns |-> Get(g, "columns", @.columns)]]
    BY Zenon, <1>2, <1>11 DEF ParseTiledDisplay, Reading, Outcome, Fail
  <2>2. PartsWritten(g, c)
    BY Zenon, <1>5, <1>9, <2>1
  <2>3. DOMAIN c = DOMAIN cfg
    BY Zenon DEF WithPart
  <2> HIDE DEF c
  <2>4. cfg'.mux = c.mux /\ cfg'.part = c.part
    BY <1>1, <2>1, <2>3
  <2>. QED
    BY Zenon, <2>2, <2>4 DEF PartsWritten, PartGpu
<1>12. CASE ParseImageSave(g)
  <2> DEFINE x == [enable |-> Get(g, "enable", 0), gpu |-> Get(g, "gpu-id", 0)]
  <2>1. g.kind = "img-save" /\ cfg' = [cfg EXCEPT !.part["img-save"] = x]
    BY Zenon, <1>2, <1>12 DEF ParseImageSave, Reading, Outcome, Fail
  <2> HIDE DEF x
  <2>2. cfg'.mux = cfg.mux /\ cfg'.part = [cfg.part EXCEPT !["img-save"] = x]
    BY <1>1, <2>1
  <2>. QED
    BY Zenon, <1>4, <1>5, <2>1, <2>2
<1>. QED
  BY Zenon, <1>7, <1>8, <1>10, <1>11, <1>12

(* A numbered group takes the first free slot of its array, or leaves it   *)
(* free.                                                                   *)
LEMMA Asked ==
  ASSUME NEW g
  PROVE  /\ Off(g) => Get(g, "enable", 0) # 1
         /\ ~Off(g) => /\ "enable" \in DOMAIN g.keys /\ g.keys.enable # 0
                       /\ \A x : Get(g, "enable", x) = g.keys.enable
<1>1. Off(g) <=> Get(g, "enable", 0) = 0 \/ Get(g, "enable", 0) = Bad
  BY Zenon DEF Off
<1>2. 1 # 0 /\ 1 # Bad
  BY ConfigAssumption
<1>. QED
  BY Zenon, <1>1, <1>2 DEF Get

LEMMA GlobalGpu ==
  ASSUME NEW g, NEW old, cfg.global = -1 => old = 0
  PROVE  /\ Get(g, "gpu-id", GlobalOr(old)) = GpuOf(cfg.global, g)
         /\ cfg.global = -1 => GlobalOr(old) = 0
BY Zenon DEF GlobalOr, GpuOf, Get

LEMMA SourceTaken ==
  ASSUME Counts(cfg), NEW S, NEW gs \in Seq(S), NEW g, ParseSourceGroup(g),
         ~(stage' = "failed"), cfg.listed = FALSE,
         Taken(gs, "source", cfg.src, cfg.nsrc, MaxSources, cfg.global)
  PROVE  Taken(Append(gs, g), "source", cfg'.src, cfg'.nsrc, MaxSources, cfg.global)
<1> DEFINE n == cfg.nsrc
           gpu == GlobalOr(cfg.src[n].gpu)
           c == [cfg.src[n] EXCEPT !.gpu = gpu]
           s == ParsedSource(c, g)
<1>1. /\ n \in 0 .. MaxSources /\ MaxSources \in Nat
      /\ DOMAIN cfg = DOMAIN EmptyConfig
      /\ \A i \in Slots(MaxSources) : DOMAIN cfg.src[i] = DOMAIN NoSource
  BY ConfigAssumption DEF Counts
<1>2. /\ SourceSlot(g) = n /\ n # MaxSources /\ g.kind = "source"
      /\ cfg'.src = [cfg.src EXCEPT ![n] = s]
      /\ cfg'.nsrc = IF s.enable # 0 THEN n + 1 ELSE n
  <2>1. SourceSlot(g) = n /\ g.kind = "source"
    BY Zenon DEF SourceSlot, ParseSourceGroup, Reading
  <2>2. LET slot == SourceSlot(g)
            t == ParsedSource([cfg.src[slot] EXCEPT !.gpu = GlobalOr(@)], g)
        IN /\ cfg.nsrc # MaxSources
           /\ cfg'.src = [cfg.src EXCEPT ![slot] = t]
           /\ cfg'.nsrc = IF t.enable # 0 /\ ~cfg.listed THEN cfg.nsrc + 1 ELSE cfg.nsrc
    BY Zenon, <1>1, SourceWrites
  <2>. QED
    BY Zenon, <2>1, <2>2
<1>3. n < MaxSources /\ n \in Slots(MaxSources) /\ n >= n
  BY <1>1, <1>2 DEF Slots
<1>4. /\ cfg.src[n].enable = 0 /\ (cfg.global = -1 => cfg.src[n].gpu = 0)
      /\ DOMAIN cfg.src[n] = DOMAIN NoSource
  BY Zenon, <1>1, <1>3 DEF Taken, Slotted
<1>5. {"enable", "gpu", "id", "attempts"} \subseteq DOMAIN NoSource
  BY DEF NoSource
<1> HIDE DEF n, gpu
<1>6. c.enable = 0 /\ c.gpu = gpu /\ DOMAIN c = DOMAIN NoSource
  BY <1>4, <1>5
<1> HIDE DEF c
<1>7. /\ {"enable", "gpu"} \subseteq DOMAIN s
      /\ Off(g) => s.enable = 0 /\ (cfg.global = -1 => s.gpu = 0)
      /\ ~Off(g) => s.enable # 0 /\ s.gpu = GpuOf(cfg.global, g)
  <2>1. CASE Off(g)
    <3>1. s = c
      BY Zenon, <2>1 DEF ParsedSource
    <3>2. cfg.global = -1 => gpu = 0
      BY Zenon, <1>4, GlobalGpu DEF gpu
    <3>. QED
      BY <1>5, <1>6, <2>1, <3>1, <3>2
  <2>2. CASE ~Off(g)
    <3> DEFINE d == [c EXCEPT !.id = g.index, !.attempts = -1]
    <3>1. s = SourceKeys(d, g)
      BY Zenon, <2>2 DEF ParsedSource
    <3>2. d.enable = c.enable /\ d.gpu = c.gpu /\ DOMAIN d = DOMAIN NoSource
      BY <1>5, <1>6
    <3> HIDE DEF d, s
    <3>3. DOMAIN SourceKeys(d, g) = DOMAIN d
      BY Zenon DEF SourceKeys
    <3>4. /\ SourceKeys(d, g).enable = Get(g, "enable", d.enable)
          /\ SourceKeys(d, g).gpu = Get(g, "gpu-id", d.gpu)
      BY <1>5, <3>2 DEF SourceKeys
    <3>5. s.enable # 0
      BY Zenon, <2>2, <3>1, <3>4, Asked
    <3>6. s.gpu = Get(g, "gpu-id", gpu)
      BY Zenon, <1>6, <3>1, <3>2, <3>4
    <3>7. s.gpu = GpuOf(cfg.global, g)
      BY Zenon, <1>4, <3>6, GlobalGpu DEF gpu
    <3>8. "enable" \in DOMAIN s /\ "gpu" \in DOMAIN s
      BY <1>5, <3>1, <3>2, <3>3
    <3>. QED
      BY <2>2, <3>5, <3>7, <3>8
  <2>. QED
    BY Zenon, <2>1, <2>2
<1> HIDE DEF s
<1>8. Took(Append(gs, g), "source", cfg.src, n, s, MaxSources, cfg.global)
  <2>1. Taken(gs, "source", cfg.src, n, MaxSources, cfg.global)
    BY Zenon DEF n
  <2>2. Fits(g, "source", s, cfg.global)
    BY Zenon, <1>7 DEF Fits
  <2>. QED
    BY Zenon, <1>1, <1>2, <1>3, <2>1, <2>2, TakenNext
<1>. QED
  BY Zenon, <1>2, <1>8 DEF Took

LEMMA GieTaken ==
  ASSUME Counts(cfg), NEW S, NEW gs \in Seq(S), NEW g, ParseSecondaryGie(g),
         ~(stage' = "failed"),
         Taken(gs, "secondary-gie", cfg.gie, cfg.ngie, MaxGies, cfg.global)
  PROVE  Taken(Append(gs, g), "secondary-gie", cfg'.gie, cfg'.ngie, MaxGies, cfg.global)
<1> DEFINE n == cfg.ngie
           gpu == GlobalOr(cfg.gie[n].gpu)
           c == GlobalGie(cfg.gie[n])
           s == ParsedGie(c, g)
<1>1. n \in 0 .. MaxGies /\ MaxGies \in Nat /\ DOMAIN cfg = DOMAIN EmptyConfig
  BY ConfigAssumption DEF Counts
<1>2. /\ n < MaxGies /\ g.kind = "secondary-gie"
      /\ cfg'.gie = [cfg.gie EXCEPT ![n] = s]
      /\ cfg'.ngie = IF s.enable # 0 THEN n + 1 ELSE n
  <2>1. g.kind = "secondary-gie"
    BY Zenon DEF ParseSecondaryGie, Reading
  <2>. QED
    BY Zenon, <1>1, <2>1, GieWrites DEF SecondaryGie
<1>3. n \in Slots(MaxGies) /\ n >= n
  BY <1>1, <1>2 DEF Slots
<1>4. /\ cfg.gie[n].enable = 0 /\ (cfg.global = -1 => cfg.gie[n].gpu = 0)
      /\ "enable" \in DOMAIN cfg.gie[n] /\ "gpu" \in DOMAIN cfg.gie[n]
  <2>1. {"enable", "gpu"} \subseteq DOMAIN cfg.gie[n]
    BY Zenon, <1>3 DEF Taken, Slotted
  <2>. QED
    BY Zenon, <1>3, <2>1 DEF Taken, Slotted
<1>5. /\ c.enable = 0 /\ c.gpu = gpu /\ DOMAIN c = DOMAIN cfg.gie[n]
  <2> DEFINE a == cfg.gie[n]
             set == a.gpuSet \/ cfg.global # -1
  <2>1. c = [a EXCEPT !.gpu = gpu, !.gpuSet = set]
    BY Zenon DEF GlobalGie
  <2> HIDE DEF gpu, set, c
  <2>. QED
    BY <1>4, <2>1
<1> HIDE DEF n, gpu, c
<1>6. /\ "enable" \in DOMAIN s /\ "gpu" \in DOMAIN s
      /\ Off(g) => s.enable = 0 /\ (cfg.global = -1 => s.gpu = 0)
      /\ ~Off(g) => s.enable # 0 /\ s.gpu = GpuOf(cfg.global, g)
  <2>1. CASE Off(g)
    <3>1. s = c
      BY Zenon, <2>1 DEF ParsedGie
    <3>2. cfg.global = -1 => gpu = 0
      BY Zenon, <1>4, GlobalGpu DEF gpu
    <3>. QED
      BY <1>4, <1>5, <2>1, <3>1, <3>2
  <2>2. CASE ~Off(g)
    <3> DEFINE uid == Get(g, "gie-unique-id", c.uid)
               set == c.gpuSet \/ "gpu-id" \in DOMAIN g.keys
               batch == Get(g, "batch-size", c.batch)
               own == Get(g, "gpu-id", c.gpu)
    <3>1. s = [c EXCEPT !.enable = g.keys.enable, !.uid = uid, !.gpu = own, !.gpuSet = set,
                        !.batch = batch]
      BY Zenon, <2>2 DEF ParsedGie
    <3> HIDE DEF uid, set, batch, own, s
    <3>2. "enable" \in DOMAIN s /\ "gpu" \in DOMAIN s /\ s.enable = g.keys.enable /\ s.gpu = own
      BY <1>4, <1>5, <3>1
    <3>3. s.enable # 0
      BY Zenon, <2>2, <3>2, Asked
    <3>4. s.gpu = Get(g, "gpu-id", gpu)
      BY Zenon, <1>5, <3>2 DEF own
    <3>5. s.gpu = GpuOf(cfg.global, g)
      BY Zenon, <1>4, <3>4, GlobalGpu DEF gpu
    <3>. QED
      BY <2>2, <3>2, <3>3, <3>5
  <2>. QED
    BY Zenon, <2>1, <2>2
<1> HIDE DEF s
<1>7. Took(Append(gs, g), "secondary-gie", cfg.gie, n, s, MaxGies, cfg.global)
  <2>1. Taken(gs, "secondary-gie", cfg.gie, n, MaxGies, cfg.global)
    BY Zenon DEF n
  <2>2. {"enable", "gpu"} \subseteq DOMAIN s
    BY <1>6
  <2>3. Fits(g, "secondary-gie", s, cfg.global)
    BY Zenon, <1>6, <2>2 DEF Fits
  <2>. QED
    BY Zenon, <1>1, <1>2, <2>1, <2>3, TakenNext
<1>. QED
  BY Zenon, <1>2, <1>7 DEF Took

LEMMA SinkTaken ==
  ASSUME Counts(cfg), NEW S, NEW gs \in Seq(S), NEW g, ParseSink(g),
         ~(stage' = "failed"),
         Taken(gs, "sink", cfg.sink, cfg.nsink, MaxSinks, cfg.global)
  PROVE  Taken(Append(gs, g), "sink", cfg'.sink, cfg'.nsink, MaxSinks, cfg.global)
<1> DEFINE n == cfg.nsink
           gpu == GlobalOr(cfg.sink[n].gpu)
           c == GlobalSink(cfg.sink[n], g)
           d == [c EXCEPT !.demux = 0, !.codec = 1, !.container = 1]
           s == ParsedSink(c, g)
<1>1. n \in 0 .. MaxSinks /\ MaxSinks \in Nat /\ DOMAIN cfg = DOMAIN EmptyConfig
  BY ConfigAssumption DEF Counts
<1>2. /\ n < MaxSinks /\ g.kind = "sink"
      /\ cfg'.sink = [cfg.sink EXCEPT ![n] = s]
      /\ cfg'.nsink = IF s.enable # 0 THEN n + 1 ELSE n
  <2>1. g.kind = "sink"
    BY Zenon DEF ParseSink, Reading
  <2>. QED
    BY Zenon, <1>1, <2>1, SinkWrites
<1>3. n \in Slots(MaxSinks) /\ n >= n
  BY <1>1, <1>2 DEF Slots
<1>4. /\ cfg.sink[n].enable = 0 /\ (cfg.global = -1 => cfg.sink[n].gpu = 0)
      /\ "enable" \in DOMAIN cfg.sink[n] /\ "gpu" \in DOMAIN cfg.sink[n]
  <2>1. {"enable", "gpu"} \subseteq DOMAIN cfg.sink[n]
    BY Zenon, <1>3 DEF Taken, Slotted
  <2>. QED
    BY Zenon, <1>3, <2>1 DEF Taken, Slotted
<1>5. /\ c.enable = 0 /\ DOMAIN c = DOMAIN cfg.sink[n]
      /\ cfg.global = -1 => c.gpu = 0
      /\ Get(g, "enable", 0) = 1 => c.gpu = gpu
  <2> DEFINE a == cfg.sink[n]
  <2>1. c = IF Get(g, "enable", 0) = 1 THEN [a EXCEPT !.gpu = gpu] ELSE a
    BY Zenon DEF GlobalSink
  <2>2. cfg.global = -1 => gpu = 0
    BY Zenon, <1>4, GlobalGpu
  <2> HIDE DEF gpu, c
  <2>. QED
    BY <1>4, <2>1, <2>2
<1>6. Off(g) => Get(g, "enable", 0) # 1
  BY Zenon, Asked
<1> HIDE DEF n, gpu, c
<1>7. /\ d.enable = 0 /\ d.gpu = c.gpu /\ DOMAIN d = DOMAIN c
  BY <1>4, <1>5
<1> HIDE DEF d
<1>8. /\ "enable" \in DOMAIN s /\ "gpu" \in DOMAIN s
      /\ Off(g) => s.enable = 0 /\ (cfg.global = -1 => s.gpu = 0)
      /\ ~Off(g) => s.enable # 0 /\ (g.keys.enable = 1 => s.gpu = GpuOf(cfg.global, g))
  <2>1. CASE Off(g)
    <3>1. s = d
      BY Zenon, <2>1 DEF ParsedSink, d
    <3>. QED
      BY <1>4, <1>5, <1>7, <2>1, <3>1
  <2>2. CASE ~Off(g)
    <3> DEFINE type == Get(g, "type", d.type)
               source == Get(g, "source-id", d.source)
               own == Get(g, "gpu-id", d.gpu)
               demux == Get(g, "link-to-demux", d.demux)
               codec == Get(g, "codec", d.codec)
               container == Get(g, "container", d.container)
    <3>1. s = [d EXCEPT !.enable = g.keys.enable, !.type = type, !.source = source,
                        !.gpu = own, !.demux = demux, !.codec = codec,
                        !.container = container]
      <4>1. s = [d EXCEPT !.enable = g.keys.enable,
                          !.type = Get(g, "type", @),
                          !.source = Get(g, "source-id", @),
                          !.gpu = Get(g, "gpu-id", @),
                          !.demux = Get(g, "link-to-demux", @),
                          !.codec = Get(g, "codec", @),
                          !.container = Get(g, "container", @)]
        BY Zenon, <2>2 DEF ParsedSink, d
      <4>. QED
        BY Zenon, <4>1
    <3> HIDE DEF type, source, own, demux, codec, container, s
    <3>2. "enable" \in DOMAIN s /\ "gpu" \in DOMAIN s /\ s.enable = g.keys.enable /\ s.gpu = own
      BY <1>4, <1>5, <1>7, <3>1
    <3>3. s.enable # 0 /\ (g.keys.enable = 1 => Get(g, "enable", 0) = 1)
      BY Zenon, <2>2, <3>2, Asked
    <3>4. g.keys.enable = 1 => s.gpu = Get(g, "gpu-id", gpu)
      BY Zenon, <1>5, <1>7, <3>2, <3>3 DEF own
    <3>5. g.keys.enable = 1 => s.gpu = GpuOf(cfg.global, g)
      BY Zenon, <1>4, <3>4, GlobalGpu DEF gpu
    <3>. QED
      BY <2>2, <3>2, <3>3, <3>5
  <2>. QED
    BY Zenon, <2>1, <2>2
<1> HIDE DEF s
<1>9. Took(Append(gs, g), "sink", cfg.sink, n, s, MaxSinks, cfg.global)
  <2>1. Taken(gs, "sink", cfg.sink, n, MaxSinks, cfg.global)
    BY Zenon DEF n
  <2>2. {"enable", "gpu"} \subseteq DOMAIN s
    BY <1>8
  <2>3. Fits(g, "sink", s, cfg.global)
    BY Zenon, <1>8, <2>2 DEF Fits
  <2>. QED
    BY Zenon, <1>1, <1>2, <2>1, <2>3, TakenNext
<1>. QED
  BY Zenon, <1>2, <1>9 DEF Took

(* A component that is described is described once: names are unique.      *)
LEMMA OneDescription ==
  ASSUME family \in Families, NEW g \in family.groups, Reading(g, g.kind), g.kind \in Once,
         \A n \in 1 .. Len(read.groups) : read.groups[n] \in family.groups
  PROVE  \A n \in 1 .. Len(read.groups) : read.groups[n].kind # g.kind
<1> SUFFICES ASSUME NEW n \in 1 .. Len(read.groups), read.groups[n].kind = g.kind
             PROVE  FALSE
  OBVIOUS
<1> DEFINE h == read.groups[n]
<1>1. Before(h, g) /\ h \in family.groups
  BY Zenon DEF Reading
<1>2. g.kind \notin Numbered
  BY DEF Once, Numbered, Parts
<1>3. h.index = g.index
  BY Zenon, <1>1, <1>2, FamiliesAssumption
<1>4. <<h.kind, h.index>> = <<g.kind, g.index>>
  BY Zenon, <1>3
<1>5. \A i, j \in DOMAIN family.order : i < j => family.order[i] # family.order[j]
  BY Zenon, FamiliesAssumption
<1>. QED
  BY Zenon, <1>1, <1>4, <1>5 DEF Before

(* d differs from c in what the group g describes.                          *)
OnlyDescribed(gs, g, c, d) ==
  /\ d.global = c.global
  /\ \A kind \in Once : kind # g.kind => PartGpu(d, kind) = PartGpu(c, kind)
  /\ g.kind \in Once =>
       /\ PartGpu(d, g.kind) = GpuOf(c.global, g)
       /\ \A n \in 1 .. Len(gs) : gs[n].kind # g.kind
PartsRead(gs, c) == PartsPlaced(gs, c) /\ PartsFree(gs, c)

LEMMA PartsAppend ==
  ASSUME NEW S, NEW gs \in Seq(S), NEW g, NEW c, NEW d,
         PartsRead(gs, c), OnlyDescribed(gs, g, c, d)
  PROVE  PartsRead(Append(gs, g), d)
<1> DEFINE t == Append(gs, g)
<1>0. /\ d.global = c.global /\ PartsPlaced(gs, c) /\ PartsFree(gs, c)
      /\ \A kind \in Once : kind # g.kind => PartGpu(d, kind) = PartGpu(c, kind)
      /\ g.kind \in Once =>
           /\ PartGpu(d, g.kind) = GpuOf(c.global, g)
           /\ \A n \in 1 .. Len(gs) : gs[n].kind # g.kind
  BY Zenon DEF PartsRead, OnlyDescribed
<1>1. /\ Len(t) = Len(gs) + 1 /\ Len(gs) \in Nat /\ t[Len(gs) + 1] = g
      /\ \A n \in 1 .. Len(gs) : t[n] = gs[n]
  BY AppendFacts
<1>2. \A n : n \in 1 .. Len(t) <=> n \in 1 .. Len(gs) \/ n = Len(gs) + 1
  BY <1>1
<1> HIDE DEF t
<1>3. ASSUME NEW n \in 1 .. Len(t), t[n].kind \in Once
      PROVE  PartGpu(d, t[n].kind) = GpuOf(d.global, t[n])
  <2>1. CASE n \in 1 .. Len(gs)
    <3>1. t[n] = gs[n] /\ gs[n].kind # g.kind
      BY Zenon, <1>0, <1>1, <1>3, <2>1
    <3>. QED
      BY Zenon, <1>0, <1>3, <2>1, <3>1 DEF PartsPlaced
  <2>2. CASE n = Len(gs) + 1
    BY Zenon, <1>0, <1>1, <1>3, <2>2
  <2>. QED
    BY Zenon, <1>2, <2>1, <2>2
<1>4. ASSUME NEW kind \in Once, \A n \in 1 .. Len(t) : t[n].kind # kind, d.global = -1
      PROVE  PartGpu(d, kind) = 0
  <2>1. kind # g.kind /\ \A n \in 1 .. Len(gs) : gs[n].kind # kind
    BY Zenon, <1>1, <1>2, <1>4
  <2>. QED
    BY Zenon, <1>0, <1>4, <2>1 DEF PartsFree
<1>. QED
  BY Zenon, <1>3, <1>4 DEF PartsRead, PartsPlaced, PartsFree, t

(* The arrays after one more group.                                        *)
LEMMA GroupReads ==
  ASSUME FilesType, Counts(cfg), Reads(read, cfg), NEW g \in family.groups,
         Reading(g, g.kind), ~(stage' = "failed"),
         \A n \in 1 .. Len(read.groups) : read.groups[n] \in family.groups,
         \/ ParseSourceGroup(g)
         \/ ParseSecondaryGie(g) \/ ParseSecondaryPreprocess(g) \/ ParseSink(g)
         \/ \/ ParsePrimaryGie(g) \/ ParsePreprocess(g) \/ ParseStreammux(g)
            \/ ParseOsd(g) \/ ParseTracker(g) \/ ParseTiledDisplay(g)
            \/ ParseDsExample(g) \/ ParseImageSave(g) \/ ParseMsgconv(g)
            \/ ParseTests(g)
  PROVE  Reads(read', cfg')
<1> DEFINE gs == read.groups
           new == Append(gs, g)
<1>1. gs \in Seq(Groups) /\ DOMAIN read = {"app", "list", "attr", "groups"}
  BY Zenon DEF FilesType
<1>2. read' = [read EXCEPT !.groups = Append(@, g)]
  BY Zenon DEF Reading
<1>3. read'.list = read.list /\ read'.groups = new
  BY <1>1, <1>2
<1>4. /\ read.list = <<>> =>
           /\ cfg.listed = FALSE /\ cfg.total = 0
           /\ Taken(gs, "source", cfg.src, cfg.nsrc, MaxSources, cfg.global)
      /\ Taken(gs, "secondary-gie", cfg.gie, cfg.ngie, MaxGies, cfg.global)
      /\ Taken(gs, "sink", cfg.sink, cfg.nsink, MaxSinks, cfg.global)
      /\ "gpu" \in DOMAIN cfg.mux /\ DOMAIN cfg.part = Parts
      /\ PartsPlaced(gs, cfg) /\ PartsFree(gs, cfg)
  BY Zenon DEF Reads
<1>5. /\ DOMAIN cfg = DOMAIN EmptyConfig
      /\ Used \subseteq DOMAIN EmptyConfig
  BY FieldsOfConfig DEF Counts, Used
<1>6. ASSUME NEW kind, NEW a, NEW n, NEW size, kind # g.kind,
             Taken(gs, kind, a, n, size, cfg.global)
      PROVE  Taken(new, kind, a, n, size, cfg.global)
  BY Zenon, <1>1, <1>6, TakenOther
<1>7. ASSUME NEW K, Rest(cfg, cfg', K), K \cap {"mux", "part"} = {}, g.kind \notin Once
      PROVE  /\ "gpu" \in DOMAIN cfg'.mux /\ DOMAIN cfg'.part = Parts
             /\ cfg'.global = cfg.global =>
                  PartsPlaced(new, cfg') /\ PartsFree(new, cfg')
  <2>1. cfg'.mux = cfg.mux /\ cfg'.part = cfg.part
    BY <1>5, <1>7 DEF Rest, Used
  <2>2. \A kind \in Once : PartGpu(cfg', kind) = PartGpu(cfg, kind)
    BY Zenon, <2>1 DEF PartGpu
  <2>3. ASSUME cfg'.global = cfg.global
        PROVE  PartsPlaced(new, cfg') /\ PartsFree(new, cfg')
    <3>1. PartsRead(gs, cfg) /\ OnlyDescribed(gs, g, cfg, cfg')
      BY Zenon, <1>4, <1>7, <2>2, <2>3 DEF PartsRead, OnlyDescribed
    <3>2. PartsRead(new, cfg')
      BY Zenon, <1>1, <3>1, PartsAppend
    <3>. QED
      BY Zenon, <3>2 DEF PartsRead
  <2>4. "gpu" \in DOMAIN cfg'.mux /\ DOMAIN cfg'.part = Parts
    BY <1>4, <2>1
  <2>. QED
    BY Zenon, <2>3, <2>4
<1>8. \A kind \in {"source", "secondary-gie", "secondary-pre-process", "sink"} :
        kind \notin Once
  BY DEF Once, Parts
<1>9. CASE ParseSourceGroup(g)
  <2>1. g.kind = "source" /\ Rest(cfg, cfg', {"src", "nsrc"})
    BY Zenon, <1>5, <1>9, SourceWrites DEF ParseSourceGroup, Reading
  <2>2. /\ cfg'.global = cfg.global /\ cfg'.gie = cfg.gie /\ cfg'.ngie = cfg.ngie
        /\ cfg'.sink = cfg.sink /\ cfg'.nsink = cfg.nsink /\ cfg'.total = cfg.total
    BY <1>5, <2>1 DEF Rest, Used
  <2>3. cfg'.listed = cfg.listed
    <3>1. "listed" \in DOMAIN cfg \ {"src", "nsrc"}
      BY <1>5 DEF Used
    <3>. QED
      BY Zenon, <2>1, <3>1 DEF Rest
  <2>4. "secondary-gie" # "source" /\ "sink" # "source"
    OBVIOUS
  <2>5. /\ Taken(new, "secondary-gie", cfg.gie, cfg.ngie, MaxGies, cfg.global)
        /\ Taken(new, "sink", cfg.sink, cfg.nsink, MaxSinks, cfg.global)
    BY Zenon, <1>4, <1>6, <2>1, <2>4
  <2>6. read.list = <<>> =>
          Taken(new, "source", cfg'.src, cfg'.nsrc, MaxSources, cfg.global)
    BY Zenon, <1>1, <1>4, <1>9, SourceTaken
  <2>7. {"src", "nsrc"} \cap {"mux", "part"} = {}
    OBVIOUS
  <2>8. /\ "gpu" \in DOMAIN cfg'.mux /\ DOMAIN cfg'.part = Parts
        /\ PartsPlaced(new, cfg') /\ PartsFree(new, cfg')
    BY Zenon, <1>7, <1>8, <2>1, <2>2, <2>7
  <2>. QED
    BY Zenon, <1>3, <1>4, <2>2, <2>3, <2>5, <2>6, <2>8 DEF Reads
<1>10. CASE ParseSecondaryGie(g)
  <2>1. /\ g.kind = "secondary-gie" /\ Rest(cfg, cfg', {"gie", "ngie"})
    <3>1. g.kind = "secondary-gie" /\ (stage' = "failed" \/ ~(cfg' = cfg /\ stage' = "failed"))
      BY Zenon, <1>10 DEF ParseSecondaryGie, Reading
    <3>. QED
      BY Zenon, <1>5, <1>10, <3>1, GieWrites
  <2>2. /\ cfg'.global = cfg.global /\ cfg'.src = cfg.src /\ cfg'.nsrc = cfg.nsrc
        /\ cfg'.sink = cfg.sink /\ cfg'.nsink = cfg.nsink /\ cfg'.total = cfg.total
    BY <1>5, <2>1 DEF Rest, Used
  <2>3. cfg'.listed = cfg.listed
    <3>1. "listed" \in DOMAIN cfg \ {"gie", "ngie"}
      BY <1>5 DEF Used
    <3>. QED
      BY Zenon, <2>1, <3>1 DEF Rest
  <2>4. "source" # "secondary-gie" /\ "sink" # "secondary-gie"
    OBVIOUS
  <2>5. /\ read.list = <<>> => Taken(new, "source", cfg.src, cfg.nsrc, MaxSources, cfg.global)
        /\ Taken(new, "sink", cfg.sink, cfg.nsink, MaxSinks, cfg.global)
    BY Zenon, <1>4, <1>6, <2>1, <2>4
  <2>6. Taken(new, "secondary-gie", cfg'.gie, cfg'.ngie, MaxGies, cfg.global)
    BY Zenon, <1>1, <1>4, <1>10, GieTaken
  <2>7. {"gie", "ngie"} \cap {"mux", "part"} = {}
    OBVIOUS
  <2>8. /\ "gpu" \in DOMAIN cfg'.mux /\ DOMAIN cfg'.part = Parts
        /\ PartsPlaced(new, cfg') /\ PartsFree(new, cfg')
    BY Zenon, <1>7, <1>8, <2>1, <2>2, <2>7
  <2>. QED
    BY Zenon, <1>3, <1>4, <2>2, <2>3, <2>5, <2>6, <2>8 DEF Reads
<1>11. CASE ParseSink(g)
  <2>1. g.kind = "sink" /\ Rest(cfg, cfg', {"sink", "nsink"})
    BY Zenon, <1>5, <1>11, SinkWrites DEF ParseSink, Reading
  <2>2. /\ cfg'.global = cfg.global /\ cfg'.src = cfg.src /\ cfg'.nsrc = cfg.nsrc
        /\ cfg'.gie = cfg.gie /\ cfg'.ngie = cfg.ngie /\ cfg'.total = cfg.total
    BY <1>5, <2>1 DEF Rest, Used
  <2>3. cfg'.listed = cfg.listed
    <3>1. "listed" \in DOMAIN cfg \ {"sink", "nsink"}
      BY <1>5 DEF Used
    <3>. QED
      BY Zenon, <2>1, <3>1 DEF Rest
  <2>4. "source" # "sink" /\ "secondary-gie" # "sink"
    OBVIOUS
  <2>5. /\ read.list = <<>> => Taken(new, "source", cfg.src, cfg.nsrc, MaxSources, cfg.global)
        /\ Taken(new, "secondary-gie", cfg.gie, cfg.ngie, MaxGies, cfg.global)
    BY Zenon, <1>4, <1>6, <2>1, <2>4
  <2>6. Taken(new, "sink", cfg'.sink, cfg'.nsink, MaxSinks, cfg.global)
    BY Zenon, <1>1, <1>4, <1>11, SinkTaken
  <2>7. {"sink", "nsink"} \cap {"mux", "part"} = {}
    OBVIOUS
  <2>8. /\ "gpu" \in DOMAIN cfg'.mux /\ DOMAIN cfg'.part = Parts
        /\ PartsPlaced(new, cfg') /\ PartsFree(new, cfg')
    BY Zenon, <1>7, <1>8, <2>1, <2>2, <2>7
  <2>. QED
    BY Zenon, <1>3, <1>4, <2>2, <2>3, <2>5, <2>6, <2>8 DEF Reads
<1>12. CASE ParseSecondaryPreprocess(g)
  <2>1. g.kind = "secondary-pre-process" /\ Rest(cfg, cfg', {"pre", "npre"})
    BY Zenon, <1>5, <1>12, PreprocessWrites DEF ParseSecondaryPreprocess, Reading
  <2>2. /\ cfg'.global = cfg.global /\ cfg'.src = cfg.src /\ cfg'.nsrc = cfg.nsrc
        /\ cfg'.gie = cfg.gie /\ cfg'.ngie = cfg.ngie /\ cfg'.total = cfg.total
        /\ cfg'.sink = cfg.sink /\ cfg'.nsink = cfg.nsink
    BY <1>5, <2>1 DEF Rest, Used
  <2>3. cfg'.listed = cfg.listed
    <3>1. "listed" \in DOMAIN cfg \ {"pre", "npre"}
      BY <1>5 DEF Used
    <3>. QED
      BY Zenon, <2>1, <3>1 DEF Rest
  <2>4. /\ "source" # "secondary-pre-process" /\ "secondary-gie" # "secondary-pre-process"
        /\ "sink" # "secondary-pre-process"
    OBVIOUS
  <2>5. /\ read.list = <<>> => Taken(new, "source", cfg.src, cfg.nsrc, MaxSources, cfg.global)
        /\ Taken(new, "secondary-gie", cfg.gie, cfg.ngie, MaxGies, cfg.global)
        /\ Taken(new, "sink", cfg.sink, cfg.nsink, MaxSinks, cfg.global)
    BY Zenon, <1>4, <1>6, <2>1, <2>4
  <2>7. {"pre", "npre"} \cap {"mux", "part"} = {}
    OBVIOUS
  <2>8. /\ "gpu" \in DOMAIN cfg'.mux /\ DOMAIN cfg'.part = Parts
        /\ PartsPlaced(new, cfg') /\ PartsFree(new, cfg')
    BY Zenon, <1>7, <1>8, <2>1, <2>2, <2>7
  <2>. QED
    BY Zenon, <1>3, <1>4, <2>2, <2>3, <2>5, <2>8 DEF Reads
<1>13. CASE \/ ParsePrimaryGie(g) \/ ParsePreprocess(g) \/ ParseStreammux(g)
            \/ ParseOsd(g) \/ ParseTracker(g) \/ ParseTiledDisplay(g)
            \/ ParseDsExample(g) \/ ParseImageSave(g) \/ ParseMsgconv(g)
            \/ ParseTests(g)
  <2>1. Rest(cfg, cfg', Others) /\ PartsWritten(g, cfg')
    BY Zenon, <1>4, <1>5, <1>13, OthersWrite, PartsWrite
  <2>2. /\ cfg'.global = cfg.global /\ cfg'.src = cfg.src /\ cfg'.nsrc = cfg.nsrc
        /\ cfg'.gie = cfg.gie /\ cfg'.ngie = cfg.ngie /\ cfg'.total = cfg.total
        /\ cfg'.sink = cfg.sink /\ cfg'.nsink = cfg.nsink
    BY <1>5, <2>1 DEF Rest, Used, Others
  <2>3. cfg'.listed = cfg.listed
    <3>1. "listed" \in DOMAIN cfg \ Others
      BY <1>5 DEF Used, Others
    <3>. QED
      BY Zenon, <2>1, <3>1 DEF Rest
  <2>4. "source" # g.kind /\ "secondary-gie" # g.kind /\ "sink" # g.kind
    BY Zenon, <2>1 DEF PartsWritten
  <2>5. /\ read.list = <<>> => Taken(new, "source", cfg.src, cfg.nsrc, MaxSources, cfg.global)
        /\ Taken(new, "secondary-gie", cfg.gie, cfg.ngie, MaxGies, cfg.global)
        /\ Taken(new, "sink", cfg.sink, cfg.nsink, MaxSinks, cfg.global)
    BY Zenon, <1>4, <1>6, <2>4
  <2>6. ASSUME g.kind \in Once
        PROVE  /\ PartGpu(cfg', g.kind) = GpuOf(cfg.global, g)
               /\ \A n \in 1 .. Len(gs) : gs[n].kind # g.kind
    <3>1. \A n \in 1 .. Len(gs) : gs[n].kind # g.kind
      BY Zenon, <2>6, OneDescription DEF FilesType
    <3>2. cfg.global = -1 => PartGpu(cfg, g.kind) = 0
      BY Zenon, <1>4, <2>6, <3>1 DEF PartsFree
    <3>3. PartGpu(cfg', g.kind) = Get(g, "gpu-id", GlobalOr(PartGpu(cfg, g.kind)))
      BY Zenon, <2>1, <2>6 DEF PartsWritten
    <3>. QED
      BY Zenon, <3>1, <3>2, <3>3, GlobalGpu
  <2>7. \A kind \in Once : kind # g.kind => PartGpu(cfg', kind) = PartGpu(cfg, kind)
    BY Zenon, <2>1 DEF PartsWritten
  <2>8. PartsPlaced(new, cfg') /\ PartsFree(new, cfg')
    <3>1. PartsRead(gs, cfg) /\ OnlyDescribed(gs, g, cfg, cfg')
      BY Zenon, <1>4, <2>2, <2>6, <2>7 DEF PartsRead, OnlyDescribed
    <3>2. PartsRead(new, cfg')
      BY Zenon, <1>1, <3>1, PartsAppend
    <3>. QED
      BY Zenon, <3>2 DEF PartsRead
  <2>9. "gpu" \in DOMAIN cfg'.mux /\ DOMAIN cfg'.part = Parts
    BY Zenon, <2>1 DEF PartsWritten
  <2>. QED
    BY Zenon, <1>3, <1>4, <2>2, <2>3, <2>5, <2>8, <2>9 DEF Reads
<1>. QED
  BY Zenon, <1>9, <1>10, <1>11, <1>12, <1>13

LEMMA GpuGroups ==
  ASSUME FilesType, ParserTypes, GpuAt, ParseGroup
  PROVE  GpuAt'
<1>1. CASE stage' = "failed"
  BY <1>1, GpuOver
<1>2. CASE ~(stage' = "failed")
  <2>1. PICK g \in family.groups :
          \/ ParseSourceGroup(g)
          \/ ParseSecondaryGie(g) \/ ParseSecondaryPreprocess(g) \/ ParseSink(g)
          \/ \/ ParsePrimaryGie(g) \/ ParsePreprocess(g) \/ ParseStreammux(g)
             \/ ParseOsd(g) \/ ParseTracker(g) \/ ParseTiledDisplay(g)
             \/ ParseDsExample(g) \/ ParseImageSave(g) \/ ParseMsgconv(g)
             \/ ParseTests(g)
    BY Zenon DEF ParseGroup
  <2>2. Reading(g, g.kind)
    <3>1. \A kind : Reading(g, kind) => Reading(g, g.kind)
      BY Zenon DEF Reading
    <3>. QED
      BY Zenon, <2>1, <3>1 DEF ParseSourceGroup, ParsePrimaryGie, ParseSecondaryGie,
         ParsePreprocess, ParseSecondaryPreprocess, ParseSink, ParseStreammux, ParseOsd,
         ParseTracker, ParseTiledDisplay, ParseDsExample, ParsePart, ParseImageSave,
         ParseMsgconv, ParseTests
  <2>3. ReadStep(g)
    BY Zenon, <2>1, GroupSteps
  <2>4. /\ stage = "groups" /\ stage' = "groups" /\ family' = family
        /\ read' = [read EXCEPT !.groups = Append(@, g)]
        /\ read.groups \in Seq(Groups) /\ DOMAIN read = {"app", "list", "attr", "groups"}
    BY Zenon, <1>2, <2>3 DEF ReadStep, FilesType
  <2>5. /\ Reads(read, cfg)
        /\ \A n \in 1 .. Len(read.groups) : read.groups[n] \in family.groups
    BY <2>4 DEF GpuAt
  <2>6. Counts(cfg)
    BY Zenon DEF ParserTypes
  <2>7. Reads(read', cfg')
    BY Zenon, <1>2, <2>1, <2>2, <2>5, <2>6, GroupReads
  <2>8. \A n \in 1 .. Len(read'.groups) : read'.groups[n] \in family.groups
    <3>1. read'.groups = Append(read.groups, g)
      BY <2>4
    <3>2. /\ Len(Append(read.groups, g)) = Len(read.groups) + 1 /\ Len(read.groups) \in Nat
          /\ Append(read.groups, g)[Len(read.groups) + 1] = g
          /\ \A n \in 1 .. Len(read.groups) : Append(read.groups, g)[n] = read.groups[n]
      BY <2>4, AppendFacts
    <3>3. \A n : n \in 1 .. Len(read.groups) + 1 <=>
                   n \in 1 .. Len(read.groups) \/ n = Len(read.groups) + 1
      BY <3>2
    <3>. QED
      BY Zenon, <2>1, <2>5, <3>1, <3>2, <3>3
  <2>. QED
    BY <2>4, <2>7, <2>8 DEF GpuAt
<1>. QED
  BY Zenon, <1>1, <1>2

(* The batch sizes and the further uris leave the GPUs alone.              *)
LEMMA GpuEnd ==
  ASSUME FilesType, ParserTypes, GpuAt, EndOfGroups
  PROVE  GpuAt'
<1>1. CASE stage' = "failed"
  BY <1>1, GpuOver
<1>2. CASE ~(stage' = "failed")
  <2>1. stage = "groups" /\ stage' = "expand" /\ read' = read
    BY Zenon, <1>2 DEF EndOfGroups, Fail
  <2>2. Reads(read, cfg) /\ Counts(cfg) /\ read.groups \in Seq(Groups)
    BY <2>1 DEF GpuAt, ParserTypes, FilesType
  <2> DEFINE gs == read.groups
  <2>3. /\ read.list = <<>> => Taken(gs, "source", cfg.src, cfg.nsrc, MaxSources, cfg.global)
        /\ Taken(gs, "secondary-gie", cfg.gie, cfg.ngie, MaxGies, cfg.global)
        /\ Taken(gs, "sink", cfg.sink, cfg.nsink, MaxSinks, cfg.global)
        /\ "gpu" \in DOMAIN cfg.mux /\ PartsPlaced(gs, cfg)
    BY Zenon, <2>2 DEF Reads
  <2>4. /\ cfg'.src = cfg.src /\ cfg'.nsrc = cfg.nsrc /\ cfg'.sink = cfg.sink
        /\ cfg'.global = cfg.global /\ cfg'.part = cfg.part /\ cfg'.mux.gpu = cfg.mux.gpu
        /\ \A i \in Slots(MaxGies) : cfg'.gie[i].gpu = cfg.gie[i].gpu
    <3>1. DOMAIN cfg = DOMAIN EmptyConfig
      BY Zenon, <2>2 DEF Counts
    <3>2. CASE cfg' = cfg
      BY Zenon, <3>2
    <3>3. CASE ~(cfg' = cfg)
      <4>1. /\ Rest(cfg, cfg', {"mux", "primary", "gie"})
            /\ cfg'.mux = [cfg.mux EXCEPT !.batch = cfg.nsrc]
            /\ cfg'.gie = [i \in Slots(MaxGies) |->
                             IF i < cfg.ngie /\ cfg.sgieBatch # 0
                             THEN [cfg.gie[i] EXCEPT !.batch = cfg.sgieBatch]
                             ELSE cfg.gie[i]]
        BY Zenon, <3>1, <3>3, EndWrites
      <4>2. /\ cfg'.src = cfg.src /\ cfg'.nsrc = cfg.nsrc /\ cfg'.sink = cfg.sink
            /\ cfg'.global = cfg.global /\ cfg'.part = cfg.part
        BY <3>1, <4>1, FieldsOfConfig DEF Rest
      <4>3. cfg'.mux.gpu = cfg.mux.gpu
        BY <2>3, <4>1
      <4>4. ASSUME NEW i \in Slots(MaxGies) PROVE cfg'.gie[i].gpu = cfg.gie[i].gpu
        <5>1. {"enable", "gpu"} \subseteq DOMAIN cfg.gie[i]
          BY Zenon, <2>3 DEF Taken, Slotted
        <5>2. [cfg.gie[i] EXCEPT !.batch = cfg.sgieBatch].gpu = cfg.gie[i].gpu
          BY <5>1
        <5>. QED
          BY Zenon, <4>1, <5>2
      <4>. QED
        BY Zenon, <4>2, <4>3, <4>4
    <3>. QED
      BY Zenon, <3>2, <3>3
  <2>5. ASSUME NEW n \in TurnedOn(gs, "secondary-gie") PROVE SlotOf(gs, n) \in Slots(MaxGies)
    <3>1. /\ cfg.ngie = Many(gs, "secondary-gie") /\ cfg.ngie \in 0 .. MaxGies
          /\ MaxGies \in Nat
      <4>1. MaxGies \in Nat
        BY ConfigAssumption
      <4>. QED
        BY Zenon, <2>2, <2>3, <4>1 DEF Taken, Counts
    <3>2. SlotOf(gs, n) \in Nat /\ SlotOf(gs, n) < Many(gs, "secondary-gie")
      BY Zenon, <2>2, <2>5, SlotIsTaken
    <3>. QED
      BY <3>1, <3>2 DEF Slots
  <2>6. Placed(gs, "secondary-gie", cfg'.gie, cfg.global)
    BY Zenon, <2>3, <2>4, <2>5 DEF Taken, Placed
  <2>7. ASSUME read.list = <<>>
        PROVE  /\ Placed(gs, "source", cfg'.src, cfg.global)
               /\ \A n \in TurnedOn(gs, "source") :
                    SlotOf(gs, n) \in Nat /\ SlotOf(gs, n) < cfg'.nsrc
    <3>1. \A n \in TurnedOn(gs, "source") :
            SlotOf(gs, n) \in Nat /\ SlotOf(gs, n) < Many(gs, "source")
      BY Zenon, <2>2, SlotIsTaken
    <3>. QED
      BY Zenon, <2>3, <2>4, <2>7, <3>1 DEF Taken
  <2>8. Placed(gs, "sink", cfg'.sink, cfg.global)
    BY Zenon, <2>3, <2>4 DEF Taken
  <2>9. PartsPlaced(gs, cfg')
    BY Zenon, <2>3, <2>4 DEF PartsPlaced, PartGpu
  <2>10. Shown(read', cfg')
    BY Zenon, <2>1, <2>4, <2>6, <2>7, <2>8, <2>9 DEF Shown
  <2>. QED
    BY <2>1, <2>10 DEF GpuAt
<1>. QED
  BY Zenon, <1>1, <1>2

LEMMA GpuExpand ==
  ASSUME FilesType, ParserTypes, GpuAt, ExpandSource
  PROVE  GpuAt'
<1>1. CASE stage' = "failed"
  BY <1>1, GpuOver
<1>2. CASE ~(stage' = "failed")
  <2>1. stage = "expand" /\ stage' = "expand" /\ read' = read
    BY Zenon, <1>2 DEF ExpandSource, Fail
  <2>2. Shown(read, cfg) /\ Counts(cfg) /\ next \in Nat
    BY <2>1 DEF GpuAt, ParserTypes
  <2>3. CASE cfg' = cfg
    BY <2>1, <2>2, <2>3 DEF GpuAt
  <2>4. CASE ~(cfg' = cfg)
    <3> DEFINE gs == read.groups
    <3>1. /\ Rest(cfg, cfg', {"nsrc", "src"}) /\ cfg'.nsrc \in cfg.nsrc .. MaxSources
          /\ \A i \in Slots(MaxSources) :
               \/ i # next /\ i < cfg.nsrc /\ cfg'.src[i] = cfg.src[i]
               \/ i >= cfg.nsrc /\ cfg'.src[i] = cfg.src[i]
               \/ i = next /\ ExpandedFrom(cfg.src[i], cfg'.src[i])
               \/ i >= cfg.nsrc /\ ExpandedFrom(cfg.src[next], cfg'.src[i])
      BY Zenon, <2>2, <2>4, ExpandWrites
    <3>2. cfg.nsrc \in 0 .. MaxSources /\ DOMAIN cfg = DOMAIN EmptyConfig
      BY Zenon, <2>2 DEF Counts
    <3>3. /\ cfg'.global = cfg.global /\ cfg'.gie = cfg.gie /\ cfg'.sink = cfg.sink
          /\ cfg'.mux = cfg.mux /\ cfg'.part = cfg.part
      BY <3>1, <3>2, FieldsOfConfig DEF Rest
    <3>4. ASSUME NEW i \in Nat, i < cfg.nsrc
          PROVE  i < cfg'.nsrc /\ cfg'.src[i].gpu = cfg.src[i].gpu
      <4>1. i \in Slots(MaxSources) /\ ~(i >= cfg.nsrc) /\ i < cfg'.nsrc
        BY <3>1, <3>2, <3>4, ConfigAssumption DEF Slots
      <4>. QED
        BY Zenon, <3>1, <4>1 DEF ExpandedFrom
    <3>5. ASSUME read.list = <<>>
          PROVE  /\ Placed(gs, "source", cfg'.src, cfg'.global)
                 /\ \A n \in TurnedOn(gs, "source") :
                      SlotOf(gs, n) \in Nat /\ SlotOf(gs, n) < cfg'.nsrc
      BY Zenon, <2>2, <3>3, <3>4, <3>5 DEF Shown, Placed
    <3>6. PartsPlaced(gs, cfg')
      BY Zenon, <2>2, <3>3 DEF Shown, PartsPlaced, PartGpu
    <3>7. Shown(read', cfg')
      BY Zenon, <2>1, <2>2, <3>3, <3>5, <3>6 DEF Shown
    <3>. QED
      BY <2>1, <3>7 DEF GpuAt
  <2>. QED
    BY Zenon, <2>3, <2>4
<1>. QED
  BY Zenon, <1>1, <1>2

LEMMA GpuAccept ==
  ASSUME FilesType, GpuInv, AcceptFile
  PROVE  GpuInv'
<1> DEFINE f == [read |-> read, cfg |-> cfg]
<1>1. f.read = read /\ f.cfg = cfg
  OBVIOUS
<1> HIDE DEF f
<1>2. /\ stage = "expand" /\ parsed' = Append(parsed, f)
      /\ \/ stage' = "app" /\ cfg' = EmptyConfig /\ read' = NothingRead
         \/ stage' = "done"
  BY Zenon DEF AcceptFile, f
<1>3. Shown(f.read, f.cfg)
  <2>1. Shown(read, cfg)
    BY <1>2 DEF GpuInv, GpuAt
  <2>. QED
    BY Zenon, <1>1, <2>1
<1>4. \A n \in 1 .. Len(parsed') : Shown(parsed'[n].read, parsed'[n].cfg)
  <2>1. PICK S : parsed \in Seq(S)
    BY Zenon DEF FilesType
  <2>2. /\ Len(Append(parsed, f)) = Len(parsed) + 1 /\ Len(parsed) \in Nat
        /\ Append(parsed, f)[Len(parsed) + 1] = f
        /\ \A n \in 1 .. Len(parsed) : Append(parsed, f)[n] = parsed[n]
    BY <2>1, AppendFacts
  <2>3. \A n : n \in 1 .. Len(parsed) + 1 <=> n \in 1 .. Len(parsed) \/ n = Len(parsed) + 1
    BY <2>2
  <2>. QED
    BY Zenon, <1>2, <1>3, <2>2, <2>3 DEF GpuInv
<1>5. GpuAt'
  <2>1. CASE stage' = "done"
    BY <2>1, GpuOver
  <2>2. CASE stage' = "app" /\ cfg' = EmptyConfig /\ read' = NothingRead
    BY <2>2 DEF GpuAt
  <2>. QED
    BY Zenon, <1>2, <2>1, <2>2
<1>. QED
  BY Zenon, <1>4, <1>5 DEF GpuInv

LEMMA GpuInit == BuildInit => GpuInv
<1> SUFFICES ASSUME BuildInit PROVE GpuInv
  OBVIOUS
<1>1. stage = "app" /\ cfg = EmptyConfig /\ read = NothingRead /\ parsed = <<>>
  BY Zenon DEF BuildInit, Init
<1>2. GpuAt
  BY <1>1 DEF GpuAt
<1>3. 1 .. Len(parsed) = {}
  BY <1>1
<1>. QED
  BY Zenon, <1>2, <1>3 DEF GpuInv

LEMMA GpuNext ==
  BuildInv /\ FilesType /\ ParserTypes /\ GpuInv /\ [BuildNext]_buildVars => GpuInv'
<1> SUFFICES ASSUME BuildInv, FilesType, ParserTypes, GpuInv, [BuildNext]_buildVars
             PROVE  GpuInv'
  OBVIOUS
<1>1. GpuAt /\ \A n \in 1 .. Len(parsed) : Shown(parsed[n].read, parsed[n].cfg)
  BY Zenon DEF GpuInv
<1>2. CASE AcceptFile
  BY Zenon, <1>2, GpuAccept
<1>3. CASE ~AcceptFile
  <2>1. parsed' = parsed
    BY Zenon, <1>3, BuildSteps DEF QuietStep, ReadStep
  <2>2. GpuAt'
    <3>1. CASE Parse
      <4>1. ASSUME NEW g, ParseApp(g) PROVE GpuAt'
        BY Zenon, <1>1, <4>1, GpuApp
      <4>2. ASSUME NEW l, ParseSourceList(l) PROVE GpuAt'
        BY Zenon, <1>1, <4>2, GpuList
      <4>3. ASSUME NEW g, ParseAttrAll(g) PROVE GpuAt'
        BY Zenon, <1>1, <4>3, GpuAttr
      <4>. QED
        BY Zenon, <1>1, <1>3, <3>1, <4>1, <4>2, <4>3, GpuNone, GpuGroups, GpuEnd, GpuExpand
           DEF Parse, Next
    <3>2. CASE stage = "done" /\ stage' = stage
      BY Zenon, <3>2, GpuOver
    <3>3. CASE UNCHANGED <<stage, cfg, read, family>>
      BY Zenon, <1>1, <3>3 DEF GpuAt
    <3>4. step # "idle" => stage = "done"
      BY Zenon DEF BuildInv, Where
    <3>5. CASE \/ CreatePipeline \/ ElementFails \/ BuildSources \/ DemuxDone
               \/ BuildExample \/ BuildTee \/ LinkBroker \/ LinkSources
               \/ DestroyPipeline
      BY Zenon, <3>3, <3>5 DEF CreatePipeline, ElementFails, BuildSources, DemuxDone,
         BuildExample, BuildTee, LinkBroker, LinkSources, DestroyPipeline, vars
    <3>6. CASE BuildMultiSource \/ BuildTiled \/ BuildDemuxed \/ BuildCommon
      <4>1. step # "idle" /\ stage' = stage
        BY Zenon, <3>6 DEF BuildMultiSource, BuildTiled, BuildDemuxed, BuildCommon, vars
      <4>. QED
        BY Zenon, <3>2, <3>4, <4>1
    <3>7. CASE UNCHANGED buildVars
      BY Zenon, <3>3, <3>7 DEF buildVars, vars
    <3>. QED
      BY Zenon, <3>1, <3>5, <3>6, <3>7 DEF BuildNext
  <2>. QED
    BY Zenon, <1>1, <2>1, <2>2 DEF GpuInv
<1>. QED
  BY Zenon, <1>2, <1>3

(* Every component of an accepted file that is on runs on the GPU its own  *)
(* group names, else on that of [application], else on GPU 0, whatever     *)
(* disabled groups of its kind were read before it (parse_config_file      *)
(* writes the GPU of [application] to the slot before the group's own).    *)
THEOREM GpuAsAsked == BuildSpec => []GpuPrecedence
<1>1. GpuInv => GpuPrecedence
  BY Zenon, GpuInvIsEnough DEF GpuInv
<1>2. BuildInit => BuildInv /\ FilesType /\ NumbersInv /\ ParserTypes /\ BuildTypes /\ GpuInv
  BY Zenon, BuildInvInit, NumbersInit, TypesInit, GpuInit
<1>3. BuildInv /\ FilesType /\ NumbersInv /\ ParserTypes /\ BuildTypes /\ GpuInv
          /\ [BuildNext]_buildVars
        => (BuildInv /\ FilesType /\ NumbersInv /\ ParserTypes /\ BuildTypes /\ GpuInv)'
  BY Zenon, BuildInvNext, NumbersNext, BuildTypesNext, GpuNext
<1>. QED
  BY <1>1, <1>2, <1>3, PTL DEF BuildSpec

-----------------------------------------------------------------------------
(* The sources a file describes.  The enabled groups of a kind fill the    *)
(* first slots, in their order.                                            *)
LEMMA SlotsInOrder ==
  ASSUME NEW S, NEW gs \in Seq(S), NEW kind
  PROVE  /\ \A i \in 0 .. Many(gs, kind) - 1 : \E n \in TurnedOn(gs, kind) : SlotOf(gs, n) = i
         /\ \A n \in TurnedOn(gs, kind) : SlotOf(gs, n) \in 0 .. Many(gs, kind) - 1
         /\ \A m, n \in TurnedOn(gs, kind) : SlotOf(gs, m) = SlotOf(gs, n) => m = n
         /\ \A m, n \in TurnedOn(gs, kind) : SlotOf(gs, m) < SlotOf(gs, n) => m < n
         /\ \A m, n \in TurnedOn(gs, kind) : m < n => SlotOf(gs, m) < SlotOf(gs, n)
<1> DEFINE T == TurnedOn(gs, kind)
<1>1. T \in SUBSET Nat /\ IsFiniteSet(T)
  <2>1. T \in SUBSET Nat
    BY DEF TurnedOn
  <2>. QED
    BY Zenon, <2>1, SlotIsTaken
<1>2. \A n \in T : SlotOf(gs, n) = Cardinality(Below(T, n))
  BY Zenon DEF SlotOf, TurnedOn, Below
<1> HIDE DEF T
<1>3. /\ Cardinality(T) \in Nat
      /\ \A r \in 0 .. Cardinality(T) - 1 : \E k \in T : Cardinality(Below(T, k)) = r
      /\ \A k \in T : Cardinality(Below(T, k)) \in 0 .. Cardinality(T) - 1
      /\ \A j, k \in T : Cardinality(Below(T, j)) = Cardinality(Below(T, k)) => j = k
      /\ \A j, k \in T : j < k => Cardinality(Below(T, j)) < Cardinality(Below(T, k))
  BY Zenon, <1>1, Ranks
<1>4. ASSUME NEW m \in T, NEW n \in T, Cardinality(Below(T, m)) < Cardinality(Below(T, n))
      PROVE  m < n
  <2>1. m \in Nat /\ n \in Nat
    BY <1>1
  <2>2. Cardinality(Below(T, m)) \in Nat /\ Cardinality(Below(T, n)) \in Nat
    BY <1>3
  <2>3. ~(n < m)
    BY <1>3, <1>4, <2>2
  <2>4. m # n
    BY <1>4, <2>2
  <2>. QED
    BY <2>1, <2>3, <2>4
<1>5. \A r \in 0 .. Cardinality(T) - 1 : \E k \in T : SlotOf(gs, k) = r
  BY Zenon, <1>2, <1>3
<1>6. /\ \A n \in T : SlotOf(gs, n) \in 0 .. Cardinality(T) - 1
      /\ \A m, n \in T : SlotOf(gs, m) = SlotOf(gs, n) => m = n
  BY Zenon, <1>2, <1>3
<1>7. \A m, n \in T : m < n => SlotOf(gs, m) < SlotOf(gs, n)
  BY <1>2, <1>3
<1>9. ASSUME NEW m \in T, NEW n \in T, SlotOf(gs, m) < SlotOf(gs, n)
      PROVE  m < n
  BY <1>2, <1>4, <1>9
<1>8. Many(gs, kind) = Cardinality(T)
  BY Zenon DEF Many, T
<1>. QED
  BY <1>5, <1>6, <1>7, <1>8, <1>9 DEF T

(* The further uris of the groups in the slots before k.                   *)
Sized(gs) == \A n \in SourcesOn(gs) : UrisOf(gs[n]) \in Nat \ {0}
Further(gs, k) == {v \in SourcesAsked(gs) : v[2] > 0 /\ SlotOf(gs, v[1]) < k}
Row(n, m) == {<<n, i>> : i \in 1 .. m}

LEMMA RowSize ==
  ASSUME NEW n, NEW m \in Nat
  PROVE  IsFiniteSet(Row(n, m)) /\ Cardinality(Row(n, m)) = m
<1> DEFINE f == [i \in 1 .. m |-> <<n, i>>]
<1>1. IsFiniteSet(1 .. m) /\ Cardinality(1 .. m) = m
  <2>1. 1 \in Int /\ m \in Int /\ (IF 1 > m THEN 0 ELSE m - 1 + 1) = m
    OBVIOUS
  <2>2. /\ IsFiniteSet(1 .. m)
        /\ Cardinality(1 .. m) = IF 1 > m THEN 0 ELSE m - 1 + 1
    BY Zenon, <2>1, FS_Interval
  <2>. QED
    BY <2>1, <2>2
<1>2. f \in Bijection(1 .. m, Row(n, m))
  <2>1. \A i \in 1 .. m : f[i] = <<n, i>>
    OBVIOUS
  <2>2. f \in [1 .. m -> Row(n, m)]
    BY DEF Row
  <2>3. \A i, j \in 1 .. m : f[i] = f[j] => i = j
    BY <2>1
  <2>4. \A t \in Row(n, m) : \E i \in 1 .. m : f[i] = t
    BY <2>1 DEF Row
  <2> HIDE DEF f
  <2>. QED
    BY Zenon, <2>2, <2>3, <2>4, Fun_IsBij
<1>3. ExistsBijection(1 .. m, Row(n, m))
  BY Zenon, <1>2 DEF ExistsBijection
<1>. QED
  BY Zenon, <1>1, <1>3, FS_Bijection

LEMMA AskedFacts ==
  ASSUME NEW gs
  PROVE  /\ \A w \in SourcesAsked(gs) :
              /\ w[1] \in SourcesOn(gs) /\ w[2] \in Slots(UrisOf(gs[w[1]]))
              /\ w = <<w[1], w[2]>>
         /\ \A n \in SourcesOn(gs) : \A j \in Slots(UrisOf(gs[n])) :
              <<n, j>> \in SourcesAsked(gs) /\ <<n, j>>[1] = n /\ <<n, j>>[2] = j
<1>1. ASSUME NEW w \in SourcesAsked(gs)
      PROVE  /\ w[1] \in SourcesOn(gs) /\ w[2] \in Slots(UrisOf(gs[w[1]]))
             /\ w = <<w[1], w[2]>>
  <2>1. PICK n \in SourcesOn(gs) : w \in {<<n, j>> : j \in Slots(UrisOf(gs[n]))}
    BY Zenon, <1>1 DEF SourcesAsked
  <2>2. PICK j \in Slots(UrisOf(gs[n])) : w = <<n, j>>
    BY Zenon, <2>1
  <2>3. w[1] = n /\ w[2] = j
    BY <2>2
  <2>. QED
    BY Zenon, <2>2, <2>3
<1>2. ASSUME NEW n \in SourcesOn(gs), NEW j \in Slots(UrisOf(gs[n]))
      PROVE  <<n, j>> \in SourcesAsked(gs)
  <2>1. <<n, j>> \in {<<n, i>> : i \in Slots(UrisOf(gs[n]))}
    BY Zenon
  <2>. QED
    BY Zenon, <2>1 DEF SourcesAsked
<1>3. \A n, j : <<n, j>>[1] = n /\ <<n, j>>[2] = j
  OBVIOUS
<1>. QED
  BY Zenon, <1>1, <1>2, <1>3

LEMMA FurtherEnds ==
  ASSUME NEW S, NEW gs \in Seq(S), Sized(gs)
  PROVE  /\ Further(gs, 0) = {}
         /\ \A n \in SourcesOn(gs) :
              Further(gs, SlotOf(gs, n) + 1) =
                Further(gs, SlotOf(gs, n)) \cup Row(n, UrisOf(gs[n]) - 1)
         /\ \A k \in Nat : k >= Many(gs, "source") => Further(gs, k + 1) = Further(gs, k)
<1> DEFINE T == SourcesOn(gs)
<1>0. Many(gs, "source") \in Nat
  BY Zenon, SlotIsTaken
<1>1. /\ \A n \in T : SlotOf(gs, n) \in 0 .. Many(gs, "source") - 1
      /\ \A m, n \in T : SlotOf(gs, m) = SlotOf(gs, n) => m = n
  BY Zenon, SlotsInOrder DEF SourcesOn
<1>2. /\ \A w \in SourcesAsked(gs) :
           w[1] \in T /\ w[2] \in Slots(UrisOf(gs[w[1]])) /\ w = <<w[1], w[2]>>
      /\ \A n \in T : \A j \in Slots(UrisOf(gs[n])) : <<n, j>> \in SourcesAsked(gs)
                           /\ <<n, j>>[1] = n /\ <<n, j>>[2] = j
  BY Zenon, AskedFacts
<1>3. \A n \in T : UrisOf(gs[n]) \in Nat \ {0}
  BY Zenon DEF Sized
<1> HIDE DEF T
<1>4. Further(gs, 0) = {}
  <2>1. \A n \in T : ~(SlotOf(gs, n) < 0)
    BY <1>0, <1>1
  <2>. QED
    BY Zenon, <1>2, <2>1 DEF Further
<1>5. ASSUME NEW n \in T
      PROVE  Further(gs, SlotOf(gs, n) + 1) =
               Further(gs, SlotOf(gs, n)) \cup Row(n, UrisOf(gs[n]) - 1)
  <2> DEFINE k == SlotOf(gs, n)
  <2>1. \A m \in T : SlotOf(gs, m) < k + 1 <=> SlotOf(gs, m) < k \/ m = n
    BY <1>0, <1>1, <1>5
  <2>2. \A j : j \in Slots(UrisOf(gs[n])) /\ j > 0 <=> j \in 1 .. UrisOf(gs[n]) - 1
    BY <1>3, <1>5 DEF Slots
  <2> HIDE DEF k
  <2>3. ASSUME NEW v \in Further(gs, k + 1)
        PROVE  v \in Further(gs, k) \cup Row(n, UrisOf(gs[n]) - 1)
    <3>1. v \in SourcesAsked(gs) /\ v[2] > 0 /\ SlotOf(gs, v[1]) < k + 1
      BY Zenon, <2>3 DEF Further
    <3>2. v[1] \in T /\ v[2] \in Slots(UrisOf(gs[v[1]])) /\ v = <<v[1], v[2]>>
      BY Zenon, <1>2, <3>1
    <3>3. CASE SlotOf(gs, v[1]) < k
      BY Zenon, <3>1, <3>3 DEF Further
    <3>4. CASE v[1] = n
      <4>1. v = <<n, v[2]>> /\ v[2] \in 1 .. UrisOf(gs[n]) - 1
        BY Zenon, <2>2, <3>1, <3>2, <3>4
      <4>. QED
        BY Zenon, <4>1 DEF Row
    <3>. QED
      BY Zenon, <2>1, <3>1, <3>2, <3>3, <3>4
  <2>4. ASSUME NEW v \in Row(n, UrisOf(gs[n]) - 1) PROVE v \in Further(gs, k + 1)
    <3>1. PICK j \in 1 .. UrisOf(gs[n]) - 1 : v = <<n, j>>
      BY Zenon, <2>4 DEF Row
    <3>2. j \in Slots(UrisOf(gs[n])) /\ j > 0
      BY Zenon, <2>2, <3>1
    <3>. QED
      BY Zenon, <1>2, <1>5, <2>1, <3>1, <3>2 DEF Further
  <2>5. ASSUME NEW v \in Further(gs, k) PROVE v \in Further(gs, k + 1)
    BY Zenon, <1>2, <2>1, <2>5 DEF Further
  <2>. QED
    BY Zenon, <2>3, <2>4, <2>5 DEF k
<1>6. ASSUME NEW k \in Nat, k >= Many(gs, "source") PROVE Further(gs, k + 1) = Further(gs, k)
  <2>1. \A n \in T : SlotOf(gs, n) < k + 1 /\ SlotOf(gs, n) < k
    BY <1>0, <1>1, <1>6
  <2>. QED
    BY Zenon, <1>2, <2>1 DEF Further
<1>. QED
  BY Zenon, <1>4, <1>5, <1>6 DEF T

LEMMA JoinSize ==
  ASSUME NEW A, NEW B, IsFiniteSet(A), IsFiniteSet(B), A \cap B = {}
  PROVE  /\ IsFiniteSet(A \cup B)
         /\ Cardinality(A \cup B) = Cardinality(A) + Cardinality(B)
         /\ Cardinality(A) \in Nat /\ Cardinality(B) \in Nat
<1>1. /\ IsFiniteSet(A \cup B)
      /\ Cardinality(A \cup B) = Cardinality(A) + Cardinality(B) - Cardinality(A \cap B)
  BY Zenon, FS_Union
<1>2. Cardinality(A \cap B) = 0
  BY Zenon, FS_EmptySet
<1>3. Cardinality(A) \in Nat /\ Cardinality(B) \in Nat
  BY Zenon, FS_CardinalityType
<1>. QED
  BY <1>1, <1>2, <1>3

(* How many further uris there are before a slot, and the place of each.   *)
LEMMA FurtherGrows ==
  ASSUME NEW S, NEW gs \in Seq(S), Sized(gs)
  PROVE  /\ \A k \in Nat : IsFiniteSet(Further(gs, k)) /\ Cardinality(Further(gs, k)) \in Nat
         /\ Cardinality(Further(gs, 0)) = 0
         /\ \A n \in SourcesOn(gs) : \A m \in Nat :
              Cardinality(Further(gs, SlotOf(gs, n)) \cup Row(n, m)) =
                Cardinality(Further(gs, SlotOf(gs, n))) + m
         /\ \A n \in SourcesOn(gs) :
              Cardinality(Further(gs, SlotOf(gs, n) + 1)) =
                Cardinality(Further(gs, SlotOf(gs, n))) + UrisOf(gs[n]) - 1
<1> DEFINE T == SourcesOn(gs)
           n0 == Many(gs, "source")
           F(k) == Further(gs, k)
<1>0. n0 \in Nat
  BY Zenon, SlotIsTaken
<1>1. /\ \A n \in T : SlotOf(gs, n) \in 0 .. n0 - 1
      /\ \A i \in 0 .. n0 - 1 : \E n \in T : SlotOf(gs, n) = i
  BY Zenon, SlotsInOrder DEF SourcesOn
<1>2. \A n \in T : UrisOf(gs[n]) \in Nat \ {0}
  BY Zenon DEF Sized
<1>3. /\ F(0) = {}
      /\ \A n \in T : F(SlotOf(gs, n) + 1) = F(SlotOf(gs, n)) \cup Row(n, UrisOf(gs[n]) - 1)
      /\ \A k \in Nat : k >= n0 => F(k + 1) = F(k)
  BY Zenon, FurtherEnds
<1>4. ASSUME NEW n \in T, NEW m PROVE F(SlotOf(gs, n)) \cap Row(n, m) = {}
  <2>1. ~(SlotOf(gs, n) < SlotOf(gs, n))
    BY <1>0, <1>1
  <2>2. \A v \in Row(n, m) : v[1] = n
    BY DEF Row
  <2>. QED
    BY Zenon, <2>1, <2>2 DEF Further
<1> HIDE DEF T, F, n0
<1>5. Nat = {k \in Nat : IsFiniteSet(F(k))}
  <2> DEFINE G == {k \in Nat : IsFiniteSet(F(k))}
  <2>1. 0 \in G
    BY Zenon, <1>3, FS_EmptySet
  <2>2. ASSUME NEW k \in G PROVE k + 1 \in G
    <3>1. k \in Nat /\ IsFiniteSet(F(k)) /\ k + 1 \in Nat
      BY <2>2
    <3>2. CASE k >= n0
      BY Zenon, <1>3, <3>1, <3>2
    <3>3. CASE k < n0
      <4>1. PICK n \in T : SlotOf(gs, n) = k
        BY <1>0, <1>1, <3>1, <3>3
      <4>2. UrisOf(gs[n]) - 1 \in Nat
        BY <1>2, <4>1
      <4>3. IsFiniteSet(Row(n, UrisOf(gs[n]) - 1))
        BY Zenon, <4>2, RowSize
      <4>4. IsFiniteSet(F(k) \cup Row(n, UrisOf(gs[n]) - 1))
        BY Zenon, <3>1, <4>3, FS_Union
      <4>. QED
        BY Zenon, <1>3, <3>1, <4>1, <4>4
    <3>. QED
      BY <1>0, <3>1, <3>2, <3>3
  <2>3. G \in SUBSET Nat
    BY Zenon
  <2> HIDE DEF G
  <2>4. G = Nat
    BY Zenon, <2>1, <2>2, <2>3, AllNumbers
  <2>. QED
    BY Zenon, <2>4 DEF G
<1>6. \A k \in Nat : IsFiniteSet(F(k))
  BY Zenon, <1>5
<1>7. \A k \in Nat : Cardinality(F(k)) \in Nat
  BY Zenon, <1>6, FS_CardinalityType
<1>8. Cardinality(F(0)) = 0
  BY Zenon, <1>3, FS_EmptySet
<1>9. ASSUME NEW n \in T, NEW m \in Nat
      PROVE  Cardinality(F(SlotOf(gs, n)) \cup Row(n, m)) = Cardinality(F(SlotOf(gs, n))) + m
  <2>1. SlotOf(gs, n) \in Nat
    BY <1>0, <1>1
  <2>2. IsFiniteSet(F(SlotOf(gs, n)))
    BY Zenon, <1>6, <2>1
  <2>3. IsFiniteSet(Row(n, m)) /\ Cardinality(Row(n, m)) = m
    BY Zenon, RowSize
  <2>4. Cardinality(F(SlotOf(gs, n)) \cup Row(n, m)) =
          Cardinality(F(SlotOf(gs, n))) + Cardinality(Row(n, m))
    BY Zenon, <1>4, <2>2, <2>3, JoinSize
  <2>. QED
    BY Zenon, <2>3, <2>4
<1>10. ASSUME NEW n \in T
       PROVE  Cardinality(F(SlotOf(gs, n) + 1)) = Cardinality(F(SlotOf(gs, n))) + UrisOf(gs[n]) - 1
  <2>1. UrisOf(gs[n]) - 1 \in Nat /\ UrisOf(gs[n]) \in Nat /\ SlotOf(gs, n) \in Nat
    BY <1>0, <1>1, <1>2
  <2>2. Cardinality(F(SlotOf(gs, n) + 1)) = Cardinality(F(SlotOf(gs, n))) + (UrisOf(gs[n]) - 1)
    BY Zenon, <1>3, <1>9, <2>1
  <2>3. Cardinality(F(SlotOf(gs, n))) \in Nat
    BY Zenon, <1>7, <2>1
  <2>. QED
    BY <2>1, <2>2, <2>3
<1>. QED
  BY Zenon, <1>6, <1>7, <1>8, <1>9, <1>10 DEF T, F

LEMMA FurtherIn ==
  ASSUME NEW S, NEW gs \in Seq(S), Sized(gs), NEW j \in Nat, NEW k \in Nat, j <= k
  PROVE  Cardinality(Further(gs, j)) <= Cardinality(Further(gs, k))
<1>1. \A n \in SourcesOn(gs) : SlotOf(gs, n) \in 0 .. Many(gs, "source") - 1
  BY Zenon, SlotsInOrder DEF SourcesOn
<1>2. \A n \in SourcesOn(gs) : SlotOf(gs, n) < j => SlotOf(gs, n) < k
  <2>1. Many(gs, "source") \in Nat
    BY Zenon, SlotIsTaken
  <2>. QED
    BY <1>1, <2>1
<1>3. Further(gs, j) \in SUBSET Further(gs, k)
  <2>1. \A v \in SourcesAsked(gs) : v[1] \in SourcesOn(gs)
    BY Zenon, AskedFacts
  <2>. QED
    BY Zenon, <1>2, <2>1 DEF Further
<1>4. IsFiniteSet(Further(gs, k))
  BY Zenon, FurtherGrows
<1>. QED
  BY Zenon, <1>3, <1>4, FS_Subset

(* All the sources: the first of each group, then the further uris.        *)
LEMMA AskedSize ==
  ASSUME NEW S, NEW gs \in Seq(S), Sized(gs)
  PROVE  /\ IsFiniteSet(SourcesAsked(gs)) /\ Cardinality(SourcesAsked(gs)) \in Nat
         /\ \A k \in Nat : k >= Many(gs, "source") =>
              Cardinality(SourcesAsked(gs)) = Many(gs, "source") + Cardinality(Further(gs, k))
<1> DEFINE T == SourcesOn(gs)
           n0 == Many(gs, "source")
           OnePerGroup == {<<n, 0>> : n \in T}
           f == [n \in T |-> <<n, 0>>]
<1>0. n0 \in Nat /\ n0 = Cardinality(T) /\ IsFiniteSet(T)
  BY Zenon, SlotIsTaken DEF Many, SourcesOn
<1>1. /\ \A n \in T : SlotOf(gs, n) \in 0 .. n0 - 1
      /\ \A n \in T : UrisOf(gs[n]) \in Nat \ {0}
  BY Zenon, SlotsInOrder DEF SourcesOn, Sized
<1>2. /\ \A w \in SourcesAsked(gs) :
           w[1] \in T /\ w[2] \in Slots(UrisOf(gs[w[1]])) /\ w = <<w[1], w[2]>>
      /\ \A n \in T : \A j \in Slots(UrisOf(gs[n])) : <<n, j>> \in SourcesAsked(gs)
                           /\ <<n, j>>[1] = n /\ <<n, j>>[2] = j
  BY Zenon, AskedFacts
<1>3. IsFiniteSet(OnePerGroup) /\ Cardinality(OnePerGroup) = n0
  <2>1. \A n \in T : f[n] = <<n, 0>>
    OBVIOUS
  <2>2. f \in [T -> OnePerGroup]
    BY Zenon
  <2>3. \A m, n \in T : f[m] = f[n] => m = n
    BY <2>1
  <2>4. \A t \in OnePerGroup : \E n \in T : f[n] = t
    BY <2>1
  <2> HIDE DEF f
  <2>5. f \in Bijection(T, OnePerGroup)
    <3> HIDE DEF OnePerGroup, T
    <3>. QED
      BY Zenon, <2>2, <2>3, <2>4, Fun_IsBij
  <2>6. ExistsBijection(T, OnePerGroup)
    BY Zenon, <2>5 DEF ExistsBijection
  <2> HIDE DEF T, OnePerGroup, n0
  <2>. QED
    BY Zenon, <1>0, <2>6, FS_Bijection
<1>4. ASSUME NEW k \in Nat, k >= n0
      PROVE  SourcesAsked(gs) = OnePerGroup \cup Further(gs, k) /\ OnePerGroup \cap Further(gs, k) = {}
  <2>1. \A n \in T : SlotOf(gs, n) < k
    BY <1>0, <1>1, <1>4
  <2>2. \A n \in T : 0 \in Slots(UrisOf(gs[n])) /\ \A j \in Slots(UrisOf(gs[n])) : j > 0 \/ j = 0
    BY <1>1 DEF Slots
  <2>3. ~(0 > 0)
    OBVIOUS
  <2> HIDE DEF T
  <2>4. \A n \in T : <<n, 0>> \in SourcesAsked(gs) /\ <<n, 0>>[2] = 0
    BY Zenon, <1>2, <2>2
  <2>5. ASSUME NEW w \in SourcesAsked(gs) PROVE w \in OnePerGroup \/ w \in Further(gs, k)
    <3>1. w[1] \in T /\ w = <<w[1], w[2]>> /\ (w[2] > 0 \/ w[2] = 0)
      BY Zenon, <1>2, <2>2, <2>5
    <3>2. CASE w[2] > 0
      BY Zenon, <2>1, <2>5, <3>1, <3>2 DEF Further
    <3>3. CASE w[2] = 0
      <4>1. w = <<w[1], 0>>
        BY Zenon, <3>1, <3>3
      <4>. QED
        BY Zenon, <3>1, <4>1
    <3>. QED
      BY Zenon, <3>1, <3>2, <3>3
  <2>6. \A w \in OnePerGroup : w \in SourcesAsked(gs) /\ w[2] = 0
    BY Zenon, <2>4
  <2>7. \A w \in Further(gs, k) : w \in SourcesAsked(gs) /\ w[2] > 0
    BY Zenon DEF Further
  <2> HIDE DEF OnePerGroup
  <2>. QED
    BY Zenon, <2>3, <2>5, <2>6, <2>7
<1>5. ASSUME NEW k \in Nat, k >= n0
      PROVE  /\ IsFiniteSet(SourcesAsked(gs))
             /\ Cardinality(SourcesAsked(gs)) = n0 + Cardinality(Further(gs, k))
  <2>1. IsFiniteSet(Further(gs, k))
    BY Zenon, FurtherGrows
  <2> HIDE DEF OnePerGroup
  <2>2. /\ IsFiniteSet(OnePerGroup \cup Further(gs, k))
        /\ Cardinality(OnePerGroup \cup Further(gs, k)) = Cardinality(OnePerGroup) + Cardinality(Further(gs, k))
    BY Zenon, <1>3, <1>4, <1>5, <2>1, JoinSize
  <2>. QED
    BY Zenon, <1>3, <1>4, <1>5, <2>2
<1>6. IsFiniteSet(SourcesAsked(gs))
  <2>1. n0 >= n0
    BY <1>0
  <2>. QED
    BY Zenon, <1>0, <1>5, <2>1
<1>7. Cardinality(SourcesAsked(gs)) \in Nat
  BY Zenon, <1>6, FS_CardinalityType
<1>. QED
  BY Zenon, <1>5, <1>6, <1>7

LEMMA PlacesOf ==
  ASSUME NEW S, NEW gs \in Seq(S), Sized(gs), NEW n \in SourcesOn(gs)
  PROVE  /\ PlaceOf(gs, <<n, 0>>) = SlotOf(gs, n)
         /\ \A j \in 1 .. UrisOf(gs[n]) - 1 :
              PlaceOf(gs, <<n, j>>) =
                Many(gs, "source") + Cardinality(Further(gs, SlotOf(gs, n))) + j - 1
<1> DEFINE T == SourcesOn(gs)
<1>1. PlaceOf(gs, <<n, 0>>) = SlotOf(gs, n)
  <2>1. <<n, 0>>[1] = n /\ <<n, 0>>[2] = 0
    OBVIOUS
  <2>. QED
    BY Zenon, <2>1 DEF PlaceOf
<1>2. /\ \A i \in T : SlotOf(gs, i) < SlotOf(gs, n) => i < n
      /\ \A i \in T : i < n => SlotOf(gs, i) < SlotOf(gs, n)
  BY Zenon, SlotsInOrder DEF SourcesOn
<1>3. /\ \A w \in SourcesAsked(gs) :
           w[1] \in T /\ w[2] \in Slots(UrisOf(gs[w[1]])) /\ w = <<w[1], w[2]>>
      /\ \A i \in T : \A j \in Slots(UrisOf(gs[i])) : <<i, j>> \in SourcesAsked(gs)
                           /\ <<i, j>>[1] = i /\ <<i, j>>[2] = j
  BY Zenon, AskedFacts
<1>4. UrisOf(gs[n]) \in Nat \ {0}
  BY Zenon DEF Sized
<1> HIDE DEF T
<1>5. ASSUME NEW j \in 1 .. UrisOf(gs[n]) - 1
      PROVE  PlaceOf(gs, <<n, j>>) =
               Many(gs, "source") + Cardinality(Further(gs, SlotOf(gs, n))) + j - 1
  <2> DEFINE A == FurtherBefore(gs, <<n, j>>)
             B == Further(gs, SlotOf(gs, n)) \cup Row(n, j - 1)
  <2>1. \A v : v \in A <=> v \in SourcesAsked(gs) /\ v[2] > 0 /\ (v[1] < n \/ (v[1] = n /\ v[2] < j))
    <3>1. <<n, j>>[1] = n /\ <<n, j>>[2] = j
      OBVIOUS
    <3>. QED
      BY Zenon, <3>1 DEF FurtherBefore
  <2>2. /\ \A i : i \in Slots(UrisOf(gs[n])) /\ i > 0 /\ i < j => i \in 1 .. j - 1
        /\ \A i \in 1 .. j - 1 : i \in Slots(UrisOf(gs[n])) /\ i > 0 /\ i < j
    BY <1>4, <1>5 DEF Slots
  <2> HIDE DEF A
  <2>3. ASSUME NEW v \in A PROVE v \in B
    <3>1. /\ v \in SourcesAsked(gs) /\ v[2] > 0 /\ (v[1] < n \/ (v[1] = n /\ v[2] < j))
          /\ v[1] \in T /\ v[2] \in Slots(UrisOf(gs[v[1]])) /\ v = <<v[1], v[2]>>
      BY Zenon, <1>3, <2>1, <2>3
    <3>2. CASE v[1] < n
      BY Zenon, <1>2, <3>1, <3>2 DEF Further
    <3>3. CASE v[1] = n /\ v[2] < j
      <4>1. v = <<n, v[2]>> /\ v[2] \in 1 .. j - 1
        BY Zenon, <2>2, <3>1, <3>3
      <4>. QED
        BY Zenon, <4>1 DEF Row
    <3>. QED
      BY Zenon, <3>1, <3>2, <3>3
  <2>4. ASSUME NEW v \in Row(n, j - 1) PROVE v \in A
    <3>1. PICK i \in 1 .. j - 1 : v = <<n, i>>
      BY Zenon, <2>4 DEF Row
    <3>. QED
      BY Zenon, <1>3, <2>1, <2>2, <3>1 DEF T
  <2>5. ASSUME NEW v \in Further(gs, SlotOf(gs, n)) PROVE v \in A
    <3>1. v \in SourcesAsked(gs) /\ v[2] > 0 /\ SlotOf(gs, v[1]) < SlotOf(gs, n)
      BY Zenon, <2>5 DEF Further
    <3>. QED
      BY Zenon, <1>2, <1>3, <2>1, <3>1
  <2>6. A = B
    BY Zenon, <2>3, <2>4, <2>5
  <2>7. j - 1 \in Nat /\ j > 0 /\ j # 0 /\ j \in Nat
    BY <1>4
  <2>8. Cardinality(B) = Cardinality(Further(gs, SlotOf(gs, n))) + (j - 1)
    BY Zenon, <2>7, FurtherGrows
  <2>9. PlaceOf(gs, <<n, j>>) = Cardinality(T) + Cardinality(A)
    <3>1. <<n, j>>[2] = j
      OBVIOUS
    <3>. QED
      BY Zenon, <2>7, <3>1 DEF PlaceOf, A, T
  <2>10. Cardinality(T) = Many(gs, "source") /\ Many(gs, "source") \in Nat
    BY Zenon, SlotIsTaken DEF Many, SourcesOn, T
  <2>11. Cardinality(Further(gs, SlotOf(gs, n))) \in Nat
    <3>1. SlotOf(gs, n) \in Nat
      BY Zenon, SlotIsTaken DEF SourcesOn
    <3>. QED
      BY Zenon, <3>1, FurtherGrows
  <2> HIDE DEF B
  <2>. QED
    BY <2>6, <2>7, <2>8, <2>9, <2>10, <2>11
<1>. QED
  BY Zenon, <1>1, <1>5

-----------------------------------------------------------------------------
(* A source as its group describes it, before its uris are spread; and a   *)
(* slot no enabled group was parsed into.                                  *)
OwnUri(g) == IF "uri" \in DOMAIN g.keys THEN <<g.keys.uri>> ELSE <<>>
AsGroup(s, g) ==
  /\ s.id = Get(g, "camera-id", g.index)
  /\ s.attempts = Get(g, "rtsp-reconnect-attempts", -1)
  /\ s.latency = Get(g, "latency", 100)
Raw(s, g) ==
  /\ DOMAIN s = DOMAIN NoSource /\ s.type = Get(g, "type", 0) /\ AsGroup(s, g)
  /\ s.uri = OwnUri(g)
  /\ UrisOf(g) \in Nat \ {0} /\ Copies(s) = UrisOf(g) - 1
Untouched(s) ==
  DOMAIN s = DOMAIN NoSource /\ \A key \in DOMAIN NoSource \ {"gpu"} : s[key] = NoSource[key]

Ready(gs, c) ==
  /\ c.nsrc = Many(gs, "source") /\ DOMAIN c.src = Slots(MaxSources)
  /\ \A n \in SourcesOn(gs) : Raw(c.src[SlotOf(gs, n)], gs[n])
  /\ \A i \in Slots(MaxSources) : i >= c.nsrc => Untouched(c.src[i])

LEMMA SourceParsed ==
  ASSUME NEW f \in Families, NEW g \in f.groups, NEW c, Untouched(c), NEW gpu
  PROVE  LET s == ParsedSource([c EXCEPT !.gpu = gpu], g) IN
         /\ Off(g) => Untouched(s)
         /\ ~Off(g) /\ ~SourceKeysRefused(g) => Raw(s, g)
<1> DEFINE b == [c EXCEPT !.gpu = gpu]
           s == ParsedSource(b, g)
<1>1. /\ DOMAIN NoSource = {"enable", "type", "id", "gpu", "num", "attempts", "latency",
                            "uri", "device"}
      /\ NoSource.type = 0 /\ NoSource.num = 0 /\ NoSource.uri = <<>>
  BY DEF NoSource
<1>2. DOMAIN c = DOMAIN NoSource /\ \A key \in DOMAIN NoSource \ {"gpu"} : c[key] = NoSource[key]
  BY Zenon DEF Untouched
<1>3. DOMAIN b = DOMAIN NoSource /\ \A key \in DOMAIN NoSource \ {"gpu"} : b[key] = NoSource[key]
  BY Zenon, <1>2
<1> HIDE DEF b
<1>4. Off(g) => Untouched(s)
  BY Zenon, <1>3 DEF ParsedSource, Untouched
<1>5. ASSUME ~Off(g), ~SourceKeysRefused(g) PROVE Raw(s, g)
  <2> DEFINE d == [b EXCEPT !.id = g.index, !.attempts = -1]
             n == IF "num-sources" \in DOMAIN g.keys
                  THEN NumSources(g.keys["num-sources"]) ELSE 0
  <2>1. s = SourceKeys(d, g)
    BY Zenon, <1>5 DEF ParsedSource
  <2>2. /\ DOMAIN d = DOMAIN NoSource /\ d.id = g.index /\ d.attempts = -1
        /\ d.type = 0 /\ d.num = 0 /\ d.uri = <<>>
    BY <1>1, <1>3
  <2> HIDE DEF d
  <2>3. DOMAIN SourceKeys(d, g) = DOMAIN d
    BY Zenon DEF SourceKeys
  <2>4. /\ SourceKeys(d, g).type = Get(g, "type", d.type)
        /\ SourceKeys(d, g).id = Get(g, "camera-id", d.id)
        /\ SourceKeys(d, g).attempts = Get(g, "rtsp-reconnect-attempts", d.attempts)
        /\ SourceKeys(d, g).latency = Get(g, "latency", 100)
        /\ SourceKeys(d, g).uri = IF "uri" \in DOMAIN g.keys THEN <<g.keys.uri>> ELSE d.uri
        /\ SourceKeys(d, g).num = n
    BY <1>1, <2>2 DEF SourceKeys
  <2>5. /\ DOMAIN s = DOMAIN NoSource /\ s.type = Get(g, "type", 0) /\ AsGroup(s, g)
        /\ s.uri = OwnUri(g)
        /\ s.num = n
    BY Zenon, <2>1, <2>2, <2>3, <2>4 DEF AsGroup, OwnUri
  <2>6. ASSUME "num-sources" \in DOMAIN g.keys
        PROVE  NumSources(g.keys["num-sources"]) \in Nat \ {0}
    <3>1. g.keys["num-sources"] # Bad
      BY Zenon, <1>5, <2>6 DEF SourceKeysRefused, Unreadable
    <3>2. Get(g, "num-sources", 0) \in Int \cup {Bad}
      BY Zenon, NumSourcesAssumption
    <3>3. g.keys["num-sources"] \in Int
      BY Zenon, <2>6, <3>1, <3>2 DEF Get
    <3>. QED
      BY Zenon, <3>3, NumSourcesType
  <2> HIDE DEF s
  <2>7. UrisOf(g) \in Nat \ {0} /\ Copies(s) = UrisOf(g) - 1
    <3> DEFINE many == s.type = SourceMultiple
               u    == NumSources(g.keys["num-sources"])
    <3>1. /\ UrisOf(g) = IF many /\ "num-sources" \in DOMAIN g.keys THEN u ELSE 1
          /\ Copies(s) = IF many /\ s.num > 1 THEN s.num - 1 ELSE 0
          /\ "num-sources" \in DOMAIN g.keys => s.num = u /\ u \in Nat \ {0}
          /\ "num-sources" \notin DOMAIN g.keys => s.num = 0
      BY Zenon, <2>5, <2>6 DEF UrisOf, Copies
    <3> HIDE DEF many, u
    <3>. QED
      BY <3>1
  <2>. QED
    BY Zenon, <2>5, <2>7 DEF Raw
<1> HIDE DEF s
<1>. QED
  BY Zenon, <1>4, <1>5 DEF s, b

LEMMA ReadyOther ==
  ASSUME NEW S, NEW gs \in Seq(S), NEW g, g.kind # "source", NEW c, NEW d, Ready(gs, c),
         d.src = c.src, d.nsrc = c.nsrc
  PROVE  Ready(Append(gs, g), d)
<1>1. SlotsGrow(gs, g, "source")
  BY Zenon, SlotsAppend
<1>2. /\ SourcesOn(Append(gs, g)) = SourcesOn(gs)
      /\ Many(Append(gs, g), "source") = Many(gs, "source")
      /\ \A n \in SourcesOn(gs) :
           Append(gs, g)[n] = gs[n] /\ SlotOf(Append(gs, g), n) = SlotOf(gs, n)
  BY Zenon, <1>1 DEF SlotsGrow, SourcesOn, Many
<1>. QED
  BY Zenon, <1>2 DEF Ready

LEMMA ReadyNext ==
  ASSUME NEW S, NEW gs \in Seq(S), NEW g, g.kind = "source", NEW c, NEW d, Ready(gs, c),
         c.nsrc < MaxSources, NEW x,
         Off(g) => Untouched(x), ~Off(g) => Raw(x, g),
         d.src = [c.src EXCEPT ![c.nsrc] = x],
         d.nsrc = IF Off(g) THEN c.nsrc ELSE c.nsrc + 1
  PROVE  Ready(Append(gs, g), d)
<1> DEFINE t == Append(gs, g)
           n == c.nsrc
<1>1. /\ n = Many(gs, "source") /\ DOMAIN c.src = Slots(MaxSources)
      /\ \A m \in SourcesOn(gs) : Raw(c.src[SlotOf(gs, m)], gs[m])
      /\ \A i \in Slots(MaxSources) : i >= n => Untouched(c.src[i])
  BY Zenon DEF Ready
<1>2. /\ n \in Nat
      /\ \A m \in SourcesOn(gs) : SlotOf(gs, m) \in Nat /\ SlotOf(gs, m) < n
  <2>1. /\ Many(gs, "source") \in Nat
        /\ \A m \in SourcesOn(gs) :
             SlotOf(gs, m) \in Nat /\ SlotOf(gs, m) < Many(gs, "source")
    BY Zenon, SlotIsTaken DEF SourcesOn
  <2>. QED
    BY Zenon, <1>1, <2>1
<1>3. n \in Slots(MaxSources) /\ \A i \in Nat : i < n => i # n /\ i \in Slots(MaxSources)
  <2>1. MaxSources \in Nat
    BY ConfigAssumption
  <2>. QED
    BY <1>2, <2>1 DEF Slots
<1>4. \A m \in SourcesOn(gs) : SlotOf(gs, m) \in Slots(MaxSources) /\ SlotOf(gs, m) # n
  BY Zenon, <1>2, <1>3
<1>5. /\ DOMAIN d.src = Slots(MaxSources)
      /\ \A i \in Slots(MaxSources) : d.src[i] = IF i = n THEN x ELSE c.src[i]
  BY Zenon, <1>1
<1>6. /\ \A m \in SourcesOn(gs) : t[m] = gs[m] /\ SlotOf(t, m) = SlotOf(gs, m)
      /\ ~Off(g) =>
           /\ Many(t, "source") = n + 1
           /\ \A m \in SourcesOn(t) : m \in SourcesOn(gs) \/ (t[m] = g /\ SlotOf(t, m) = n)
      /\ Off(g) => SourcesOn(t) = SourcesOn(gs) /\ Many(t, "source") = n
  <2>1. SlotsGrow(gs, g, "source")
    BY Zenon, SlotsAppend
  <2>. QED
    BY Zenon, <1>1, <2>1 DEF SlotsGrow, SourcesOn, Many
<1> HIDE DEF t
<1>7. ASSUME NEW m \in SourcesOn(t) PROVE Raw(d.src[SlotOf(t, m)], t[m])
  <2>1. CASE m \in SourcesOn(gs)
    <3>1. d.src[SlotOf(gs, m)] = c.src[SlotOf(gs, m)]
      BY Zenon, <1>3, <1>4, <1>5, <2>1
    <3>. QED
      BY Zenon, <1>1, <1>6, <2>1, <3>1
  <2>2. CASE m \notin SourcesOn(gs)
    <3>1. ~Off(g) /\ t[m] = g /\ SlotOf(t, m) = n
      BY Zenon, <1>6, <1>7, <2>2
    <3>2. d.src[n] = x
      BY Zenon, <1>3, <1>5
    <3>. QED
      BY Zenon, <3>1, <3>2
  <2>. QED
    BY Zenon, <2>1, <2>2
<1>8. \A i \in Slots(MaxSources) : i >= n + 1 => i # n /\ i >= n
  BY <1>2 DEF Slots
<1>9. CASE Off(g)
  BY Zenon, <1>1, <1>5, <1>6, <1>7, <1>9 DEF Ready, t
<1>10. CASE ~Off(g)
  BY Zenon, <1>1, <1>5, <1>6, <1>7, <1>8, <1>10 DEF Ready, t
<1>. QED
  BY Zenon, <1>9, <1>10

(* A source as it is once the uris are spread: uri j of the group g, where *)
(* f is the first of the group.                                            *)
AsAsked(s, g, j, f) ==
  /\ AsGroup(s, g)
  /\ s.type = IF Get(g, "type", 0) = SourceMultiple THEN SourceUri ELSE Get(g, "type", 0)
  /\ s.uri = IF Get(g, "type", 0) = SourceMultiple THEN Append(OwnUri(g), j) ELSE OwnUri(g)
  /\ j > 0 => s = [f EXCEPT !.uri = s.uri]
Placing(gs, src, w) ==
  AsAsked(src[PlaceOf(gs, w)], gs[w[1]], w[2], src[SlotOf(gs, w[1])])

(* The loop over the sources has come to slot k.                           *)
Expanded(gs, c, k) ==
  /\ Sized(gs)
  /\ c.nsrc = Many(gs, "source") + Cardinality(Further(gs, k))
  /\ \A n \in SourcesOn(gs) : SlotOf(gs, n) >= k => Raw(c.src[SlotOf(gs, n)], gs[n])
  /\ \A w \in SourcesAsked(gs) : SlotOf(gs, w[1]) < k => Placing(gs, c.src, w)
  /\ \A i \in Slots(MaxSources) :
       i >= Many(gs, "source") /\ i < c.nsrc => c.src[i].type = SourceUri

SourcesMatch(gs, c) ==
  /\ c.nsrc = Cardinality(SourcesAsked(gs))
  /\ \A w \in SourcesAsked(gs) : Placing(gs, c.src, w)

LEMMA ExpandedStart ==
  ASSUME NEW S, NEW gs \in Seq(S), NEW c, NEW d, Ready(gs, c), d.src = c.src, d.nsrc = c.nsrc
  PROVE  Expanded(gs, d, 0)
<1>1. /\ c.nsrc = Many(gs, "source")
      /\ \A n \in SourcesOn(gs) : Raw(c.src[SlotOf(gs, n)], gs[n])
  BY Zenon DEF Ready
<1>2. Sized(gs)
  BY Zenon, <1>1 DEF Sized, Raw
<1>3. Cardinality(Further(gs, 0)) = 0
  BY Zenon, <1>2, FurtherGrows
<1>4. Many(gs, "source") \in Nat
  BY Zenon, SlotIsTaken
<1>5. \A n \in SourcesOn(gs) : ~(SlotOf(gs, n) < 0)
  <2>1. \A n \in SourcesOn(gs) : SlotOf(gs, n) \in Nat
    BY Zenon, SlotIsTaken DEF SourcesOn
  <2>. QED
    BY <2>1
<1>6. \A w \in SourcesAsked(gs) : w[1] \in SourcesOn(gs)
  BY Zenon, AskedFacts
<1>7. d.nsrc = Many(gs, "source") + Cardinality(Further(gs, 0))
  BY <1>1, <1>3, <1>4
<1>8. \A i \in Slots(MaxSources) : ~(i >= Many(gs, "source") /\ i < d.nsrc)
  BY <1>1, <1>4 DEF Slots
<1>. QED
  BY Zenon, <1>1, <1>2, <1>5, <1>6, <1>7, <1>8 DEF Expanded

LEMMA ExpandedEnd ==
  ASSUME NEW S, NEW gs \in Seq(S), NEW c, Expanded(gs, c, c.nsrc), c.nsrc \in Nat
  PROVE  SourcesMatch(gs, c)
<1>1. /\ Sized(gs) /\ c.nsrc = Many(gs, "source") + Cardinality(Further(gs, c.nsrc))
      /\ \A w \in SourcesAsked(gs) : SlotOf(gs, w[1]) < c.nsrc => Placing(gs, c.src, w)
  BY Zenon DEF Expanded
<1>2. Many(gs, "source") \in Nat
  BY Zenon, SlotIsTaken
<1>3. Cardinality(Further(gs, c.nsrc)) \in Nat
  BY Zenon, <1>1, FurtherGrows
<1>4. c.nsrc >= Many(gs, "source")
  BY <1>1, <1>2, <1>3
<1>5. c.nsrc = Cardinality(SourcesAsked(gs))
  BY Zenon, <1>1, <1>4, AskedSize
<1>6. \A n \in SourcesOn(gs) : SlotOf(gs, n) < c.nsrc
  <2>1. \A n \in SourcesOn(gs) : SlotOf(gs, n) \in Nat /\ SlotOf(gs, n) < Many(gs, "source")
    BY Zenon, SlotIsTaken DEF SourcesOn
  <2>. QED
    BY <1>2, <1>4, <2>1
<1>7. \A w \in SourcesAsked(gs) : w[1] \in SourcesOn(gs)
  BY Zenon, AskedFacts
<1>. QED
  BY Zenon, <1>1, <1>5, <1>6, <1>7 DEF SourcesMatch

(* One turn of the loop.                                                   *)
FirstOf(s) ==
  [[s EXCEPT !.type = SourceUri, !.uri = Append(@, 0)] EXCEPT !.num = IF @ < 1 THEN 1 ELSE @]
CopyOf(s, j) == [s EXCEPT !.type = SourceUri, !.uri = Append(@, j)]
Spread(c, d, k) ==
  LET s == c.src[k] IN
  \/ s.type # SourceMultiple /\ d = c
  \/ /\ s.type = SourceMultiple /\ d.nsrc = c.nsrc + Copies(s)
     /\ \A i \in Slots(MaxSources) :
          d.src[i] =
            IF i = k THEN FirstOf(s)
            ELSE IF i \in c.nsrc .. c.nsrc + Copies(s) - 1 THEN CopyOf(s, i - c.nsrc + 1)
                 ELSE c.src[i]

LEMMA SpreadFirst ==
  ASSUME NEW s, NEW g, Raw(s, g), s.type = SourceMultiple, s.num \in Int
  PROVE  /\ AsAsked(FirstOf(s), g, 0, FirstOf(s))
         /\ \A j \in 1 .. UrisOf(g) - 1 :
              AsAsked(CopyOf(s, j), g, j, FirstOf(s)) /\ CopyOf(s, j).type = SourceUri
<1> DEFINE f == FirstOf(s)
           o == [s EXCEPT !.type = SourceUri, !.uri = Append(@, 0)]
<1>1. /\ DOMAIN s = DOMAIN NoSource /\ s.type = Get(g, "type", 0) /\ s.uri = OwnUri(g)
      /\ s.id = Get(g, "camera-id", g.index)
      /\ s.attempts = Get(g, "rtsp-reconnect-attempts", -1)
      /\ s.latency = Get(g, "latency", 100)
      /\ UrisOf(g) \in Nat \ {0} /\ Copies(s) = UrisOf(g) - 1
  BY Zenon DEF Raw, AsGroup
<1>2. {"type", "uri", "num", "id", "attempts", "latency"} \subseteq DOMAIN s
  BY <1>1 DEF NoSource
<1>3. /\ DOMAIN o = DOMAIN s /\ o.type = SourceUri /\ o.uri = Append(s.uri, 0)
      /\ \A key \in DOMAIN s : key \notin {"type", "uri"} => o[key] = s[key]
  BY <1>2
<1>4. /\ f = [o EXCEPT !.num = IF @ < 1 THEN 1 ELSE @]
  BY Zenon DEF FirstOf
<1> HIDE DEF o, f
<1>5. /\ DOMAIN f = DOMAIN s /\ f.type = SourceUri /\ f.uri = Append(s.uri, 0)
      /\ f.id = s.id /\ f.attempts = s.attempts /\ f.latency = s.latency
  BY <1>2, <1>3, <1>4
<1>6. AsAsked(f, g, 0, f)
  <2>1. ~(0 > 0)
    OBVIOUS
  <2>. QED
    BY Zenon, <1>1, <1>5, <2>1 DEF AsAsked, AsGroup
<1>7. ASSUME NEW j \in 1 .. UrisOf(g) - 1, NEW t,
             t = [s EXCEPT !.type = SourceUri, !.uri = Append(@, j)]
      PROVE  AsAsked(t, g, j, f) /\ t.type = SourceUri
  <2>1. /\ DOMAIN t = DOMAIN s /\ t.type = SourceUri /\ t.uri = Append(s.uri, j)
        /\ \A key \in DOMAIN s : key \notin {"type", "uri"} => t[key] = s[key]
    BY <1>2, <1>7
  <2>2. t.id = s.id /\ t.attempts = s.attempts /\ t.latency = s.latency
    BY <1>2, <2>1
  <2>3. s.num > 1 /\ s.num = Copies(s) + 1
    BY <1>1, <1>7 DEF Copies
  <2>4. (IF o.num < 1 THEN 1 ELSE o.num) = s.num
    BY <1>1, <1>2, <1>3, <2>3
  <2>5. t = [f EXCEPT !.uri = t.uri]
    <3> DEFINE u == t.uri
               r == [f EXCEPT !.uri = u]
    <3>1. t = [key \in DOMAIN s |->
                 IF key = "uri" THEN u ELSE IF key = "type" THEN SourceUri ELSE s[key]]
      BY <1>2, <1>7, <2>1
    <3>2. DOMAIN r = DOMAIN s /\ r = [key \in DOMAIN s |-> r[key]]
      BY <1>5
    <3>3. ASSUME NEW key \in DOMAIN s
          PROVE  r[key] = IF key = "uri" THEN u ELSE IF key = "type" THEN SourceUri ELSE s[key]
      <4>1. f[key] = IF key = "num" THEN s.num ELSE o[key]
        BY <1>3, <1>4, <2>4, <3>3
      <4>2. r[key] = IF key = "uri" THEN u ELSE f[key]
        BY <1>5, <3>3
      <4>. QED
        BY <1>3, <3>3, <4>1, <4>2
    <3> HIDE DEF u, r
    <3>4. r = [key \in DOMAIN s |->
                 IF key = "uri" THEN u ELSE IF key = "type" THEN SourceUri ELSE s[key]]
      BY <3>2, <3>3
    <3>. QED
      BY Zenon, <3>1, <3>4 DEF u, r
  <2>. QED
    BY Zenon, <1>1, <2>1, <2>2, <2>5 DEF AsAsked, AsGroup
<1>. QED
  BY Zenon, <1>6, <1>7 DEF CopyOf, f

LEMMA ExpandedStep ==
  ASSUME NEW S, NEW gs \in Seq(S), NEW c, NEW d, NEW k \in Nat, Expanded(gs, c, k),
         Counts(c), k < c.nsrc, c.nsrc + Copies(c.src[k]) <= MaxSources, Spread(c, d, k)
  PROVE  Expanded(gs, d, k + 1)
<1> DEFINE T == SourcesOn(gs)
           n0 == Many(gs, "source")
           F(i) == Cardinality(Further(gs, i))
           s == c.src[k]
<1>1. /\ Sized(gs) /\ c.nsrc = n0 + F(k)
      /\ \A n \in T : SlotOf(gs, n) >= k => Raw(c.src[SlotOf(gs, n)], gs[n])
      /\ \A w \in SourcesAsked(gs) : SlotOf(gs, w[1]) < k => Placing(gs, c.src, w)
      /\ \A i \in Slots(MaxSources) : i >= n0 /\ i < c.nsrc => c.src[i].type = SourceUri
  BY Zenon DEF Expanded
<1>2. MaxSources \in Nat /\ n0 \in Nat /\ F(k) \in Nat /\ F(k + 1) \in Nat /\ c.nsrc \in Nat
  <2>1. MaxSources \in Nat /\ k + 1 \in Nat
    BY ConfigAssumption
  <2>2. n0 \in Nat
    BY Zenon, SlotIsTaken
  <2>3. \A i \in Nat : F(i) \in Nat
    BY Zenon, <1>1, FurtherGrows
  <2>4. c.nsrc \in 0 .. MaxSources
    BY Zenon DEF Counts
  <2> HIDE DEF F, n0
  <2>5. c.nsrc \in Nat
    BY <2>1, <2>4
  <2>. QED
    BY Zenon, <2>1, <2>2, <2>3, <2>5
<1>3. /\ \A i \in 0 .. n0 - 1 : \E n \in T : SlotOf(gs, n) = i
      /\ \A n \in T : SlotOf(gs, n) \in 0 .. n0 - 1
      /\ \A m, n \in T : SlotOf(gs, m) = SlotOf(gs, n) => m = n
  BY Zenon, SlotsInOrder DEF SourcesOn
<1>4. \A w \in SourcesAsked(gs) :
        w[1] \in T /\ w[2] \in Slots(UrisOf(gs[w[1]])) /\ w = <<w[1], w[2]>>
  BY Zenon, AskedFacts
<1>5. c.nsrc <= MaxSources /\ \A i \in Slots(MaxSources) : c.src[i].num \in Int
  BY <1>2 DEF Counts
<1>6. k \in Slots(MaxSources)
  BY <1>2, <1>5 DEF Slots
<1> HIDE DEF T, n0, F
<1>7. CASE k >= n0
  <2>1. s.type = SourceUri
    BY Zenon, <1>1, <1>6, <1>7
  <2>2. d = c
    BY <2>1 DEF Spread, SourceUri, SourceMultiple
  <2>3. Further(gs, k + 1) = Further(gs, k)
    BY Zenon, <1>1, <1>7, FurtherEnds DEF n0
  <2>4. /\ \A n \in T : ~(SlotOf(gs, n) >= k + 1)
        /\ \A n \in T : SlotOf(gs, n) < k
    BY <1>2, <1>3, <1>7
  <2>. QED
    BY Zenon, <1>1, <1>4, <2>2, <2>3, <2>4 DEF Expanded, T, n0, F
<1>8. CASE k < n0
  <2>1. PICK n \in T : SlotOf(gs, n) = k
    BY <1>2, <1>3, <1>8
  <2> DEFINE g == gs[n]
             x == UrisOf(g)
  <2>2. Raw(s, g)
    <3>1. k >= k
      OBVIOUS
    <3>. QED
      BY Zenon, <1>1, <2>1, <3>1
  <2>3. s.type = Get(g, "type", 0) /\ AsGroup(s, g) /\ s.uri = OwnUri(g)
        /\ x \in Nat \ {0} /\ Copies(s) = x - 1
    BY Zenon, <2>2 DEF Raw
  <2>4. F(k + 1) = F(k) + x - 1
    BY Zenon, <1>1, <2>1, FurtherGrows DEF F, T
  <2>5. \A m \in T : SlotOf(gs, m) < k + 1 => SlotOf(gs, m) < k \/ m = n
    BY <1>2, <1>3, <2>1
  <2>6. /\ PlaceOf(gs, <<n, 0>>) = k
        /\ \A j \in 1 .. x - 1 : PlaceOf(gs, <<n, j>>) = c.nsrc + j - 1
    <3>1. /\ PlaceOf(gs, <<n, 0>>) = SlotOf(gs, n)
          /\ \A j \in 1 .. x - 1 : PlaceOf(gs, <<n, j>>) = n0 + F(SlotOf(gs, n)) + j - 1
      BY Zenon, <1>1, PlacesOf DEF T, n0, F
    <3>. QED
      BY Zenon, <1>1, <2>1, <3>1
  <2>7. \A m \in T : SlotOf(gs, m) >= k + 1 =>
          /\ SlotOf(gs, m) >= k /\ SlotOf(gs, m) # k /\ SlotOf(gs, m) < c.nsrc
          /\ SlotOf(gs, m) \in Slots(MaxSources)
    BY <1>1, <1>2, <1>3, <1>5 DEF Slots
  <2> HIDE DEF g, x
  <2>8. CASE s.type # SourceMultiple
    <3>1. d = c
      BY Zenon, <2>8 DEF Spread
    <3>2. x = 1
      <4>1. ~(s.type = SourceMultiple /\ s.num > 1)
        BY Zenon, <2>8
      <4>2. Copies(s) = 0
        BY Zenon, <4>1 DEF Copies
      <4>. QED
        BY <2>3, <4>2
    <3>3. d.nsrc = n0 + F(k + 1)
      BY <1>1, <1>2, <2>4, <3>1, <3>2
    <3>4. ASSUME NEW w \in SourcesAsked(gs), SlotOf(gs, w[1]) < k + 1
          PROVE  Placing(gs, d.src, w)
      <4>1. CASE SlotOf(gs, w[1]) < k
        BY Zenon, <1>1, <3>1, <3>4, <4>1
      <4>2. CASE w[1] = n
        <5>1. w[2] \in Slots(x) /\ w = <<n, w[2]>>
          BY Zenon, <1>4, <3>4, <4>2 DEF x, g
        <5>2. w[2] = 0 /\ ~(w[2] > 0)
          BY <3>2, <5>1 DEF Slots
        <5>3. PlaceOf(gs, w) = k
          BY Zenon, <2>6, <5>1, <5>2
        <5>4. AsAsked(s, g, w[2], d.src[SlotOf(gs, w[1])])
          BY Zenon, <2>3, <2>8, <5>2 DEF AsAsked
        <5>. QED
          BY Zenon, <3>1, <4>2, <5>3, <5>4 DEF Placing, g
      <4>. QED
        BY Zenon, <1>4, <2>5, <3>4, <4>1, <4>2
    <3>. QED
      BY Zenon, <1>1, <2>7, <3>1, <3>3, <3>4 DEF Expanded, T, n0, F
  <2>9. CASE s.type = SourceMultiple
    <3> DEFINE f == d.src[k]
    <3>1. /\ d.nsrc = c.nsrc + Copies(s)
          /\ \A i \in Slots(MaxSources) :
               d.src[i] =
                 IF i = k THEN FirstOf(s)
                 ELSE IF i \in c.nsrc .. c.nsrc + Copies(s) - 1
                      THEN CopyOf(s, i - c.nsrc + 1) ELSE c.src[i]
      BY Zenon, <2>9 DEF Spread
    <3>2. /\ AsAsked(f, g, 0, f)
          /\ \A j \in 1 .. x - 1 :
               AsAsked(CopyOf(s, j), g, j, f) /\ CopyOf(s, j).type = SourceUri
      <4>1. f = FirstOf(s)
        BY Zenon, <1>6, <3>1
      <4>2. s.num \in Int
        BY Zenon, <1>5, <1>6
      <4> HIDE DEF f, s
      <4>. QED
        BY Zenon, <2>2, <2>9, <4>1, <4>2, SpreadFirst DEF x
    <3> HIDE DEF s, f
    <3>3. d.nsrc = n0 + F(k + 1)
      <4>1. c.nsrc = n0 + F(k)
        BY Zenon, <1>1
      <4>. QED
        BY <1>2, <2>3, <2>4, <3>1, <4>1
    <3>4. ASSUME NEW i \in Slots(MaxSources), i < c.nsrc, i # k PROVE d.src[i] = c.src[i]
      <4>1. i \notin c.nsrc .. c.nsrc + Copies(s) - 1
        BY <1>2, <2>3, <3>4 DEF Slots
      <4>. QED
        BY Zenon, <3>1, <3>4, <4>1
    <3>5. ASSUME NEW j \in 1 .. x - 1
          PROVE  AsAsked(d.src[c.nsrc + j - 1], g, j, f) /\ d.src[c.nsrc + j - 1].type = SourceUri
      <4> DEFINE i == c.nsrc + j - 1
      <4>1. /\ i \in Slots(MaxSources) /\ i # k /\ i \in c.nsrc .. c.nsrc + Copies(s) - 1
            /\ i - c.nsrc + 1 = j /\ j > 0
        <5>1. c.nsrc + Copies(s) <= MaxSources
          BY Zenon DEF s
        <5>. QED
          BY <1>2, <2>3, <3>5, <5>1 DEF Slots
      <4> HIDE DEF i
      <4>2. d.src[i] = CopyOf(s, j)
        BY Zenon, <3>1, <4>1
      <4>3. AsAsked(d.src[i], g, j, f) /\ d.src[i].type = SourceUri
        BY Zenon, <3>2, <3>5, <4>1, <4>2
      <4>. QED
        BY Zenon, <4>3 DEF i
    <3>6. ASSUME NEW m \in T, SlotOf(gs, m) >= k + 1
          PROVE  Raw(d.src[SlotOf(gs, m)], gs[m])
      BY Zenon, <1>1, <2>7, <3>4, <3>6
    <3>7. ASSUME NEW i \in Slots(MaxSources), i >= n0, i < d.nsrc
          PROVE  d.src[i].type = SourceUri
      <4>1. CASE i < c.nsrc
        <5>1. i # k
          BY <1>2, <1>8, <3>7
        <5>. QED
          BY Zenon, <1>1, <3>4, <3>7, <4>1, <5>1
      <4>2. CASE i >= c.nsrc
        <5>1. /\ i - c.nsrc + 1 \in 1 .. x - 1
              /\ i = c.nsrc + (i - c.nsrc + 1) - 1
          <6>1. d.nsrc = c.nsrc + Copies(s) /\ i \in Nat
            BY <3>1, <3>7 DEF Slots
          <6>. QED
            BY <1>2, <2>3, <3>7, <4>2, <6>1
        <5>. QED
          BY Zenon, <3>5, <5>1
      <4>. QED
        BY <1>2, <3>7, <4>1, <4>2 DEF Slots
    <3>8. ASSUME NEW w \in SourcesAsked(gs), SlotOf(gs, w[1]) < k
          PROVE  /\ PlaceOf(gs, w) \in Slots(MaxSources)
                 /\ PlaceOf(gs, w) < c.nsrc /\ PlaceOf(gs, w) # k
                 /\ SlotOf(gs, w[1]) \in Slots(MaxSources)
                 /\ SlotOf(gs, w[1]) < c.nsrc /\ SlotOf(gs, w[1]) # k
      <4> DEFINE m == w[1]
                 y == UrisOf(gs[m])
      <4>1. m \in T /\ w[2] \in Slots(y) /\ w = <<m, w[2]>> /\ y \in Nat \ {0}
        BY Zenon, <1>1, <1>4, <3>8 DEF Sized, T
      <4>2. /\ PlaceOf(gs, <<m, 0>>) = SlotOf(gs, m)
            /\ \A j \in 1 .. y - 1 : PlaceOf(gs, <<m, j>>) = n0 + F(SlotOf(gs, m)) + j - 1
        BY Zenon, <1>1, <4>1, PlacesOf DEF T, n0, F
      <4>3. /\ F(SlotOf(gs, m) + 1) = F(SlotOf(gs, m)) + y - 1
            /\ \A i \in Nat : F(i) \in Nat
        BY Zenon, <1>1, <4>1, FurtherGrows DEF F, T
      <4>4. SlotOf(gs, m) \in Nat /\ SlotOf(gs, m) + 1 \in Nat /\ SlotOf(gs, m) + 1 <= k
            /\ SlotOf(gs, m) < n0
        BY <1>2, <1>3, <3>8, <4>1
      <4>5. F(SlotOf(gs, m) + 1) <= F(k)
        BY Zenon, <1>1, <4>4, FurtherIn DEF F
      <4>6. F(SlotOf(gs, m)) \in Nat
        BY Zenon, <4>3, <4>4
      <4>7. SlotOf(gs, m) \in Slots(MaxSources) /\ SlotOf(gs, m) < c.nsrc /\ SlotOf(gs, m) # k
        BY <1>1, <1>2, <1>5, <3>8, <4>4 DEF Slots
      <4> HIDE DEF m, y
      <4>8. CASE w[2] = 0
        <5>1. PlaceOf(gs, w) = SlotOf(gs, m)
          BY Zenon, <4>1, <4>2, <4>8
        <5>. QED
          BY Zenon, <4>7, <5>1 DEF m
      <4>9. CASE w[2] # 0
        <5>1. w[2] \in 1 .. y - 1
          BY <4>1, <4>9 DEF Slots
        <5>2. PlaceOf(gs, w) = n0 + F(SlotOf(gs, m)) + w[2] - 1
          BY Zenon, <4>1, <4>2, <5>1
        <5>3. /\ PlaceOf(gs, w) \in Slots(MaxSources)
              /\ PlaceOf(gs, w) < c.nsrc /\ PlaceOf(gs, w) # k
          <6>1. /\ c.nsrc = n0 + F(k) /\ c.nsrc <= MaxSources
                /\ F(SlotOf(gs, m) + 1) = F(SlotOf(gs, m)) + y - 1
            BY Zenon, <1>1, <1>5, <4>3
          <6>. QED
            BY <1>2, <1>8, <4>1, <4>5, <4>6, <5>1, <5>2, <6>1 DEF Slots
        <5>. QED
          BY Zenon, <4>7, <5>3 DEF m
      <4>. QED
        BY Zenon, <4>8, <4>9
    <3>9. ASSUME NEW w \in SourcesAsked(gs), SlotOf(gs, w[1]) < k + 1
          PROVE  Placing(gs, d.src, w)
      <4>1. CASE SlotOf(gs, w[1]) < k
        <5>1. /\ d.src[PlaceOf(gs, w)] = c.src[PlaceOf(gs, w)]
              /\ d.src[SlotOf(gs, w[1])] = c.src[SlotOf(gs, w[1])]
          BY Zenon, <3>4, <3>8, <3>9, <4>1
        <5>2. Placing(gs, c.src, w)
          BY Zenon, <1>1, <3>9, <4>1
        <5>. QED
          BY Zenon, <5>1, <5>2 DEF Placing
      <4>2. CASE w[1] = n
        <5>1. w[2] \in Slots(x) /\ w = <<n, w[2]>> /\ d.src[SlotOf(gs, w[1])] = f
          BY Zenon, <1>4, <2>1, <3>9, <4>2 DEF x, g, f
        <5>2. CASE w[2] = 0
          <6>1. PlaceOf(gs, w) = k
            BY Zenon, <2>6, <5>1, <5>2
          <6>. QED
            BY Zenon, <3>2, <4>2, <5>1, <5>2, <6>1 DEF Placing, f, g
        <5>3. CASE w[2] # 0
          <6>1. w[2] \in 1 .. x - 1
            BY <2>3, <5>1, <5>3 DEF Slots
          <6>2. PlaceOf(gs, w) = c.nsrc + w[2] - 1
            BY Zenon, <2>6, <5>1, <6>1
          <6>3. AsAsked(d.src[PlaceOf(gs, w)], g, w[2], f)
            BY Zenon, <3>5, <6>1, <6>2
          <6>. QED
            BY Zenon, <4>2, <5>1, <6>3 DEF Placing, g
        <5>. QED
          BY Zenon, <5>2, <5>3
      <4>. QED
        BY Zenon, <1>4, <2>5, <3>9, <4>1, <4>2
    <3>. QED
      BY Zenon, <1>1, <3>3, <3>6, <3>7, <3>9 DEF Expanded, T, n0, F
  <2>. QED
    BY Zenon, <2>8, <2>9
<1>. QED
  BY <1>2, <1>7, <1>8

(* What one turn writes, when it does not end the file.                    *)
LEMMA ExpandTurn ==
  ASSUME Counts(cfg), next \in Nat, ExpandSource
  PROVE  /\ stage = "expand" /\ next < cfg.nsrc /\ read' = read /\ family' = family
         /\ parsed' = parsed
         /\ \/ stage' = "failed" /\ cfg.nsrc + Copies(cfg.src[next]) > MaxSources
            \/ /\ stage' = "expand" /\ next' = next + 1 /\ Spread(cfg, cfg', next)
               /\ cfg.nsrc + Copies(cfg.src[next]) <= MaxSources
<1> DEFINE s == cfg.src[next]
           n == cfg.nsrc
           k == Copies(s)
           src == [i \in Slots(MaxSources) |->
                     IF i = next THEN FirstOf(s)
                     ELSE IF i \in n .. n + k - 1 THEN CopyOf(s, i - n + 1) ELSE cfg.src[i]]
<1>1. /\ stage = "expand" /\ next < cfg.nsrc /\ read' = read /\ family' = family
      /\ parsed' = parsed
  BY Zenon DEF ExpandSource, Fail
<1>2. n \in 0 .. MaxSources /\ MaxSources \in Nat /\ DOMAIN cfg = DOMAIN EmptyConfig
  BY ConfigAssumption DEF Counts
<1>3. next \in Slots(MaxSources)
  BY <1>1, <1>2 DEF Slots
<1>4. s.num \in Int
  BY Zenon, <1>3 DEF Counts
<1>5. k \in Int
  <2> HIDE DEF s
  <2>. QED
    BY <1>4 DEF Copies
<1>6. CASE TooManyCopies(s) /\ Fail
  BY Zenon, <1>1, <1>6 DEF TooManyCopies, Fail
<1>7. CASE ~(TooManyCopies(s) /\ Fail)
  <2>1. /\ ~TooManyCopies(s) /\ next' = next + 1 /\ stage' = stage
        /\ cfg' = IF s.type # SourceMultiple THEN cfg
                  ELSE [cfg EXCEPT
                    !.nsrc = @ + Copies(s),
                    !.src = [i \in Slots(MaxSources) |->
                      IF i = next
                      THEN [[s EXCEPT !.type = SourceUri, !.uri = Append(@, 0)] EXCEPT
                              !.num = IF @ < 1 THEN 1 ELSE @]
                      ELSE IF i \in cfg.nsrc .. cfg.nsrc + Copies(s) - 1
                           THEN [s EXCEPT !.type = SourceUri, !.uri = Append(@, i - cfg.nsrc + 1)]
                           ELSE @[i]]]
    BY Zenon, <1>7 DEF ExpandSource
  <2>2. "nsrc" \in DOMAIN cfg /\ "src" \in DOMAIN cfg
    BY <1>2, FieldsOfConfig
  <2>3. cfg' = IF s.type # SourceMultiple THEN cfg
               ELSE [cfg EXCEPT !.nsrc = n + k, !.src = src]
    BY <2>1, <2>2 DEF FirstOf, CopyOf
  <2>4. n + k <= MaxSources
    <3>1. ~(n + k > MaxSources)
      BY Zenon, <2>1 DEF TooManyCopies
    <3> HIDE DEF n, k
    <3>. QED
      BY <1>2, <1>5, <3>1
  <2>5. \A i \in Slots(MaxSources) :
          src[i] = IF i = next THEN FirstOf(s)
                   ELSE IF i \in n .. n + k - 1 THEN CopyOf(s, i - n + 1) ELSE cfg.src[i]
    BY Zenon
  <2> HIDE DEF src
  <2>6. s.type = SourceMultiple => cfg'.nsrc = n + k /\ cfg'.src = src
    <3> HIDE DEF s, k, n
    <3>. QED
      BY <2>2, <2>3
  <2>7. Spread(cfg, cfg', next)
    BY Zenon, <2>3, <2>5, <2>6 DEF Spread
  <2>. QED
    BY Zenon, <1>1, <2>1, <2>4, <2>7
<1>. QED
  BY Zenon, <1>6, <1>7

(* In every file without a source list the array of the sources follows    *)
(* what was read of it.                                                    *)
SourcesAt ==
  read.list = <<>> =>
    /\ stage \in {"list", "attr", "groups"} => Ready(read.groups, cfg)
    /\ stage = "expand" => Expanded(read.groups, cfg, next)
SourcesInv ==
  /\ SourcesAt
  /\ \A n \in 1 .. Len(parsed) :
       parsed[n].read.list = <<>> => SourcesMatch(parsed[n].read.groups, parsed[n].cfg)

LEMMA SourcesOver ==
  ASSUME stage' \in {"failed", "done", "app"}
  PROVE  SourcesAt'
<1>1. stage' \notin {"list", "attr", "groups", "expand"}
  OBVIOUS
<1>. QED
  BY <1>1 DEF SourcesAt

LEMMA NothingReady ==
  ASSUME NEW c, c.src = [i \in Slots(MaxSources) |-> NoSource], c.nsrc = 0
  PROVE  Ready(<<>>, c)
<1>1. SourcesOn(<<>>) = {} /\ TurnedOn(<<>>, "source") = {}
  BY DEF SourcesOn, TurnedOn
<1>2. Many(<<>>, "source") = 0
  BY Zenon, <1>1, FS_EmptySet DEF Many
<1>3. /\ DOMAIN c.src = Slots(MaxSources)
      /\ \A i \in Slots(MaxSources) : c.src[i] = NoSource
  BY Zenon
<1>4. Untouched(NoSource)
  BY Zenon DEF Untouched
<1>. QED
  BY Zenon, <1>1, <1>2, <1>3, <1>4 DEF Ready

LEMMA ReadyKept ==
  ASSUME NEW gs, NEW c, NEW d, Ready(gs, c), d.src = c.src, d.nsrc = c.nsrc
  PROVE  Ready(gs, d)
BY Zenon DEF Ready

LEMMA SourcesApp ==
  ASSUME GpuAt, NEW g, ParseApp(g)
  PROVE  SourcesAt'
<1>1. CASE stage' = "failed"
  BY Zenon, <1>1, SourcesOver
<1>2. CASE ~(stage' = "failed")
  <2> DEFINE global == Get(g, "gpu", -1)
  <2>1. /\ stage = "app" /\ stage' = "list" /\ read' = [read EXCEPT !.app = <<g>>]
        /\ cfg' = [cfg EXCEPT !.global = global]
    BY Zenon, <1>2 DEF ParseApp, Fail
  <2> HIDE DEF global
  <2>2. cfg = EmptyConfig /\ read = NothingRead
    BY <2>1 DEF GpuAt
  <2>3. read'.groups = <<>>
    BY <2>1, <2>2 DEF NothingRead
  <2>4. EmptyConfig.nsrc = 0 /\ EmptyConfig.src = [i \in Slots(MaxSources) |-> NoSource]
    BY DEF EmptyConfig
  <2>5. cfg'.nsrc = EmptyConfig.nsrc /\ cfg'.src = EmptyConfig.src
    BY <2>1, <2>2, FieldsOfConfig
  <2>6. Ready(<<>>, cfg')
    BY Zenon, <2>4, <2>5, NothingReady
  <2>. QED
    BY <2>1, <2>3, <2>6 DEF SourcesAt
<1>. QED
  BY Zenon, <1>1, <1>2

LEMMA SourcesList ==
  ASSUME FilesType, NEW l, ParseSourceList(l)
  PROVE  SourcesAt'
<1>1. CASE stage' = "failed"
  BY Zenon, <1>1, SourcesOver
<1>2. CASE ~(stage' = "failed")
  <2>1. read' = [read EXCEPT !.list = <<l>>]
    BY Zenon, <1>2 DEF ParseSourceList
  <2>2. DOMAIN read = {"app", "list", "attr", "groups"}
    BY Zenon DEF FilesType
  <2>3. read'.list = <<l>> /\ <<l>> # <<>>
    BY <2>1, <2>2
  <2>. QED
    BY Zenon, <2>3 DEF SourcesAt
<1>. QED
  BY Zenon, <1>1, <1>2

LEMMA SourcesNone ==
  ASSUME SourcesAt, NoSourceList \/ NoAttrAll
  PROVE  SourcesAt'
<1>1. CASE stage' = "failed"
  BY Zenon, <1>1, SourcesOver
<1>2. CASE ~(stage' = "failed")
  <2>1. /\ stage \in {"list", "attr"} /\ stage' \in {"attr", "groups"}
        /\ cfg' = cfg /\ read' = read
    BY Zenon, <1>2 DEF NoSourceList, NoAttrAll, Fail
  <2>. QED
    BY <2>1 DEF SourcesAt
<1>. QED
  BY Zenon, <1>1, <1>2

LEMMA SourcesAttr ==
  ASSUME FilesType, ParserTypes, GpuAt, SourcesAt, NEW g, ParseAttrAll(g)
  PROVE  SourcesAt'
<1>1. CASE stage' = "failed"
  BY Zenon, <1>1, SourcesOver
<1>2. CASE ~(stage' = "failed")
  <2> DEFINE attr == SourceKeys([NoSource EXCEPT !.gpu = GlobalOr(0)], g)
  <2>1. stage = "attr" /\ stage' = "groups" /\ read' = [read EXCEPT !.attr = <<g>>]
    BY Zenon, <1>2 DEF ParseAttrAll, Fail
  <2>2. /\ DOMAIN read = {"app", "list", "attr", "groups"}
        /\ DOMAIN cfg = DOMAIN EmptyConfig /\ DOMAIN cfg.src = Slots(MaxSources)
    BY Zenon DEF FilesType, ParserTypes, Counts
  <2>3. /\ Rest(cfg, cfg', {"attrAll", "src"})
        /\ cfg'.src = [i \in Slots(MaxSources) |->
                         IF i < cfg.total THEN ListedSource(attr, cfg.uris, i)
                         ELSE cfg.src[i]]
    BY Zenon, <1>2, <2>2, AttrWrites
  <2> HIDE DEF attr
  <2>4. read'.list = read.list /\ read'.groups = read.groups
    BY <2>1, <2>2
  <2>5. Reads(read, cfg)
    BY <2>1 DEF GpuAt
  <2>6. cfg'.nsrc = cfg.nsrc
    BY <2>2, <2>3, FieldsOfConfig DEF Rest
  <2>7. ASSUME read.list = <<>> PROVE Ready(read.groups, cfg')
    <3>1. cfg.total = 0
      BY Zenon, <2>5, <2>7 DEF Reads
    <3>2. \A i \in Slots(MaxSources) : ~(i < 0)
      BY DEF Slots
    <3>3. /\ \A i \in Slots(MaxSources) : cfg'.src[i] = cfg.src[i]
          /\ DOMAIN cfg'.src = Slots(MaxSources)
      BY Zenon, <2>3, <3>1, <3>2
    <3>4. Ready(read.groups, cfg)
      BY <2>1, <2>7 DEF SourcesAt
    <3>5. \A n \in SourcesOn(read.groups) : n \in {}
      <4>1. read.groups = <<>>
        BY <2>1 DEF GpuAt
      <4>. QED
        BY <4>1 DEF SourcesOn, TurnedOn
    <3>. QED
      BY Zenon, <2>6, <3>3, <3>4, <3>5 DEF Ready
  <2>. QED
    BY <2>1, <2>4, <2>7 DEF SourcesAt
<1>. QED
  BY Zenon, <1>1, <1>2

LEMMA SourcesGroups ==
  ASSUME FilesType, ParserTypes, GpuAt, SourcesAt, ParseGroup
  PROVE  SourcesAt'
<1>1. CASE stage' = "failed"
  BY Zenon, <1>1, SourcesOver
<1>2. CASE ~(stage' = "failed")
  <2>1. PICK g \in family.groups :
          \/ ParseSourceGroup(g)
          \/ ParseSecondaryGie(g) \/ ParseSecondaryPreprocess(g) \/ ParseSink(g)
          \/ \/ ParsePrimaryGie(g) \/ ParsePreprocess(g) \/ ParseStreammux(g)
             \/ ParseOsd(g) \/ ParseTracker(g) \/ ParseTiledDisplay(g)
             \/ ParseDsExample(g) \/ ParseImageSave(g) \/ ParseMsgconv(g)
             \/ ParseTests(g)
    BY Zenon DEF ParseGroup
  <2>2. ReadStep(g)
    BY Zenon, <2>1, GroupSteps
  <2>3. /\ stage = "groups" /\ stage' = "groups"
        /\ read' = [read EXCEPT !.groups = Append(@, g)]
        /\ read.groups \in Seq(Groups) /\ DOMAIN read = {"app", "list", "attr", "groups"}
        /\ family \in Families
    BY Zenon, <1>2, <2>2 DEF ReadStep, FilesType
  <2> DEFINE gs == read.groups
  <2>4. read'.list = read.list /\ read'.groups = Append(gs, g)
    BY <2>3
  <2>5. SUFFICES ASSUME read.list = <<>> PROVE Ready(Append(gs, g), cfg')
    BY <2>3, <2>4 DEF SourcesAt
  <2>6. Ready(gs, cfg) /\ Reads(read, cfg)
    BY <2>3, <2>5 DEF SourcesAt, GpuAt
  <2>7. cfg.listed = FALSE
    BY Zenon, <2>5, <2>6 DEF Reads
  <2>8. Counts(cfg) /\ DOMAIN cfg = DOMAIN EmptyConfig
    BY Zenon DEF ParserTypes, Counts
  <2>9. CASE ParseSourceGroup(g)
    <3> DEFINE n == cfg.nsrc
               gpu == GlobalOr(cfg.src[n].gpu)
               c == [cfg.src[n] EXCEPT !.gpu = gpu]
               s == ParsedSource(c, g)
    <3>1. /\ n # MaxSources /\ g.kind = "source" /\ ~SourceRefused(g)
          /\ cfg'.src = [cfg.src EXCEPT ![n] = s]
          /\ cfg'.nsrc = IF s.enable # 0 THEN n + 1 ELSE n
      <4>1. SourceSlot(g) = n /\ g.kind = "source"
        BY Zenon, <2>7, <2>9 DEF SourceSlot, ParseSourceGroup, Reading
      <4>2. LET slot == SourceSlot(g)
                t == ParsedSource([cfg.src[slot] EXCEPT !.gpu = GlobalOr(@)], g)
            IN /\ cfg.nsrc # MaxSources /\ ~SourceRefused(g)
               /\ cfg'.src = [cfg.src EXCEPT ![slot] = t]
               /\ cfg'.nsrc = IF t.enable # 0 /\ ~cfg.listed THEN cfg.nsrc + 1 ELSE cfg.nsrc
        BY Zenon, <1>2, <2>8, <2>9, SourceWrites
      <4>. QED
        BY Zenon, <2>7, <4>1, <4>2
    <3>2. n < MaxSources /\ n \in Slots(MaxSources) /\ n >= n
      <4>1. n \in 0 .. MaxSources /\ MaxSources \in Nat
        BY <2>8, ConfigAssumption DEF Counts
      <4>. QED
        BY <3>1, <4>1 DEF Slots
    <3>3. Untouched(cfg.src[n])
      BY Zenon, <2>6, <3>2 DEF Ready
    <3> HIDE DEF gpu
    <3>4. Off(g) => Untouched(s)
      BY Zenon, <2>1, <2>3, <3>3, SourceParsed
    <3>5. ~Off(g) => Raw(s, g)
      BY Zenon, <2>1, <2>3, <3>1, <3>3, SourceParsed DEF SourceRefused
    <3>6. Off(g) <=> s.enable = 0
      <4>1. CASE Off(g)
        <5>1. "enable" \in DOMAIN NoSource \ {"gpu"} /\ NoSource.enable = 0
          BY DEF NoSource
        <5>. QED
          BY Zenon, <3>4, <4>1, <5>1 DEF Untouched
      <4>2. CASE ~Off(g)
        <5> DEFINE d == [c EXCEPT !.id = g.index, !.attempts = -1]
        <5>1. s = SourceKeys(d, g)
          BY Zenon, <4>2 DEF ParsedSource
        <5>2. DOMAIN d = DOMAIN NoSource /\ "enable" \in DOMAIN NoSource
          <6>1. DOMAIN cfg.src[n] = DOMAIN NoSource
            BY Zenon, <3>3 DEF Untouched
          <6>. QED
            BY <6>1 DEF NoSource
        <5> HIDE DEF d, s
        <5>3. SourceKeys(d, g).enable = Get(g, "enable", d.enable)
          BY <5>2 DEF SourceKeys
        <5>. QED
          BY Zenon, <4>2, <5>1, <5>3, Asked
      <4>. QED
        BY Zenon, <4>1, <4>2
    <3> HIDE DEF s
    <3>7. cfg'.nsrc = IF Off(g) THEN n ELSE n + 1
      BY Zenon, <3>1, <3>6
    <3>8. gs \in Seq(Groups) /\ g.kind = "source" /\ cfg.nsrc < MaxSources
      BY Zenon, <2>3, <3>1, <3>2
    <3>9. cfg'.src = [cfg.src EXCEPT ![cfg.nsrc] = s]
      BY Zenon, <3>1
    <3> HIDE DEF n, gs
    <3>10. cfg'.nsrc = IF Off(g) THEN cfg.nsrc ELSE cfg.nsrc + 1
      BY Zenon, <3>7 DEF n
    <3>. QED
      BY Zenon, <2>6, <3>4, <3>5, <3>8, <3>9, <3>10, ReadyNext
  <2>10. CASE ~ParseSourceGroup(g)
    <3>1. g.kind # "source" /\ cfg'.src = cfg.src /\ cfg'.nsrc = cfg.nsrc
      <4>1. CASE ParseSecondaryGie(g)
        <5>1. g.kind = "secondary-gie" /\ (stage' = "failed" \/ ~(cfg' = cfg /\ stage' = "failed"))
          BY Zenon, <4>1 DEF ParseSecondaryGie, Reading
        <5>2. Rest(cfg, cfg', {"gie", "ngie"})
          BY Zenon, <1>2, <2>8, <4>1, <5>1, GieWrites
        <5>. QED
          BY <2>8, <5>1, <5>2, FieldsOfConfig DEF Rest
      <4>2. CASE ParseSink(g)
        <5>1. g.kind = "sink" /\ Rest(cfg, cfg', {"sink", "nsink"})
          BY Zenon, <1>2, <2>8, <4>2, SinkWrites DEF ParseSink, Reading
        <5>. QED
          BY <2>8, <5>1, FieldsOfConfig DEF Rest
      <4>3. CASE ParseSecondaryPreprocess(g)
        <5>1. g.kind = "secondary-pre-process" /\ Rest(cfg, cfg', {"pre", "npre"})
          BY Zenon, <1>2, <2>8, <4>3, PreprocessWrites DEF ParseSecondaryPreprocess, Reading
        <5>. QED
          BY <2>8, <5>1, FieldsOfConfig DEF Rest
      <4>4. CASE \/ ParsePrimaryGie(g) \/ ParsePreprocess(g) \/ ParseStreammux(g)
                 \/ ParseOsd(g) \/ ParseTracker(g) \/ ParseTiledDisplay(g)
                 \/ ParseDsExample(g) \/ ParseImageSave(g) \/ ParseMsgconv(g)
                 \/ ParseTests(g)
        <5>1. "gpu" \in DOMAIN cfg.mux /\ DOMAIN cfg.part = Parts
          BY Zenon, <2>6 DEF Reads
        <5>2. Rest(cfg, cfg', Others) /\ PartsWritten(g, cfg')
          BY Zenon, <1>2, <2>8, <4>4, <5>1, OthersWrite, PartsWrite
        <5>3. g.kind # "source"
          BY <5>2 DEF PartsWritten
        <5>. QED
          BY <2>8, <5>2, <5>3, FieldsOfConfig DEF Rest, Others
      <4>. QED
        BY Zenon, <2>1, <2>10, <4>1, <4>2, <4>3, <4>4
    <3>. QED
      BY Zenon, <2>3, <2>6, <3>1, ReadyOther
  <2>. QED
    BY Zenon, <2>9, <2>10
<1>. QED
  BY Zenon, <1>1, <1>2

LEMMA SourcesEnd ==
  ASSUME FilesType, ParserTypes, SourcesAt, EndOfGroups
  PROVE  SourcesAt'
<1>1. CASE stage' = "failed"
  BY Zenon, <1>1, SourcesOver
<1>2. CASE ~(stage' = "failed")
  <2>1. stage = "groups" /\ stage' = "expand" /\ read' = read /\ next' = 0
    BY Zenon, <1>2 DEF EndOfGroups, Fail
  <2>2. DOMAIN cfg = DOMAIN EmptyConfig /\ read.groups \in Seq(Groups)
    BY Zenon DEF ParserTypes, Counts, FilesType
  <2>3. cfg'.src = cfg.src /\ cfg'.nsrc = cfg.nsrc
    <3>1. cfg' = cfg \/ Rest(cfg, cfg', {"mux", "primary", "gie"})
      BY Zenon, <2>2, EndWrites
    <3>. QED
      BY <2>2, <3>1, FieldsOfConfig DEF Rest
  <2>4. ASSUME read.list = <<>> PROVE Expanded(read.groups, cfg', 0)
    <3>1. Ready(read.groups, cfg)
      BY <2>1, <2>4 DEF SourcesAt
    <3>. QED
      BY Zenon, <2>2, <2>3, <3>1, ExpandedStart
  <2>. QED
    BY <2>1, <2>4 DEF SourcesAt
<1>. QED
  BY Zenon, <1>1, <1>2

LEMMA SourcesExpand ==
  ASSUME FilesType, ParserTypes, SourcesAt, ExpandSource
  PROVE  SourcesAt'
<1>0. Counts(cfg) /\ next \in Nat /\ read.groups \in Seq(Groups)
  BY DEF ParserTypes, FilesType
<1>1. CASE stage' = "failed"
  BY Zenon, <1>1, SourcesOver
<1>2. CASE ~(stage' = "failed")
  <2>1. /\ stage = "expand" /\ next < cfg.nsrc /\ read' = read
        /\ stage' = "expand" /\ next' = next + 1 /\ Spread(cfg, cfg', next)
        /\ cfg.nsrc + Copies(cfg.src[next]) <= MaxSources
    BY Zenon, <1>0, <1>2, ExpandTurn
  <2>2. ASSUME read.list = <<>> PROVE Expanded(read.groups, cfg', next + 1)
    <3>1. Expanded(read.groups, cfg, next)
      BY <2>1, <2>2 DEF SourcesAt
    <3>. QED
      BY Zenon, <1>0, <2>1, <3>1, ExpandedStep
  <2>. QED
    BY <2>1, <2>2 DEF SourcesAt
<1>. QED
  BY Zenon, <1>1, <1>2

LEMMA SourcesAccept ==
  ASSUME FilesType, ParserTypes, SourcesInv, AcceptFile
  PROVE  SourcesInv'
<1> DEFINE f == [read |-> read, cfg |-> cfg]
<1>1. f.read = read /\ f.cfg = cfg
  OBVIOUS
<1> HIDE DEF f
<1>2. /\ stage = "expand" /\ next = cfg.nsrc /\ parsed' = Append(parsed, f)
      /\ stage' = "app" \/ stage' = "done"
  BY Zenon DEF AcceptFile, f
<1>3. ASSUME f.read.list = <<>> PROVE SourcesMatch(f.read.groups, f.cfg)
  <2>1. Expanded(read.groups, cfg, next)
    BY <1>1, <1>2, <1>3 DEF SourcesInv, SourcesAt
  <2>2. cfg.nsrc \in Nat /\ read.groups \in Seq(Groups)
    BY <1>2 DEF ParserTypes, FilesType
  <2>3. SourcesMatch(read.groups, cfg)
    BY Zenon, <1>2, <2>1, <2>2, ExpandedEnd
  <2>. QED
    BY Zenon, <1>1, <2>3
<1>4. \A n \in 1 .. Len(parsed') :
        parsed'[n].read.list = <<>> => SourcesMatch(parsed'[n].read.groups, parsed'[n].cfg)
  <2>1. PICK S : parsed \in Seq(S)
    BY Zenon DEF FilesType
  <2>2. /\ Len(Append(parsed, f)) = Len(parsed) + 1 /\ Len(parsed) \in Nat
        /\ Append(parsed, f)[Len(parsed) + 1] = f
        /\ \A n \in 1 .. Len(parsed) : Append(parsed, f)[n] = parsed[n]
    BY <2>1, AppendFacts
  <2>3. \A n : n \in 1 .. Len(parsed) + 1 <=> n \in 1 .. Len(parsed) \/ n = Len(parsed) + 1
    BY <2>2
  <2>. QED
    BY Zenon, <1>2, <1>3, <2>2, <2>3 DEF SourcesInv
<1>5. SourcesAt'
  BY <1>2, SourcesOver
<1>. QED
  BY Zenon, <1>4, <1>5 DEF SourcesInv

LEMMA SourcesInit == BuildInit => SourcesInv
<1> SUFFICES ASSUME BuildInit PROVE SourcesInv
  OBVIOUS
<1>1. stage = "app" /\ parsed = <<>>
  BY Zenon DEF BuildInit, Init
<1>2. SourcesAt
  BY <1>1 DEF SourcesAt
<1>3. 1 .. Len(parsed) = {}
  BY <1>1
<1>. QED
  BY Zenon, <1>2, <1>3 DEF SourcesInv

LEMMA SourcesNext ==
  BuildInv /\ FilesType /\ ParserTypes /\ GpuInv /\ SourcesInv /\ [BuildNext]_buildVars
    => SourcesInv'
<1> SUFFICES ASSUME BuildInv, FilesType, ParserTypes, GpuInv, SourcesInv,
                    [BuildNext]_buildVars
             PROVE  SourcesInv'
  OBVIOUS
<1>1. GpuAt /\ SourcesAt
  BY Zenon DEF GpuInv, SourcesInv
<1>2. CASE AcceptFile
  BY Zenon, <1>2, SourcesAccept
<1>3. CASE ~AcceptFile
  <2>1. parsed' = parsed
    BY Zenon, <1>3, BuildSteps DEF QuietStep, ReadStep
  <2>2. SourcesAt'
    <3>1. CASE Parse
      <4>1. ASSUME NEW g, ParseApp(g) PROVE SourcesAt'
        BY Zenon, <1>1, <4>1, SourcesApp
      <4>2. ASSUME NEW l, ParseSourceList(l) PROVE SourcesAt'
        BY Zenon, <1>1, <4>2, SourcesList
      <4>3. ASSUME NEW g, ParseAttrAll(g) PROVE SourcesAt'
        BY Zenon, <1>1, <4>3, SourcesAttr
      <4>. QED
        BY Zenon, <1>1, <1>3, <3>1, <4>1, <4>2, <4>3, SourcesNone, SourcesGroups, SourcesEnd,
           SourcesExpand DEF Parse, Next
    <3>2. CASE stage = "done" /\ stage' = stage
      BY <3>2, SourcesOver
    <3>3. CASE UNCHANGED <<stage, cfg, read, next>>
      BY Zenon, <1>1, <3>3 DEF SourcesAt
    <3>4. step # "idle" => stage = "done"
      BY Zenon DEF BuildInv, Where
    <3>5. CASE \/ CreatePipeline \/ ElementFails \/ BuildSources \/ DemuxDone
               \/ BuildExample \/ BuildTee \/ LinkBroker \/ LinkSources
               \/ DestroyPipeline
      BY Zenon, <3>3, <3>5 DEF CreatePipeline, ElementFails, BuildSources, DemuxDone,
         BuildExample, BuildTee, LinkBroker, LinkSources, DestroyPipeline, vars
    <3>6. CASE BuildMultiSource \/ BuildTiled \/ BuildDemuxed \/ BuildCommon
      <4>1. step # "idle" /\ stage' = stage
        BY Zenon, <3>6 DEF BuildMultiSource, BuildTiled, BuildDemuxed, BuildCommon, vars
      <4>. QED
        BY Zenon, <3>2, <3>4, <4>1
    <3>7. CASE UNCHANGED buildVars
      BY Zenon, <3>3, <3>7 DEF buildVars, vars
    <3>. QED
      BY Zenon, <3>1, <3>5, <3>6, <3>7 DEF BuildNext
  <2>. QED
    BY Zenon, <1>1, <2>1, <2>2 DEF SourcesInv
<1>. QED
  BY Zenon, <1>2, <1>3

LEMMA SourcesInvIsEnough ==
  ASSUME SourcesInv
  PROVE  SourcesAsDescribed
<1> SUFFICES ASSUME NEW f \in Accepted, f.read.list = <<>>
             PROVE  LET groups == f.read.groups  c == f.cfg IN
                    /\ c.nsrc = Cardinality(SourcesAsked(groups))
                    /\ \A w \in SourcesAsked(groups) :
                         LET g == groups[w[1]]
                             s == c.src[PlaceOf(groups, w)]
                             multiple == Get(g, "type", 0) = SourceMultiple
                             uri == IF "uri" \in DOMAIN g.keys THEN <<g.keys.uri>> ELSE <<>>
                         IN /\ s.type = IF multiple THEN SourceUri ELSE Get(g, "type", 0)
                            /\ s.id = Get(g, "camera-id", g.index)
                            /\ s.attempts = Get(g, "rtsp-reconnect-attempts", -1)
                            /\ s.latency = Get(g, "latency", 100)
                            /\ s.uri = IF multiple THEN Append(uri, w[2]) ELSE uri
                            /\ w[2] > 0 =>
                                 s = [c.src[SlotOf(groups, w[1])] EXCEPT !.uri = s.uri]
  BY Zenon DEF SourcesAsDescribed
<1>1. PICK n \in 1 .. Len(parsed) : f = parsed[n]
  BY Zenon DEF Accepted
<1>2. SourcesMatch(f.read.groups, f.cfg)
  BY Zenon, <1>1 DEF SourcesInv
<1>. QED
  BY Zenon, <1>2 DEF SourcesMatch, Placing, AsAsked, AsGroup, OwnUri

(* Without a source list, the sources of an accepted file are those its    *)
(* enabled [source] groups ask for, at the slots their order gives them,   *)
(* the further uris after the first of every group, each with its own keys *)
(* (parse_source and the loop of parse_config_file over the sources).      *)
THEOREM SourcesAreDescribed == BuildSpec => []SourcesAsDescribed
<1>1. SourcesInv => SourcesAsDescribed
  BY Zenon, SourcesInvIsEnough
<1>2. BuildInit => /\ BuildInv /\ FilesType /\ NumbersInv /\ ParserTypes /\ BuildTypes
                   /\ GpuInv /\ SourcesInv
  BY Zenon, BuildInvInit, NumbersInit, TypesInit, GpuInit, SourcesInit
<1>3. /\ BuildInv /\ FilesType /\ NumbersInv /\ ParserTypes /\ BuildTypes
      /\ GpuInv /\ SourcesInv /\ [BuildNext]_buildVars
      => (/\ BuildInv /\ FilesType /\ NumbersInv /\ ParserTypes /\ BuildTypes
          /\ GpuInv /\ SourcesInv)'
  BY Zenon, BuildInvNext, NumbersNext, BuildTypesNext, GpuNext, SourcesNext
<1>. QED
  BY <1>1, <1>2, <1>3, PTL DEF BuildSpec

-----------------------------------------------------------------------------
(* Why a first file without a source list is refused: what is wrong with   *)
(* its groups, gs, or with the others it has, in r.                        *)
OfKind(gs, kind) == {n \in 1 .. Len(gs) : gs[n].kind = kind}
GieId(g) == Get(g, "gie-unique-id", 0)
GiesOn(gs) == TurnedOn(gs, "secondary-gie") \cup TurnedOn(gs, "primary-gie")

FaultyGroup(gs) ==
  \/ \E n \in 1 .. Len(gs) : Unreadable(gs[n])
  \/ \E n \in OfKind(gs, "source") : gs[n].index = -1
  \/ \E n \in SourcesOn(gs) : SourceKeysRefused(gs[n])
  \/ \E n \in GiesOn(gs) : "config-file" \notin DOMAIN gs[n].keys
TooMany(gs) ==
  \/ Cardinality(SourcesAsked(gs)) > MaxSources
  \/ /\ Cardinality(SourcesOn(gs)) = MaxSources
     /\ Cardinality(OfKind(gs, "source")) > MaxSources
  \/ Cardinality(OfKind(gs, "secondary-gie")) > MaxGies
  \/ Cardinality(OfKind(gs, "secondary-pre-process")) > MaxPreprocess
  \/ Cardinality(OfKind(gs, "sink")) > MaxSinks
SameIds(gs) ==
  \/ \E n, m \in GiesOn(gs) : n # m /\ GieId(gs[n]) = GieId(gs[m])
  \/ TurnedOn(gs, "primary-gie") = {} /\ \E n \in GiesOn(gs) : GieId(gs[n]) = 0
RefusalExplained(r) ==
  \/ Unreadable(r.app[1])
  \/ r.attr # <<>> /\ SourceKeysRefused(r.attr[1])
  \/ FaultyGroup(r.groups) \/ TooMany(r.groups) \/ SameIds(r.groups)

LEMMA CauseIsEnough ==
  ASSUME stage = "failed" /\ parsed = <<>> /\ read.list = <<>> => RefusalExplained(read)
  PROVE  RefusedForCause
<1> SUFFICES ASSUME stage = "failed", parsed = <<>>, read.list = <<>>
             PROVE
               LET groups == read.groups
                   gs == {groups[n] : n \in 1 .. Len(groups)}
                   some(kind) == {n \in 1 .. Len(groups) : groups[n].kind = kind}
                   primary == TurnedOn(groups, "primary-gie")
                   gies == TurnedOn(groups, "secondary-gie") \cup primary
                   uid(n) == Get(groups[n], "gie-unique-id", 0)
               IN \/ \E g \in gs : Unreadable(g)
                  \/ Unreadable(read.app[1])
                  \/ read.attr # <<>> /\ SourceKeysRefused(read.attr[1])
                  \/ \E n \in some("source") : groups[n].index = -1
                  \/ \E n \in SourcesOn(groups) : SourceKeysRefused(groups[n])
                  \/ \E n \in gies : "config-file" \notin DOMAIN groups[n].keys
                  \/ Cardinality(SourcesAsked(groups)) > MaxSources
                  \/ Cardinality(SourcesOn(groups)) = MaxSources
                       /\ Cardinality(some("source")) > MaxSources
                  \/ Cardinality(some("secondary-gie")) > MaxGies
                  \/ Cardinality(some("secondary-pre-process")) > MaxPreprocess
                  \/ Cardinality(some("sink")) > MaxSinks
                  \/ \E n, m \in gies : n # m /\ uid(n) = uid(m)
                  \/ primary = {} /\ \E n \in gies : uid(n) = 0
  BY Zenon DEF RefusedForCause
<1>1. \/ Unreadable(read.app[1])
      \/ read.attr # <<>> /\ SourceKeysRefused(read.attr[1])
      \/ FaultyGroup(read.groups) \/ TooMany(read.groups) \/ SameIds(read.groups)
  BY Zenon DEF RefusalExplained
<1>2. CASE Unreadable(read.app[1]) \/ (read.attr # <<>> /\ SourceKeysRefused(read.attr[1]))
  BY Zenon, <1>2
<1>3. CASE FaultyGroup(read.groups)
  BY Zenon, <1>3 DEF FaultyGroup, OfKind, GiesOn
<1>4. CASE TooMany(read.groups)
  BY Zenon, <1>4 DEF TooMany, OfKind
<1>5. CASE SameIds(read.groups)
  BY Zenon, <1>5 DEF SameIds, GiesOn, GieId
<1>. QED
  BY Zenon, <1>1, <1>2, <1>3, <1>4, <1>5

(* The groups of a kind, on or off.                                        *)
LEMMA OfKindSize ==
  ASSUME NEW S, NEW gs \in Seq(S), NEW kind
  PROVE  /\ Cardinality(OfKind(gs, kind)) \in Nat /\ Many(gs, kind) \in Nat
         /\ Many(gs, kind) <= Cardinality(OfKind(gs, kind))
         /\ \A g : /\ g.kind = kind => Cardinality(OfKind(Append(gs, g), kind)) =
                                        Cardinality(OfKind(gs, kind)) + 1
                   /\ g.kind # kind => OfKind(Append(gs, g), kind) = OfKind(gs, kind)
<1> DEFINE K == OfKind(gs, kind)
           last == Len(gs) + 1
<1>1. K \in SUBSET (1 .. Len(gs)) /\ Len(gs) \in Nat
  BY DEF OfKind
<1>2. IsFiniteSet(1 .. Len(gs))
  BY <1>1, FS_Interval
<1>3. IsFiniteSet(K)
  BY Zenon, <1>1, <1>2, FS_Subset
<1>4. Cardinality(K) \in Nat
  BY Zenon, <1>3, FS_CardinalityType
<1>5. TurnedOn(gs, kind) \in SUBSET K
  BY Zenon DEF TurnedOn, OfKind
<1>6. Many(gs, kind) \in Nat /\ Many(gs, kind) <= Cardinality(K)
  <2>1. Many(gs, kind) \in Nat
    BY Zenon, SlotIsTaken
  <2>2. Cardinality(TurnedOn(gs, kind)) <= Cardinality(K)
    BY Zenon, <1>3, <1>5, FS_Subset
  <2>. QED
    BY Zenon, <2>1, <2>2 DEF Many
<1>7. ASSUME NEW g
      PROVE  /\ g.kind = kind => Cardinality(OfKind(Append(gs, g), kind)) = Cardinality(K) + 1
             /\ g.kind # kind => OfKind(Append(gs, g), kind) = K
  <2> DEFINE t == Append(gs, g)
  <2>1. /\ Len(t) = last /\ t[last] = g
        /\ \A n \in 1 .. Len(gs) : t[n] = gs[n]
    BY AppendFacts
  <2>2. last \notin 1 .. Len(gs) /\ \A n : n \in 1 .. last <=> n \in 1 .. Len(gs) \/ n = last
    BY <1>1
  <2> HIDE DEF t, last
  <2>3. OfKind(t, kind) = K \cup IF g.kind = kind THEN {last} ELSE {}
    BY Zenon, <2>1, <2>2 DEF OfKind
  <2>4. last \notin K
    BY Zenon, <1>1, <2>2
  <2> HIDE DEF K
  <2>5. Cardinality(K \cup {last}) = Cardinality(K) + 1
    BY Zenon, <1>3, <2>4, FS_AddElement
  <2>. QED
    BY Zenon, <2>3, <2>5 DEF t
<1>. QED
  BY Zenon, <1>4, <1>6, <1>7

(* Engines keep the id of their group, and a free slot none.               *)
GiesReady(gs, c) ==
  /\ c.ngie = Many(gs, "secondary-gie") /\ DOMAIN c.gie = Slots(MaxGies)
  /\ \A i \in Slots(MaxGies) :
       "uid" \in DOMAIN c.gie[i] /\ (i >= c.ngie => c.gie[i].uid = 0)
  /\ \A n \in TurnedOn(gs, "secondary-gie") : c.gie[SlotOf(gs, n)].uid = GieId(gs[n])
PrimaryReady(gs, c) ==
  /\ "uid" \in DOMAIN c.primary
  /\ \A n \in TurnedOn(gs, "primary-gie") : c.primary.uid = GieId(gs[n])
  /\ TurnedOn(gs, "primary-gie") = {} => c.primary.uid = 0

LEMMA GieParsed ==
  ASSUME NEW c, "uid" \in DOMAIN c, NEW g
  PROVE  LET s == ParsedGie(GlobalGie(c), g) IN
         /\ "uid" \in DOMAIN s
         /\ s.uid = IF Off(g) THEN c.uid ELSE Get(g, "gie-unique-id", c.uid)
<1> DEFINE b == GlobalGie(c)
           s == ParsedGie(b, g)
<1>1. "uid" \in DOMAIN b /\ b.uid = c.uid
  <2> DEFINE gpu == GlobalOr(c.gpu)
             set == c.gpuSet \/ cfg.global # -1
  <2>1. b = [c EXCEPT !.gpu = gpu, !.gpuSet = set]
    BY Zenon DEF GlobalGie
  <2> HIDE DEF gpu, set, b
  <2>. QED
    BY <2>1
<1> HIDE DEF b
<1>2. CASE Off(g)
  <2>1. s = b
    BY Zenon, <1>2 DEF ParsedGie
  <2>. QED
    BY Zenon, <1>1, <1>2, <2>1 DEF b
<1>3. CASE ~Off(g)
  <2> DEFINE uid == Get(g, "gie-unique-id", b.uid)
             set == b.gpuSet \/ "gpu-id" \in DOMAIN g.keys
             batch == Get(g, "batch-size", b.batch)
             own == Get(g, "gpu-id", b.gpu)
  <2>1. s = [b EXCEPT !.enable = g.keys.enable, !.uid = uid, !.gpu = own, !.gpuSet = set,
                      !.batch = batch]
    BY Zenon, <1>3 DEF ParsedGie
  <2> HIDE DEF uid, set, batch, own, s
  <2>2. "uid" \in DOMAIN s /\ s.uid = uid
    BY <1>1, <2>1
  <2>3. uid = Get(g, "gie-unique-id", c.uid)
    BY Zenon, <1>1 DEF uid
  <2>. QED
    BY Zenon, <1>3, <2>2, <2>3 DEF s, b
<1>. QED
  BY Zenon, <1>2, <1>3

LEMMA GiesOther ==
  ASSUME NEW S, NEW gs \in Seq(S), NEW g, g.kind # "secondary-gie", NEW c, NEW d,
         GiesReady(gs, c), d.gie = c.gie, d.ngie = c.ngie
  PROVE  GiesReady(Append(gs, g), d)
<1>1. SlotsGrow(gs, g, "secondary-gie")
  BY Zenon, SlotsAppend
<1>2. /\ TurnedOn(Append(gs, g), "secondary-gie") = TurnedOn(gs, "secondary-gie")
      /\ Many(Append(gs, g), "secondary-gie") = Many(gs, "secondary-gie")
      /\ \A n \in TurnedOn(gs, "secondary-gie") :
           Append(gs, g)[n] = gs[n] /\ SlotOf(Append(gs, g), n) = SlotOf(gs, n)
  BY Zenon, <1>1 DEF SlotsGrow, Many
<1>. QED
  BY Zenon, <1>2 DEF GiesReady

LEMMA GiesNext ==
  ASSUME NEW S, NEW gs \in Seq(S), NEW g, g.kind = "secondary-gie", NEW c, NEW d,
         GiesReady(gs, c), c.ngie < MaxGies, NEW x, "uid" \in DOMAIN x,
         x.uid = IF Off(g) THEN 0 ELSE GieId(g),
         d.gie = [c.gie EXCEPT ![c.ngie] = x],
         d.ngie = Many(Append(gs, g), "secondary-gie")
  PROVE  GiesReady(Append(gs, g), d)
<1> DEFINE t == Append(gs, g)
           n == c.ngie
           kind == "secondary-gie"
<1>1. /\ n = Many(gs, kind) /\ DOMAIN c.gie = Slots(MaxGies)
      /\ \A i \in Slots(MaxGies) :
           "uid" \in DOMAIN c.gie[i] /\ (i >= n => c.gie[i].uid = 0)
      /\ \A m \in TurnedOn(gs, kind) : c.gie[SlotOf(gs, m)].uid = GieId(gs[m])
  BY Zenon DEF GiesReady
<1>2. /\ n \in Nat
      /\ \A m \in TurnedOn(gs, kind) : SlotOf(gs, m) \in Nat /\ SlotOf(gs, m) < n
  <2>1. /\ Many(gs, kind) \in Nat
        /\ \A m \in TurnedOn(gs, kind) :
             SlotOf(gs, m) \in Nat /\ SlotOf(gs, m) < Many(gs, kind)
    BY Zenon, SlotIsTaken
  <2>. QED
    BY Zenon, <1>1, <2>1
<1>3. n \in Slots(MaxGies) /\ \A i \in Nat : i < n => i # n /\ i \in Slots(MaxGies)
  <2>1. MaxGies \in Nat
    BY ConfigAssumption
  <2>. QED
    BY <1>2, <2>1 DEF Slots
<1>4. /\ DOMAIN d.gie = Slots(MaxGies)
      /\ \A i \in Slots(MaxGies) : d.gie[i] = IF i = n THEN x ELSE c.gie[i]
  BY Zenon, <1>1
<1>5. /\ \A m \in TurnedOn(gs, kind) : t[m] = gs[m] /\ SlotOf(t, m) = SlotOf(gs, m)
      /\ ~Off(g) =>
           /\ Many(t, kind) = n + 1
           /\ \A m \in TurnedOn(t, kind) :
                m \in TurnedOn(gs, kind) \/ (t[m] = g /\ SlotOf(t, m) = n)
      /\ Off(g) => TurnedOn(t, kind) = TurnedOn(gs, kind) /\ Many(t, kind) = n
  <2>1. SlotsGrow(gs, g, kind)
    BY Zenon, SlotsAppend
  <2>. QED
    BY Zenon, <1>1, <2>1 DEF SlotsGrow, Many
<1> HIDE DEF t
<1>6. ASSUME NEW m \in TurnedOn(t, kind) PROVE d.gie[SlotOf(t, m)].uid = GieId(t[m])
  <2>1. CASE m \in TurnedOn(gs, kind)
    <3>1. d.gie[SlotOf(gs, m)] = c.gie[SlotOf(gs, m)]
      BY Zenon, <1>2, <1>3, <1>4, <2>1
    <3>. QED
      BY Zenon, <1>1, <1>5, <2>1, <3>1
  <2>2. CASE m \notin TurnedOn(gs, kind)
    <3>1. ~Off(g) /\ t[m] = g /\ SlotOf(t, m) = n
      BY Zenon, <1>5, <1>6, <2>2
    <3>2. d.gie[n] = x
      BY Zenon, <1>3, <1>4
    <3>. QED
      BY Zenon, <3>1, <3>2
  <2>. QED
    BY Zenon, <2>1, <2>2
<1>7. \A i \in Slots(MaxGies) : i >= n + 1 => i # n /\ i >= n
  BY <1>2 DEF Slots
<1>8. \A i \in Slots(MaxGies) : "uid" \in DOMAIN d.gie[i]
  BY Zenon, <1>1, <1>4
<1>9. CASE Off(g)
  <2>1. x.uid = 0 /\ d.ngie = n
    BY Zenon, <1>5, <1>9 DEF t
  <2>2. \A i \in Slots(MaxGies) : i >= d.ngie => d.gie[i].uid = 0
    BY Zenon, <1>1, <1>4, <2>1
  <2>. QED
    BY Zenon, <1>4, <1>6, <1>8, <2>2 DEF GiesReady, t
<1>10. CASE ~Off(g)
  <2>1. d.ngie = n + 1
    BY Zenon, <1>5, <1>10 DEF t
  <2>2. \A i \in Slots(MaxGies) : i >= d.ngie => d.gie[i].uid = 0
    BY Zenon, <1>1, <1>4, <1>7, <2>1
  <2>. QED
    BY Zenon, <1>4, <1>6, <1>8, <2>2 DEF GiesReady, t
<1>. QED
  BY Zenon, <1>9, <1>10

LEMMA PrimaryOther ==
  ASSUME NEW S, NEW gs \in Seq(S), NEW g, g.kind # "primary-gie", NEW c, NEW d,
         PrimaryReady(gs, c), d.primary = c.primary
  PROVE  PrimaryReady(Append(gs, g), d)
<1>1. SlotsGrow(gs, g, "primary-gie")
  BY Zenon, SlotsAppend
<1>2. /\ TurnedOn(Append(gs, g), "primary-gie") = TurnedOn(gs, "primary-gie")
      /\ \A n \in TurnedOn(gs, "primary-gie") : Append(gs, g)[n] = gs[n]
  BY Zenon, <1>1 DEF SlotsGrow
<1>. QED
  BY Zenon, <1>2 DEF PrimaryReady

LEMMA PrimaryNext ==
  ASSUME NEW S, NEW gs \in Seq(S), NEW g, g.kind = "primary-gie", NEW c, NEW d,
         PrimaryReady(gs, c), OfKind(gs, "primary-gie") = {},
         d.primary = ParsedGie(GlobalGie(c.primary), g)
  PROVE  PrimaryReady(Append(gs, g), d)
<1> DEFINE t == Append(gs, g)
           kind == "primary-gie"
<1>1. TurnedOn(gs, kind) = {}
  BY Zenon DEF TurnedOn, OfKind
<1>2. "uid" \in DOMAIN c.primary /\ c.primary.uid = 0
  BY Zenon, <1>1 DEF PrimaryReady
<1>3. /\ "uid" \in DOMAIN d.primary
      /\ d.primary.uid = IF Off(g) THEN 0 ELSE GieId(g)
  BY Zenon, <1>2, GieParsed DEF GieId
<1>4. SlotsGrow(gs, g, kind)
  BY Zenon, SlotsAppend
<1>5. /\ ~Off(g) => Many(t, kind) = Many(gs, kind) + 1 /\ \A n \in TurnedOn(t, kind) : t[n] = g
      /\ Off(g) => TurnedOn(t, kind) = {}
  BY Zenon, <1>1, <1>4 DEF SlotsGrow
<1>6. ~Off(g) => TurnedOn(t, kind) # {}
  <2> SUFFICES ASSUME ~Off(g), TurnedOn(t, kind) = {} PROVE FALSE
    OBVIOUS
  <2>1. Many(t, kind) = 0 /\ Many(gs, kind) = 0
    BY Zenon, <1>1, FS_EmptySet DEF Many
  <2>. QED
    BY <1>5, <2>1
<1> HIDE DEF t
<1>. QED
  BY Zenon, <1>3, <1>5, <1>6 DEF PrimaryReady, t

(* While the first file is read: the numbers parsed so far are those of    *)
(* its groups, and the arrays hold what its groups describe.               *)
IdsOf(gs, ids) == \A id \in ids : \E n \in SourcesOn(gs) : gs[n].index = id
Kept(gs, c) ==
  /\ GiesReady(gs, c) /\ PrimaryReady(gs, c)
  /\ c.npre <= Cardinality(OfKind(gs, "secondary-pre-process"))

RefusedInv ==
  parsed = <<>> /\ read.list = <<>> =>
    /\ stage \in {"app", "list", "attr", "groups"} => IdsOf(read.groups, cameraIds)
    /\ stage \in {"list", "attr"} => cfg.uris = <<>>
    /\ stage \in {"list", "attr", "groups"} => Kept(read.groups, cfg)
    /\ stage = "failed" => RefusalExplained(read)

LEMMA CauseFound ==
  ASSUME stage' = "failed", RefusalExplained(read')
  PROVE  RefusedInv'
<1>1. stage' \notin {"app", "list", "attr", "groups"}
  OBVIOUS
<1>. QED
  BY <1>1 DEF RefusedInv

LEMMA NothingKept ==
  ASSUME NEW c, c.gie = [i \in Slots(MaxGies) |-> NoGie], c.ngie = 0, c.primary = NoGie,
         c.npre = 0
  PROVE  Kept(<<>>, c)
<1>1. \A kind : TurnedOn(<<>>, kind) = {} /\ OfKind(<<>>, kind) = {}
  BY DEF TurnedOn, OfKind
<1>2. Many(<<>>, "secondary-gie") = 0 /\ Cardinality(OfKind(<<>>, "secondary-pre-process")) = 0
  BY Zenon, <1>1, FS_EmptySet DEF Many
<1>3. "uid" \in DOMAIN NoGie /\ NoGie.uid = 0
  BY DEF NoGie
<1>4. GiesReady(<<>>, c)
  BY Zenon, <1>1, <1>2, <1>3 DEF GiesReady
<1>5. PrimaryReady(<<>>, c)
  BY Zenon, <1>1, <1>3 DEF PrimaryReady
<1>6. c.npre <= Cardinality(OfKind(<<>>, "secondary-pre-process"))
  BY <1>2
<1>. QED
  BY Zenon, <1>4, <1>5, <1>6 DEF Kept

LEMMA RefusedApp ==
  ASSUME GpuAt, RefusedInv, NEW g, ParseApp(g)
  PROVE  RefusedInv'
<1> DEFINE global == Get(g, "gpu", -1)
<1>1. /\ stage = "app" /\ read' = [read EXCEPT !.app = <<g>>] /\ parsed' = parsed
      /\ cameraIds' = cameraIds
      /\ \/ stage' = "failed" /\ Unreadable(g)
         \/ stage' = "list" /\ cfg' = [cfg EXCEPT !.global = global]
  BY Zenon DEF ParseApp, Fail
<1> HIDE DEF global
<1>2. cfg = EmptyConfig /\ read = NothingRead
  BY <1>1 DEF GpuAt
<1>3. read'.app = <<g>> /\ read'.app[1] = g /\ read'.groups = <<>> /\ read.groups = <<>>
      /\ read.list = <<>>
  BY <1>1, <1>2 DEF NothingRead
<1>4. CASE stage' = "failed"
  <2>1. read'.app[1] = g /\ Unreadable(g)
    BY <1>1, <1>3, <1>4
  <2>2. RefusalExplained(read')
    <3>1. Unreadable(read'.app[1])
      BY Zenon, <2>1
    <3>. QED
      BY Zenon, <3>1 DEF RefusalExplained
  <2>. QED
    BY Zenon, <1>4, <2>2, CauseFound
<1>5. CASE ~(stage' = "failed")
  <2>1. stage' = "list" /\ cfg' = [cfg EXCEPT !.global = global]
    BY Zenon, <1>1, <1>5
  <2>2. /\ EmptyConfig.uris = <<>> /\ EmptyConfig.gie = [i \in Slots(MaxGies) |-> NoGie]
        /\ EmptyConfig.ngie = 0 /\ EmptyConfig.primary = NoGie /\ EmptyConfig.npre = 0
    BY DEF EmptyConfig
  <2>3. /\ cfg'.uris = EmptyConfig.uris /\ cfg'.gie = EmptyConfig.gie
        /\ cfg'.ngie = EmptyConfig.ngie /\ cfg'.primary = EmptyConfig.primary
        /\ cfg'.npre = EmptyConfig.npre
    <3>1. {"uris", "gie", "ngie", "primary", "npre"} \subseteq DOMAIN EmptyConfig
      BY DEF EmptyConfig
    <3>. QED
      BY <1>2, <2>1, <3>1
  <2>4. Kept(<<>>, cfg')
    BY Zenon, <2>2, <2>3, NothingKept
  <2>5. parsed = <<>> => IdsOf(<<>>, cameraIds)
    BY <1>1, <1>3 DEF RefusedInv
  <2>6. stage' \in {"app", "list", "attr", "groups"} /\ stage' # "failed"
    BY <2>1
  <2>7. parsed = <<>> => IdsOf(read'.groups, cameraIds')
    BY Zenon, <1>1, <1>3, <2>5
  <2>8. Kept(read'.groups, cfg') /\ cfg'.uris = <<>>
    BY Zenon, <1>3, <2>2, <2>3, <2>4
  <2>. QED
    BY Zenon, <1>1, <2>6, <2>7, <2>8 DEF RefusedInv
<1>. QED
  BY Zenon, <1>4, <1>5

LEMMA RefusedNone ==
  ASSUME GpuAt, RefusedInv, NoSourceList \/ NoAttrAll
  PROVE  RefusedInv'
<1>1. /\ stage \in {"list", "attr"} /\ cfg' = cfg /\ read' = read /\ parsed' = parsed
      /\ cameraIds' = cameraIds
      /\ stage' \in {"attr", "groups"} \/ (stage' = "failed" /\ cfg.listed)
  BY Zenon DEF NoSourceList, NoAttrAll, Fail
<1>2. read.list = <<>> => cfg.listed = FALSE
  <2>1. Reads(read, cfg)
    BY <1>1 DEF GpuAt
  <2>. QED
    BY Zenon, <2>1 DEF Reads
<1>. QED
  BY <1>1, <1>2 DEF RefusedInv

LEMMA RefusedList ==
  ASSUME FilesType, NEW l, ParseSourceList(l)
  PROVE  RefusedInv'
<1>1. read' = [read EXCEPT !.list = <<l>>]
  BY Zenon DEF ParseSourceList
<1>2. DOMAIN read = {"app", "list", "attr", "groups"}
  BY Zenon DEF FilesType
<1>3. read'.list = <<l>> /\ <<l>> # <<>>
  BY <1>1, <1>2
<1>. QED
  BY Zenon, <1>3 DEF RefusedInv

LEMMA RefusedAttr ==
  ASSUME FilesType, ParserTypes, GpuAt, RefusedInv, NEW g, ParseAttrAll(g)
  PROVE  RefusedInv'
<1>1. /\ stage = "attr" /\ read' = [read EXCEPT !.attr = <<g>>] /\ parsed' = parsed
      /\ cameraIds' = cameraIds
      /\ \/ stage' = "groups"
         \/ /\ stage' = "failed"
            /\ \/ SourceKeysRefused(g)
               \/ \E i \in 1 .. Len(cfg.uris) : cfg.uris[i].scheme \notin DOMAIN Schemes
  BY Zenon DEF ParseAttrAll, Fail
<1>2. /\ DOMAIN read = {"app", "list", "attr", "groups"} /\ DOMAIN cfg = DOMAIN EmptyConfig
  BY Zenon DEF FilesType, ParserTypes, Counts
<1>3. /\ read'.attr = <<g>> /\ read'.attr # <<>> /\ read'.attr[1] = g
      /\ read'.list = read.list /\ read'.groups = read.groups
  BY <1>1, <1>2
<1>4. SUFFICES ASSUME parsed = <<>>, read.list = <<>> PROVE RefusedInv'
  BY Zenon, <1>1, <1>3 DEF RefusedInv
<1>5. cfg.uris = <<>> /\ IdsOf(read.groups, cameraIds) /\ Kept(read.groups, cfg)
  BY <1>1, <1>4 DEF RefusedInv
<1>6. CASE stage' = "failed"
  <2>1. 1 .. Len(cfg.uris) = {}
    BY <1>5
  <2>2. SourceKeysRefused(g)
    BY <1>1, <1>6, <2>1
  <2>3. RefusalExplained(read')
    BY Zenon, <1>3, <2>2 DEF RefusalExplained
  <2>. QED
    BY Zenon, <1>6, <2>3, CauseFound
<1>7. CASE ~(stage' = "failed")
  <2>1. Rest(cfg, cfg', {"attrAll", "src"})
    BY Zenon, <1>2, <1>7, AttrWrites
  <2>2. /\ cfg'.gie = cfg.gie /\ cfg'.ngie = cfg.ngie /\ cfg'.npre = cfg.npre
        /\ cfg'.primary = cfg.primary
    BY <1>2, <2>1, FieldsOfConfig DEF Rest
  <2>3. Kept(read'.groups, cfg')
    BY Zenon, <1>3, <1>5, <2>2 DEF Kept, GiesReady, PrimaryReady
  <2>4. IdsOf(read'.groups, cameraIds')
    BY Zenon, <1>1, <1>3, <1>5
  <2>5. stage' = "groups"
    BY Zenon, <1>1, <1>7
  <2>6. stage' \notin {"list", "attr"} /\ stage' # "failed"
    BY <2>5
  <2>. QED
    BY Zenon, <2>3, <2>4, <2>6 DEF RefusedInv
<1>. QED
  BY Zenon, <1>6, <1>7

(* Equal ids are those of two groups, or of a group without primary one.   *)
LEMMA RefusedEnd ==
  ASSUME FilesType, ParserTypes, GpuAt, RefusedInv, EndOfGroups
  PROVE  RefusedInv'
<1>1. /\ stage = "groups" /\ read' = read /\ parsed' = parsed
      /\ stage' = "expand" \/ (stage' = "failed" /\ SharedGieIds)
  BY Zenon DEF EndOfGroups, Fail
<1>2. CASE stage' = "expand"
  BY <1>2 DEF RefusedInv
<1>3. CASE stage' = "failed"
  <2>1. SUFFICES ASSUME parsed = <<>>, read.list = <<>> PROVE RefusalExplained(read')
    BY Zenon, <1>1, <1>3, CauseFound DEF RefusedInv
  <2> DEFINE gs == read.groups
             T == TurnedOn(gs, "secondary-gie")
             P == TurnedOn(gs, "primary-gie")
  <2>2. Kept(gs, cfg) /\ gs \in Seq(Groups) /\ cfg.ngie \in Nat
    BY <1>1, <2>1 DEF RefusedInv, FilesType, ParserTypes, Counts
  <2>3. /\ cfg.ngie = Many(gs, "secondary-gie")
        /\ \A n \in T : cfg.gie[SlotOf(gs, n)].uid = GieId(gs[n])
        /\ \A n \in P : cfg.primary.uid = GieId(gs[n])
        /\ P = {} => cfg.primary.uid = 0
    BY Zenon, <2>2 DEF Kept, GiesReady, PrimaryReady
  <2>4. \A i \in 0 .. Many(gs, "secondary-gie") - 1 : \E n \in T : SlotOf(gs, n) = i
    BY Zenon, <2>2, SlotsInOrder
  <2>5. \A i \in Slots(cfg.ngie) : \E n \in T : SlotOf(gs, n) = i
    BY Zenon, <2>3, <2>4 DEF Slots
  <2>6. \A n \in T : n \in GiesOn(gs) /\ n \notin P
    <3>1. \A n \in T : gs[n].kind = "secondary-gie"
      BY DEF TurnedOn
    <3>2. \A n \in P : gs[n].kind = "primary-gie"
      BY DEF TurnedOn
    <3>3. "secondary-gie" # "primary-gie"
      OBVIOUS
    <3>. QED
      BY Zenon, <3>1, <3>2, <3>3 DEF GiesOn
  <2>7. \A n \in P : n \in GiesOn(gs)
    BY Zenon DEF GiesOn
  <2> HIDE DEF T
  <2>8. SameIds(gs)
    <3>1. CASE \E i \in Slots(cfg.ngie) : cfg.gie[i].uid = cfg.primary.uid
      <4>1. PICK i \in Slots(cfg.ngie) : cfg.gie[i].uid = cfg.primary.uid
        BY Zenon, <3>1
      <4>2. PICK n \in T : SlotOf(gs, n) = i
        BY Zenon, <2>5, <4>1
      <4>3. GieId(gs[n]) = cfg.primary.uid
        BY Zenon, <2>3, <4>1, <4>2
      <4>4. CASE P = {}
        BY Zenon, <2>3, <2>6, <4>3, <4>4 DEF SameIds
      <4>5. CASE P # {}
        BY Zenon, <2>3, <2>6, <2>7, <4>3, <4>5 DEF SameIds
      <4>. QED
        BY Zenon, <4>4, <4>5
    <3>2. CASE \E i, j \in Slots(cfg.ngie) : i < j /\ cfg.gie[i].uid = cfg.gie[j].uid
      <4>1. PICK i \in Slots(cfg.ngie), j \in Slots(cfg.ngie) :
              i < j /\ cfg.gie[i].uid = cfg.gie[j].uid
        BY Zenon, <3>2
      <4>2. i # j
        BY <4>1 DEF Slots
      <4>3. PICK n \in T : SlotOf(gs, n) = i
        BY Zenon, <2>5, <4>1
      <4>4. PICK m \in T : SlotOf(gs, m) = j
        BY Zenon, <2>5, <4>1
      <4>5. n # m /\ GieId(gs[n]) = GieId(gs[m])
        BY Zenon, <2>3, <4>1, <4>2, <4>3, <4>4
      <4>. QED
        BY Zenon, <2>6, <4>5 DEF SameIds
    <3>. QED
      BY Zenon, <1>1, <1>3, <3>1, <3>2 DEF SharedGieIds
  <2>. QED
    BY Zenon, <1>1, <2>8 DEF RefusalExplained
<1>. QED
  BY Zenon, <1>1, <1>2, <1>3

(* The loop that spreads the uris stops only when all the sources asked    *)
(* for do not fit.                                                         *)
LEMMA NoRoom ==
  ASSUME NEW S, NEW gs \in Seq(S), NEW c, NEW k \in Nat, Expanded(gs, c, k), Counts(c),
         k < c.nsrc, c.nsrc + Copies(c.src[k]) > MaxSources
  PROVE  Cardinality(SourcesAsked(gs)) > MaxSources
<1> DEFINE T == SourcesOn(gs)
           n0 == Many(gs, "source")
           F(i) == Cardinality(Further(gs, i))
           s == c.src[k]
<1>1. /\ Sized(gs) /\ c.nsrc = n0 + F(k)
      /\ \A n \in T : SlotOf(gs, n) >= k => Raw(c.src[SlotOf(gs, n)], gs[n])
      /\ \A i \in Slots(MaxSources) : i >= n0 /\ i < c.nsrc => c.src[i].type = SourceUri
  BY Zenon DEF Expanded
<1>2. /\ MaxSources \in Nat /\ n0 \in Nat /\ k + 1 \in Nat
      /\ c.nsrc \in Nat /\ c.nsrc <= MaxSources
  <2>1. MaxSources \in Nat
    BY ConfigAssumption
  <2>2. n0 \in Nat
    BY Zenon, SlotIsTaken
  <2>3. c.nsrc \in 0 .. MaxSources
    BY Zenon DEF Counts
  <2> HIDE DEF n0
  <2>. QED
    BY <2>1, <2>2, <2>3
<1>3. \A i \in Nat : F(i) \in Nat
  BY Zenon, <1>1, FurtherGrows
<1>4. k \in Slots(MaxSources)
  BY <1>2 DEF Slots
<1>5. CASE k >= n0
  <2>1. s.type = SourceUri
    BY Zenon, <1>1, <1>4, <1>5
  <2>2. Copies(s) = 0
    BY <2>1 DEF Copies, SourceUri, SourceMultiple
  <2>. QED
    BY <1>2, <2>2
<1>6. CASE k < n0
  <2>1. \A i \in 0 .. n0 - 1 : \E n \in T : SlotOf(gs, n) = i
    BY Zenon, SlotsInOrder DEF SourcesOn
  <2>2. k \in 0 .. n0 - 1
    BY <1>2, <1>6
  <2>3. PICK n \in T : SlotOf(gs, n) = k
    BY Zenon, <2>1, <2>2
  <2>4. UrisOf(gs[n]) \in Nat \ {0} /\ Copies(s) = UrisOf(gs[n]) - 1
    <3>1. k >= k
      OBVIOUS
    <3>2. Raw(s, gs[n])
      BY Zenon, <1>1, <2>3, <3>1
    <3>. QED
      BY Zenon, <3>2 DEF Raw
  <2>5. F(k + 1) = F(k) + UrisOf(gs[n]) - 1
    BY Zenon, <1>1, <2>3, FurtherGrows
  <2>6. F(k + 1) <= F(n0)
    <3>1. k + 1 <= n0
      BY <1>2, <1>6
    <3>. QED
      BY Zenon, <1>1, <1>2, <3>1, FurtherIn
  <2>7. Cardinality(SourcesAsked(gs)) = n0 + F(n0)
    <3>1. n0 >= n0
      BY <1>2
    <3>. QED
      BY Zenon, <1>1, <1>2, <3>1, AskedSize
  <2>8. F(k) \in Nat /\ F(k + 1) \in Nat /\ F(n0) \in Nat /\ c.nsrc = n0 + F(k)
    BY Zenon, <1>1, <1>2, <1>3
  <2> HIDE DEF F, n0, s
  <2>9. c.nsrc + Copies(s) > MaxSources
    BY Zenon DEF s
  <2>. QED
    BY <1>2, <2>4, <2>5, <2>6, <2>7, <2>8, <2>9
<1>. QED
  BY <1>2, <1>5, <1>6

LEMMA RefusedExpand ==
  ASSUME FilesType, ParserTypes, SourcesAt, ExpandSource
  PROVE  RefusedInv'
<1>1. Counts(cfg) /\ next \in Nat /\ read.groups \in Seq(Groups)
  BY DEF ParserTypes, FilesType
<1>2. /\ stage = "expand" /\ next < cfg.nsrc /\ read' = read
      /\ \/ stage' = "failed" /\ cfg.nsrc + Copies(cfg.src[next]) > MaxSources
         \/ stage' = "expand"
  BY Zenon, <1>1, ExpandTurn
<1>3. CASE stage' = "expand"
  BY <1>3 DEF RefusedInv
<1>4. CASE stage' = "failed"
  <2>1. SUFFICES ASSUME read.list = <<>> PROVE RefusalExplained(read')
    BY Zenon, <1>2, <1>4, CauseFound DEF RefusedInv
  <2>2. Expanded(read.groups, cfg, next)
    BY <1>2, <2>1 DEF SourcesAt
  <2>3. cfg.nsrc + Copies(cfg.src[next]) > MaxSources
    BY <1>2, <1>4
  <2>4. Cardinality(SourcesAsked(read.groups)) > MaxSources
    BY Zenon, <1>1, <1>2, <2>2, <2>3, NoRoom
  <2>. QED
    BY Zenon, <1>2, <2>4 DEF RefusalExplained, TooMany
<1>. QED
  BY Zenon, <1>2, <1>3, <1>4


(* What is wrong with the group read last is wrong with the file.          *)
LEMMA LastGroup ==
  ASSUME NEW S, NEW gs \in Seq(S), NEW g,
         \/ Unreadable(g)
         \/ g.kind = "source" /\ g.index = -1
         \/ g.kind = "source" /\ SourceRefused(g) /\ g.index \notin cameraIds
         \/ g.kind \in {"secondary-gie", "primary-gie"} /\ GieRefused(g)
  PROVE  FaultyGroup(Append(gs, g))
<1> DEFINE t == Append(gs, g)
           last == Len(gs) + 1
<1>1. last \in 1 .. Len(t) /\ t[last] = g
  <2>1. Len(gs) \in Nat /\ Len(t) = last /\ t[last] = g
    BY AppendFacts
  <2>. QED
    BY <2>1
<1> HIDE DEF t, last
<1>2. CASE Unreadable(g)
  BY Zenon, <1>1, <1>2 DEF FaultyGroup, t
<1>3. CASE g.kind = "source" /\ g.index = -1
  <2>1. last \in OfKind(t, "source") /\ t[last].index = -1
    BY Zenon, <1>1, <1>3 DEF OfKind
  <2>. QED
    BY Zenon, <2>1 DEF FaultyGroup, t
<1>4. CASE g.kind = "source" /\ SourceRefused(g) /\ g.index \notin cameraIds
  <2>1. last \in SourcesOn(t) /\ SourceKeysRefused(t[last])
    BY Zenon, <1>1, <1>4 DEF SourceRefused, SourcesOn, TurnedOn
  <2>. QED
    BY Zenon, <2>1 DEF FaultyGroup, t
<1>5. CASE g.kind \in {"secondary-gie", "primary-gie"} /\ GieRefused(g)
  <2>1. /\ ~Off(g) /\ (Unreadable(g) \/ "config-file" \notin DOMAIN g.keys)
        /\ g.kind = "secondary-gie" \/ g.kind = "primary-gie"
    BY Zenon, <1>5 DEF GieRefused
  <2>2. last \in GiesOn(t)
    BY Zenon, <1>1, <2>1 DEF GiesOn, TurnedOn
  <2>. QED
    BY Zenon, <1>1, <1>2, <2>1, <2>2 DEF FaultyGroup, t
<1>. QED
  BY Zenon, <1>2, <1>3, <1>4, <1>5

(* A full array of sources: the group is one too many.                     *)
LEMMA SourceTooMany ==
  ASSUME NEW f \in Families, NEW g \in f.groups, g.kind = "source", NEW S, NEW gs \in Seq(S),
         NEW c, Ready(gs, c), c.nsrc = MaxSources
  PROVE  FaultyGroup(Append(gs, g)) \/ TooMany(Append(gs, g))
<1> DEFINE t == Append(gs, g)
<1>1. Many(gs, "source") = MaxSources /\ MaxSources \in Nat
  BY ConfigAssumption DEF Ready
<1>2. SlotsGrow(gs, g, "source")
  BY Zenon, SlotsAppend
<1>3. CASE Off(g)
  <2>1. SourcesOn(t) = SourcesOn(gs)
    BY Zenon, <1>2, <1>3 DEF SlotsGrow, SourcesOn
  <2>2. Cardinality(SourcesOn(t)) = MaxSources
    BY Zenon, <1>1, <2>1 DEF Many, SourcesOn
  <2>3. /\ Cardinality(OfKind(gs, "source")) \in Nat
        /\ MaxSources <= Cardinality(OfKind(gs, "source"))
        /\ Cardinality(OfKind(t, "source")) = Cardinality(OfKind(gs, "source")) + 1
    BY Zenon, <1>1, OfKindSize
  <2>4. Cardinality(OfKind(t, "source")) > MaxSources
    BY <1>1, <2>3
  <2>. QED
    BY Zenon, <2>2, <2>4 DEF TooMany
<1>4. CASE ~Off(g) /\ Unreadable(g)
  BY Zenon, <1>4, LastGroup
<1>5. CASE ~Off(g) /\ ~Unreadable(g)
  <2>1. UrisOf(g) \in Nat \ {0}
    <3>1. CASE "num-sources" \in DOMAIN g.keys
      <4>1. Get(g, "num-sources", 0) \in Int \cup {Bad}
        BY Zenon, NumSourcesAssumption
      <4>2. Get(g, "num-sources", 0) = g.keys["num-sources"] /\ g.keys["num-sources"] # Bad
        BY Zenon, <1>5, <3>1 DEF Get, Unreadable
      <4>3. g.keys["num-sources"] \in Int
        BY <4>1, <4>2
      <4>. QED
        BY Zenon, <4>3, OneIsCount, NumSourcesType DEF UrisOf
    <3>2. CASE "num-sources" \notin DOMAIN g.keys
      BY Zenon, <3>2, OneIsCount DEF UrisOf
    <3>. QED
      BY <3>1, <3>2
  <2>2. /\ Many(t, "source") = Many(gs, "source") + 1
        /\ \A n \in SourcesOn(t) : (n \in SourcesOn(gs) /\ t[n] = gs[n]) \/ t[n] = g
    BY Zenon, <1>2, <1>5 DEF SlotsGrow, SourcesOn
  <2>3. \A n \in SourcesOn(gs) : UrisOf(gs[n]) \in Nat \ {0}
    BY Zenon DEF Ready, Raw
  <2>4. Sized(t)
    BY Zenon, <2>1, <2>2, <2>3 DEF Sized
  <2>5. \E T : t \in Seq(T)
    <3>1. t \in Seq(S \cup {g})
      BY AppendFacts
    <3>. QED
      BY Zenon, <3>1
  <2>6. PICK T : t \in Seq(T)
    BY Zenon, <2>5
  <2> DEFINE k == Many(t, "source")
  <2>7. k = MaxSources + 1
    BY Zenon, <1>1, <2>2
  <2>8. k \in Nat /\ k >= k
    BY <1>1, <2>7
  <2> HIDE DEF t
  <2>9. /\ Cardinality(SourcesAsked(t)) = k + Cardinality(Further(t, k))
        /\ Cardinality(Further(t, k)) \in Nat
    BY Zenon, <2>4, <2>6, <2>8, AskedSize, FurtherGrows
  <2> HIDE DEF k
  <2>10. Cardinality(SourcesAsked(t)) > MaxSources
    BY <1>1, <2>7, <2>9
  <2>. QED
    BY Zenon, <2>10 DEF TooMany, t
<1>. QED
  BY Zenon, <1>3, <1>4, <1>5

(* A number is in a file once.                                             *)
LEMMA NumberIsNew ==
  ASSUME family \in Families, NEW g, Reading(g, "source"), IdsOf(read.groups, cameraIds)
  PROVE  g.index \notin cameraIds
<1> SUFFICES ASSUME g.index \in cameraIds PROVE FALSE
  OBVIOUS
<1>1. PICK n \in SourcesOn(read.groups) : read.groups[n].index = g.index
  BY Zenon DEF IdsOf
<1> DEFINE h == read.groups[n]
<1>2. n \in 1 .. Len(read.groups) /\ h.kind = "source" /\ g.kind = "source"
  BY Zenon, <1>1 DEF SourcesOn, TurnedOn, Reading
<1>3. Before(h, g)
  BY Zenon, <1>2 DEF Reading
<1>4. <<h.kind, h.index>> = <<g.kind, g.index>>
  BY Zenon, <1>1, <1>2
<1>5. \A i, j \in DOMAIN family.order : i < j => family.order[i] # family.order[j]
  BY Zenon, FamiliesAssumption
<1>. QED
  BY Zenon, <1>3, <1>4, <1>5 DEF Before

(* A name without a number too.                                            *)
LEMMA OnePrimary ==
  ASSUME family \in Families, NEW g \in family.groups, Reading(g, "primary-gie"),
         \A n \in 1 .. Len(read.groups) : read.groups[n] \in family.groups
  PROVE  OfKind(read.groups, "primary-gie") = {}
<1> SUFFICES ASSUME NEW n \in 1 .. Len(read.groups), read.groups[n].kind = "primary-gie"
             PROVE  FALSE
  BY Zenon DEF OfKind
<1> DEFINE h == read.groups[n]
<1>1. Before(h, g) /\ h \in family.groups /\ g.kind = "primary-gie"
  BY Zenon DEF Reading
<1>2. g.kind \notin Numbered
  BY <1>1 DEF Numbered
<1>3. h.index = g.index
  BY Zenon, <1>1, <1>2, FamiliesAssumption
<1>4. <<h.kind, h.index>> = <<g.kind, g.index>>
  BY Zenon, <1>1, <1>3
<1>5. \A i, j \in DOMAIN family.order : i < j => family.order[i] # family.order[j]
  BY Zenon, FamiliesAssumption
<1>. QED
  BY Zenon, <1>1, <1>4, <1>5 DEF Before

GroupOf(g) ==
  \/ ParseSourceGroup(g)
  \/ ParseSecondaryGie(g) \/ ParseSecondaryPreprocess(g) \/ ParseSink(g)
  \/ \/ ParsePrimaryGie(g) \/ ParsePreprocess(g) \/ ParseStreammux(g)
     \/ ParseOsd(g) \/ ParseTracker(g) \/ ParseTiledDisplay(g)
     \/ ParseDsExample(g) \/ ParseImageSave(g) \/ ParseMsgconv(g)
     \/ ParseTests(g)

LEMMA GroupRead ==
  ASSUME FilesType, ParserTypes, ParseGroup
  PROVE  \E g \in family.groups :
           /\ GroupOf(g) /\ Reading(g, g.kind) /\ ReadStep(g)
           /\ stage = "groups" /\ (stage' = "groups" \/ stage' = "failed")
           /\ family \in Families /\ read.groups \in Seq(Groups)
           /\ read'.list = read.list /\ read'.groups = Append(read.groups, g)
           /\ parsed' = parsed /\ Counts(cfg) /\ DOMAIN cfg = DOMAIN EmptyConfig
<1>1. PICK g \in family.groups : GroupOf(g)
  BY Zenon DEF ParseGroup, GroupOf
<1>2. Reading(g, g.kind)
  <2>1. \A kind : Reading(g, kind) => Reading(g, g.kind)
    BY Zenon DEF Reading
  <2>. QED
    BY Zenon, <1>1, <2>1 DEF GroupOf, ParseSourceGroup, ParsePrimaryGie, ParseSecondaryGie,
       ParsePreprocess, ParseSecondaryPreprocess, ParseSink, ParseStreammux, ParseOsd,
       ParseTracker, ParseTiledDisplay, ParseDsExample, ParsePart, ParseImageSave,
       ParseMsgconv, ParseTests
<1>3. ReadStep(g)
  BY Zenon, <1>1, GroupSteps DEF GroupOf
<1>4. /\ stage = "groups" /\ (stage' = "groups" \/ stage' = "failed")
      /\ read' = [read EXCEPT !.groups = Append(@, g)] /\ parsed' = parsed
  BY Zenon, <1>3 DEF ReadStep
<1>5. /\ DOMAIN read = {"app", "list", "attr", "groups"} /\ family \in Families
      /\ read.groups \in Seq(Groups)
  BY Zenon DEF FilesType
<1>6. read'.list = read.list /\ read'.groups = Append(read.groups, g)
  BY <1>4, <1>5
<1>7. Counts(cfg) /\ DOMAIN cfg = DOMAIN EmptyConfig
  BY Zenon DEF ParserTypes, Counts
<1>. QED
  BY Zenon, <1>1, <1>2, <1>3, <1>4, <1>5, <1>6, <1>7

(* A group that ends the file leaves something wrong to be seen in it.     *)
LEMMA GroupFails ==
  ASSUME FilesType, ParserTypes, GpuAt, SourcesAt, RefusedInv, ParseGroup,
         parsed = <<>>, read.list = <<>>, stage' = "failed"
  PROVE  RefusalExplained(read')
<1>1. PICK g \in family.groups :
           /\ GroupOf(g) /\ Reading(g, g.kind)
           /\ stage = "groups" /\ family \in Families /\ read.groups \in Seq(Groups)
           /\ read'.groups = Append(read.groups, g)
           /\ Counts(cfg) /\ DOMAIN cfg = DOMAIN EmptyConfig
  BY Zenon, GroupRead
<1> DEFINE gs == read.groups
           new == Append(gs, g)
<1>2. Ready(gs, cfg) /\ Reads(read, cfg) /\ IdsOf(gs, cameraIds) /\ Kept(gs, cfg)
  BY <1>1 DEF SourcesAt, GpuAt, RefusedInv
<1>3. stage' # stage
  BY <1>1
<1>4. SUFFICES FaultyGroup(new) \/ TooMany(new)
  BY Zenon, <1>1 DEF RefusalExplained
<1>5. CASE ParseSourceGroup(g)
  <2>1. g.kind = "source" /\ Reading(g, "source")
    BY Zenon, <1>5 DEF ParseSourceGroup, Reading
  <2>2. g.index \notin cameraIds
    BY Zenon, <1>1, <1>2, <2>1, NumberIsNew
  <2>3. cfg.listed = FALSE
    BY Zenon, <1>2 DEF Reads
  <2>4. cfg.nsrc = MaxSources \/ g.index = -1 \/ SourceRefused(g)
    BY Zenon, <1>3, <1>5, <2>3 DEF ParseSourceGroup, SourceLimit
  <2>5. CASE cfg.nsrc = MaxSources
    BY Zenon, <1>1, <1>2, <2>1, <2>5, SourceTooMany
  <2>6. CASE g.index = -1 \/ SourceRefused(g)
    BY Zenon, <1>1, <2>1, <2>2, <2>6, LastGroup
  <2>. QED
    BY Zenon, <2>4, <2>5, <2>6
<1>6. ASSUME NEW kind, NEW n \in Nat, g.kind = kind, n <= Cardinality(OfKind(gs, kind))
      PROVE  Cardinality(OfKind(new, kind)) > n
  <2>1. /\ Cardinality(OfKind(gs, kind)) \in Nat
        /\ Cardinality(OfKind(new, kind)) = Cardinality(OfKind(gs, kind)) + 1
    BY Zenon, <1>1, <1>6, OfKindSize
  <2>. QED
    BY <1>6, <2>1
<1>7. MaxGies \in Nat /\ MaxPreprocess \in Nat /\ MaxSinks \in Nat
  BY ConfigAssumption
<1>8. CASE ParseSecondaryGie(g)
  <2>1. g.kind = "secondary-gie"
    BY Zenon, <1>8 DEF ParseSecondaryGie, Reading
  <2>2. cfg.ngie = MaxGies \/ GieRefused(g)
    BY Zenon, <1>3, <1>8 DEF ParseSecondaryGie, Outcome
  <2>3. CASE cfg.ngie = MaxGies
    <3>1. MaxGies = Many(gs, "secondary-gie")
      BY Zenon, <1>2, <2>3 DEF Kept, GiesReady
    <3>2. MaxGies <= Cardinality(OfKind(gs, "secondary-gie"))
      BY Zenon, <1>1, <3>1, OfKindSize
    <3>3. Cardinality(OfKind(new, "secondary-gie")) > MaxGies
      BY Zenon, <1>6, <1>7, <2>1, <3>2
    <3>. QED
      BY Zenon, <3>3 DEF TooMany
  <2>4. CASE GieRefused(g)
    <3>1. g.kind \in {"secondary-gie", "primary-gie"}
      BY <2>1
    <3>. QED
      BY Zenon, <1>1, <2>4, <3>1, LastGroup
  <2>. QED
    BY Zenon, <2>2, <2>3, <2>4
<1>9. CASE ParseSecondaryPreprocess(g)
  <2>1. g.kind = "secondary-pre-process"
    BY Zenon, <1>9 DEF ParseSecondaryPreprocess, Reading
  <2>2. cfg.npre = MaxPreprocess \/ Unreadable(g)
    BY Zenon, <1>3, <1>9 DEF ParseSecondaryPreprocess, Outcome
  <2>3. CASE cfg.npre = MaxPreprocess
    <3>1. MaxPreprocess <= Cardinality(OfKind(gs, "secondary-pre-process"))
      BY Zenon, <1>2, <2>3 DEF Kept
    <3>2. Cardinality(OfKind(new, "secondary-pre-process")) > MaxPreprocess
      BY Zenon, <1>6, <1>7, <2>1, <3>1
    <3>. QED
      BY Zenon, <3>2 DEF TooMany
  <2>4. CASE Unreadable(g)
    BY Zenon, <1>1, <2>4, LastGroup
  <2>. QED
    BY Zenon, <2>2, <2>3, <2>4
<1>10. CASE ParseSink(g)
  <2>1. g.kind = "sink"
    BY Zenon, <1>10 DEF ParseSink, Reading
  <2>2. cfg.nsink = MaxSinks \/ Unreadable(g)
    BY Zenon, <1>3, <1>10 DEF ParseSink, Outcome
  <2>3. CASE cfg.nsink = MaxSinks
    <3>1. MaxSinks = Many(gs, "sink")
      BY Zenon, <1>2, <2>3 DEF Reads, Taken
    <3>2. MaxSinks <= Cardinality(OfKind(gs, "sink"))
      BY Zenon, <1>1, <3>1, OfKindSize
    <3>3. Cardinality(OfKind(new, "sink")) > MaxSinks
      BY Zenon, <1>6, <1>7, <2>1, <3>2
    <3>. QED
      BY Zenon, <3>3 DEF TooMany
  <2>4. CASE Unreadable(g)
    BY Zenon, <1>1, <2>4, LastGroup
  <2>. QED
    BY Zenon, <2>2, <2>3, <2>4
<1>11. CASE ParsePrimaryGie(g)
  <2>1. g.kind = "primary-gie"
    BY Zenon, <1>11 DEF ParsePrimaryGie, Reading
  <2>2. GieRefused(g)
    BY Zenon, <1>3, <1>11 DEF ParsePrimaryGie, Outcome
  <2>3. g.kind \in {"secondary-gie", "primary-gie"}
    BY <2>1
  <2>. QED
    BY Zenon, <1>1, <2>2, <2>3, LastGroup
<1>12. CASE \/ ParsePreprocess(g) \/ ParseStreammux(g)
            \/ ParseOsd(g) \/ ParseTracker(g) \/ ParseTiledDisplay(g)
            \/ ParseDsExample(g) \/ ParseImageSave(g) \/ ParseMsgconv(g)
            \/ ParseTests(g)
  <2>1. Unreadable(g)
    BY Zenon, <1>3, <1>12 DEF ParsePreprocess, ParseStreammux, ParseOsd, ParseTracker,
       ParseTiledDisplay, ParseDsExample, ParsePart, ParseImageSave, ParseMsgconv,
       ParseTests, Outcome
  <2>. QED
    BY Zenon, <1>1, <2>1, LastGroup
<1>. QED
  BY Zenon, <1>1, <1>5, <1>8, <1>9, <1>10, <1>11, <1>12 DEF GroupOf

(* The primary engine has a group of its own.                              *)
LEMMA PrimaryAlone ==
  ASSUME DOMAIN cfg = DOMAIN EmptyConfig, NEW g, ~(stage' = "failed"),
         \/ ParsePreprocess(g) \/ ParseStreammux(g)
         \/ ParseOsd(g) \/ ParseTracker(g) \/ ParseTiledDisplay(g)
         \/ ParseDsExample(g) \/ ParseImageSave(g) \/ ParseMsgconv(g)
         \/ ParseTests(g)
  PROVE  cfg'.primary = cfg.primary /\ g.kind # "primary-gie" /\ cameraIds' = cameraIds
<1>1. "primary" \in DOMAIN cfg
  BY FieldsOfConfig
<1>2. \A kind : WithPart(g, kind).primary = cfg.primary /\ "primary" \in DOMAIN WithPart(g, kind)
  BY <1>1 DEF WithPart
<1>3. CASE ParsePreprocess(g)
  <2> DEFINE x == ParsedPreprocess(cfg.preprocess, g)
  <2>1. /\ g.kind = "pre-process" /\ cameraIds' = cameraIds
        /\ cfg' = [cfg EXCEPT !.preprocess = x]
    BY Zenon, <1>3 DEF ParsePreprocess, Reading, Outcome, Fail
  <2> HIDE DEF x
  <2>. QED
    BY <1>1, <2>1
<1>4. CASE ParseStreammux(g)
  <2> DEFINE x == [gpu |-> Get(g, "gpu-id", GlobalOr(cfg.mux.gpu)),
                   batch |-> Get(g, "batch-size", cfg.mux.batch), parsed |-> TRUE]
  <2>1. /\ g.kind = "streammux" /\ cameraIds' = cameraIds
        /\ cfg' = [cfg EXCEPT !.mux = [gpu |-> Get(g, "gpu-id", GlobalOr(@.gpu)),
                                       batch |-> Get(g, "batch-size", @.batch),
                                       parsed |-> TRUE]]
    BY Zenon, <1>4 DEF ParseStreammux, Reading, Outcome, Fail
  <2>2. cfg' = [cfg EXCEPT !.mux = x]
    BY <2>1
  <2> HIDE DEF x
  <2>. QED
    BY <1>1, <2>1, <2>2
<1>5. ASSUME NEW kind, kind # "primary-gie", ParsePart(g, kind)
      PROVE  cfg'.primary = cfg.primary /\ g.kind # "primary-gie" /\ cameraIds' = cameraIds
  <2>1. g.kind = kind /\ cfg' = WithPart(g, kind) /\ cameraIds' = cameraIds
    BY Zenon, <1>5 DEF ParsePart, Reading, Outcome, Fail
  <2>. QED
    BY Zenon, <1>2, <1>5, <2>1
<1>6. CASE ParseOsd(g) \/ ParseTracker(g) \/ ParseDsExample(g)
  <2>1. "osd" # "primary-gie" /\ "tracker" # "primary-gie" /\ "ds-example" # "primary-gie"
    OBVIOUS
  <2>. QED
    BY Zenon, <1>5, <1>6, <2>1 DEF ParseOsd, ParseTracker, ParseDsExample
<1>7. CASE ParseTiledDisplay(g)
  <2> DEFINE x == [rows |-> Get(g, "rows", WithPart(g, "tiled-display").tiles.rows),
                   columns |-> Get(g, "columns", WithPart(g, "tiled-display").tiles.columns)]
             w == WithPart(g, "tiled-display")
  <2>1. /\ g.kind = "tiled-display" /\ cameraIds' = cameraIds
        /\ cfg' = [WithPart(g, "tiled-display") EXCEPT
                     !.tiles = [rows |-> Get(g, "rows", @.rows),
                                columns |-> Get(g, "columns", @.columns)]]
    BY Zenon, <1>7 DEF ParseTiledDisplay, Reading, Outcome, Fail
  <2>2. cfg' = [w EXCEPT !.tiles = x]
    BY <2>1
  <2>3. w.primary = cfg.primary /\ "primary" \in DOMAIN w
    BY Zenon, <1>2
  <2> HIDE DEF x, w
  <2>. QED
    BY <2>1, <2>2, <2>3
<1>8. CASE ParseImageSave(g)
  <2>1. /\ g.kind = "img-save" /\ cameraIds' = cameraIds
        /\ cfg' = [cfg EXCEPT !.part["img-save"] =
                     [enable |-> Get(g, "enable", 0), gpu |-> Get(g, "gpu-id", 0)]]
    BY Zenon, <1>8 DEF ParseImageSave, Reading, Outcome, Fail
  <2>. QED
    BY <1>1, <2>1
<1>9. CASE ParseMsgconv(g)
  <2> DEFINE x == Get(g, "enable", cfg.msgconv)
  <2>1. /\ g.kind = "message-converter" /\ cameraIds' = cameraIds
        /\ cfg' = [cfg EXCEPT !.msgconv = x]
    BY Zenon, <1>9 DEF ParseMsgconv, Reading, Outcome, Fail
  <2> HIDE DEF x
  <2>. QED
    BY <1>1, <2>1
<1>10. CASE ParseTests(g)
  <2>1. g.kind = "tests" /\ cfg' = cfg /\ cameraIds' = cameraIds
    BY Zenon, <1>10 DEF ParseTests, Reading, Outcome, Fail
  <2>. QED
    BY <2>1
<1>. QED
  BY Zenon, <1>3, <1>4, <1>6, <1>7, <1>8, <1>9, <1>10

LEMMA IdsOther ==
  ASSUME NEW S, NEW gs \in Seq(S), NEW g, NEW ids, IdsOf(gs, ids)
  PROVE  IdsOf(Append(gs, g), ids)
<1> DEFINE more == IF g.kind = "source" /\ ~Off(g) THEN {Len(gs) + 1} ELSE {}
<1>1. \A n \in SourcesOn(gs) : n \in SourcesOn(Append(gs, g)) /\ Append(gs, g)[n] = gs[n]
  <2>1. SourcesOn(Append(gs, g)) = SourcesOn(gs) \cup more
    BY Zenon, SourcesOnAppend
  <2>2. \A n \in SourcesOn(gs) : Append(gs, g)[n] = gs[n]
    BY AppendFacts DEF SourcesOn, TurnedOn
  <2> HIDE DEF more
  <2>. QED
    BY Zenon, <2>1, <2>2
<1>. QED
  BY Zenon, <1>1 DEF IdsOf

(* One more source group, whose number is new.                             *)
LEMMA IdsNext ==
  ASSUME NEW S, NEW gs \in Seq(S), NEW g, g.kind = "source", ~Off(g),
         NEW ids, IdsOf(gs, ids)
  PROVE  IdsOf(Append(gs, g), ids \cup {g.index})
<1>1. IdsOf(Append(gs, g), ids)
  BY Zenon, IdsOther
<1>2. Len(gs) + 1 \in SourcesOn(Append(gs, g)) /\ Append(gs, g)[Len(gs) + 1] = g
  BY Zenon, SourcesOnAppend
<1>. QED
  BY Zenon, <1>1, <1>2 DEF IdsOf

(* A group that is read is kept: its engine id, or one more of its kind.   *)
LEMMA GroupKeeps ==
  ASSUME FilesType, ParserTypes, GpuAt, RefusedInv, ParseGroup,
         parsed = <<>>, read.list = <<>>, ~(stage' = "failed")
  PROVE  /\ stage' = "groups" /\ Kept(read'.groups, cfg')
         /\ IdsOf(read'.groups, cameraIds')
<1>1. PICK g \in family.groups :
           /\ GroupOf(g) /\ Reading(g, g.kind)
           /\ stage = "groups" /\ (stage' = "groups" \/ stage' = "failed")
           /\ family \in Families /\ read.groups \in Seq(Groups)
           /\ read'.groups = Append(read.groups, g)
           /\ Counts(cfg) /\ DOMAIN cfg = DOMAIN EmptyConfig
  BY Zenon, GroupRead
<1> DEFINE gs == read.groups
           new == Append(gs, g)
           pre == "secondary-pre-process"
<1>2. stage' = "groups"
  BY Zenon, <1>1
<1>3. /\ Reads(read, cfg) /\ IdsOf(gs, cameraIds) /\ Kept(gs, cfg)
      /\ \A n \in 1 .. Len(gs) : gs[n] \in family.groups
  BY <1>1 DEF GpuAt, RefusedInv
<1>4. cfg'.ngie = Many(new, "secondary-gie")
  <2>1. GpuAt'
    BY Zenon, GpuGroups
  <2>2. Reads(read', cfg')
    BY <1>2, <2>1 DEF GpuAt
  <2>. QED
    BY Zenon, <1>1, <2>2 DEF Reads, Taken
<1>5. /\ GiesReady(gs, cfg) /\ PrimaryReady(gs, cfg)
      /\ cfg.npre <= Cardinality(OfKind(gs, pre))
  BY Zenon, <1>3 DEF Kept
<1>6. IdsOf(new, cameraIds)
  BY Zenon, <1>1, <1>3, IdsOther
<1>7. /\ Cardinality(OfKind(gs, pre)) \in Nat /\ cfg.npre \in Nat
      /\ cfg.npre <= Cardinality(OfKind(new, pre))
      /\ g.kind = pre => cfg.npre + 1 <= Cardinality(OfKind(new, pre))
  <2>1. /\ Cardinality(OfKind(gs, pre)) \in Nat
        /\ g.kind = pre => Cardinality(OfKind(new, pre)) = Cardinality(OfKind(gs, pre)) + 1
        /\ g.kind # pre => OfKind(new, pre) = OfKind(gs, pre)
    BY Zenon, <1>1, OfKindSize
  <2>2. cfg.npre \in Nat
    BY <1>1 DEF Counts
  <2>3. CASE g.kind = pre
    BY <1>5, <2>1, <2>2, <2>3
  <2>4. CASE g.kind # pre
    BY <1>5, <2>1, <2>2, <2>4
  <2>. QED
    BY <2>3, <2>4
<1>8. {"gie", "ngie", "primary", "npre"} \subseteq DOMAIN cfg
  BY <1>1, FieldsOfConfig
<1>9. ASSUME g.kind # "secondary-gie", cfg'.gie = cfg.gie, cfg'.ngie = cfg.ngie
      PROVE  GiesReady(new, cfg')
  BY Zenon, <1>1, <1>5, <1>9, GiesOther
<1>10. ASSUME g.kind # "primary-gie", cfg'.primary = cfg.primary
       PROVE  PrimaryReady(new, cfg')
  BY Zenon, <1>1, <1>5, <1>10, PrimaryOther
<1> SUFFICES Kept(new, cfg') /\ IdsOf(new, cameraIds')
  BY Zenon, <1>1, <1>2
<1>11. CASE ParseSourceGroup(g)
  <2>1. g.kind = "source" /\ Rest(cfg, cfg', {"src", "nsrc"})
    BY Zenon, <1>1, <1>11, SourceWrites DEF ParseSourceGroup, Reading
  <2>2. /\ cfg'.gie = cfg.gie /\ cfg'.ngie = cfg.ngie /\ cfg'.npre = cfg.npre
        /\ cfg'.primary = cfg.primary
    BY <1>8, <2>1 DEF Rest
  <2>3. g.kind # "secondary-gie" /\ g.kind # "primary-gie"
    BY <2>1
  <2>4. GiesReady(new, cfg') /\ PrimaryReady(new, cfg')
    BY Zenon, <1>9, <1>10, <2>2, <2>3
  <2>5. cameraIds' = IF Off(g) THEN cameraIds ELSE cameraIds \cup {g.index}
    BY Zenon, <1>11 DEF ParseSourceGroup, Fail
  <2>6. CASE Off(g)
    BY Zenon, <1>6, <1>7, <2>2, <2>4, <2>5, <2>6 DEF Kept
  <2>7. CASE ~Off(g)
    <3>1. IdsOf(new, cameraIds \cup {g.index})
      BY Zenon, <1>1, <1>3, <2>1, <2>7, IdsNext
    <3>. QED
      BY Zenon, <1>7, <2>2, <2>4, <2>5, <2>7, <3>1 DEF Kept
  <2>. QED
    BY Zenon, <2>6, <2>7
<1>12. CASE ParseSecondaryGie(g)
  <2> DEFINE n == cfg.ngie
             x == SecondaryGie(g)
  <2>1. g.kind = "secondary-gie" /\ cameraIds' = cameraIds
    BY Zenon, <1>12 DEF ParseSecondaryGie, Reading, Outcome, Fail
  <2>2. /\ n < MaxGies /\ Rest(cfg, cfg', {"gie", "ngie"})
        /\ cfg'.gie = [cfg.gie EXCEPT ![n] = x]
    BY Zenon, <1>1, <1>12, GieWrites
  <2>3. cfg'.npre = cfg.npre /\ cfg'.primary = cfg.primary
    BY <1>8, <2>2 DEF Rest
  <2>4. n \in Slots(MaxGies) /\ n >= n
    <3>1. n \in 0 .. MaxGies /\ MaxGies \in Nat
      BY <1>1, ConfigAssumption DEF Counts
    <3>. QED
      BY <2>2, <3>1 DEF Slots
  <2>5. "uid" \in DOMAIN cfg.gie[n] /\ cfg.gie[n].uid = 0
    BY Zenon, <1>5, <2>4 DEF GiesReady
  <2>6. "uid" \in DOMAIN x /\ x.uid = IF Off(g) THEN 0 ELSE GieId(g)
    BY Zenon, <2>5, GieParsed DEF SecondaryGie, GieId
  <2> HIDE DEF x
  <2>7. GiesReady(new, cfg')
    <3>1. cfg'.gie = [cfg.gie EXCEPT ![cfg.ngie] = x] /\ cfg.ngie < MaxGies
      BY Zenon, <2>2
    <3> HIDE DEF n
    <3>. QED
      BY Zenon, <1>1, <1>4, <1>5, <2>1, <2>6, <3>1, GiesNext
  <2>8. g.kind # "primary-gie"
    BY <2>1
  <2>. QED
    BY Zenon, <1>6, <1>7, <1>10, <2>1, <2>3, <2>7, <2>8 DEF Kept
<1>13. CASE ParseSecondaryPreprocess(g)
  <2> DEFINE x == ParsedPreprocess(cfg.pre[cfg.npre], g)
  <2>1. g.kind = pre /\ cameraIds' = cameraIds
    BY Zenon, <1>13 DEF ParseSecondaryPreprocess, Reading, Outcome, Fail
  <2>2. /\ Rest(cfg, cfg', {"pre", "npre"})
        /\ cfg'.npre = IF x.enable # 0 THEN cfg.npre + 1 ELSE cfg.npre
    BY Zenon, <1>1, <1>13, PreprocessWrites
  <2>3. cfg'.gie = cfg.gie /\ cfg'.ngie = cfg.ngie /\ cfg'.primary = cfg.primary
    BY <1>8, <2>2 DEF Rest
  <2>4. g.kind # "secondary-gie" /\ g.kind # "primary-gie"
    BY <2>1
  <2>5. GiesReady(new, cfg') /\ PrimaryReady(new, cfg')
    BY Zenon, <1>9, <1>10, <2>3, <2>4
  <2>6. cfg'.npre <= Cardinality(OfKind(new, pre))
    BY Zenon, <1>7, <2>1, <2>2
  <2>. QED
    BY Zenon, <1>6, <2>1, <2>5, <2>6 DEF Kept
<1>14. CASE ParseSink(g)
  <2>1. g.kind = "sink" /\ cameraIds' = cameraIds
    BY Zenon, <1>14 DEF ParseSink, Reading, Outcome, Fail
  <2>2. Rest(cfg, cfg', {"sink", "nsink"})
    BY Zenon, <1>1, <1>14, SinkWrites
  <2>3. /\ cfg'.gie = cfg.gie /\ cfg'.ngie = cfg.ngie /\ cfg'.npre = cfg.npre
        /\ cfg'.primary = cfg.primary
    BY <1>8, <2>2 DEF Rest
  <2>4. g.kind # "secondary-gie" /\ g.kind # "primary-gie"
    BY <2>1
  <2>. QED
    BY Zenon, <1>6, <1>7, <1>9, <1>10, <2>1, <2>3, <2>4 DEF Kept
<1>15. CASE \/ ParsePrimaryGie(g) \/ ParsePreprocess(g) \/ ParseStreammux(g)
            \/ ParseOsd(g) \/ ParseTracker(g) \/ ParseTiledDisplay(g)
            \/ ParseDsExample(g) \/ ParseImageSave(g) \/ ParseMsgconv(g)
            \/ ParseTests(g)
  <2>1. "gpu" \in DOMAIN cfg.mux /\ DOMAIN cfg.part = Parts
    BY Zenon, <1>3 DEF Reads
  <2>2. Rest(cfg, cfg', Others) /\ PartsWritten(g, cfg')
    BY Zenon, <1>1, <1>15, <2>1, OthersWrite, PartsWrite
  <2>3. /\ cfg'.gie = cfg.gie /\ cfg'.ngie = cfg.ngie /\ cfg'.npre = cfg.npre
        /\ g.kind # "secondary-gie"
    BY <1>8, <2>2 DEF Rest, Others, PartsWritten
  <2>4. PrimaryReady(new, cfg') /\ cameraIds' = cameraIds
    <3>1. CASE ParsePrimaryGie(g)
      <4> DEFINE x == ParsedGie(GlobalGie(cfg.primary), g)
      <4>1. /\ Reading(g, "primary-gie") /\ g.kind = "primary-gie" /\ cameraIds' = cameraIds
            /\ cfg' = [cfg EXCEPT !.primary = x]
        BY Zenon, <3>1 DEF ParsePrimaryGie, Reading, Outcome, Fail
      <4>2. cfg'.primary = ParsedGie(GlobalGie(cfg.primary), g)
        <5> HIDE DEF x
        <5>1. cfg'.primary = x
          BY <1>8, <4>1
        <5>. QED
          BY Zenon, <5>1 DEF x
      <4>3. OfKind(gs, "primary-gie") = {}
        BY Zenon, <1>1, <1>3, <4>1, OnePrimary
      <4> HIDE DEF x
      <4>4. PrimaryReady(new, cfg')
        BY Zenon, <1>1, <1>5, <4>1, <4>2, <4>3, PrimaryNext
      <4>. QED
        BY Zenon, <4>1, <4>4
    <3>2. CASE ~ParsePrimaryGie(g)
      BY Zenon, <1>1, <1>10, <1>15, <3>2, PrimaryAlone
    <3>. QED
      BY Zenon, <3>1, <3>2
  <2>. QED
    BY Zenon, <1>6, <1>7, <1>9, <2>3, <2>4 DEF Kept
<1>. QED
  BY Zenon, <1>1, <1>11, <1>12, <1>13, <1>14, <1>15 DEF GroupOf

LEMMA RefusedGroups ==
  ASSUME FilesType, ParserTypes, GpuAt, SourcesAt, RefusedInv, ParseGroup
  PROVE  RefusedInv'
<1>1. parsed' = parsed /\ read'.list = read.list
  BY Zenon, GroupRead
<1>2. SUFFICES ASSUME parsed = <<>>, read.list = <<>> PROVE RefusedInv'
  BY Zenon, <1>1 DEF RefusedInv
<1>3. CASE stage' = "failed"
  <2>1. RefusalExplained(read')
    BY Zenon, <1>2, <1>3, GroupFails
  <2>. QED
    BY Zenon, <1>3, <2>1, CauseFound
<1>4. CASE ~(stage' = "failed")
  <2>1. /\ stage' = "groups" /\ Kept(read'.groups, cfg') /\ IdsOf(read'.groups, cameraIds')
    BY Zenon, <1>2, <1>4, GroupKeeps
  <2>2. stage' \notin {"list", "attr"} /\ stage' # "failed"
    BY <2>1
  <2>. QED
    BY Zenon, <2>1, <2>2 DEF RefusedInv
<1>. QED
  BY Zenon, <1>3, <1>4

LEMMA RefusedAccept ==
  ASSUME FilesType, AcceptFile
  PROVE  RefusedInv'
<1> DEFINE f == [read |-> read, cfg |-> cfg]
<1>1. parsed' = Append(parsed, f)
  BY Zenon DEF AcceptFile
<1> HIDE DEF f
<1>2. PICK S : parsed \in Seq(S)
  BY Zenon DEF FilesType
<1>3. /\ Len(Append(parsed, f)) = Len(parsed) + 1 /\ Len(parsed) \in Nat
  BY <1>2, AppendFacts
<1>4. Append(parsed, f) # <<>>
  BY <1>2, <1>3
<1>. QED
  BY Zenon, <1>1, <1>4 DEF RefusedInv

LEMMA RefusedInit == BuildInit => RefusedInv
<1> SUFFICES ASSUME BuildInit PROVE RefusedInv
  OBVIOUS
<1>1. stage = "app" /\ cameraIds = {}
  BY Zenon DEF BuildInit, Init
<1>2. IdsOf(read.groups, cameraIds)
  BY Zenon, <1>1 DEF IdsOf
<1>. QED
  BY <1>1, <1>2 DEF RefusedInv

LEMMA RefusedNext ==
  BuildInv /\ FilesType /\ ParserTypes /\ GpuInv /\ SourcesInv /\ RefusedInv
    /\ [BuildNext]_buildVars => RefusedInv'
<1> SUFFICES ASSUME BuildInv, FilesType, ParserTypes, GpuInv, SourcesInv, RefusedInv,
                    [BuildNext]_buildVars
             PROVE  RefusedInv'
  OBVIOUS
<1>1. GpuAt /\ SourcesAt
  BY Zenon DEF GpuInv, SourcesInv
<1>2. CASE AcceptFile
  BY Zenon, <1>2, RefusedAccept
<1>3. CASE ~AcceptFile
  <2>1. CASE Parse
    <3>1. ASSUME NEW g, ParseApp(g) PROVE RefusedInv'
      BY Zenon, <1>1, <3>1, RefusedApp
    <3>2. ASSUME NEW l, ParseSourceList(l) PROVE RefusedInv'
      BY Zenon, <3>2, RefusedList
    <3>3. ASSUME NEW g, ParseAttrAll(g) PROVE RefusedInv'
      BY Zenon, <1>1, <3>3, RefusedAttr
    <3>. QED
      BY Zenon, <1>1, <1>3, <2>1, <3>1, <3>2, <3>3, RefusedNone, RefusedGroups, RefusedEnd,
         RefusedExpand DEF Parse, Next
  <2>2. CASE UNCHANGED vars
    <3>1. UNCHANGED <<stage, cfg, read, cameraIds, parsed>>
      BY Zenon, <2>2 DEF vars
    <3>. QED
      BY Zenon, <3>1 DEF RefusedInv
  <2>3. CASE stage = "done" /\ stage' = stage
    <3>1. stage' \notin {"app", "list", "attr", "groups"} /\ stage' # "failed"
      BY <2>3
    <3>2. stage' \notin {"list", "attr"}
      BY <3>1
    <3>3. stage' \notin {"list", "attr", "groups"}
      BY <3>1
    <3>. QED
      BY Zenon, <3>1, <3>2, <3>3 DEF RefusedInv
  <2>4. step # "idle" => stage = "done"
    BY Zenon DEF BuildInv, Where
  <2>5. CASE \/ CreatePipeline \/ ElementFails \/ BuildSources \/ DemuxDone
             \/ BuildExample \/ BuildTee \/ LinkBroker \/ LinkSources
             \/ DestroyPipeline
    BY Zenon, <2>2, <2>5 DEF CreatePipeline, ElementFails, BuildSources, DemuxDone,
       BuildExample, BuildTee, LinkBroker, LinkSources, DestroyPipeline
  <2>6. CASE BuildMultiSource \/ BuildTiled \/ BuildDemuxed \/ BuildCommon
    <3>1. step # "idle" /\ stage' = stage
      BY Zenon, <2>6 DEF BuildMultiSource, BuildTiled, BuildDemuxed, BuildCommon, vars
    <3>. QED
      BY Zenon, <2>3, <2>4, <3>1
  <2>7. CASE UNCHANGED buildVars
    BY Zenon, <2>2, <2>7 DEF buildVars
  <2>. QED
    BY Zenon, <2>1, <2>5, <2>6, <2>7 DEF BuildNext
<1>. QED
  BY Zenon, <1>2, <1>3

(* A first file without a source list is refused only when its groups, or  *)
(* its [application] or [source-attr-all] group, hold what the parser      *)
(* refuses (parse_config_file and the group parsers it calls).             *)
THEOREM RefusedWithCause == BuildSpec => []RefusedForCause
<1>1. RefusedInv => RefusedForCause
  BY Zenon, CauseIsEnough DEF RefusedInv
<1>2. BuildInit => /\ BuildInv /\ FilesType /\ NumbersInv /\ ParserTypes /\ BuildTypes
                   /\ GpuInv /\ SourcesInv /\ RefusedInv
  BY Zenon, BuildInvInit, NumbersInit, TypesInit, GpuInit, SourcesInit, RefusedInit
<1>3. /\ BuildInv /\ FilesType /\ NumbersInv /\ ParserTypes /\ BuildTypes
      /\ GpuInv /\ SourcesInv /\ RefusedInv /\ [BuildNext]_buildVars
      => (/\ BuildInv /\ FilesType /\ NumbersInv /\ ParserTypes /\ BuildTypes
          /\ GpuInv /\ SourcesInv /\ RefusedInv)'
  BY Zenon, BuildInvNext, NumbersNext, BuildTypesNext, GpuNext, SourcesNext, RefusedNext
<1>. QED
  BY <1>1, <1>2, <1>3, PTL DEF BuildSpec
=============================================================================
