------------------------- MODULE PipelineBuild_proofs -------------------------
(* Proofs about PipelineBuild and what it takes from ConfigParser, for      *)
(* every family of configuration files and every size of the arrays.       *)
EXTENDS PipelineBuild, FunctionTheorems, WellFoundedInduction, FiniteSetTheorems, TLAPS

(* What the numbers of sources depend on.                                  *)
numberVars == <<stage, read, parsed, cameraIds>>

Groups == UNION {f.groups : f \in Families}

(* The files accepted, and the groups of each, are sequences.              *)
FilesType ==
  /\ family \in Families /\ DOMAIN read = {"app", "list", "attr", "groups"}
  /\ read.groups \in Seq(Groups)
  /\ parsed \in Seq({parsed[n] : n \in 1 .. Len(parsed)})
  /\ \A n \in 1 .. Len(parsed) : parsed[n].read.groups \in Seq(Groups)

(* camera_id_list holds every number parsed so far, ids: those of the      *)
(* files accepted, fs, and, until the parser ends, those of the groups gs  *)
(* of the file being read.                                                 *)
Index(fs, a, i) == fs[a].read.groups[i].index
Places(fs) ==
  {p \in (1 .. Len(fs)) \X Nat : p[2] \in SourcesOn(fs[p[1]].read.groups)}
AllDistinct(fs) ==
  \A p, q \in Places(fs) :
    Index(fs, p[1], p[2]) = Index(fs, q[1], q[2]) => p = q
Known(fs, ids) == \A p \in Places(fs) : Index(fs, p[1], p[2]) \in ids
OwnDistinct(gs, ids) ==
  \A i \in SourcesOn(gs) :
    gs[i].index \in ids /\ \A j \in SourcesOn(gs) : gs[i].index = gs[j].index => i = j
Apart(fs, gs) ==
  \A p \in Places(fs) : \A j \in SourcesOn(gs) :
    Index(fs, p[1], p[2]) # gs[j].index

NumbersInv ==
  /\ AllDistinct(parsed) /\ Known(parsed, cameraIds)
  /\ stage \notin {"failed", "done"} =>
       OwnDistinct(read.groups, cameraIds) /\ Apart(parsed, read.groups)

LEMMA AppendFacts ==
  ASSUME NEW S, NEW s \in Seq(S), NEW e
  PROVE  /\ Len(Append(s, e)) = Len(s) + 1 /\ Len(s) \in Nat
         /\ Append(s, e)[Len(s) + 1] = e
         /\ \A n \in 1 .. Len(s) : Append(s, e)[n] = s[n]
         /\ Append(s, e) \in Seq(S \cup {e})
<1>1. s \in Seq(S \cup {e})
  OBVIOUS
<1>. QED
  BY <1>1
(* What a group adds to the enabled ones of its file.                      *)
Adds(s, e, kind) ==
  /\ TurnedOn(Append(s, e), kind) =
       TurnedOn(s, kind) \cup IF e.kind = kind /\ ~Off(e) THEN {Len(s) + 1} ELSE {}
  /\ \A n \in TurnedOn(s, kind) : n # Len(s) + 1 /\ Append(s, e)[n] = s[n]
  /\ Append(s, e)[Len(s) + 1] = e

LEMMA TurnedOnAppend ==
  ASSUME NEW S, NEW s \in Seq(S), NEW e, NEW kind
  PROVE  Adds(s, e, kind)
<1> DEFINE On(n, r) == r[n].kind = kind /\ ~Off(r[n])
<1>1. /\ Len(Append(s, e)) = Len(s) + 1 /\ Len(s) \in Nat
      /\ Append(s, e)[Len(s) + 1] = e
      /\ \A n \in 1 .. Len(s) : Append(s, e)[n] = s[n]
  BY AppendFacts
<1>2. \A n : n \in 1 .. Len(s) + 1 <=> n \in 1 .. Len(s) \/ n = Len(s) + 1
  BY <1>1
<1>3. Len(s) + 1 \notin 1 .. Len(s)
  BY <1>1
<1>4. \A r, n : n \in TurnedOn(r, kind) <=> n \in 1 .. Len(r) /\ On(n, r)
  BY Zenon DEF TurnedOn
<1>5. On(Len(s) + 1, Append(s, e)) <=> e.kind = kind /\ ~Off(e)
  BY Zenon, <1>1
<1>6. \A n \in 1 .. Len(s) : On(n, Append(s, e)) <=> On(n, s)
  BY Zenon, <1>1
<1> HIDE DEF On
<1>7. \A n \in TurnedOn(s, kind) : n # Len(s) + 1 /\ Append(s, e)[n] = s[n]
  BY Zenon, <1>1, <1>3, <1>4
<1>8. ASSUME NEW n
      PROVE  n \in TurnedOn(Append(s, e), kind) <=>
               n \in TurnedOn(s, kind) \/ (n = Len(s) + 1 /\ e.kind = kind /\ ~Off(e))
  BY Zenon, <1>1, <1>2, <1>3, <1>4, <1>5, <1>6
<1>9. TurnedOn(Append(s, e), kind) =
        TurnedOn(s, kind) \cup IF e.kind = kind /\ ~Off(e) THEN {Len(s) + 1} ELSE {}
  BY Zenon, <1>8
<1>. QED
  BY Zenon, <1>1, <1>7, <1>9 DEF Adds

LEMMA SourcesOnAppend ==
  ASSUME NEW S, NEW s \in Seq(S), NEW e
  PROVE  /\ SourcesOn(Append(s, e)) =
              SourcesOn(s) \cup IF e.kind = "source" /\ ~Off(e) THEN {Len(s) + 1} ELSE {}
         /\ \A n \in SourcesOn(s) : n # Len(s) + 1 /\ Append(s, e)[n] = s[n]
         /\ Append(s, e)[Len(s) + 1] = e
<1>1. Adds(s, e, "source")
  BY Zenon, TurnedOnAppend
<1>. QED
  BY Zenon, <1>1 DEF Adds, SourcesOn

-----------------------------------------------------------------------------
(* One more group, whose number is new if it is an enabled source.         *)
LEMMA NumbersRead ==
  ASSUME NEW fs, NEW gs \in Seq(Groups), NEW ids, NEW more, NEW g,
         Known(fs, ids), OwnDistinct(gs, ids), Apart(fs, gs),
         \/ ~(g.kind = "source" /\ ~Off(g)) /\ more = ids
         \/ g.index \notin ids /\ more = ids \cup {g.index}
  PROVE  /\ Known(fs, more) /\ OwnDistinct(Append(gs, g), more)
         /\ Apart(fs, Append(gs, g))
<1> DEFINE new == g.kind = "source" /\ ~Off(g)
           all == Append(gs, g)
<1>1. \A x \in ids : x \in more
  BY Zenon
<1>2. /\ SourcesOn(all) = SourcesOn(gs) \cup IF new THEN {Len(gs) + 1} ELSE {}
      /\ \A n \in SourcesOn(gs) : n # Len(gs) + 1 /\ all[n] = gs[n]
      /\ all[Len(gs) + 1] = g
  BY Zenon, SourcesOnAppend
<1>3. new => g.index \notin ids /\ g.index \in more
  BY Zenon
<1> HIDE DEF new, all
<1>4. ASSUME NEW n \in SourcesOn(all)
      PROVE  \/ /\ n \in SourcesOn(gs) /\ n # Len(gs) + 1
                /\ all[n].index = gs[n].index /\ gs[n].index \in ids
             \/ new /\ n = Len(gs) + 1 /\ all[n].index = g.index
  BY Zenon, <1>2 DEF OwnDistinct
<1>5. Known(fs, more)
  BY Zenon, <1>1 DEF Known
<1>6. OwnDistinct(all, more)
  <2> SUFFICES ASSUME NEW i \in SourcesOn(all)
               PROVE  /\ all[i].index \in more
                      /\ \A j \in SourcesOn(all) : all[i].index = all[j].index => i = j
    BY Zenon DEF OwnDistinct
  <2>1. all[i].index \in more
    BY Zenon, <1>1, <1>3, <1>4
  <2>2. ASSUME NEW j \in SourcesOn(all), all[i].index = all[j].index PROVE i = j
    BY Zenon, <1>3, <1>4, <2>2 DEF OwnDistinct
  <2>. QED
    BY Zenon, <2>1, <2>2
<1>7. Apart(fs, all)
  BY Zenon, <1>3, <1>4 DEF Apart, Known
<1>. QED
  BY Zenon, <1>5, <1>6, <1>7 DEF all

(* The file is accepted: its groups join those of the earlier files.       *)
LEMMA NumbersAccepted ==
  ASSUME NEW S, NEW fs \in Seq(S), NEW f, NEW ids,
         AllDistinct(fs), Known(fs, ids), OwnDistinct(f.read.groups, ids),
         Apart(fs, f.read.groups)
  PROVE  AllDistinct(Append(fs, f)) /\ Known(Append(fs, f), ids)
<1> DEFINE all == Append(fs, f)
           gs == f.read.groups
<1>1. /\ Len(all) = Len(fs) + 1 /\ Len(fs) \in Nat
      /\ all[Len(fs) + 1] = f
      /\ \A n \in 1 .. Len(fs) : all[n] = fs[n]
  BY AppendFacts
<1> HIDE DEF all
<1>2. \A n : n \in 1 .. Len(all) => n \in 1 .. Len(fs) \/ n = Len(fs) + 1
  BY <1>1
<1>3. ASSUME NEW p \in Places(all)
      PROVE  \/ p \in Places(fs) /\ Index(all, p[1], p[2]) = Index(fs, p[1], p[2])
             \/ /\ p[1] = Len(fs) + 1 /\ p[2] \in SourcesOn(gs)
                /\ Index(all, p[1], p[2]) = gs[p[2]].index
                /\ p = <<p[1], p[2]>>
  <2>1. p \in (1 .. Len(all)) \X Nat /\ p[2] \in SourcesOn(all[p[1]].read.groups)
    BY Zenon DEF Places
  <2>2. /\ p[1] \in 1 .. Len(all) /\ p[2] \in Nat /\ p = <<p[1], p[2]>>
    BY <2>1
  <2>3. CASE p[1] \in 1 .. Len(fs)
    <3>1. p \in (1 .. Len(fs)) \X Nat
      BY <2>2, <2>3
    <3>2. all[p[1]] = fs[p[1]]
      BY Zenon, <1>1, <2>3
    <3>. QED
      BY Zenon, <3>1, <3>2, <2>1 DEF Places, Index
  <2>4. CASE p[1] = Len(fs) + 1
    BY Zenon, <1>1, <2>1, <2>2, <2>4 DEF Index
  <2>. QED
    BY Zenon, <1>2, <2>2, <2>3, <2>4
<1>4. AllDistinct(all)
  <2> SUFFICES ASSUME NEW p \in Places(all), NEW q \in Places(all),
                      Index(all, p[1], p[2]) = Index(all, q[1], q[2])
               PROVE  p = q
    BY Zenon DEF AllDistinct
  <2>1. CASE p \in Places(fs) /\ Index(all, p[1], p[2]) = Index(fs, p[1], p[2])
    <3>1. q \in Places(fs) /\ Index(all, q[1], q[2]) = Index(fs, q[1], q[2])
      BY Zenon, <1>3, <2>1 DEF Apart
    <3>2. Index(fs, p[1], p[2]) = Index(fs, q[1], q[2])
      BY Zenon, <2>1, <3>1
    <3>3. \A x, y \in Places(fs) :
            Index(fs, x[1], x[2]) = Index(fs, y[1], y[2]) => x = y
      BY Zenon DEF AllDistinct
    <3>. QED
      BY Zenon, <2>1, <3>1, <3>2, <3>3
  <2>2. CASE p[1] = Len(fs) + 1 /\ p[2] \in SourcesOn(gs)
             /\ Index(all, p[1], p[2]) = gs[p[2]].index /\ p = <<p[1], p[2]>>
    <3>1. /\ q[1] = Len(fs) + 1 /\ q[2] \in SourcesOn(gs)
          /\ Index(all, q[1], q[2]) = gs[q[2]].index /\ q = <<q[1], q[2]>>
      BY Zenon, <1>3, <2>2 DEF Apart
    <3>2. p[2] = q[2]
      BY Zenon, <2>2, <3>1 DEF OwnDistinct
    <3>. QED
      BY Zenon, <2>2, <3>1, <3>2
  <2>. QED
    BY Zenon, <1>3, <2>1, <2>2
<1>5. Known(all, ids)
  BY Zenon, <1>3 DEF Known, OwnDistinct
<1>. QED
  BY Zenon, <1>4, <1>5 DEF all

LEMMA NumbersAreDistinct == AllDistinct(parsed) => OneSourcePerNumber
<1> SUFFICES ASSUME AllDistinct(parsed),
                    NEW a \in 1 .. Len(parsed), NEW b \in 1 .. Len(parsed),
                    NEW i \in SourcesOn(parsed[a].read.groups),
                    NEW j \in SourcesOn(parsed[b].read.groups),
                    Index(parsed, a, i) = Index(parsed, b, j)
             PROVE  a = b /\ i = j
  BY Zenon DEF OneSourcePerNumber, Index
<1>1. i \in Nat /\ j \in Nat
  BY DEF SourcesOn, TurnedOn
<1>2. <<a, i>> \in Places(parsed) /\ <<b, j>> \in Places(parsed)
  BY <1>1 DEF Places
<1>3. <<a, i>> = <<b, j>>
  BY Zenon, <1>2 DEF AllDistinct
<1>. QED
  BY Zenon, <1>3

-----------------------------------------------------------------------------
(* The steps of the parser and of the construction.                        *)
LEMMA NumbersInit == BuildInit => FilesType /\ NumbersInv
<1> SUFFICES ASSUME BuildInit PROVE FilesType /\ NumbersInv
  OBVIOUS
<1>1. parsed = <<>> /\ read.groups = <<>>
  BY Zenon DEF BuildInit, Init, NothingRead
<1>2. FilesType
  <2>1. family \in Families /\ read = NothingRead
    BY Zenon DEF BuildInit, Init
  <2>. QED
    BY <1>1, <2>1 DEF FilesType, NothingRead
<1>3. SourcesOn(<<>>) = {} /\ Places(<<>>) = {}
  BY DEF SourcesOn, TurnedOn, Places
<1>4. NumbersInv
  BY Zenon, <1>1, <1>3 DEF NumbersInv, AllDistinct, Known, OwnDistinct, Apart
<1>. QED
  BY Zenon, <1>2, <1>4

Over == stage \in {"failed", "done"}

(* A step that reads no group and accepts no file,                         *)
QuietStep ==
  /\ parsed' = parsed /\ cameraIds' = cameraIds /\ family' = family
  /\ read'.groups = read.groups /\ DOMAIN read' = DOMAIN read
  /\ Over \/ stage' = "failed" => Over'

(* and one that reads the group g.                                         *)
ReadStep(g) ==
  /\ stage = "groups" /\ g \in family.groups /\ parsed' = parsed
  /\ read' = [read EXCEPT !.groups = Append(@, g)] /\ family' = family
  /\ \/ stage' = "failed" /\ cameraIds' = cameraIds
     \/ /\ stage' = stage
        /\ ~(g.kind = "source" /\ ~Off(g)) /\ cameraIds' = cameraIds
     \/ /\ stage' = stage
        /\ g.index \notin cameraIds /\ cameraIds' = cameraIds \cup {g.index}

LEMMA GroupSteps ==
  ASSUME NEW g \in family.groups,
         \/ ParseSourceGroup(g) \/ ParsePrimaryGie(g) \/ ParseSecondaryGie(g)
         \/ ParsePreprocess(g) \/ ParseSecondaryPreprocess(g)
         \/ ParseSink(g) \/ ParseStreammux(g)
         \/ ParseOsd(g) \/ ParseTracker(g) \/ ParseTiledDisplay(g)
         \/ ParseDsExample(g) \/ ParseImageSave(g) \/ ParseMsgconv(g)
         \/ ParseTests(g)
  PROVE  ReadStep(g)
<1>1. ASSUME NEW kind, kind # "source", Reading(g, kind),
             Fail \/ UNCHANGED <<stage, next, cameraIds, parsed>>
      PROVE  ReadStep(g)
  BY Zenon, <1>1 DEF Reading, Fail, ReadStep
<1>2. \A fails, c : Outcome(fails, c) =>
        Fail \/ UNCHANGED <<stage, next, cameraIds, parsed>>
  BY Zenon DEF Outcome
<1>3. CASE ParseSourceGroup(g)
  BY Zenon, <1>3 DEF ParseSourceGroup, Reading, Fail, ReadStep, SourceRefused
<1>4. CASE ParsePrimaryGie(g)
  BY Zenon, <1>1, <1>2, <1>4 DEF ParsePrimaryGie
<1>5. CASE ParseSecondaryGie(g)
  BY Zenon, <1>1, <1>2, <1>5 DEF ParseSecondaryGie
<1>6. CASE ParsePreprocess(g)
  BY Zenon, <1>1, <1>2, <1>6 DEF ParsePreprocess
<1>7. CASE ParseSecondaryPreprocess(g)
  BY Zenon, <1>1, <1>2, <1>7 DEF ParseSecondaryPreprocess
<1>8. CASE ParseSink(g)
  BY Zenon, <1>1, <1>2, <1>8 DEF ParseSink
<1>9. CASE ParseStreammux(g) \/ ParseMsgconv(g) \/ ParseTests(g)
  BY Zenon, <1>1, <1>2, <1>9 DEF ParseStreammux, ParseMsgconv, ParseTests
<1>10. CASE ParseOsd(g) \/ ParseTracker(g) \/ ParseDsExample(g)
  BY Zenon, <1>1, <1>2, <1>10 DEF ParseOsd, ParseTracker, ParseDsExample, ParsePart
<1>11. CASE ParseTiledDisplay(g) \/ ParseImageSave(g)
  BY Zenon, <1>1, <1>2, <1>11 DEF ParseTiledDisplay, ParseImageSave
<1>. QED
  BY Zenon, <1>3, <1>4, <1>5, <1>6, <1>7, <1>8, <1>9, <1>10, <1>11

LEMMA BuildSteps ==
  ASSUME FilesType, [BuildNext]_buildVars
  PROVE  QuietStep \/ (\E g \in Groups : ReadStep(g)) \/ AcceptFile
<1>1. CASE UNCHANGED <<stage, family, read, cameraIds, parsed>>
  BY Zenon, <1>1 DEF QuietStep, Over
<1>2. CASE ParseGroup
  <2>1. PICK g \in family.groups : ReadStep(g)
    BY Zenon, <1>2, GroupSteps DEF ParseGroup
  <2>2. g \in Groups
    BY Zenon DEF FilesType, Groups
  <2>. QED
    BY Zenon, <2>1, <2>2
<1>3. ASSUME NEW k \in {"app", "list", "attr"}, NEW x,
             read' = [read EXCEPT ![k] = x]
      PROVE  read'.groups = read.groups /\ DOMAIN read' = DOMAIN read
  <2>1. k # "groups" /\ "groups" \in DOMAIN read
    BY DEF FilesType
  <2>. QED
    BY <1>3, <2>1
<1>4. "app" \in {"app", "list", "attr"} /\ "list" \in {"app", "list", "attr"}
      /\ "attr" \in {"app", "list", "attr"}
  OBVIOUS
<1>5. ASSUME NEW g, ParseApp(g) PROVE QuietStep
  BY Zenon, <1>3, <1>4, <1>5 DEF ParseApp, Fail, QuietStep, Over
<1>6. ASSUME NEW g, ParseSourceList(g) PROVE QuietStep
  BY Zenon, <1>3, <1>4, <1>6 DEF ParseSourceList, Fail, QuietStep, Over
<1>7. ASSUME NEW g, ParseAttrAll(g) PROVE QuietStep
  BY Zenon, <1>3, <1>4, <1>7 DEF ParseAttrAll, Fail, QuietStep, Over
<1>8. CASE NoSourceList \/ NoAttrAll
  BY Zenon, <1>8 DEF NoSourceList, NoAttrAll, Fail, QuietStep, Over
<1>9. CASE EndOfGroups \/ ExpandSource
  BY Zenon, <1>9 DEF EndOfGroups, ExpandSource, Fail, QuietStep, Over
<1>10. CASE Parse
  BY Zenon, <1>2, <1>5, <1>6, <1>7, <1>8, <1>9, <1>10 DEF Parse, Next
<1>11. CASE \/ CreatePipeline \/ ElementFails \/ BuildSources \/ BuildMultiSource
            \/ DemuxDone \/ BuildExample \/ BuildTee \/ LinkBroker \/ LinkSources
            \/ DestroyPipeline
  BY Zenon, <1>1, <1>11 DEF CreatePipeline, ElementFails, BuildSources, vars,
     BuildMultiSource, DemuxDone, BuildExample, BuildTee, LinkBroker, LinkSources,
     DestroyPipeline
<1>12. CASE BuildTiled \/ BuildDemuxed \/ BuildCommon
  BY Zenon, <1>1, <1>12 DEF BuildTiled, BuildDemuxed, BuildCommon, vars
<1>13. CASE UNCHANGED buildVars
  BY Zenon, <1>1, <1>13 DEF buildVars, vars
<1>. QED
  BY Zenon, <1>10, <1>11, <1>12, <1>13 DEF BuildNext

LEMMA NumbersNext ==
  FilesType /\ NumbersInv /\ [BuildNext]_buildVars => FilesType' /\ NumbersInv'
<1> SUFFICES ASSUME FilesType, NumbersInv, [BuildNext]_buildVars
             PROVE  FilesType' /\ NumbersInv'
  OBVIOUS
<1>1. CASE QuietStep
  <2>1. FilesType'
    BY Zenon, <1>1 DEF FilesType, QuietStep
  <2>2. NumbersInv'
    BY Zenon, <1>1 DEF NumbersInv, QuietStep, Over
  <2>. QED
    BY Zenon, <2>1, <2>2
<1>2. ASSUME NEW g \in Groups, ReadStep(g) PROVE FilesType' /\ NumbersInv'
  <2>1. read.groups \in Seq(Groups) /\ "groups" \in DOMAIN read
    BY DEF FilesType
  <2>2. read'.groups = Append(read.groups, g) /\ DOMAIN read' = DOMAIN read
    BY <1>2, <2>1 DEF ReadStep
  <2>3. FilesType'
    <3>1. read'.groups \in Seq(Groups)
      BY <2>1, <2>2
    <3>. QED
      BY Zenon, <1>2, <2>2, <3>1 DEF FilesType, ReadStep
  <2>4. stage \notin {"failed", "done"}
    BY <1>2 DEF ReadStep
  <2>5. /\ parsed' = parsed /\ AllDistinct(parsed) /\ Known(parsed, cameraIds)
        /\ OwnDistinct(read.groups, cameraIds) /\ Apart(parsed, read.groups)
    BY Zenon, <1>2, <2>4 DEF NumbersInv, ReadStep
  <2>6. CASE stage' = "failed" /\ cameraIds' = cameraIds
    BY Zenon, <2>3, <2>5, <2>6 DEF NumbersInv
  <2>7. CASE \/ ~(g.kind = "source" /\ ~Off(g)) /\ cameraIds' = cameraIds
             \/ g.index \notin cameraIds /\ cameraIds' = cameraIds \cup {g.index}
    <3>1. /\ Known(parsed, cameraIds')
          /\ OwnDistinct(Append(read.groups, g), cameraIds')
          /\ Apart(parsed, Append(read.groups, g))
      BY Zenon, <2>1, <2>5, <2>7, NumbersRead
    <3>. QED
      BY Zenon, <2>2, <2>3, <2>5, <3>1 DEF NumbersInv
  <2>. QED
    BY Zenon, <1>2, <2>3, <2>6, <2>7 DEF ReadStep
<1>3. CASE AcceptFile
  <2> DEFINE f == [read |-> read, cfg |-> cfg]
  <2>1. f.read = read
    OBVIOUS
  <2> HIDE DEF f
  <2>2. /\ stage \notin {"failed", "done"} /\ parsed' = Append(parsed, f)
        /\ cameraIds' = cameraIds /\ family' = family
        /\ \/ stage' = "done" /\ read' = read
           \/ read' = NothingRead
    BY Zenon, <1>3 DEF AcceptFile, f
  <2>3. /\ AllDistinct(parsed) /\ Known(parsed, cameraIds)
        /\ OwnDistinct(read.groups, cameraIds) /\ Apart(parsed, read.groups)
    BY Zenon, <2>2 DEF NumbersInv
  <2>4. AllDistinct(parsed') /\ Known(parsed', cameraIds)
    BY Zenon, <2>1, <2>2, <2>3, NumbersAccepted DEF FilesType
  <2>5. NothingRead.groups = <<>> /\ DOMAIN NothingRead = {"app", "list", "attr", "groups"}
    BY DEF NothingRead
  <2>6. SourcesOn(<<>>) = {}
    BY DEF SourcesOn, TurnedOn
  <2>7. NumbersInv'
    BY Zenon, <2>2, <2>4, <2>5, <2>6 DEF NumbersInv, OwnDistinct, Apart
  <2>8. FilesType'
    <3>1. family' \in Families /\ DOMAIN read' = {"app", "list", "attr", "groups"}
      BY Zenon, <2>2, <2>5 DEF FilesType
    <3>2. read'.groups \in Seq(Groups)
      <4>1. <<>> \in Seq(Groups)
        OBVIOUS
      <4>. QED
        BY Zenon, <2>2, <2>5, <4>1 DEF FilesType
    <3>3. parsed \in Seq({parsed[n] : n \in 1 .. Len(parsed)})
      BY Zenon DEF FilesType
    <3>4. /\ Len(parsed') = Len(parsed) + 1 /\ Len(parsed) \in Nat
          /\ parsed'[Len(parsed) + 1] = f
          /\ \A n \in 1 .. Len(parsed) : parsed'[n] = parsed[n]
      <4>1. PICK S : parsed \in Seq(S)
        BY Zenon, <3>3
      <4>2. /\ Len(Append(parsed, f)) = Len(parsed) + 1 /\ Len(parsed) \in Nat
            /\ Append(parsed, f)[Len(parsed) + 1] = f
            /\ \A n \in 1 .. Len(parsed) : Append(parsed, f)[n] = parsed[n]
        BY <4>1, AppendFacts
      <4>. QED
        BY Zenon, <2>2, <4>2
    <3>5. \A n : n \in 1 .. Len(parsed) + 1 <=> n \in 1 .. Len(parsed) \/ n = Len(parsed) + 1
      BY <3>4
    <3>6. \A n \in 1 .. Len(parsed') : parsed'[n].read.groups \in Seq(Groups)
      BY Zenon, <2>1, <3>4, <3>5 DEF FilesType
    <3>7. parsed' \in Seq({parsed'[n] : n \in 1 .. Len(parsed')})
      <4>1. PICK S : parsed' \in Seq(S)
        BY Zenon, <2>2, <3>3, AppendFacts
      <4>. QED
        BY <4>1
    <3>. QED
      BY Zenon, <3>1, <3>2, <3>6, <3>7 DEF FilesType
  <2>. QED
    BY Zenon, <2>7, <2>8
<1>. QED
  BY Zenon, <1>1, <1>2, <1>3, BuildSteps

(* Over all the files of a command line, enabled source groups carry       *)
(* distinct numbers (camera_id_list of parse_source).                      *)
THEOREM NumbersUsedOnce == BuildSpec => []OneSourcePerNumber
<1>1. FilesType /\ NumbersInv => OneSourcePerNumber
  BY Zenon, NumbersAreDistinct DEF NumbersInv
<1>. QED
  BY <1>1, NumbersInit, NumbersNext, PTL DEF BuildSpec

-----------------------------------------------------------------------------
(* The NvDsConfig keeps its fields, whatever the parser writes to them.    *)
Shaped(c) ==
  /\ DOMAIN c = DOMAIN EmptyConfig /\ "enable" \in DOMAIN c.primary
  /\ c.nsink \in 0 .. MaxSinks

LEMMA FieldsOfConfig ==
  {"global", "listed", "total", "uris", "multi", "maxBatch", "sgieBatch", "attrAll",
   "nsrc", "src", "ngie", "gie", "primary", "npre", "pre", "preprocess", "nsink",
   "sink", "mux", "part", "tiles", "msgconv"} = DOMAIN EmptyConfig
BY DEF EmptyConfig

LEMMA EmptyShaped == Shaped(EmptyConfig)
<1>1. EmptyConfig.nsink = 0 /\ EmptyConfig.primary = NoGie
  BY DEF EmptyConfig
<1>2. "enable" \in DOMAIN NoGie /\ 0 \in 0 .. MaxSinks
  BY ConfigAssumption DEF NoGie
<1>. QED
  BY Zenon, <1>1, <1>2 DEF Shaped

(* Every other field may take any value.                                   *)
LEMMA ShapedUpdate ==
  ASSUME NEW c, Shaped(c), NEW k, k \notin {"primary", "nsink"}, NEW x
  PROVE  Shaped([c EXCEPT ![k] = x])
<1>1. "primary" \in DOMAIN c /\ "nsink" \in DOMAIN c
  BY FieldsOfConfig DEF Shaped
<1>2. /\ DOMAIN [c EXCEPT ![k] = x] = DOMAIN c
      /\ [c EXCEPT ![k] = x].primary = c.primary
      /\ [c EXCEPT ![k] = x].nsink = c.nsink
  BY <1>1
<1>. QED
  BY Zenon, <1>2 DEF Shaped

LEMMA ParserKeepsShape ==
  ASSUME Shaped(cfg), Next
  PROVE  Shaped(cfg')
<1> DEFINE D == DOMAIN EmptyConfig
<1>0. /\ DOMAIN cfg = D /\ "enable" \in DOMAIN cfg.primary /\ cfg.nsink \in 0 .. MaxSinks
      /\ "primary" \in D /\ "nsink" \in D /\ MaxSinks \in Nat
  BY FieldsOfConfig, ConfigAssumption DEF Shaped
<1> HIDE DEF D
<1>1. CASE UNCHANGED cfg
  BY Zenon, <1>1
<1>2. ASSUME NEW g, ParseApp(g) PROVE Shaped(cfg')
  BY <1>0, <1>2, <1>1 DEF ParseApp, Fail, Shaped, D
<1>3. ASSUME NEW g, ParseSourceList(g) PROVE Shaped(cfg')
  BY <1>0, <1>3, <1>1 DEF ParseSourceList, Fail, Shaped, D
<1>4. ASSUME NEW g, ParseAttrAll(g) PROVE Shaped(cfg')
  BY <1>0, <1>4, <1>1 DEF ParseAttrAll, Fail, Shaped, D
<1>5. CASE EndOfGroups
  <2>1. DOMAIN Batched = D /\ DOMAIN Batched.primary = DOMAIN cfg.primary
        /\ Batched.nsink = cfg.nsink
    <3>1. CASE ~cfg.listed
      BY Zenon, <1>0, <3>1 DEF Batched
    <3>2. CASE cfg.listed
      <4> DEFINE x == [cfg EXCEPT !.mux.batch = cfg.nsrc]
                 y == [x EXCEPT !.primary = [@ EXCEPT !.batch = cfg.nsrc]]
      <4>1. DOMAIN x = D /\ x.primary = cfg.primary /\ x.nsink = cfg.nsink
        BY <1>0
      <4> HIDE DEF x
      <4>2. DOMAIN y = D /\ DOMAIN y.primary = DOMAIN cfg.primary /\ y.nsink = cfg.nsink
        BY <1>0, <4>1
      <4> HIDE DEF y
      <4>3. ASSUME NEW z
            PROVE  /\ DOMAIN [y EXCEPT !.gie = z] = D
                   /\ [y EXCEPT !.gie = z].primary = y.primary
                   /\ [y EXCEPT !.gie = z].nsink = y.nsink
        BY <1>0, <4>2
      <4>4. PICK z : Batched = [y EXCEPT !.gie = z]
        BY <3>2 DEF Batched, x, y
      <4>. QED
        BY Zenon, <4>2, <4>3, <4>4
    <3>. QED
      BY Zenon, <3>1, <3>2
  <2>. QED
    BY Zenon, <1>0, <1>1, <1>5, <2>1 DEF EndOfGroups, Fail, Shaped, D
<1>6. CASE ExpandSource
  BY <1>0, <1>6, <1>1 DEF ExpandSource, Fail, Shaped, D
<1>7. CASE AcceptFile
  BY Zenon, <1>1, <1>7, EmptyShaped DEF AcceptFile
<1>8. ASSUME NEW g, ParseSourceGroup(g) PROVE Shaped(cfg')
  BY <1>0, <1>8, <1>1 DEF ParseSourceGroup, Fail, Shaped, D
<1>9. ASSUME NEW g, ParseSink(g) PROVE Shaped(cfg')
  <2>1. ASSUME NEW c, cfg.nsink < MaxSinks
        PROVE  Shaped([cfg EXCEPT !.sink[cfg.nsink] = c,
                                  !.nsink = IF c.enable # 0 THEN @ + 1 ELSE @])
    <3> DEFINE x == [cfg EXCEPT !.sink[cfg.nsink] = c]
    <3>1. DOMAIN x = D /\ x.primary = cfg.primary /\ x.nsink = cfg.nsink
      BY <1>0
    <3> HIDE DEF x
    <3>2. ASSUME NEW n \in 0 .. MaxSinks PROVE Shaped([x EXCEPT !.nsink = n])
      BY <1>0, <3>1 DEF Shaped, D
    <3>3. cfg.nsink + 1 \in 0 .. MaxSinks
      BY <1>0, <2>1
    <3>4. CASE c.enable # 0
      <4>1. [cfg EXCEPT !.sink[cfg.nsink] = c, !.nsink = IF c.enable # 0 THEN @ + 1 ELSE @]
              = [x EXCEPT !.nsink = cfg.nsink + 1]
        BY <1>0, <3>4 DEF x
      <4>. QED
        BY Zenon, <3>2, <3>3, <4>1
    <3>5. CASE ~(c.enable # 0)
      <4>1. [cfg EXCEPT !.sink[cfg.nsink] = c, !.nsink = IF c.enable # 0 THEN @ + 1 ELSE @]
              = [x EXCEPT !.nsink = cfg.nsink]
        BY <1>0, <3>5 DEF x
      <4>. QED
        BY Zenon, <1>0, <3>2, <4>1
    <3>. QED
      BY Zenon, <3>4, <3>5
  <2>. QED
    BY Zenon, <1>1, <1>9, <2>1 DEF ParseSink, Outcome, Fail
<1>10. ASSUME NEW g, ParsePrimaryGie(g) PROVE Shaped(cfg')
  <2>1. ASSUME NEW x, DOMAIN x = DOMAIN cfg.primary
        PROVE  Shaped([cfg EXCEPT !.primary = x])
    BY <1>0, <2>1 DEF Shaped, D
  <2>2. \A c : DOMAIN GlobalGie(c) = DOMAIN c /\ DOMAIN ParsedGie(c, g) = DOMAIN c
    BY Zenon DEF GlobalGie, ParsedGie
  <2>. QED
    BY Zenon, <1>1, <1>10, <2>1, <2>2 DEF ParsePrimaryGie, Outcome, Fail
<1>11. ASSUME NEW g, ParseSecondaryGie(g) PROVE Shaped(cfg')
  BY <1>0, <1>11, <1>1 DEF ParseSecondaryGie, Outcome, Fail, Shaped, D
<1>12. ASSUME NEW g, ParsePreprocess(g) PROVE Shaped(cfg')
  BY <1>0, <1>12, <1>1 DEF ParsePreprocess, Outcome, Fail, Shaped, D
<1>13. ASSUME NEW g, ParseSecondaryPreprocess(g) PROVE Shaped(cfg')
  BY <1>0, <1>13, <1>1 DEF ParseSecondaryPreprocess, Outcome, Fail, Shaped, D
<1>14. ASSUME NEW g, ParseStreammux(g) PROVE Shaped(cfg')
  BY <1>0, <1>14, <1>1 DEF ParseStreammux, Outcome, Fail, Shaped, D
<1>15. ASSUME NEW g, NEW kind, ParsePart(g, kind) PROVE Shaped(cfg')
  BY <1>0, <1>15, <1>1 DEF ParsePart, WithPart, Outcome, Fail, Shaped, D
<1>16. ASSUME NEW g, ParseTiledDisplay(g) PROVE Shaped(cfg')
  <2>1. Shaped(WithPart(g, "tiled-display"))
    BY <1>0 DEF WithPart, Shaped, D
  <2>. QED
    BY <1>1, <1>16, <2>1, ShapedUpdate DEF ParseTiledDisplay, Outcome, Fail
<1>17. ASSUME NEW g, ParseImageSave(g) PROVE Shaped(cfg')
  BY <1>0, <1>17, <1>1 DEF ParseImageSave, Outcome, Fail, Shaped, D
<1>18. ASSUME NEW g, ParseMsgconv(g) \/ ParseTests(g) PROVE Shaped(cfg')
  BY <1>0, <1>18, <1>1 DEF ParseMsgconv, ParseTests, Outcome, Fail, Shaped, D
<1>19. CASE NoSourceList \/ NoAttrAll
  BY Zenon, <1>1, <1>19 DEF NoSourceList, NoAttrAll, Fail
<1>20. CASE ParseGroup
  BY Zenon, <1>8, <1>9, <1>10, <1>11, <1>12, <1>13, <1>14, <1>15, <1>16, <1>17, <1>18,
     <1>20 DEF ParseGroup, ParseOsd, ParseTracker, ParseDsExample
<1>. QED
  BY Zenon, <1>2, <1>3, <1>4, <1>5, <1>6, <1>7, <1>19, <1>20 DEF Next

-----------------------------------------------------------------------------
(* What the construction reads of a configuration, and what may change it: *)
(* nvmultiurisrcbin the number of sources, the tiler its rows and columns, *)
(* the engines their batch sizes.                                          *)
SameInBuild ==
  /\ cfg'.sink = cfg.sink /\ cfg'.nsink = cfg.nsink /\ cfg'.part = cfg.part
  /\ cfg'.primary.enable = cfg.primary.enable /\ cfg'.ngie = cfg.ngie
  /\ cfg'.npre = cfg.npre /\ cfg'.preprocess = cfg.preprocess
  /\ cfg'.msgconv = cfg.msgconv

LEMMA SameViews ==
  ASSUME SameInBuild
  PROVE  /\ Tiled' <=> Tiled
         /\ \A e : Wanted(e)' <=> Wanted(e)
         /\ \A i : Mine(i)' = Mine(i)
         /\ Brokers' = Brokers /\ Passed' = Passed
<1>1. Tiled' <=> Tiled
  BY Zenon DEF SameInBuild, Tiled
<1>2. ASSUME NEW e PROVE Wanted(e)' <=> Wanted(e)
  BY Zenon DEF SameInBuild, Wanted
<1>3. ASSUME NEW i PROVE Mine(i)' = Mine(i)
  BY Zenon DEF SameInBuild, Mine, Slots
<1>4. Brokers' = Brokers
  BY Zenon DEF SameInBuild, Brokers, Slots
<1>5. Analytics' <=> Analytics
  BY Zenon, <1>2 DEF Analytics
<1>6. ASSUME NEW n PROVE Described(n)' <=> Described(n)
  BY Zenon, <1>1, <1>2, <1>5 DEF Described, SameInBuild
<1>7. Passed' = Passed
  BY Zenon, <1>6 DEF Passed
<1>. QED
  BY Zenon, <1>1, <1>2, <1>3, <1>4, <1>7

LEMMA SameWhenUnchanged ==
  ASSUME cfg' = cfg
  PROVE  SameInBuild /\ EnabledSources' = EnabledSources
BY Zenon DEF SameInBuild, EnabledSources, Slots

LEMMA MultiSourceSame ==
  ASSUME Shaped(cfg), BuildMultiSource
  PROVE  SameInBuild /\ Shaped(cfg')
BY FieldsOfConfig DEF Shaped, BuildMultiSource, SameInBuild

LEMMA TilesSame ==
  ASSUME Shaped(cfg), NEW x, cfg' = [cfg EXCEPT !.tiles = x]
  PROVE  SameInBuild /\ Shaped(cfg') /\ cfg'.nsrc = cfg.nsrc
BY FieldsOfConfig DEF Shaped, SameInBuild

LEMMA BatchSame ==
  ASSUME Shaped(cfg), NEW e, cfg' = BatchOverridden(e)
  PROVE  SameInBuild /\ Shaped(cfg') /\ cfg'.nsrc = cfg.nsrc
<1>1. CASE cfg' = cfg
  BY Zenon, <1>1, SameWhenUnchanged
<1>2. CASE cfg' = [cfg EXCEPT !.primary.batch = cfg.maxBatch]
  BY <1>2, FieldsOfConfig DEF Shaped, SameInBuild
<1>3. ASSUME NEW x, cfg' = [cfg EXCEPT !.gie = x]
      PROVE SameInBuild /\ Shaped(cfg') /\ cfg'.nsrc = cfg.nsrc
  BY <1>3, FieldsOfConfig DEF Shaped, SameInBuild
<1>. QED
  BY <1>1, <1>2, <1>3 DEF BatchOverridden

-----------------------------------------------------------------------------
(* Where construction and parser are, and the types of what they count.    *)
Where ==
  /\ Shaped(cfg) /\ at \in Nat /\ builds \in Nat
  /\ step # "idle" \/ builds > 0 => stage = "done"
  /\ builds = 0 => step = "idle"
  /\ DOMAIN ends = {"sink", "src", "last"} /\ DOMAIN sinkBins = Instances

(* In the first pipeline no pointer shows a freed element, and until the   *)
(* first instance is built it has no sinks.                                *)
First == builds = 0 \/ (builds = 1 /\ step # "idle")
FirstInv ==
  First => /\ sinkBins[0].sinks[0] # "freed"
           /\ step \in {"idle", "sources"} \/ (step = "outputs" /\ Tiled) =>
                sinkBins[0].num = 0

(* Once the sinks of the first instance are made, each has a pointer.      *)
SinksMade ==
  \/ step = "outputs" /\ ~Tiled /\ at > 0
  \/ step \in {"example", "common", "broker"} /\ (Tiled \/ cfg.nsrc # 0)
SinksInv == SinksMade => \A k \in Mine(0) : sinkBins[0].sinks[k] # "none"

(* src_elem is set as soon as one of the common elements is wanted.        *)
AnalyticsInv ==
  /\ step \in {"idle", "sources", "outputs", "example"} => ends.src = None
  /\ step = "common" =>
       at <= 5 /\ \A n \in 1 .. at : Wanted(Common[n]) => ends.src # None
  /\ step = "broker" => \A n \in 1 .. 5 : Wanted(Common[n]) => ends.src # None

(* Why creation may give up, and when the process may end.                 *)
UnknownSource == \E i \in EnabledSources : cfg.src[i].type \notin BuiltSources
UnknownKind(s) ==
  \/ s.type \notin 1 .. 6
  \/ s.type \in {File, Udp} /\ s.codec \notin 1 .. 3
  \/ s.type = Udp /\ s.codec = 3
  \/ s.type = File /\ s.container \notin 1 .. 2
BrokerAlone == Brokers # {} /\ (Analytics => ~Tiled /\ cfg.nsrc = 0)
BrokerElsewhere == \E k \in Brokers : k \notin Mine(0)
FirstSinkMissing == Tiled /\ 0 \notin Mine(0) /\ (builds = 1 => Mine(0) # {})
Cause ==
  \/ lost
  \/ UnknownSource
  \/ \E k \in Slots(cfg.nsink) : UnknownKind(cfg.sink[k])
  \/ BrokerAlone \/ BrokerElsewhere \/ FirstSinkMissing
FreedSink == builds > 1 /\ Tiled /\ 0 \notin Mine(0)
CauseInv == (step = "failed" => Cause) /\ (step = "crashed" => FreedSink)

BuildInv == Where /\ FirstInv /\ SinksInv /\ AnalyticsInv /\ CauseInv

LEMMA CauseIsTheProperty == CauseInv <=> BuildFailsForCause
BY Zenon DEF CauseInv, Cause, FreedSink, BuildFailsForCause, UnknownSource, UnknownKind,
   Analytics, BrokerAlone, BrokerElsewhere, FirstSinkMissing

LEMMA CauseSame ==
  ASSUME cfg' = cfg, builds' = builds
  PROVE  /\ Cause /\ (lost => lost') => Cause'
         /\ FreedSink => FreedSink'
<1>1. /\ Tiled' <=> Tiled
      /\ \A e : Wanted(e)' <=> Wanted(e)
      /\ \A i : Mine(i)' = Mine(i) /\ Brokers' = Brokers
      /\ EnabledSources' = EnabledSources
  BY Zenon, SameWhenUnchanged, SameViews
<1>2. (UnknownSource => UnknownSource') /\ (Analytics' => Analytics)
  BY Zenon, <1>1 DEF UnknownSource, Analytics
<1>3. BrokerAlone => BrokerAlone'
  BY Zenon, <1>1, <1>2 DEF BrokerAlone
<1>4. BrokerElsewhere => BrokerElsewhere'
  BY Zenon, <1>1 DEF BrokerElsewhere
<1>5. FirstSinkMissing => FirstSinkMissing'
  BY Zenon, <1>1 DEF FirstSinkMissing
<1>6. (\E k \in Slots(cfg.nsink) : UnknownKind(cfg.sink[k]))
        => (\E k \in Slots(cfg'.nsink) : UnknownKind(cfg'.sink[k]))
  BY Zenon
<1>7. FreedSink => FreedSink'
  BY Zenon, <1>1 DEF FreedSink
<1>. QED
  BY Zenon, <1>2, <1>3, <1>4, <1>5, <1>6, <1>7 DEF Cause

LEMMA BuildInvInit == BuildInit => BuildInv
<1> SUFFICES ASSUME BuildInit PROVE BuildInv
  OBVIOUS
<1>1. /\ step = "idle" /\ at = 0 /\ builds = 0 /\ cfg = EmptyConfig
      /\ ends = [sink |-> None, src |-> None, last |-> None]
      /\ sinkBins = [i \in Instances |->
                   [num |-> 0, sinks |-> [k \in Slots(MaxSinks) |-> "none"]]]
  BY Zenon DEF BuildInit, Init
<1>2. 0 \in Instances /\ 0 \in Slots(MaxSinks)
  BY ConfigAssumption DEF Instances, Slots
<1>3. /\ sinkBins[0].num = 0 /\ sinkBins[0].sinks[0] = "none"
      /\ DOMAIN sinkBins = Instances
  <2>1. /\ sinkBins[0] = [num |-> 0, sinks |-> [k \in Slots(MaxSinks) |-> "none"]]
        /\ DOMAIN sinkBins = Instances
    BY Zenon, <1>1, <1>2
  <2>2. sinkBins[0].num = 0 /\ sinkBins[0].sinks = [k \in Slots(MaxSinks) |-> "none"]
    BY <2>1
  <2>. QED
    BY Zenon, <1>2, <2>1, <2>2
<1>4. DOMAIN ends = {"sink", "src", "last"} /\ ends.src = None
  BY <1>1
<1>5. Where
  BY <1>1, <1>3, <1>4, EmptyShaped DEF Where
<1>6. FirstInv
  BY <1>3 DEF FirstInv
<1>7. SinksInv /\ AnalyticsInv /\ CauseInv
  BY <1>1, <1>4 DEF SinksMade, SinksInv, AnalyticsInv, CauseInv
<1>. QED
  BY Zenon, <1>5, <1>6, <1>7 DEF BuildInv

-----------------------------------------------------------------------------
(* The parser is done before the construction begins.                      *)
LEMMA ParserNotDone == Next => stage # "done"
BY Zenon DEF Next, ParseApp, NoSourceList, ParseSourceList, NoAttrAll, ParseAttrAll,
   ParseGroup, ParseSourceGroup, ParsePrimaryGie, ParseSecondaryGie, ParsePreprocess,
   ParseSecondaryPreprocess, ParseSink, ParseStreammux, ParseOsd, ParseTracker, ParsePart,
   ParseTiledDisplay, ParseDsExample, ParseImageSave, ParseMsgconv, ParseTests, Reading,
   EndOfGroups, ExpandSource, AcceptFile

LEMMA ParseBuilds == BuildInv /\ Parse => BuildInv'
<1> SUFFICES ASSUME BuildInv, Parse PROVE BuildInv'
  OBVIOUS
<1>1. Next /\ UNCHANGED building
  BY Zenon DEF Parse
<1>2. stage # "done"
  BY Zenon, <1>1, ParserNotDone
<1>3. /\ step = "idle" /\ builds = 0
      /\ step' = step /\ at' = at /\ builds' = builds /\ ends' = ends
      /\ sinkBins' = sinkBins
  BY <1>1, <1>2 DEF BuildInv, Where, building
<1>4. Shaped(cfg')
  BY Zenon, <1>1, ParserKeepsShape DEF BuildInv, Where
<1>5. Where'
  BY <1>3, <1>4 DEF BuildInv, Where
<1>6. FirstInv'
  BY <1>3 DEF BuildInv, FirstInv, First
<1>7. SinksInv' /\ AnalyticsInv' /\ CauseInv'
  BY <1>3 DEF BuildInv, SinksMade, SinksInv, AnalyticsInv, CauseInv
<1>. QED
  BY Zenon, <1>5, <1>6, <1>7 DEF BuildInv

(* A pipeline is begun, the sources are built.                             *)
LEMMA BeginBuilds ==
  BuildInv /\ (CreatePipeline \/ BuildSources \/ BuildMultiSource) => BuildInv'
<1> SUFFICES ASSUME BuildInv, CreatePipeline \/ BuildSources \/ BuildMultiSource
             PROVE  BuildInv'
  OBVIOUS
<1>1. CASE CreatePipeline
  <2>1. /\ stage = "done" /\ step = "idle" /\ step' = "sources" /\ builds' = builds + 1
        /\ cfg' = cfg /\ at' = at /\ ends' = ends /\ sinkBins' = sinkBins /\ stage' = stage
    BY Zenon, <1>1 DEF CreatePipeline, GoTo, vars
  <2>2. Where'
    BY <2>1 DEF BuildInv, Where
  <2>3. FirstInv'
    <3>1. First' => First
      BY <2>1 DEF BuildInv, Where, First
    <3>. QED
      BY Zenon, <2>1, <3>1 DEF BuildInv, FirstInv
  <2>4. SinksInv' /\ AnalyticsInv' /\ CauseInv'
    BY <2>1 DEF BuildInv, SinksMade, SinksInv, AnalyticsInv, CauseInv
  <2>. QED
    BY Zenon, <2>2, <2>3, <2>4 DEF BuildInv
<1>2. CASE BuildSources /\ step' = "failed"
  <2>1. /\ step = "sources" /\ cfg' = cfg /\ builds' = builds /\ lost' = lost /\ stage' = stage
        /\ at' = at /\ ends' = ends /\ sinkBins' = sinkBins
        /\ \E i \in EnabledSources : cfg.src[i].type \notin BuiltSources
    <3>1. "outputs" # "failed"
      OBVIOUS
    <3>. QED
      BY Zenon, <1>2, <3>1 DEF BuildSources, Abandon, GoTo, vars
  <2>2. Cause'
    <3>1. Cause
      BY Zenon, <2>1 DEF Cause, UnknownSource
    <3>. QED
      BY Zenon, <2>1, <3>1, CauseSame
  <2>3. Where'
    BY <1>2, <2>1 DEF BuildInv, Where
  <2>4. FirstInv'
    BY <1>2, <2>1 DEF BuildInv, Where, FirstInv, First
  <2>5. SinksInv' /\ AnalyticsInv' /\ CauseInv'
    BY <1>2, <2>2 DEF BuildInv, SinksMade, SinksInv, AnalyticsInv, CauseInv
  <2>. QED
    BY Zenon, <2>3, <2>4, <2>5 DEF BuildInv
<1>3. CASE (BuildSources \/ BuildMultiSource) /\ step' # "failed"
  <2>1. /\ step = "sources" /\ step' = "outputs" /\ at' = 0 /\ builds' = builds
        /\ ends' = ends /\ sinkBins' = sinkBins /\ stage' = stage
    BY <1>3 DEF BuildSources, BuildMultiSource, Abandon, GoTo, vars
  <2>2. SameInBuild /\ Shaped(cfg')
    <3>1. Shaped(cfg)
      BY Zenon DEF BuildInv, Where
    <3>2. BuildSources => cfg' = cfg
      BY Zenon DEF BuildSources, vars
    <3>. QED
      BY Zenon, <1>3, <3>1, <3>2, MultiSourceSame, SameWhenUnchanged
  <2>3. Where'
    BY <2>1, <2>2 DEF BuildInv, Where
  <2>4. FirstInv'
    <3>1. First' => First
      BY <2>1 DEF BuildInv, Where, First
    <3>. QED
      BY Zenon, <2>1, <3>1 DEF BuildInv, FirstInv
  <2>5. SinksInv' /\ AnalyticsInv' /\ CauseInv'
    BY <2>1 DEF BuildInv, SinksMade, SinksInv, AnalyticsInv, CauseInv
  <2>. QED
    BY Zenon, <2>3, <2>4, <2>5 DEF BuildInv
<1>. QED
  BY Zenon, <1>1, <1>2, <1>3 DEF BuildMultiSource, GoTo

(* What a step after the sources leaves to be shown when the sinks stay.   *)
LEMMA LaterWhere ==
  ASSUME BuildInv, step # "idle", step' # "idle", builds' = builds, stage' = stage,
         Shaped(cfg'), at' \in Nat, DOMAIN ends' = {"sink", "src", "last"},
         DOMAIN sinkBins' = Instances
  PROVE  Where' /\ (First' => First)
BY DEF BuildInv, Where, First

LEMMA LaterFirst ==
  ASSUME BuildInv, step # "idle", First' => First, sinkBins' = sinkBins,
         step' \notin {"idle", "sources", "outputs"}
  PROVE  FirstInv'
BY Zenon DEF BuildInv, FirstInv

(* Creation gives up for a cause.                                          *)
LEMMA Abandoned ==
  ASSUME BuildInv, step # "idle", Abandon, cfg' = cfg, builds' = builds, stage' = stage,
         lost => lost', Cause \/ lost'
  PROVE  BuildInv'
<1>1. /\ step' = "failed" /\ at' = at /\ ends' = ends /\ sinkBins' = sinkBins
  BY Zenon DEF Abandon
<1>2. Shaped(cfg') /\ at' \in Nat /\ DOMAIN ends' = {"sink", "src", "last"}
      /\ DOMAIN sinkBins' = Instances /\ step' # "idle"
  BY Zenon, <1>1 DEF BuildInv, Where
<1>3. Where' /\ (First' => First)
  BY Zenon, <1>2, LaterWhere
<1>4. step' \notin {"idle", "sources", "outputs"}
  BY <1>1
<1>5. FirstInv'
  BY Zenon, <1>1, <1>3, <1>4, LaterFirst
<1>6. SinksInv' /\ AnalyticsInv'
  BY <1>1 DEF SinksMade, SinksInv, AnalyticsInv
<1>7. Cause'
  BY Zenon, CauseSame DEF Cause
<1>8. CauseInv'
  BY <1>1, <1>7 DEF CauseInv
<1>. QED
  BY Zenon, <1>3, <1>5, <1>6, <1>8 DEF BuildInv

LEMMA FailBuilds == BuildInv /\ ElementFails => BuildInv'
<1> SUFFICES ASSUME BuildInv, ElementFails PROVE BuildInv'
  OBVIOUS
<1>1. step # "idle"
  BY DEF ElementFails
<1>. QED
  BY Zenon, <1>1, Abandoned DEF ElementFails, vars

LEMMA UnknownSinks ==
  ASSUME NEW i, UnknownSink(i)
  PROVE  Cause
<1>1. ASSUME NEW s, ElementsOf(s) = <<>> PROVE UnknownKind(s)
  BY <1>1 DEF ElementsOf, UnknownKind, RenderBin, EncodeFileBin, UdpsinkBin,
     MsgConvBrokerBin, Fake, File, Udp, Broker
<1>2. PICK k \in Mine(i) : ElementsOf(cfg.sink[k]) = <<>>
  BY Zenon DEF UnknownSink
<1>3. k \in Slots(cfg.nsink)
  BY Zenon DEF Mine
<1>. QED
  BY Zenon, <1>1, <1>2, <1>3 DEF Cause

(* The sinks of an instance when its sink bin is made.                     *)
LEMMA MadeSinks ==
  ASSUME Shaped(cfg), NEW i
  PROVE  /\ \A k \in Mine(i) : SinkBinOf(i).sinks[k] = "made"
         /\ SinkBinOf(i).sinks[0] \in {"made", sinkBins[i].sinks[0]}
         /\ SinkBinOf(i).sinks[0] # "made" =>
              0 \notin Mine(i) /\ (sinkBins[i].num = 0 => Mine(i) # {})
<1> DEFINE f == [k \in Slots(MaxSinks) |->
                   IF k \in SubsMade(i) THEN "made" ELSE sinkBins[i].sinks[k]]
<1>1. SinkBinOf(i).sinks = f
  BY DEF SinkBinOf
<1>2. 0 \in Slots(MaxSinks) /\ \A k \in Mine(i) : k \in Slots(MaxSinks)
  BY ConfigAssumption DEF Slots, Mine, Shaped
<1>3. \A k \in Slots(MaxSinks) :
        f[k] = IF k \in SubsMade(i) THEN "made" ELSE sinkBins[i].sinks[k]
  BY Zenon
<1> HIDE DEF f
<1>4. \A k \in Mine(i) : k \in SubsMade(i)
  BY Zenon DEF SubsMade
<1>5. sinkBins[i].num = 0 /\ Mine(i) = {} => 0 \in SubsMade(i)
  BY Zenon DEF SubsMade
<1>. QED
  BY Zenon, <1>1, <1>2, <1>3, <1>4, <1>5

LEMMA TiledBuilds == BuildInv /\ BuildTiled => BuildInv'
<1> SUFFICES ASSUME BuildInv, BuildTiled PROVE BuildInv'
  OBVIOUS
<1> DEFINE pointer == SinkBinOf(0).sinks[0]
<1>1. /\ step = "outputs" /\ step # "idle" /\ Tiled /\ Shaped(cfg)
      /\ builds' = builds /\ stage' = stage /\ lost' = lost
  <2>1. "outputs" # "idle"
    OBVIOUS
  <2>. QED
    BY Zenon, <2>1 DEF BuildTiled, BuildInv, Where
<1>2. builds \in Nat /\ builds # 0 /\ (builds = 1 => First)
  BY <1>1 DEF BuildInv, Where, First
<1>3. First => sinkBins[0].sinks[0] # "freed" /\ sinkBins[0].num = 0
  BY Zenon, <1>1 DEF BuildInv, FirstInv
<1>4. /\ \A k \in Mine(0) : SinkBinOf(0).sinks[k] = "made"
      /\ pointer = "made" \/ pointer = sinkBins[0].sinks[0]
      /\ pointer # "made" =>
           0 \notin Mine(0) /\ (sinkBins[0].num = 0 => Mine(0) # {})
  BY <1>1, MadeSinks
<1> HIDE DEF pointer
<1>5. CASE UnknownSink(0) /\ Abandon /\ cfg' = cfg
  BY Zenon, <1>1, <1>5, UnknownSinks, Abandoned
<1>6. CASE pointer # "made" /\ Abandon /\ cfg' = cfg
  <2>1. FirstSinkMissing
    BY Zenon, <1>1, <1>2, <1>3, <1>4, <1>6 DEF FirstSinkMissing
  <2>2. Cause
    BY Zenon, <2>1 DEF Cause
  <2>. QED
    BY Zenon, <1>1, <1>6, <2>2, Abandoned
<1>7. CASE /\ pointer = "freed" /\ step' = "crashed" /\ cfg' = cfg
           /\ at' = at /\ ends' = ends /\ sinkBins' = sinkBins
  <2>1. 0 \notin Mine(0) /\ builds # 1
    <3>1. "freed" # "made"
      OBVIOUS
    <3>. QED
      BY Zenon, <3>1, <1>2, <1>3, <1>4, <1>7
  <2>2. FreedSink
    BY <1>1, <1>2, <2>1 DEF FreedSink
  <2>3. FreedSink'
    BY Zenon, <1>1, <1>7, <2>2, CauseSame
  <2>4. step' \notin {"idle", "sources", "outputs"} /\ step' # "idle"
    BY <1>7
  <2>5. Where' /\ (First' => First)
    <3>1. Shaped(cfg') /\ at' \in Nat /\ DOMAIN ends' = {"sink", "src", "last"}
          /\ DOMAIN sinkBins' = Instances
      BY Zenon, <1>7 DEF BuildInv, Where
    <3>. QED
      BY Zenon, <1>1, <2>4, <3>1, LaterWhere
  <2>6. FirstInv'
    BY Zenon, <1>1, <1>7, <2>4, <2>5, LaterFirst
  <2>7. SinksInv' /\ AnalyticsInv' /\ CauseInv'
    BY <1>7, <2>3 DEF SinksMade, SinksInv, AnalyticsInv, CauseInv
  <2>. QED
    BY Zenon, <2>5, <2>6, <2>7 DEF BuildInv
<1>8. CASE /\ cfg' = [cfg EXCEPT !.tiles = Readjusted(@)] /\ step' = "example" /\ at' = at
           /\ sinkBins' = [sinkBins EXCEPT ![0] = SinkBinOf(0)]
           /\ ends' = [ends EXCEPT !.last = Elem("tiler_tee")]
  <2>1. SameInBuild /\ Shaped(cfg')
    <3>1. \A x : cfg' = [cfg EXCEPT !.tiles = x] => SameInBuild /\ Shaped(cfg')
      BY Zenon, <1>1, TilesSame
    <3>. QED
      BY Zenon, <1>8, <3>1
  <2>2. 0 \in Instances /\ DOMAIN sinkBins = Instances
    BY ConfigAssumption DEF Instances, Slots, BuildInv, Where
  <2>3. sinkBins'[0] = SinkBinOf(0) /\ DOMAIN sinkBins' = Instances
    BY Zenon, <1>8, <2>2
  <2>4. DOMAIN ends = {"sink", "src", "last"} /\ ends.src = None /\ at \in Nat
    BY <1>1 DEF BuildInv, Where, AnalyticsInv
  <2>5. DOMAIN ends' = {"sink", "src", "last"} /\ ends'.src = None /\ at' \in Nat
    BY <1>8, <2>4
  <2>6. step' # "idle" /\ step' \notin {"idle", "sources", "outputs"}
    BY <1>8
  <2>7. Where' /\ (First' => First)
    BY Zenon, <1>1, <2>1, <2>3, <2>5, <2>6, LaterWhere
  <2>8. FirstInv'
    <3>1. "made" # "freed"
      OBVIOUS
    <3>2. First => sinkBins'[0].sinks[0] # "freed"
      BY Zenon, <1>3, <1>4, <2>3, <3>1 DEF pointer
    <3>. QED
      BY <2>6, <2>7, <3>2 DEF FirstInv
  <2>9. SinksInv'
    <3>1. "made" # "none"
      OBVIOUS
    <3>2. Mine(0)' = Mine(0)
      BY Zenon, <2>1, SameViews
    <3>. QED
      BY Zenon, <1>4, <2>3, <3>1, <3>2 DEF SinksInv
  <2>10. AnalyticsInv' /\ CauseInv'
    BY <1>8, <2>5 DEF AnalyticsInv, CauseInv
  <2>. QED
    BY Zenon, <2>7, <2>8, <2>9, <2>10 DEF BuildInv
<1>. QED
  BY Zenon, <1>5, <1>6, <1>7, <1>8 DEF BuildTiled, Probe, GoTo, pointer

LEMMA DemuxedBuilds == BuildInv /\ BuildDemuxed => BuildInv'
<1> SUFFICES ASSUME BuildInv, BuildDemuxed PROVE BuildInv'
  OBVIOUS
<1>1. /\ step = "outputs" /\ step # "idle" /\ ~Tiled /\ Shaped(cfg) /\ cfg' = cfg
      /\ builds' = builds /\ stage' = stage /\ lost' = lost
  <2>1. "outputs" # "idle"
    OBVIOUS
  <2>. QED
    BY Zenon, <2>1 DEF BuildDemuxed, BuildInv, Where, vars
<1>2. at \in Nat /\ DOMAIN ends = {"sink", "src", "last"} /\ DOMAIN sinkBins = Instances
      /\ ends.src = None
  BY <1>1 DEF BuildInv, Where, AnalyticsInv
<1>3. SameInBuild
  BY Zenon, <1>1, SameWhenUnchanged
<1>4. ~Tiled' /\ Mine(0)' = Mine(0)
  BY Zenon, <1>1, <1>3, SameViews
<1>5. ASSUME at' = at + 1, step' = step, ends' = ends, DOMAIN sinkBins' = Instances,
             First => sinkBins'[0].sinks[0] # "freed",
             \A k \in Mine(0) : sinkBins'[0].sinks[k] # "none"
      PROVE  BuildInv'
  <2>1. step' # "idle" /\ Shaped(cfg') /\ at' \in Nat /\ DOMAIN ends' = {"sink", "src", "last"}
    BY <1>1, <1>2, <1>5
  <2>2. Where' /\ (First' => First)
    BY Zenon, <1>1, <1>5, <2>1, LaterWhere
  <2>3. FirstInv'
    BY <1>1, <1>4, <1>5, <2>2 DEF FirstInv
  <2>4. SinksInv'
    BY Zenon, <1>4, <1>5 DEF SinksInv
  <2>5. AnalyticsInv' /\ CauseInv'
    BY <1>1, <1>2, <1>5 DEF AnalyticsInv, CauseInv
  <2>. QED
    BY Zenon, <2>2, <2>3, <2>4, <2>5 DEF BuildInv
<1>6. First => sinkBins[0].sinks[0] # "freed"
  BY Zenon DEF BuildInv, FirstInv
<1>7. at # 0 => \A k \in Mine(0) : sinkBins[0].sinks[k] # "none"
  BY <1>1, <1>2 DEF BuildInv, SinksInv, SinksMade
<1>8. CASE Mine(at) = {} /\ at' = at + 1 /\ UNCHANGED <<step, graph, ends, sinkBins, servers>>
  BY Zenon, <1>2, <1>5, <1>6, <1>7, <1>8
<1>9. CASE UnknownSink(at) /\ Abandon
  BY Zenon, <1>1, <1>9, UnknownSinks, Abandoned
<1>10. CASE at' = at + 1 /\ sinkBins' = [sinkBins EXCEPT ![at] = SinkBinOf(at)]
            /\ UNCHANGED <<step, ends>>
  <2>1. DOMAIN sinkBins' = Instances
    BY Zenon, <1>2, <1>10
  <2>2. CASE at = 0
    <3>1. 0 \in Instances
      BY ConfigAssumption DEF Instances, Slots
    <3>2. sinkBins'[0] = SinkBinOf(0)
      BY Zenon, <1>2, <1>10, <2>2, <3>1
    <3>3. /\ \A k \in Mine(0) : SinkBinOf(0).sinks[k] = "made"
          /\ SinkBinOf(0).sinks[0] \in {"made", sinkBins[0].sinks[0]}
      BY <1>1, MadeSinks
    <3>4. "made" # "freed" /\ "made" # "none"
      OBVIOUS
    <3>. QED
      BY Zenon, <1>5, <1>6, <1>10, <2>1, <3>2, <3>3, <3>4
  <2>3. CASE at # 0
    <3>2. 0 \in Instances
      BY ConfigAssumption DEF Instances, Slots
    <3>1. sinkBins'[0] = sinkBins[0]
      BY Zenon, <1>2, <1>10, <2>3, <3>2
    <3>. QED
      BY Zenon, <1>5, <1>6, <1>7, <1>10, <2>1, <2>3, <3>1
  <2>. QED
    BY Zenon, <2>2, <2>3
<1>. QED
  BY Zenon, <1>8, <1>9, <1>10 DEF BuildDemuxed

LEMMA DemuxDoneBuilds == BuildInv /\ DemuxDone => BuildInv'
<1> SUFFICES ASSUME BuildInv, DemuxDone PROVE BuildInv'
  OBVIOUS
<1>1. /\ step = "outputs" /\ ~Tiled /\ at = cfg.nsrc /\ step' = "example" /\ cfg' = cfg
      /\ ends' = [ends EXCEPT !.last = Elem("demuxer")]
      /\ builds' = builds /\ stage' = stage /\ at' = at /\ sinkBins' = sinkBins
  BY Zenon DEF DemuxDone, GoTo, vars
<1>2. at \in Nat /\ DOMAIN ends = {"sink", "src", "last"} /\ DOMAIN sinkBins = Instances
      /\ ends.src = None /\ Shaped(cfg)
  BY <1>1 DEF BuildInv, Where, AnalyticsInv
<1>3. DOMAIN ends' = {"sink", "src", "last"} /\ ends'.src = None
  BY <1>1, <1>2
<1>4. /\ step # "idle" /\ step' # "idle" /\ step' \notin {"idle", "sources", "outputs"}
  BY <1>1
<1>5. Where' /\ (First' => First)
  BY Zenon, <1>1, <1>2, <1>3, <1>4, LaterWhere
<1>6. FirstInv'
  BY Zenon, <1>1, <1>4, <1>5, LaterFirst
<1>7. ~Tiled' /\ Mine(0)' = Mine(0)
  BY Zenon, <1>1, SameWhenUnchanged, SameViews
<1>8. SinksMade' => SinksMade
  BY <1>1, <1>2, <1>7 DEF SinksMade
<1>9. SinksInv'
  BY Zenon, <1>1, <1>7, <1>8 DEF SinksInv, BuildInv
<1>10. AnalyticsInv' /\ CauseInv'
  BY <1>1, <1>3 DEF AnalyticsInv, CauseInv
<1>. QED
  BY Zenon, <1>5, <1>6, <1>9, <1>10 DEF BuildInv

(* The example, the common elements and the tee leave the sinks alone.     *)
LEMMA LinkedSinks ==
  ASSUME BuildInv, step \in {"example", "common"}, step' \in {"common", "broker"},
         SameInBuild, cfg'.nsrc = cfg.nsrc, Shaped(cfg'), at' \in Nat,
         DOMAIN ends' = {"sink", "src", "last"},
         builds' = builds, stage' = stage, sinkBins' = sinkBins
  PROVE  Where' /\ FirstInv' /\ SinksInv' /\ CauseInv'
<1>1. step # "idle" /\ step' # "idle" /\ step' \notin {"idle", "sources", "outputs"}
  OBVIOUS
<1>2. DOMAIN sinkBins' = Instances
  BY Zenon DEF BuildInv, Where
<1>3. Where' /\ (First' => First)
  BY Zenon, <1>1, <1>2, LaterWhere
<1>4. FirstInv'
  BY Zenon, <1>1, <1>3, LaterFirst
<1>5. Tiled' <=> Tiled
  BY Zenon, SameViews
<1>6. Mine(0)' = Mine(0)
  BY Zenon, SameViews
<1>7. SinksMade' => SinksMade
  BY <1>5 DEF SinksMade
<1>8. SinksInv'
  BY Zenon, <1>6, <1>7 DEF SinksInv, BuildInv
<1>9. CauseInv'
  BY DEF CauseInv
<1>. QED
  BY Zenon, <1>3, <1>4, <1>8, <1>9

LEMMA ExampleBuilds == BuildInv /\ BuildExample => BuildInv'
<1> SUFFICES ASSUME BuildInv, BuildExample PROVE BuildInv'
  OBVIOUS
<1>1. /\ step = "example" /\ step' = "common" /\ at' = 0 /\ cfg' = cfg
      /\ ends' = ends \/ ends' = [ends EXCEPT !.last = Elem("dsexample")]
      /\ builds' = builds /\ stage' = stage /\ sinkBins' = sinkBins
  BY Zenon DEF BuildExample, GoTo, vars
<1>2. DOMAIN ends = {"sink", "src", "last"} /\ Shaped(cfg)
  BY <1>1 DEF BuildInv, Where
<1>3. DOMAIN ends' = {"sink", "src", "last"} /\ at' \in Nat
  BY <1>1, <1>2
<1>4. SameInBuild
  BY Zenon, <1>1, SameWhenUnchanged
<1>5. step \in {"example", "common"} /\ step' \in {"common", "broker"}
  BY <1>1
<1>6. Where' /\ FirstInv' /\ SinksInv' /\ CauseInv'
  BY Zenon, <1>1, <1>2, <1>3, <1>4, <1>5, LinkedSinks
<1>7. AnalyticsInv'
  BY <1>1 DEF AnalyticsInv
<1>. QED
  BY Zenon, <1>6, <1>7 DEF BuildInv

LEMMA CommonBuilds == BuildInv /\ BuildCommon => BuildInv'
<1> SUFFICES ASSUME BuildInv, BuildCommon PROVE BuildInv'
  OBVIOUS
<1> DEFINE e == Common[at + 1]
<1>1. /\ step = "common" /\ step' = step /\ at' = at + 1 /\ at < Len(Common)
      /\ builds' = builds /\ stage' = stage /\ sinkBins' = sinkBins
      /\ \/ ~Wanted(e) /\ cfg' = cfg /\ ends' = ends
         \/ Wanted(e) /\ cfg' = BatchOverridden(e) /\ ends' = WithCommon(e)
  BY Zenon DEF BuildCommon
<1>2. /\ Shaped(cfg) /\ DOMAIN ends = {"sink", "src", "last"} /\ at \in Nat
      /\ \A n \in 1 .. at : Wanted(Common[n]) => ends.src # None
  BY <1>1 DEF BuildInv, Where, AnalyticsInv
<1>3. Len(Common) = 5 /\ at' \in Nat /\ at' <= 5
  BY <1>1, <1>2 DEF Common
<1>4. SameInBuild /\ Shaped(cfg') /\ cfg'.nsrc = cfg.nsrc
  BY Zenon, <1>1, <1>2, SameWhenUnchanged, BatchSame
<1>5. e \in {"sgie", "secondary_preprocess", "tracker", "pgie", "preprocess"}
  BY <1>1, <1>2, <1>3 DEF Common
<1> HIDE DEF e
<1>6. Elem(e) # None
  BY <1>5 DEF Elem, None
<1>7. \A n \in 1 .. at' : n \in 1 .. at \/ n = at + 1
  BY <1>1, <1>2
<1>8. /\ DOMAIN ends' = {"sink", "src", "last"}
      /\ \A n \in 1 .. at' : Wanted(Common[n]) => ends'.src # None
  <2>1. CASE ~Wanted(e) /\ ends' = ends
    BY Zenon, <1>2, <1>7, <2>1 DEF e
  <2>2. CASE ends' = WithCommon(e)
    BY <1>2, <1>6, <2>2 DEF WithCommon
  <2>. QED
    BY Zenon, <1>1, <2>1, <2>2
<1>9. AnalyticsInv'
  <2>1. \A x : Wanted(x)' <=> Wanted(x)
    BY Zenon, <1>4, SameViews
  <2>2. step' \notin {"idle", "sources", "outputs", "example"} /\ step' # "broker"
    BY <1>1
  <2>. QED
    BY Zenon, <1>3, <1>8, <2>1, <2>2 DEF AnalyticsInv
<1>10. step \in {"example", "common"} /\ step' \in {"common", "broker"}
  BY <1>1
<1>. QED
  BY Zenon, <1>1, <1>3, <1>4, <1>8, <1>9, <1>10, LinkedSinks DEF BuildInv

LEMMA TeeBuilds == BuildInv /\ BuildTee => BuildInv'
<1> SUFFICES ASSUME BuildInv, BuildTee PROVE BuildInv'
  OBVIOUS
<1>1. /\ step = "common" /\ step' = "broker" /\ at = Len(Common) /\ at' = at /\ cfg' = cfg
      /\ builds' = builds /\ stage' = stage /\ sinkBins' = sinkBins
      /\ \/ ends.src = None /\ ends' = ends
         \/ ends' = [ends EXCEPT !.src = Elem("tee")]
  BY Zenon DEF BuildTee, GoTo, vars
<1>2. /\ Shaped(cfg) /\ DOMAIN ends = {"sink", "src", "last"} /\ at \in Nat
      /\ \A n \in 1 .. at : Wanted(Common[n]) => ends.src # None
  BY <1>1 DEF BuildInv, Where, AnalyticsInv
<1>3. Len(Common) = 5 /\ Elem("tee") # None
  BY DEF Common, Elem, None
<1>4. SameInBuild
  BY Zenon, <1>1, SameWhenUnchanged
<1>5. /\ DOMAIN ends' = {"sink", "src", "last"}
      /\ \A n \in 1 .. 5 : Wanted(Common[n]) => ends'.src # None
  <2>1. CASE ends' = ends
    BY Zenon, <1>1, <1>2, <1>3, <2>1
  <2>2. CASE ends' = [ends EXCEPT !.src = Elem("tee")]
    BY <1>2, <1>3, <2>2
  <2>. QED
    BY Zenon, <1>1, <2>1, <2>2
<1>6. AnalyticsInv'
  <2>1. \A x : Wanted(x)' <=> Wanted(x)
    BY Zenon, <1>4, SameViews
  <2>2. step' \notin {"idle", "sources", "outputs", "example"} /\ step' # "common"
    BY <1>1
  <2>. QED
    BY Zenon, <1>5, <2>1, <2>2 DEF AnalyticsInv
<1>7. step \in {"example", "common"} /\ step' \in {"common", "broker"}
  BY <1>1
<1>. QED
  BY Zenon, <1>1, <1>2, <1>4, <1>5, <1>6, <1>7, LinkedSinks DEF BuildInv

LEMMA BrokerBuilds == BuildInv /\ LinkBroker => BuildInv'
<1> SUFFICES ASSUME BuildInv, LinkBroker PROVE BuildInv'
  OBVIOUS
<1>1. /\ step = "broker" /\ cfg' = cfg /\ builds' = builds /\ stage' = stage
      /\ lost' = lost
  BY Zenon DEF LinkBroker, vars
<1>2. Brokers # {} /\ ends.src = None => BrokerAlone
  <2> SUFFICES ASSUME Brokers # {}, ends.src = None PROVE ~Analytics
    BY Zenon DEF BrokerAlone
  <2>1. \A n \in 1 .. 5 : ~Wanted(Common[n])
    BY <1>1 DEF BuildInv, AnalyticsInv
  <2>2. Len(Common) = 5
    BY DEF Common
  <2>. QED
    BY Zenon, <2>1, <2>2 DEF Analytics
<1>3. ASSUME NEW k \in Brokers, sinkBins[0].sinks[k] = "none"
      PROVE  BrokerAlone \/ BrokerElsewhere
  <2>1. CASE k \notin Mine(0)
    BY Zenon, <2>1 DEF BrokerElsewhere
  <2>2. CASE k \in Mine(0)
    <3>1. ~SinksMade
      BY Zenon, <1>3, <2>2 DEF BuildInv, SinksInv
    <3>2. ~Tiled /\ cfg.nsrc = 0
      BY <1>1, <3>1 DEF SinksMade
    <3>. QED
      BY Zenon, <3>2 DEF BrokerAlone
  <2>. QED
    BY Zenon, <2>1, <2>2
<1>4. CASE /\ Abandon
           /\ Brokers # {}
           /\ ends.src = None \/ \E k \in Brokers : sinkBins[0].sinks[k] = "none"
  <2>1. Cause
    BY Zenon, <1>2, <1>3, <1>4 DEF Cause
  <2>2. step # "idle"
    BY <1>1
  <2>. QED
    BY Zenon, <1>1, <1>4, <2>1, <2>2, Abandoned
<1>5. CASE step' = "last" /\ at' = at /\ ends' = ends /\ sinkBins' = sinkBins
  <2>1. /\ step # "idle" /\ step' # "idle" /\ step' \notin {"idle", "sources", "outputs"}
    BY <1>1, <1>5
  <2>2. Shaped(cfg') /\ at' \in Nat /\ DOMAIN ends' = {"sink", "src", "last"}
        /\ DOMAIN sinkBins' = Instances
    BY Zenon, <1>1, <1>5 DEF BuildInv, Where
  <2>3. Where' /\ (First' => First)
    BY Zenon, <1>1, <2>1, <2>2, LaterWhere
  <2>4. FirstInv'
    BY Zenon, <1>1, <1>5, <2>1, <2>3, LaterFirst
  <2>5. SinksInv' /\ AnalyticsInv' /\ CauseInv'
    BY <1>5 DEF SinksMade, SinksInv, AnalyticsInv, CauseInv
  <2>. QED
    BY Zenon, <2>3, <2>4, <2>5 DEF BuildInv
<1>. QED
  BY Zenon, <1>4, <1>5 DEF LinkBroker, GoTo

LEMMA EndBuilds == BuildInv /\ (LinkSources \/ DestroyPipeline) => BuildInv'
<1> SUFFICES ASSUME BuildInv, LinkSources \/ DestroyPipeline PROVE BuildInv'
  OBVIOUS
<1>1. CASE LinkSources
  <2>1. /\ step = "last" /\ step' = "built" /\ at' = at /\ ends' = ends /\ cfg' = cfg
        /\ sinkBins' = sinkBins /\ builds' = builds /\ stage' = stage
    BY Zenon, <1>1 DEF LinkSources, GoTo, vars
  <2>2. /\ step # "idle" /\ step' # "idle" /\ step' \notin {"idle", "sources", "outputs"}
    BY <2>1
  <2>3. Shaped(cfg') /\ at' \in Nat /\ DOMAIN ends' = {"sink", "src", "last"}
        /\ DOMAIN sinkBins' = Instances
    BY Zenon, <2>1 DEF BuildInv, Where
  <2>4. Where' /\ (First' => First)
    BY Zenon, <2>1, <2>2, <2>3, LaterWhere
  <2>5. FirstInv'
    BY Zenon, <2>1, <2>2, <2>4, LaterFirst
  <2>6. SinksInv' /\ AnalyticsInv' /\ CauseInv'
    BY <2>1 DEF SinksMade, SinksInv, AnalyticsInv, CauseInv
  <2>. QED
    BY Zenon, <2>4, <2>5, <2>6 DEF BuildInv
<1>2. CASE DestroyPipeline
  <2>1. /\ step = "built" /\ step' = "idle" /\ at' = at /\ cfg' = cfg
        /\ ends' = [sink |-> None, src |-> None, last |-> None]
        /\ builds' = builds /\ stage' = stage
    BY Zenon, <1>2 DEF DestroyPipeline, GoTo, vars
  <2>2. DOMAIN sinkBins' = Instances
    BY Zenon, <1>2 DEF DestroyPipeline
  <2>3. DOMAIN ends' = {"sink", "src", "last"} /\ ends'.src = None
    BY <2>1
  <2>4. Where'
    BY <2>1, <2>2, <2>3 DEF BuildInv, Where
  <2>5. ~First'
    BY <2>1 DEF First, BuildInv, Where
  <2>6. FirstInv'
    BY Zenon, <2>5 DEF FirstInv
  <2>7. SinksInv' /\ AnalyticsInv' /\ CauseInv'
    BY <2>1, <2>3 DEF SinksMade, SinksInv, AnalyticsInv, CauseInv
  <2>. QED
    BY Zenon, <2>4, <2>6, <2>7 DEF BuildInv
<1>. QED
  BY Zenon, <1>1, <1>2

LEMMA BuildInvNext == BuildInv /\ [BuildNext]_buildVars => BuildInv'
<1> SUFFICES ASSUME BuildInv, [BuildNext]_buildVars PROVE BuildInv'
  OBVIOUS
<1>1. CASE UNCHANGED buildVars
  <2>1. /\ cfg' = cfg /\ stage' = stage /\ step' = step /\ at' = at /\ ends' = ends
        /\ sinkBins' = sinkBins /\ builds' = builds /\ lost' = lost
    BY Zenon, <1>1 DEF buildVars, vars, building
  <2>2. /\ Tiled' <=> Tiled
        /\ \A e : Wanted(e)' <=> Wanted(e)
        /\ Mine(0)' = Mine(0)
    BY Zenon, <2>1, SameWhenUnchanged, SameViews
  <2>3. Where' /\ FirstInv'
    BY Zenon, <2>1, <2>2 DEF BuildInv, Where, First, FirstInv
  <2>4. SinksInv'
    BY Zenon, <2>1, <2>2 DEF BuildInv, SinksMade, SinksInv
  <2>5. AnalyticsInv'
    BY Zenon, <2>1, <2>2 DEF BuildInv, AnalyticsInv
  <2>6. CauseInv'
    BY Zenon, <2>1, CauseSame DEF BuildInv, CauseInv
  <2>. QED
    BY Zenon, <2>3, <2>4, <2>5, <2>6 DEF BuildInv
<1>. QED
  BY Zenon, <1>1, ParseBuilds, BeginBuilds, FailBuilds, TiledBuilds, DemuxedBuilds,
     DemuxDoneBuilds, ExampleBuilds, CommonBuilds, TeeBuilds, BrokerBuilds, EndBuilds
     DEF BuildNext

(* Creation gives up only for a cause the configuration or a missing       *)
(* element gives it, and only a recreated pipeline can end the process     *)
(* (create_pipeline, its jumps to done; the probe at PX 1519).             *)
THEOREM GivesUpForCause == BuildSpec => []BuildFailsForCause
<1>1. BuildInv => BuildFailsForCause
  BY Zenon, CauseIsTheProperty DEF BuildInv
<1>. QED
  BY <1>1, BuildInvInit, BuildInvNext, PTL DEF BuildSpec

-----------------------------------------------------------------------------
(* The spine of a pipeline: the links into the elements of Order.  A set   *)
(* of positions is linked when there is a link between any two neighbours. *)
E(n) == Elem(Order[n])
Spine(g) == {l \in g : \E n \in 1 .. Len(Order) : l[2] = E(n)}
Links(S) == {<<E(p[1]), E(p[2])>> : p \in Adjacent(S)}
Least(e, S) == \E m \in S : e = E(m) /\ \A k \in S : m <= k
Greatest(e, S) == \E m \in S : e = E(m) /\ \A k \in S : k <= m

LEMMA Positions ==
  /\ Len(Order) = 12
  /\ Order[1] = "source" /\ Order[2] = "preprocess" /\ Order[3] = "pgie"
  /\ Order[4] = "tracker" /\ Order[5] = "secondary_preprocess" /\ Order[6] = "sgie"
  /\ Order[7] = "msg_conv" /\ Order[8] = "tee" /\ Order[9] = "dsexample"
  /\ Order[10] = "tiler_tee" /\ Order[11] = "tiler" /\ Order[12] = "demuxer"
BY DEF Order

LEMMA NotNone == \A n \in 1 .. 12 : E(n) # None
<1> SUFFICES ASSUME NEW n \in 1 .. 12 PROVE Order[n] # "none"
  BY DEF E, Elem, None
<1>. QED
  BY Positions

LEMMA AdjacentPair ==
  ASSUME NEW S, NEW i, NEW j
  PROVE  <<i, j>> \in Adjacent(S) <=>
           i \in S /\ j \in S /\ i < j /\ \A n \in S : ~(i < n /\ n < j)
BY DEF Adjacent

LEMMA LinkOf ==
  ASSUME NEW S, NEW l \in Links(S)
  PROVE  \E i \in S : \E j \in S : <<i, j>> \in Adjacent(S) /\ l = <<E(i), E(j)>>
<1>1. PICK p \in Adjacent(S) : l = <<E(p[1]), E(p[2])>>
  BY Zenon DEF Links
<1>2. p = <<p[1], p[2]>> /\ p[1] \in S /\ p[2] \in S
  BY DEF Adjacent
<1>. QED
  BY Zenon, <1>1, <1>2

LEMMA IsLink ==
  ASSUME NEW S, NEW i, NEW j, <<i, j>> \in Adjacent(S)
  PROVE  <<E(i), E(j)>> \in Links(S)
<1>1. <<i, j>>[1] = i /\ <<i, j>>[2] = j
  OBVIOUS
<1>. QED
  BY Zenon, <1>1 DEF Links

Precedes(S, T) ==
  S \subseteq Int /\ T \subseteq Int /\ \A s \in S : \A t \in T : s < t

LEMMA LinksJoin ==
  ASSUME NEW S, NEW T, Precedes(S, T),
         NEW a, Greatest(a, S), NEW b, Least(b, T)
  PROVE  Links(S \cup T) = Links(S) \cup Links(T) \cup {<<a, b>>}
<1>0. S \subseteq Int /\ T \subseteq Int /\ \A s \in S : \A t \in T : s < t
  BY Zenon DEF Precedes
<1>1. PICK m \in S : a = E(m) /\ \A k \in S : k <= m
  BY Zenon DEF Greatest
<1>2. PICK n \in T : b = E(n) /\ \A k \in T : n <= k
  BY Zenon DEF Least
<1>3. ASSUME NEW i \in S \cup T, NEW j \in S \cup T
      PROVE  <<i, j>> \in Adjacent(S \cup T) <=>
               \/ i \in S /\ j \in S /\ <<i, j>> \in Adjacent(S)
               \/ i \in T /\ j \in T /\ <<i, j>> \in Adjacent(T)
               \/ i = m /\ j = n
  <2> DEFINE Free(R) == \A k \in R : ~(i < k /\ k < j)
  <2>0. Free(S \cup T) <=> Free(S) /\ Free(T)
    BY Zenon
  <2>1. \A R : <<i, j>> \in Adjacent(R) <=> i \in R /\ j \in R /\ i < j /\ Free(R)
    BY Zenon, AdjacentPair
  <2> DEFINE Whole == <<i, j>> \in Adjacent(S \cup T)
             Left == <<i, j>> \in Adjacent(S)
             Right == <<i, j>> \in Adjacent(T)
  <2>2. /\ Whole <=> (i < j /\ Free(S) /\ Free(T))
        /\ Left <=> (i \in S /\ j \in S /\ i < j /\ Free(S))
        /\ Right <=> (i \in T /\ j \in T /\ i < j /\ Free(T))
    BY Zenon, <2>0, <2>1
  <2>3. \A k \in S : k \notin T
    <3> SUFFICES ASSUME NEW k \in S, k \in T PROVE FALSE
      OBVIOUS
    <3>1. k \in Int /\ k < k
      BY <1>0
    <3>. QED
      BY <3>1
  <2> HIDE DEF Whole, Left, Right
  <2>4. CASE i \in S /\ j \in S
    <3>1. Free(T)
      BY <1>0, <2>4
    <3>. QED
      BY Zenon, <2>2, <2>3, <2>4, <3>1 DEF Whole, Left, Right
  <2>5. CASE i \in T /\ j \in T
    <3>1. Free(S)
      BY <1>0, <2>5
    <3>. QED
      BY Zenon, <2>2, <2>3, <2>5, <3>1 DEF Whole, Left, Right
  <2>6. CASE i \in S /\ j \in T
    <3>1. (i < j /\ Free(S) /\ Free(T)) <=> (i = m /\ j = n)
      BY <1>0, <1>1, <1>2, <2>6
    <3>. QED
      BY Zenon, <2>2, <2>3, <2>6, <3>1 DEF Whole, Left, Right
  <2>7. CASE i \in T /\ j \in S
    <3>1. ~(i < j) /\ i # m
      BY <1>0, <2>3, <2>7
    <3>. QED
      BY Zenon, <2>2, <2>3, <2>7, <3>1 DEF Whole, Left, Right
  <2>. QED
    BY Zenon, <2>4, <2>5, <2>6, <2>7
<1>4. ASSUME NEW l, l \in Links(S \cup T)
      PROVE  l \in Links(S) \cup Links(T) \cup {<<a, b>>}
  <2>1. PICK i \in S \cup T, j \in S \cup T :
          <<i, j>> \in Adjacent(S \cup T) /\ l = <<E(i), E(j)>>
    BY Zenon, <1>4, LinkOf
  <2>2. \/ <<i, j>> \in Adjacent(S)
        \/ <<i, j>> \in Adjacent(T)
        \/ i = m /\ j = n
    BY Zenon, <1>3, <2>1
  <2>. QED
    BY Zenon, <1>1, <1>2, <2>1, <2>2, IsLink
<1>5. ASSUME NEW l, l \in Links(S) \/ l \in Links(T)
      PROVE  l \in Links(S \cup T)
  <2>1. CASE l \in Links(S)
    <3>1. PICK i \in S, j \in S : <<i, j>> \in Adjacent(S) /\ l = <<E(i), E(j)>>
      BY Zenon, <2>1, LinkOf
    <3>. QED
      BY Zenon, <1>3, <3>1, IsLink
  <2>2. CASE l \in Links(T)
    <3>1. PICK i \in T, j \in T : <<i, j>> \in Adjacent(T) /\ l = <<E(i), E(j)>>
      BY Zenon, <2>2, LinkOf
    <3>. QED
      BY Zenon, <1>3, <3>1, IsLink
  <2>. QED
    BY Zenon, <1>5, <2>1, <2>2
<1>6. <<a, b>> \in Links(S \cup T)
  BY Zenon, <1>1, <1>2, <1>3, IsLink
<1>. QED
  BY Zenon, <1>4, <1>5, <1>6

LEMMA LinksOfFew ==
  /\ Links({}) = {}
  /\ \A n \in Int : Links({n}) = {}
  /\ \A n \in Int : Links({n, n + 1}) = {<<E(n), E(n + 1)>>}
<1>1. ASSUME NEW S, NEW l \in Links(S) PROVE S # {}
  BY Zenon, LinkOf
<1>2. ASSUME NEW n \in Int PROVE Links({n}) = {}
  <2>1. <<n, n>> \notin Adjacent({n})
    <3>1. ~(n < n)
      OBVIOUS
    <3>. QED
      BY Zenon, <3>1, AdjacentPair
  <2>. QED
    BY Zenon, <2>1, LinkOf
<1>3. ASSUME NEW n \in Int PROVE Links({n, n + 1}) = {<<E(n), E(n + 1)>>}
  <2> DEFINE S == {n, n + 1}
  <2>1. \A i, j \in S : (i < j /\ \A k \in S : ~(i < k /\ k < j)) <=> i = n /\ j = n + 1
    OBVIOUS
  <2>2. n \in S /\ n + 1 \in S
    OBVIOUS
  <2> HIDE DEF S
  <2>3. \A i, j \in S : <<i, j>> \in Adjacent(S) <=> i = n /\ j = n + 1
    BY Zenon, <2>1, AdjacentPair
  <2>4. Links(S) = {<<E(n), E(n + 1)>>}
    <3>1. ASSUME NEW l \in Links(S) PROVE l = <<E(n), E(n + 1)>>
      <4>1. PICK i \in S, j \in S : <<i, j>> \in Adjacent(S) /\ l = <<E(i), E(j)>>
        BY Zenon, LinkOf
      <4>. QED
        BY Zenon, <2>3, <4>1
    <3>2. <<E(n), E(n + 1)>> \in Links(S)
      BY Zenon, <2>2, <2>3, IsLink
    <3>. QED
      BY Zenon, <3>1, <3>2
  <2>. QED
    BY Zenon, <2>4 DEF S
<1>. QED
  BY Zenon, <1>1, <1>2, <1>3

(* More links: those into an element of Order, and the others.             *)
LEMMA SpineJoin ==
  ASSUME NEW g, NEW h
  PROVE  Spine(g \cup h) = Spine(g) \cup Spine(h)
BY Zenon DEF Spine

LEMMA SpineOfLink ==
  ASSUME NEW a, NEW b, \E n \in 1 .. 12 : b = E(n)
  PROVE  Spine({<<a, b>>}) = {<<a, b>>}
<1>1. <<a, b>>[2] = b /\ Len(Order) = 12
  BY Positions
<1>. QED
  BY Zenon, <1>1 DEF Spine

(* The inside of an output is no part of the spine.                        *)
OutNames ==
  {"osd", "sink_bin", "queue", "transform", "cap_filter", "encoder", "codecparse", "mux",
   "rtppay", "sink"}
Inside(e) == \E x \in OutNames : \E i, k : e = <<x, i, k>>

LEMMA InsideIsOff ==
  ASSUME NEW g, \A l \in g : Inside(l[2])
  PROVE  Spine(g) = {}
<1>1. ASSUME NEW x \in OutNames, NEW n \in 1 .. Len(Order), NEW i, NEW k
      PROVE  <<x, i, k>> # E(n)
  <2>1. Order[n] # x
    BY Positions DEF OutNames
  <2>. QED
    BY <2>1 DEF E, Elem
<1>. QED
  BY Zenon, <1>1 DEF Spine, Inside

LEMMA ElementsInside ==
  ASSUME NEW s, NEW n \in 1 .. Len(ElementsOf(s)) - 1
  PROVE  ElementsOf(s)[n + 1] \in OutNames
<1>1. ASSUME NEW e \in {RenderBin, EncodeFileBin(s), UdpsinkBin(s), MsgConvBrokerBin, <<>>},
             NEW m \in 1 .. Len(e) - 1
      PROVE  e[m + 1] \in OutNames
  BY DEF RenderBin, EncodeFileBin, UdpsinkBin, MsgConvBrokerBin, OutNames
<1>2. ElementsOf(s) \in {RenderBin, EncodeFileBin(s), UdpsinkBin(s), MsgConvBrokerBin, <<>>}
  BY DEF ElementsOf
<1>. QED
  BY Zenon, <1>1, <1>2

LEMMA InstanceInside ==
  ASSUME NEW i
  PROVE  Spine(InstanceLinks(i)) = {} /\ \A a : Spine({<<a, Entry(i)>>}) = {}
<1>1. /\ "queue" \in OutNames /\ "sink_bin" \in OutNames /\ "osd" \in OutNames
      /\ \A a, b : <<a, b>>[2] = b
  BY DEF OutNames
<1>2. ASSUME NEW k, NEW n \in 1 .. Len(MadeElements(i, k)) - 1
      PROVE  MadeElements(i, k)[n + 1] \in OutNames
  <2>1. ASSUME NEW m \in 1 .. Len(RenderBin) - 1 PROVE RenderBin[m + 1] \in OutNames
    BY DEF RenderBin, OutNames
  <2>. QED
    BY Zenon, <2>1, ElementsInside DEF MadeElements
<1>3. ASSUME NEW l \in InstanceLinks(i) PROVE Inside(l[2])
  <2>1. CASE \E k \in SubsMade(i) : l \in SubLinks(i, k, MadeElements(i, k))
    <3>1. PICK k : l \in SubLinks(i, k, MadeElements(i, k))
      BY Zenon, <2>1
    <3>2. PICK n \in 1 .. Len(MadeElements(i, k)) - 1 :
            l = <<Sub(i, k, MadeElements(i, k)[n]), Sub(i, k, MadeElements(i, k)[n + 1])>>
      BY Zenon, <3>1 DEF SubLinks
    <3>. QED
      BY Zenon, <1>1, <1>2, <3>2 DEF Inside, Sub
  <2>2. CASE \E k : l = <<SinkBin(i), Sub(i, k, "queue")>>
    <3>1. PICK k : l = <<SinkBin(i), Sub(i, k, "queue")>>
      BY Zenon, <2>2
    <3>2. l[2] = <<"queue", i, k>>
      BY Zenon, <1>1, <3>1 DEF Sub
    <3>. QED
      BY Zenon, <1>1, <3>2 DEF Inside
  <2>3. CASE l = <<Osd(i), SinkBin(i)>>
    BY Zenon, <1>1, <2>3 DEF Inside, SinkBin
  <2>4. \/ \E k \in SubsMade(i) : l \in SubLinks(i, k, MadeElements(i, k))
        \/ \E k : l = <<SinkBin(i), Sub(i, k, "queue")>>
        \/ l = <<Osd(i), SinkBin(i)>>
    <3> DEFINE A == UNION {SubLinks(i, k, MadeElements(i, k)) : k \in SubsMade(i)}
               B == {<<SinkBin(i), Sub(i, k, "queue")>> : k \in OnTee(i)}
               C == IF cfg.part["osd"].enable # 0 THEN {<<Osd(i), SinkBin(i)>>} ELSE {}
    <3>0. InstanceLinks(i) = A \cup B \cup C
      BY Zenon DEF InstanceLinks
    <3>2. l \in A => \E k \in SubsMade(i) : l \in SubLinks(i, k, MadeElements(i, k))
      BY Zenon
    <3>3. l \in B => \E k : l = <<SinkBin(i), Sub(i, k, "queue")>>
      BY Zenon
    <3>4. l \in C => l = <<Osd(i), SinkBin(i)>>
      BY Zenon
    <3> HIDE DEF A, B, C
    <3>5. l \in A \/ l \in B \/ l \in C
      BY Zenon, <3>0
    <3>. QED
      BY Zenon, <3>2, <3>3, <3>4, <3>5
  <2>. QED
    BY Zenon, <2>1, <2>2, <2>3, <2>4
<1>4. Inside(Entry(i))
  BY Zenon, <1>1 DEF Inside, Entry, Osd, SinkBin
<1>5. Spine(InstanceLinks(i)) = {}
  BY Zenon, <1>3, InsideIsOff
<1>6. ASSUME NEW a PROVE Spine({<<a, Entry(i)>>}) = {}
  <2>1. \A l \in {<<a, Entry(i)>>} : Inside(l[2])
    BY Zenon, <1>1, <1>4
  <2>. QED
    BY Zenon, <2>1, InsideIsOff
<1>. QED
  BY Zenon, <1>5, <1>6

-----------------------------------------------------------------------------
(* The positions the configuration asks for, part by part.                 *)
Part(a, b) == Passed \cap (a .. b)
Example == cfg.part["ds-example"].enable # 0

LEMMA PassedAt ==
  /\ Passed \subseteq 1 .. 12 /\ 1 \in Passed
  /\ \A n \in 2 .. 6 : n \in Passed <=> Wanted(Order[n])
  /\ 7 \in Passed <=> (Analytics /\ cfg.msgconv # 0)
  /\ 8 \in Passed <=> Analytics
  /\ 9 \in Passed <=> Example
  /\ 10 \in Passed <=> Tiled
  /\ 11 \in Passed <=> Tiled
  /\ 12 \in Passed <=> ~Tiled
<1>1. \A n : n \in Passed <=> n \in 1 .. 12 /\ Described(n)
  BY Zenon, Positions DEF Passed
<1>2. \A n \in {1, 2, 3, 4, 5, 6, 7, 8, 9, 10, 11, 12} : n \in 1 .. 12
  OBVIOUS
<1>3. Described(1)
  BY Positions DEF Described
<1>4. Described(7) <=> (Analytics /\ cfg.msgconv # 0)
  BY Positions DEF Described
<1>5. Described(8) <=> Analytics
  BY Positions DEF Described
<1>6. Described(9) <=> Example
  BY Positions DEF Described, Example
<1>7. (Described(10) <=> Tiled) /\ (Described(11) <=> Tiled)
  BY Positions DEF Described
<1>8. Described(12) <=> ~Tiled
  BY Positions DEF Described
<1>9. \A n \in 2 .. 6 : n \in 1 .. 12 /\ (Described(n) <=> Wanted(Order[n]))
  BY Positions DEF Described
<1>. QED
  BY Zenon, <1>1, <1>2, <1>3, <1>4, <1>5, <1>6, <1>7, <1>8, <1>9

LEMMA PartsOfPassed ==
  /\ Part(10, 12) = IF Tiled THEN {10, 11} ELSE {12}
  /\ Part(9, 12) = Part(10, 12) \cup IF Example THEN {9} ELSE {}
  /\ Part(7, 6) = {}
  /\ \A n \in 0 .. 4 :
       /\ Order[6 - n] = Common[n + 1]
       /\ Part(6 - n, 6) = Part(7 - n, 6)
            \cup IF Wanted(Common[n + 1]) THEN {6 - n} ELSE {}
  /\ Part(7, 8) = IF Part(2, 6) = {} THEN {}
                  ELSE IF cfg.msgconv # 0 THEN {7, 8} ELSE {8}
  /\ Part(2, 8) = Part(2, 6) \cup Part(7, 8)
  /\ Passed = {1} \cup (Part(2, 8) \cup Part(9, 12))
<1>1. \A a, b, n : n \in Part(a, b) <=> n \in Passed /\ n \in a .. b
  BY Zenon DEF Part
<1>2. Part(10, 12) = IF Tiled THEN {10, 11} ELSE {12}
  <2>1. \A n : n \in 10 .. 12 <=> n = 10 \/ n = 11 \/ n = 12
    OBVIOUS
  <2>2. (10 \in Passed <=> Tiled) /\ (11 \in Passed <=> Tiled) /\ (12 \in Passed <=> ~Tiled)
    BY Zenon, PassedAt
  <2>3. CASE Tiled
    BY <1>1, <2>1, <2>2, <2>3
  <2>4. CASE ~Tiled
    BY <1>1, <2>1, <2>2, <2>4
  <2>. QED
    BY Zenon, <2>3, <2>4
<1>3. Part(9, 12) = Part(10, 12) \cup IF Example THEN {9} ELSE {}
  <2>1. \A n : n \in 9 .. 12 <=> n = 9 \/ n \in 10 .. 12
    OBVIOUS
  <2>2. \A n : n \in Part(9, 12) <=> n \in Part(10, 12) \/ (Example /\ n = 9)
    BY Zenon, <1>1, <2>1, PassedAt
  <2>3. CASE Example
    BY <2>2, <2>3
  <2>4. CASE ~Example
    BY <2>2, <2>4
  <2>. QED
    BY Zenon, <2>3, <2>4
<1>4. Part(7, 6) = {}
  BY DEF Part
<1>5. \A n \in 0 .. 4 :
             /\ Order[6 - n] = Common[n + 1]
             /\ Part(6 - n, 6) = Part(7 - n, 6)
                  \cup IF Wanted(Common[n + 1]) THEN {6 - n} ELSE {}
  <2> TAKE n \in 0 .. 4
  <2>1. Order[6 - n] = Common[n + 1] /\ 6 - n \in 2 .. 6
    BY Positions DEF Common
  <2>2. \A m : m \in 6 - n .. 6 <=> m = 6 - n \/ m \in 7 - n .. 6
    OBVIOUS
  <2>. QED
    BY Zenon, <1>1, <2>1, <2>2, PassedAt
<1>6. Analytics <=> Part(2, 6) # {}
  <2>1. Len(Common) = 5
    BY DEF Common
  <2>2. \A n \in 1 .. 5 : 7 - n \in 2 .. 6 /\ Order[7 - n] = Common[n]
    BY Positions DEF Common
  <2>3. \A m \in 2 .. 6 : 7 - m \in 1 .. 5 /\ Order[m] = Common[7 - m]
    BY Positions DEF Common
  <2>4. Analytics <=> \E n \in 1 .. 5 : Wanted(Common[n])
    BY Zenon, <2>1 DEF Analytics
  <2>5. Part(2, 6) # {} <=> \E m \in 2 .. 6 : m \in Passed
    BY Zenon, <1>1
  <2>. QED
    BY Zenon, <2>2, <2>3, <2>4, <2>5, PassedAt
<1>7. Part(7, 8) = IF Part(2, 6) = {} THEN {}
                   ELSE IF cfg.msgconv # 0 THEN {7, 8} ELSE {8}
  <2>1. \A n : n \in 7 .. 8 <=> n = 7 \/ n = 8
    OBVIOUS
  <2>2. /\ 7 \in Passed <=> (Part(2, 6) # {} /\ cfg.msgconv # 0)
        /\ 8 \in Passed <=> Part(2, 6) # {}
    BY Zenon, <1>6, PassedAt
  <2>3. CASE Part(2, 6) = {}
    BY <1>1, <2>1, <2>2, <2>3
  <2>4. CASE Part(2, 6) # {} /\ cfg.msgconv # 0
    BY <1>1, <2>1, <2>2, <2>4
  <2>5. CASE Part(2, 6) # {} /\ cfg.msgconv = 0
    BY <1>1, <2>1, <2>2, <2>5
  <2>. QED
    BY Zenon, <2>3, <2>4, <2>5
<1>8. Part(2, 8) = Part(2, 6) \cup Part(7, 8)
  <2>1. \A n : n \in 2 .. 8 <=> n \in 2 .. 6 \/ n \in 7 .. 8
    OBVIOUS
  <2>. QED
    BY Zenon, <1>1, <2>1
<1>9. Passed = {1} \cup (Part(2, 8) \cup Part(9, 12))
  <2>1. \A n : n \in 1 .. 12 <=> n = 1 \/ n \in 2 .. 8 \/ n \in 9 .. 12
    OBVIOUS
  <2>. QED
    BY Zenon, <1>1, <2>1, PassedAt
<1>. QED
  BY Zenon, <1>2, <1>3, <1>4, <1>5, <1>7, <1>8, <1>9

(* The elements at the positions S are linked to each other, and those at  *)
(* the positions T; e keeps the open ends of both.                         *)
LinkedAs(g, e, S, T) ==
  /\ Spine(g) = Links(S) \cup Links(T)
  /\ S = {} => e.sink = None /\ e.src = None
  /\ S # {} => Least(e.sink, S) /\ Greatest(e.src, S)
  /\ Least(e.last, T)

ChainInv ==
  /\ step \in {"idle", "sources", "outputs"} =>
       Spine(graph) = {} /\ ends.sink = None /\ ends.src = None
  /\ step = "example" => LinkedAs(graph, ends, {}, Part(10, 12))
  /\ step = "common" => at <= 5 /\ LinkedAs(graph, ends, Part(7 - at, 6), Part(9, 12))
  /\ step \in {"broker", "last"} => LinkedAs(graph, ends, Part(2, 8), Part(9, 12))
  /\ step = "built" => Spine(graph) = Links(Passed)

LEMMA EndsOpen ==
  ASSUME NEW g, NEW e, NEW S \in SUBSET (1 .. 12), NEW T, LinkedAs(g, e, S, T)
  PROVE  /\ e.src = None <=> S = {}
         /\ e.sink = None <=> S = {}
<1>1. S # {} => e.src # None /\ e.sink # None
  BY Zenon, NotNone DEF LinkedAs, Least, Greatest
<1>. QED
  BY Zenon, <1>1 DEF LinkedAs

(* One more element before those at S.                                     *)
LEMMA OneBefore ==
  ASSUME NEW g, NEW e, NEW S \in SUBSET (1 .. 12), NEW T, LinkedAs(g, e, S, T),
         DOMAIN e = {"sink", "src", "last"}, NEW n \in 1 .. 12, \A s \in S : n < s
  PROVE  LinkedAs(g \cup IF e.sink = None THEN {} ELSE {<<E(n), e.sink>>},
                  [e EXCEPT !.sink = E(n), !.src = IF @ = None THEN E(n) ELSE @],
                  S \cup {n}, T)
<1> DEFINE f == [e EXCEPT !.sink = E(n), !.src = IF @ = None THEN E(n) ELSE @]
           h == g \cup IF e.sink = None THEN {} ELSE {<<E(n), e.sink>>}
<1>1. f.sink = E(n) /\ f.src = (IF e.src = None THEN E(n) ELSE e.src) /\ f.last = e.last
  OBVIOUS
<1>2. n <= n /\ \A s \in S : n <= s
  OBVIOUS
<1>3. Least(E(n), S \cup {n}) /\ Greatest(E(n), {n}) /\ Least(E(n), {n})
  BY Zenon, <1>2 DEF Least, Greatest
<1> HIDE DEF f, h
<1>4. CASE S = {}
  <2>1. h = g /\ f.src = E(n) /\ S \cup {n} = {n}
    BY Zenon, <1>1, <1>4, EndsOpen DEF h
  <2>2. Links({n}) = Links({})
    BY LinksOfFew
  <2>. QED
    BY Zenon, <1>1, <1>3, <1>4, <2>1, <2>2 DEF LinkedAs, f, h
<1>5. CASE S # {}
  <2>1. h = g \cup {<<E(n), e.sink>>} /\ f.src = e.src
    BY Zenon, <1>1, <1>5, EndsOpen DEF h
  <2>2. Least(e.sink, S) /\ Greatest(e.src, S)
    BY Zenon, <1>5 DEF LinkedAs
  <2>3. Precedes({n}, S)
    BY DEF Precedes
  <2>4. Links({n} \cup S) = Links({n}) \cup Links(S) \cup {<<E(n), e.sink>>}
    <3> DEFINE R == {n}
    <3>1. Greatest(E(n), R) /\ Precedes(R, S)
      BY Zenon, <1>3, <2>3
    <3> HIDE DEF R
    <3>2. Links(R \cup S) = Links(R) \cup Links(S) \cup {<<E(n), e.sink>>}
      BY <2>2, <3>1, LinksJoin
    <3>. QED
      BY <3>2 DEF R
  <2>5. Links({n}) = {}
    BY LinksOfFew
  <2>6. Spine({<<E(n), e.sink>>}) = {<<E(n), e.sink>>}
    BY Zenon, <2>2, SpineOfLink DEF Least
  <2>7. Spine(h) = Links(S \cup {n}) \cup Links(T)
    <3>1. Spine(h) = Spine(g) \cup {<<E(n), e.sink>>}
      <4>1. Spine(g \cup {<<E(n), e.sink>>}) = Spine(g) \cup Spine({<<E(n), e.sink>>})
        BY Zenon, SpineJoin
      <4>. QED
        BY Zenon, <2>1, <2>6, <4>1
    <3>2. {n} \cup S = S \cup {n}
      OBVIOUS
    <3>3. Spine(g) = Links(S) \cup Links(T)
      BY Zenon DEF LinkedAs
    <3>. QED
      BY <2>4, <2>5, <3>1, <3>2, <3>3
  <2>8. Greatest(e.src, S \cup {n})
    <3>1. PICK m \in S : e.src = E(m) /\ \A k \in S : k <= m
      BY Zenon, <2>2 DEF Greatest
    <3>2. n <= m
      BY <1>2
    <3>. QED
      BY Zenon, <3>1, <3>2 DEF Greatest
  <2>9. Least(e.last, T)
    BY Zenon DEF LinkedAs
  <2>10. S \cup {n} # {}
    OBVIOUS
  <2>. QED
    BY Zenon, <1>1, <1>3, <2>1, <2>7, <2>8, <2>9, <2>10 DEF LinkedAs, f, h
<1>. QED
  BY Zenon, <1>4, <1>5

-----------------------------------------------------------------------------
(* Steps that leave the chain alone, or end the construction.              *)
LEMMA ChainRests ==
  ASSUME ChainInv, SameInBuild, graph' = graph, ends' = ends, at' = at, step' = step
  PROVE  ChainInv'
<1>1. \A a, b : Part(a, b)' = Part(a, b)
  BY Zenon, SameViews DEF Part
<1>2. Passed' = Passed
  BY Zenon, SameViews
<1>. QED
  BY Zenon, <1>1, <1>2 DEF ChainInv

LEMMA ChainEnds ==
  ASSUME step' \in {"failed", "crashed"}
  PROVE  ChainInv'
BY DEF ChainInv

LEMMA NothingYet ==
  ASSUME step' \in {"idle", "sources", "outputs"},
         Spine(graph') = {}, ends'.sink = None, ends'.src = None
  PROVE  ChainInv'
<1>1. step' \notin {"example", "common", "broker", "last", "built"}
  BY Zenon
<1>2. "example" \in {"example", "common", "broker", "last", "built"}
      /\ "common" \in {"example", "common", "broker", "last", "built"}
      /\ "broker" \in {"example", "common", "broker", "last", "built"}
      /\ "last" \in {"example", "common", "broker", "last", "built"}
      /\ "built" \in {"example", "common", "broker", "last", "built"}
  OBVIOUS
<1>. QED
  BY Zenon, <1>1, <1>2 DEF ChainInv

LEMMA ChainInit == BuildInit => ChainInv
<1> SUFFICES ASSUME BuildInit PROVE ChainInv
  OBVIOUS
<1>1. /\ step = "idle" /\ graph = {}
      /\ ends = [sink |-> None, src |-> None, last |-> None]
  BY Zenon DEF BuildInit
<1>2. ends.sink = None /\ ends.src = None
  BY <1>1
<1>3. Spine(graph) = {}
  BY Zenon, <1>1 DEF Spine
<1>. QED
  BY <1>1, <1>2, <1>3 DEF ChainInv

LEMMA ChainBegins ==
  BuildInv /\ ChainInv
  /\ (Parse \/ CreatePipeline \/ BuildSources \/ BuildMultiSource \/ DestroyPipeline
        \/ ElementFails)
    => ChainInv'
<1> SUFFICES ASSUME BuildInv, ChainInv,
                    Parse \/ CreatePipeline \/ BuildSources \/ BuildMultiSource
                      \/ DestroyPipeline \/ ElementFails
             PROVE  ChainInv'
  OBVIOUS
<1>1. ASSUME step \in {"idle", "sources"}, graph' = graph, ends' = ends,
             step' \in {"idle", "sources", "outputs"}
      PROVE  ChainInv'
  <2>1. Spine(graph) = {} /\ ends.sink = None /\ ends.src = None
    BY <1>1 DEF ChainInv
  <2>. QED
    BY Zenon, <1>1, <2>1, NothingYet
<1>2. CASE Parse
  <2>1. step = "idle"
    BY Zenon, <1>2, ParserNotDone DEF Parse, BuildInv, Where
  <2>2. graph' = graph /\ ends' = ends /\ step' = step
    BY Zenon, <1>2 DEF Parse, building
  <2>. QED
    BY <1>1, <2>1, <2>2
<1>3. CASE CreatePipeline
  BY <1>1, <1>3 DEF CreatePipeline, GoTo
<1>4. CASE BuildMultiSource
  BY <1>1, <1>4 DEF BuildMultiSource, GoTo
<1>5. CASE BuildSources
  BY <1>1, <1>5, ChainEnds DEF BuildSources, GoTo, Abandon
<1>6. CASE DestroyPipeline
  <2>1. /\ step' = "idle" /\ graph' = {}
        /\ ends' = [sink |-> None, src |-> None, last |-> None]
    BY Zenon, <1>6 DEF DestroyPipeline, GoTo
  <2>2. ends'.sink = None /\ ends'.src = None /\ step' \in {"idle", "sources", "outputs"}
    BY <2>1
  <2>3. Spine(graph') = {}
    BY Zenon, <2>1 DEF Spine
  <2>. QED
    BY Zenon, <2>2, <2>3, NothingYet
<1>7. CASE ElementFails
  BY <1>7, ChainEnds DEF ElementFails, Abandon
<1>. QED
  BY Zenon, <1>2, <1>3, <1>4, <1>5, <1>6, <1>7

(* The outputs: the demultiplexer, or the tiler and the tee before it.     *)
LEMMA OutputsDone ==
  ASSUME step' = "example", Passed' = Passed, ends'.sink = None, ends'.src = None,
         \/ Tiled /\ Spine(graph') = {<<E(10), E(11)>>} /\ ends'.last = E(10)
         \/ ~Tiled /\ Spine(graph') = {} /\ ends'.last = E(12)
  PROVE  ChainInv'
<1>1. Part(10, 12)' = Part(10, 12) /\ Links({}) = {}
  BY Zenon, LinksOfFew DEF Part
<1>2. CASE Tiled /\ Spine(graph') = {<<E(10), E(11)>>} /\ ends'.last = E(10)
  <2>1. Part(10, 12) = {10, 11}
    BY Zenon, <1>2, PartsOfPassed
  <2>2. Links({10, 10 + 1}) = {<<E(10), E(10 + 1)>>} /\ 10 + 1 = 11
    BY LinksOfFew
  <2>3. Least(E(10), {10, 11})
    BY DEF Least
  <2>. QED
    BY <1>1, <1>2, <2>1, <2>2, <2>3 DEF ChainInv, LinkedAs
<1>3. CASE ~Tiled /\ Spine(graph') = {} /\ ends'.last = E(12)
  <2>1. Part(10, 12) = {12}
    BY Zenon, <1>3, PartsOfPassed
  <2>2. Links({12}) = {}
    BY LinksOfFew
  <2>3. Least(E(12), {12})
    BY DEF Least
  <2>. QED
    BY <1>1, <1>3, <2>1, <2>2, <2>3 DEF ChainInv, LinkedAs
<1>. QED
  BY Zenon, <1>2, <1>3

LEMMA ChainOutputs ==
  BuildInv /\ ChainInv /\ (BuildTiled \/ BuildDemuxed \/ DemuxDone) => ChainInv'
<1> SUFFICES ASSUME BuildInv, ChainInv, BuildTiled \/ BuildDemuxed \/ DemuxDone
             PROVE  ChainInv'
  OBVIOUS
<1>1. /\ step = "outputs" /\ Shaped(cfg) /\ DOMAIN ends = {"sink", "src", "last"}
      /\ Spine(graph) = {} /\ ends.sink = None /\ ends.src = None
  <2>1. step = "outputs"
    BY Zenon DEF BuildTiled, BuildDemuxed, DemuxDone
  <2>2. step \in {"idle", "sources", "outputs"}
    BY <2>1
  <2>. QED
    BY Zenon, <2>1, <2>2 DEF BuildInv, Where, ChainInv
<1>2. ASSUME NEW e, ends' = [ends EXCEPT !.last = e]
      PROVE  ends'.sink = None /\ ends'.src = None /\ ends'.last = e
  BY <1>1, <1>2
<1>3. /\ E(10) = Elem("tiler_tee") /\ E(11) = Elem("tiler") /\ E(12) = Elem("demuxer")
      /\ \E n \in 1 .. 12 : E(11) = E(n)
  BY Positions DEF E
<1>4. CASE BuildTiled
  <2>1. CASE step' \in {"failed", "crashed"}
    BY Zenon, <2>1, ChainEnds
  <2>2. CASE step' \notin {"failed", "crashed"}
    <3>1. "failed" \in {"failed", "crashed"} /\ "crashed" \in {"failed", "crashed"}
      OBVIOUS
    <3>2. /\ Tiled /\ step' = "example" /\ cfg' = [cfg EXCEPT !.tiles = Readjusted(@)]
          /\ graph' = graph \cup InstanceLinks(0)
               \cup {<<Elem("tiler_tee"), Elem("tiler")>>, <<Elem("tiler"), Entry(0)>>}
          /\ ends' = [ends EXCEPT !.last = Elem("tiler_tee")]
      BY Zenon, <1>4, <2>2, <3>1 DEF BuildTiled, Probe, Abandon, GoTo
    <3>3. Passed' = Passed
      <4>1. SameInBuild
        BY <1>1, <3>2, TilesSame
      <4>. QED
        BY Zenon, <4>1, SameViews
    <3>4. /\ Spine({<<E(10), E(11)>>}) = {<<E(10), E(11)>>}
          /\ Spine({<<E(11), Entry(0)>>}) = {} /\ Spine(InstanceLinks(0)) = {}
      <4>1. Spine({<<E(10), E(11)>>}) = {<<E(10), E(11)>>}
        BY Zenon, <1>3, SpineOfLink
      <4>. QED
        BY Zenon, <4>1, InstanceInside
    <3>5. Spine(graph') = {<<E(10), E(11)>>}
      <4>1. graph' = ((graph \cup InstanceLinks(0)) \cup {<<E(10), E(11)>>})
                       \cup {<<E(11), Entry(0)>>}
        BY <1>3, <3>2
      <4>2. Spine(graph \cup InstanceLinks(0)) = {}
        BY <1>1, <3>4, SpineJoin
      <4>3. Spine((graph \cup InstanceLinks(0)) \cup {<<E(10), E(11)>>}) = {<<E(10), E(11)>>}
        BY <3>4, <4>2, SpineJoin
      <4>. QED
        BY <3>4, <4>1, <4>3, SpineJoin
    <3>6. ends'.sink = None /\ ends'.src = None /\ ends'.last = E(10)
      BY <1>2, <1>3, <3>2
    <3>. QED
      BY Zenon, <3>2, <3>3, <3>5, <3>6, OutputsDone
  <2>. QED
    BY Zenon, <2>1, <2>2
<1>5. CASE BuildDemuxed
  <2>1. /\ ends' = ends
        /\ \/ step' = "failed"
           \/ step' = step /\ graph' = graph
           \/ /\ step' = step
              /\ graph' = graph \cup InstanceLinks(at)
                            \cup {<<Elem("demuxer"), Entry(at)>>}
    BY Zenon, <1>5 DEF BuildDemuxed, Abandon
  <2>2. CASE step' = "failed"
    BY <2>2, ChainEnds
  <2>3. CASE step' = step
    <3>1. Spine(graph \cup InstanceLinks(at)) = {}
      BY <1>1, InstanceInside, SpineJoin
    <3>2. Spine((graph \cup InstanceLinks(at)) \cup {<<Elem("demuxer"), Entry(at)>>}) = {}
      <4>1. Spine({<<Elem("demuxer"), Entry(at)>>}) = {}
        BY Zenon, InstanceInside
      <4>. QED
        BY <3>1, <4>1, SpineJoin
    <3>3. step' \in {"idle", "sources", "outputs"}
      BY <1>1, <2>3
    <3>4. Spine(graph') = {}
      <4>1. CASE graph' = graph
        BY Zenon, <1>1, <4>1
      <4>2. CASE graph' = (graph \cup InstanceLinks(at)) \cup {<<Elem("demuxer"), Entry(at)>>}
        BY Zenon, <3>2, <4>2
      <4>. QED
        BY <1>1, <2>1, <2>3, <4>1, <4>2
    <3>. QED
      BY Zenon, <1>1, <2>1, <3>3, <3>4, NothingYet
  <2>. QED
    BY Zenon, <2>1, <2>2, <2>3
<1>6. CASE DemuxDone
  <2>1. /\ ~Tiled /\ step' = "example" /\ cfg' = cfg /\ graph' = graph
        /\ ends' = [ends EXCEPT !.last = Elem("demuxer")]
    BY Zenon, <1>6 DEF DemuxDone, GoTo, vars
  <2>2. Passed' = Passed
    BY Zenon, <2>1, SameWhenUnchanged, SameViews
  <2>3. ends'.sink = None /\ ends'.src = None /\ ends'.last = E(12)
    BY <1>2, <1>3, <2>1
  <2>. QED
    BY Zenon, <1>1, <2>1, <2>2, <2>3, OutputsDone
<1>. QED
  BY Zenon, <1>4, <1>5, <1>6

LEMMA ChainExample == BuildInv /\ ChainInv /\ BuildExample => ChainInv'
<1> SUFFICES ASSUME BuildInv, ChainInv, BuildExample PROVE ChainInv'
  OBVIOUS
<1>1. /\ step = "example" /\ step' = "common" /\ at' = 0 /\ cfg' = cfg
      /\ \/ ~Example /\ graph' = graph /\ ends' = ends
         \/ /\ Example /\ graph' = graph \cup {<<Elem("dsexample"), ends.last>>}
            /\ ends' = [ends EXCEPT !.last = Elem("dsexample")]
  BY Zenon DEF BuildExample, GoTo, vars, Example
<1> DEFINE T == Part(10, 12)
<1>2. /\ DOMAIN ends = {"sink", "src", "last"} /\ Spine(graph) = Links(T)
      /\ ends.sink = None /\ ends.src = None /\ Least(ends.last, T)
  BY <1>1, LinksOfFew DEF BuildInv, Where, ChainInv, LinkedAs
<1>3. /\ Part(9, 12) = T \cup IF Example THEN {9} ELSE {}
      /\ T \subseteq 10 .. 12 /\ E(9) = Elem("dsexample") /\ Part(7, 6) = {}
  BY PartsOfPassed, Positions DEF Part, E
<1>4. \A a, b : Part(a, b)' = Part(a, b)
  BY Zenon, <1>1, SameWhenUnchanged, SameViews DEF Part
<1> HIDE DEF T
<1>5. LinkedAs(graph', ends', {}, Part(9, 12))
  <2>1. CASE ~Example
    BY <1>1, <1>2, <1>3, <2>1, LinksOfFew DEF LinkedAs
  <2>2. CASE Example
    <3>1. /\ graph' = graph \cup {<<E(9), ends.last>>}
          /\ ends'.last = E(9) /\ ends'.sink = None /\ ends'.src = None
      BY <1>1, <1>2, <1>3, <2>2
    <3>2. Greatest(E(9), {9}) /\ Precedes({9}, T) /\ Links({9}) = {}
      BY <1>3, LinksOfFew DEF Greatest, Precedes
    <3>3. Links({9} \cup T) = Links(T) \cup {<<E(9), ends.last>>}
      BY <1>2, <3>2, LinksJoin
    <3>4. Spine({<<E(9), ends.last>>}) = {<<E(9), ends.last>>}
      <4>1. \E n \in 1 .. 12 : ends.last = E(n)
        BY <1>2, <1>3 DEF Least
      <4>. QED
        BY Zenon, <4>1, SpineOfLink
    <3>5. Spine(graph') = Links(T) \cup {<<E(9), ends.last>>}
      BY <1>2, <3>1, <3>4, SpineJoin
    <3>6. Part(9, 12) = {9} \cup T
      BY <1>3, <2>2
    <3>7. Least(E(9), {9} \cup T)
      <4>1. \A k \in {9} \cup T : 9 <= k
        BY <1>3
      <4>. QED
        BY <4>1 DEF Least
    <3>8. Spine(graph') = Links(Part(9, 12)) /\ Least(ends'.last, Part(9, 12))
      BY <3>1, <3>3, <3>5, <3>6, <3>7
    <3>. QED
      BY <3>1, <3>8, LinksOfFew DEF LinkedAs
  <2>. QED
    BY Zenon, <2>1, <2>2
<1>6. LinkedAs(graph', ends', Part(7 - at, 6)', Part(9, 12)')
  <2>1. (7 - at)' = 7
    BY <1>1
  <2>2. Part(7 - at, 6)' = Part(7, 6)
    BY Zenon, <1>1, <2>1, SameWhenUnchanged, SameViews DEF Part
  <2>. QED
    BY Zenon, <1>3, <1>4, <1>5, <2>2
<1>. QED
  BY <1>1, <1>6 DEF ChainInv

LEMMA ChainCommon == BuildInv /\ ChainInv /\ BuildCommon => ChainInv'
<1> SUFFICES ASSUME BuildInv, ChainInv, BuildCommon PROVE ChainInv'
  OBVIOUS
<1> DEFINE e == Common[at + 1]
<1>1. /\ step = "common" /\ step' = step /\ at' = at + 1 /\ at < Len(Common)
      /\ \/ ~Wanted(e) /\ cfg' = cfg /\ graph' = graph /\ ends' = ends
         \/ /\ Wanted(e) /\ cfg' = BatchOverridden(e) /\ ends' = WithCommon(e)
            /\ graph' = graph \cup IF ends.sink = None THEN {} ELSE {<<Elem(e), ends.sink>>}
  BY Zenon DEF BuildCommon
<1>2. /\ Shaped(cfg) /\ DOMAIN ends = {"sink", "src", "last"} /\ at \in 0 .. 4
      /\ LinkedAs(graph, ends, Part(7 - at, 6), Part(9, 12))
  BY <1>1 DEF BuildInv, Where, ChainInv, Common
<1> DEFINE S == Part(7 - at, 6)
           n == 6 - at
<1>3. /\ n \in 1 .. 12 /\ S \in SUBSET (1 .. 12) /\ \A s \in S : n < s
      /\ 7 - (at + 1) = n
  BY <1>2 DEF Part
<1>4. E(n) = Elem(e) /\ Part(n, 6) = S \cup IF Wanted(e) THEN {n} ELSE {}
  BY Zenon, <1>2, PartsOfPassed DEF E
<1>5. /\ Part(7 - at, 6)' = Part(n, 6) /\ Part(9, 12)' = Part(9, 12)
  <2>1. SameInBuild
    BY Zenon, <1>1, <1>2, SameWhenUnchanged, BatchSame
  <2>2. (7 - at)' = n
    BY <1>1, <1>3
  <2>3. Passed' = Passed
    BY Zenon, <2>1, SameViews
  <2>4. Part(7 - at, 6)' = Passed' \cap ((7 - at)' .. 6)
    BY Zenon DEF Part
  <2>5. Part(n, 6) = Passed \cap (n .. 6)
    BY Zenon DEF Part
  <2>. QED
    BY Zenon, <2>2, <2>3, <2>4, <2>5 DEF Part
<1> HIDE DEF e, S, n
<1>6. LinkedAs(graph', ends', Part(n, 6), Part(9, 12))
  <2>1. CASE ~Wanted(e) /\ graph' = graph /\ ends' = ends
    <3>1. Part(n, 6) = S
      BY <1>4, <2>1
    <3>. QED
      BY Zenon, <1>2, <2>1, <3>1 DEF S
  <2>2. CASE /\ Wanted(e) /\ ends' = WithCommon(e)
             /\ graph' = graph \cup IF ends.sink = None THEN {} ELSE {<<Elem(e), ends.sink>>}
    <3>1. Part(n, 6) = S \cup {n}
      BY <1>4, <2>2
    <3>2. ends' = [ends EXCEPT !.sink = E(n), !.src = IF @ = None THEN E(n) ELSE @]
      BY Zenon, <1>4, <2>2 DEF WithCommon
    <3>3. graph' = graph \cup IF ends.sink = None THEN {} ELSE {<<E(n), ends.sink>>}
      BY Zenon, <1>4, <2>2
    <3>4. LinkedAs(graph', ends', S \cup {n}, Part(9, 12))
      <4>1. LinkedAs(graph, ends, S, Part(9, 12))
        BY Zenon, <1>2 DEF S
      <4>. QED
        BY Zenon, <1>2, <1>3, <3>2, <3>3, <4>1, OneBefore
    <3>. QED
      BY Zenon, <3>1, <3>4
  <2>. QED
    BY Zenon, <1>1, <2>1, <2>2
<1>7. LinkedAs(graph', ends', Part(7 - at, 6)', Part(9, 12)')
  BY Zenon, <1>5, <1>6
<1>. QED
  BY <1>1, <1>2, <1>7 DEF ChainInv

LEMMA ChainTee == BuildInv /\ ChainInv /\ BuildTee => ChainInv'
<1> SUFFICES ASSUME BuildInv, ChainInv, BuildTee PROVE ChainInv'
  OBVIOUS
<1> DEFINE S == Part(2, 6)
           T == Part(9, 12)
           U == Part(7, 8)
<1>1. /\ step = "common" /\ step' = "broker" /\ at = Len(Common) /\ cfg' = cfg
      /\ \/ ends.src = None /\ graph' = graph /\ ends' = ends
         \/ /\ ends.src # None /\ graph' = graph \cup TeeLinks
            /\ ends' = [ends EXCEPT !.src = Elem("tee")]
  BY Zenon DEF BuildTee, GoTo, vars
<1>2. 7 - at = 2
  BY <1>1 DEF Common
<1>3. DOMAIN ends = {"sink", "src", "last"} /\ LinkedAs(graph, ends, S, T)
  BY Zenon, <1>1, <1>2 DEF BuildInv, Where, ChainInv
<1>4. /\ S \in SUBSET (1 .. 12) /\ U \subseteq 7 .. 8 /\ Precedes(S, U)
      /\ \A s \in S, u \in U : s <= u
  BY DEF Part, Precedes
<1>5. /\ U = IF S = {} THEN {} ELSE IF cfg.msgconv # 0 THEN {7, 8} ELSE {8}
      /\ Part(2, 8) = S \cup U
  BY Zenon, PartsOfPassed
<1>6. ends.src = None <=> S = {}
  BY Zenon, <1>3, <1>4, EndsOpen
<1>7. \A a, b : Part(a, b)' = Part(a, b)
  BY Zenon, <1>1, SameWhenUnchanged, SameViews DEF Part
<1> HIDE DEF S, T, U
<1>8. LinkedAs(graph', ends', S \cup U, T)
  <2>1. CASE S = {}
    <3>1. U = {} /\ S \cup U = S
      BY <1>5, <2>1
    <3>. QED
      BY Zenon, <1>1, <1>3, <1>6, <2>1, <3>1
  <2>2. CASE S # {}
    <3>1. /\ graph' = graph \cup TeeLinks /\ ends' = [ends EXCEPT !.src = Elem("tee")]
          /\ Spine(graph) = Links(S) \cup Links(T)
          /\ Least(ends.sink, S) /\ Greatest(ends.src, S) /\ Least(ends.last, T)
      BY Zenon, <1>1, <1>3, <1>6, <2>2 DEF LinkedAs
    <3>2. /\ ends'.src = E(8) /\ ends'.sink = ends.sink /\ ends'.last = ends.last
          /\ E(7) = Elem("msg_conv") /\ E(8) = Elem("tee")
      BY <1>3, <3>1, Positions DEF E
    <3>3. Spine(TeeLinks) \cup Links(S) = Links(S \cup U)
      <4>1. CASE cfg.msgconv # 0
        <5>1. U = {7, 8} /\ TeeLinks = {<<ends.src, E(7)>>} \cup {<<E(7), E(8)>>}
          BY <1>5, <2>2, <3>2, <4>1 DEF TeeLinks
        <5>2. Links({7, 7 + 1}) = {<<E(7), E(7 + 1)>>} /\ 7 + 1 = 8
          BY LinksOfFew
        <5>3. Least(E(7), U)
          BY <5>1 DEF Least
        <5>4. Links(S \cup U) = Links(S) \cup Links(U) \cup {<<ends.src, E(7)>>}
          BY <1>4, <3>1, <5>3, LinksJoin
        <5>5. /\ Spine({<<ends.src, E(7)>>}) = {<<ends.src, E(7)>>}
              /\ Spine({<<E(7), E(8)>>}) = {<<E(7), E(8)>>}
          <6>1. 7 \in 1 .. 12 /\ 8 \in 1 .. 12
            OBVIOUS
          <6>2. (\E n \in 1 .. 12 : E(7) = E(n)) /\ (\E n \in 1 .. 12 : E(8) = E(n))
            BY Zenon, <6>1
          <6>3. Spine({<<ends.src, E(7)>>}) = {<<ends.src, E(7)>>}
            BY Zenon, <6>2, SpineOfLink
          <6>4. Spine({<<E(7), E(8)>>}) = {<<E(7), E(8)>>}
            BY Zenon, <6>2, SpineOfLink
          <6>. QED
            BY Zenon, <6>3, <6>4
        <5>6. Spine(TeeLinks) = {<<ends.src, E(7)>>} \cup {<<E(7), E(8)>>}
          BY <5>1, <5>5, SpineJoin
        <5>7. Spine(TeeLinks) \cup Links(S) = Links(S \cup U)
          BY <5>1, <5>2, <5>4, <5>6
        <5>. QED
          BY Zenon, <5>7
      <4>2. CASE ~(cfg.msgconv # 0)
        <5>1. U = {8} /\ TeeLinks = {<<ends.src, E(8)>>}
          BY <1>5, <2>2, <3>2, <4>2 DEF TeeLinks
        <5>2. Links({8}) = {}
          BY LinksOfFew
        <5>3. Least(E(8), U)
          BY <5>1 DEF Least
        <5>4. Links(S \cup U) = Links(S) \cup Links(U) \cup {<<ends.src, E(8)>>}
          BY <1>4, <3>1, <5>3, LinksJoin
        <5>5. Spine(TeeLinks) = {<<ends.src, E(8)>>}
          <6>1. \E n \in 1 .. 12 : E(8) = E(n)
            <7>1. 8 \in 1 .. 12
              OBVIOUS
            <7>. QED
              BY Zenon, <7>1
          <6>. QED
            BY Zenon, <5>1, <6>1, SpineOfLink
        <5>6. Spine(TeeLinks) \cup Links(S) = Links(S \cup U)
          BY <5>1, <5>2, <5>4, <5>5
        <5>. QED
          BY Zenon, <5>6
      <4>. QED
        BY Zenon, <4>1, <4>2
    <3>4. Spine(graph') = Links(S \cup U) \cup Links(T)
      BY <3>1, <3>3, SpineJoin
    <3>5. 8 \in U /\ \A k \in S \cup U : k <= 8
      <4>1. U = {7, 8} \/ U = {8}
        BY Zenon, <1>5, <2>2
      <4>2. 8 \in U
        BY <4>1
      <4>3. \A s \in S : s <= 8
        BY <1>4, <4>2
      <4>4. \A u \in U : u <= 8
        BY <4>1
      <4>. QED
        BY Zenon, <4>2, <4>3, <4>4
    <3>6. Greatest(E(8), S \cup U)
      BY <3>5 DEF Greatest
    <3>7. Least(ends.sink, S \cup U)
      BY <1>4, <3>1 DEF Least
    <3>8. S \cup U # {}
      BY <2>2
    <3>. QED
      BY Zenon, <3>1, <3>2, <3>4, <3>6, <3>7, <3>8 DEF LinkedAs
  <2>. QED
    BY Zenon, <2>1, <2>2
<1>9. LinkedAs(graph', ends', Part(2, 8)', Part(9, 12)')
  BY Zenon, <1>5, <1>7, <1>8 DEF T
<1>. QED
  BY <1>1, <1>9 DEF ChainInv

(* The links to the broker sinks are inside the outputs.                   *)
LEMMA ChainBroker == BuildInv /\ ChainInv /\ LinkBroker => ChainInv'
<1> SUFFICES ASSUME BuildInv, ChainInv, LinkBroker PROVE ChainInv'
  OBVIOUS
<1> DEFINE ToBrokers == {<<Elem("tee"), Sub(0, k, "queue")>> : k \in Brokers}
<1>1. /\ step = "broker" /\ cfg' = cfg
      /\ \/ step' = "failed"
         \/ step' = "last" /\ graph' = graph \cup ToBrokers /\ ends' = ends
  BY Zenon DEF LinkBroker, GoTo, Abandon, vars
<1>2. CASE step' = "failed"
  BY <1>2, ChainEnds
<1>3. CASE step' = "last" /\ graph' = graph \cup ToBrokers /\ ends' = ends
  <2>1. LinkedAs(graph, ends, Part(2, 8), Part(9, 12))
    BY <1>1 DEF ChainInv
  <2>2. \A l \in ToBrokers : Inside(l[2])
    <3>1. "queue" \in OutNames /\ \A a, b : <<a, b>>[2] = b
      BY DEF OutNames
    <3>. QED
      BY Zenon, <3>1 DEF Inside, Sub
  <2>3. Spine(ToBrokers) = {}
    BY Zenon, <2>2, InsideIsOff
  <2> HIDE DEF ToBrokers
  <2>4. Spine(graph') = Spine(graph)
    BY <1>3, <2>3, SpineJoin
  <2>5. LinkedAs(graph', ends', Part(2, 8), Part(9, 12))
    BY Zenon, <1>3, <2>1, <2>4 DEF LinkedAs
  <2>6. \A a, b : Part(a, b)' = Part(a, b)
    BY Zenon, <1>1, SameWhenUnchanged, SameViews DEF Part
  <2>7. LinkedAs(graph', ends', Part(2, 8)', Part(9, 12)')
    BY Zenon, <2>5, <2>6
  <2>. QED
    BY <1>3, <2>7 DEF ChainInv
<1>. QED
  BY Zenon, <1>1, <1>2, <1>3

(* The last links close the gap between the two parts, and put the sources *)
(* before them.                                                            *)
LEMMA ChainSources == BuildInv /\ ChainInv /\ LinkSources => ChainInv'
<1> SUFFICES ASSUME BuildInv, ChainInv, LinkSources PROVE ChainInv'
  OBVIOUS
<1> DEFINE S == Part(2, 8)
           T == Part(9, 12)
           R == {1}
<1>1. /\ step = "last" /\ step' = "built" /\ cfg' = cfg
      /\ graph' = graph \cup
           IF ends.src = None THEN {<<Elem("source"), ends.last>>}
           ELSE {<<ends.src, ends.last>>, <<Elem("source"), ends.sink>>}
  BY Zenon DEF LinkSources, GoTo, vars
<1>2. LinkedAs(graph, ends, S, T)
  BY <1>1 DEF ChainInv
<1>3. /\ S \in SUBSET (1 .. 12) /\ T \subseteq 1 .. 12
      /\ Precedes(S, T) /\ Precedes(R, T) /\ Precedes(R, S \cup T)
      /\ \A s \in S, t \in T : s <= t
  BY DEF Part, Precedes
<1>4. Passed = R \cup (S \cup T)
  BY Zenon, PartsOfPassed
<1>5. Links(R) = {} /\ Greatest(E(1), R) /\ E(1) = Elem("source")
  BY LinksOfFew, Positions DEF Greatest, E
<1> HIDE DEF S, T, R
<1>6. /\ ends.src = None <=> S = {}
      /\ Spine(graph) = Links(S) \cup Links(T) /\ Least(ends.last, T)
  BY Zenon, <1>2, <1>3, EndsOpen DEF LinkedAs
<1>7. \E n \in 1 .. 12 : ends.last = E(n)
  BY Zenon, <1>3, <1>6 DEF Least
<1>8. Spine(graph') = Links(Passed)
  <2>1. CASE S = {}
    <3>1. graph' = graph \cup {<<E(1), ends.last>>}
      BY Zenon, <1>1, <1>5, <1>6, <2>1
    <3>2. Spine(graph') = Links(T) \cup {<<E(1), ends.last>>}
      <4>1. Spine({<<E(1), ends.last>>}) = {<<E(1), ends.last>>}
        BY Zenon, <1>7, SpineOfLink
      <4>2. Links(S) = {}
        BY Zenon, <2>1, LinksOfFew
      <4>. QED
        BY <1>6, <3>1, <4>1, <4>2, SpineJoin
    <3>3. Links(R \cup T) = Links(R) \cup Links(T) \cup {<<E(1), ends.last>>}
      BY <1>3, <1>5, <1>6, LinksJoin
    <3>4. Passed = R \cup T
      BY <1>4, <2>1
    <3>. QED
      BY <1>5, <3>2, <3>3, <3>4
  <2>2. CASE S # {}
    <3>1. /\ graph' = (graph \cup {<<ends.src, ends.last>>}) \cup {<<E(1), ends.sink>>}
          /\ Least(ends.sink, S) /\ Greatest(ends.src, S)
      BY <1>1, <1>2, <1>5, <1>6, <2>2 DEF LinkedAs
    <3>2. Links(S \cup T) = Links(S) \cup Links(T) \cup {<<ends.src, ends.last>>}
      BY <1>3, <1>6, <3>1, LinksJoin
    <3>3. Least(ends.sink, S \cup T)
      BY <1>3, <3>1 DEF Least
    <3>4. Links(R \cup (S \cup T))
            = Links(R) \cup Links(S \cup T) \cup {<<E(1), ends.sink>>}
      BY <1>3, <1>5, <3>3, LinksJoin
    <3>5. Spine({<<ends.src, ends.last>>}) = {<<ends.src, ends.last>>}
      BY Zenon, <1>7, SpineOfLink
    <3>6. Spine({<<E(1), ends.sink>>}) = {<<E(1), ends.sink>>}
      <4>1. \E n \in 1 .. 12 : ends.sink = E(n)
        BY Zenon, <1>3, <3>1 DEF Least
      <4>. QED
        BY Zenon, <4>1, SpineOfLink
    <3>7. Spine(graph \cup {<<ends.src, ends.last>>}) = Links(S \cup T)
      BY <1>6, <3>2, <3>5, SpineJoin
    <3>8. Spine(graph') = Links(S \cup T) \cup {<<E(1), ends.sink>>}
      BY <3>1, <3>6, <3>7, SpineJoin
    <3>. QED
      BY <1>4, <1>5, <3>4, <3>8
  <2>. QED
    BY Zenon, <2>1, <2>2
<1>9. Passed' = Passed
  BY Zenon, <1>1, SameWhenUnchanged, SameViews
<1>10. Spine(graph') = Links(Passed')
  BY Zenon, <1>8, <1>9
<1>. QED
  BY <1>1, <1>10 DEF ChainInv

LEMMA ChainNext == BuildInv /\ ChainInv /\ [BuildNext]_buildVars => ChainInv'
<1> SUFFICES ASSUME BuildInv, ChainInv, [BuildNext]_buildVars PROVE ChainInv'
  OBVIOUS
<1>1. CASE UNCHANGED buildVars
  <2>1. /\ cfg' = cfg /\ step' = step /\ at' = at /\ graph' = graph /\ ends' = ends
    BY Zenon, <1>1 DEF buildVars, vars, building
  <2>. QED
    BY Zenon, <2>1, SameWhenUnchanged, ChainRests
<1>. QED
  BY Zenon, <1>1, ChainBegins, ChainOutputs, ChainExample, ChainCommon, ChainTee,
     ChainBroker, ChainSources DEF BuildNext

(* A pipeline that has been built, the first or a recreated one, passes    *)
(* frames through every enabled component once and in one order            *)
(* (create_pipeline, create_common_elements), however creation went.       *)
THEOREM FramesPassOneChain == BuildSpec => []OneChain
<1>1. ChainInv => OneChain
  <2> SUFFICES ASSUME ChainInv, step = "built" PROVE Spine(graph) = Links(Passed)
    BY Zenon DEF OneChain, Spine, Links, E
  <2>. QED
    BY DEF ChainInv
<1>2. BuildInit => BuildInv /\ ChainInv
  BY Zenon, BuildInvInit, ChainInit
<1>3. BuildInv /\ ChainInv /\ [BuildNext]_buildVars => (BuildInv /\ ChainInv)'
  BY Zenon, BuildInvNext, ChainNext
<1>. QED
  BY <1>1, <1>2, <1>3, PTL DEF BuildSpec

-----------------------------------------------------------------------------
(* Sources of a list.  What ListedSourcesFillBatch says of one file, for   *)
(* what was read of it, r, and the configuration c.                        *)
UrisIn(r) == Get(r.list[1], "uri-list", <<>>)
Single(r) == UrisIn(r) # <<>> \/ Get(r.attr[1], "type", 0) # SourceMultiple
OwnGroup(r, i) ==
  \E g \in {r.groups[k] : k \in 1 .. Len(r.groups)} :
    g.kind = "source" /\ g.index = i /\ ~Off(g)
PlaysItsUri(r, c, i) ==
  /\ c.src[i - 1].type = Schemes[UrisIn(r)[i].scheme]
  /\ UrisIn(r)[i].scheme \in {"file", "rtsp"} => c.src[i - 1].uri = <<UrisIn(r)[i].name>>
AsListed(r, c) ==
  \A i \in 1 .. Len(UrisIn(r)) : ~OwnGroup(r, i - 1) => PlaysItsUri(r, c, i)
Filled(c) == c.mux.batch = c.nsrc /\ c.primary.batch = c.nsrc
Obeys(f) ==
  f.read.list # <<>> /\ Single(f.read) => Filled(f.cfg) /\ AsListed(f.read, f.cfg)

(* The fields of the configuration that matter here.                       *)
Form(c) ==
  /\ DOMAIN c = DOMAIN EmptyConfig
  /\ DOMAIN c.src = Slots(MaxSources)
  /\ \A i \in Slots(MaxSources) : DOMAIN c.src[i] = DOMAIN NoSource
  /\ "batch" \in DOMAIN c.mux /\ "batch" \in DOMAIN c.primary

(* Until it is expanded, a list has a source for every uri, none of them a *)
(* source of several uris.                                                 *)
ListKept(r, c) ==
  /\ c.listed = TRUE /\ c.uris = UrisIn(r)
  /\ c.nsrc = c.total /\ c.total \in 0 .. MaxSources
  /\ Len(c.uris) \in Nat /\ (c.uris # <<>> => Len(c.uris) = c.total)
  /\ (c.uris = <<>> => Len(c.uris) = 0)
NoneMultiple(c) ==
  c.nsrc \in Nat /\ \A i \in Slots(c.nsrc) : c.src[i].type # SourceMultiple

AtStage ==
  /\ stage = "app" => cfg = EmptyConfig /\ read.list = <<>>
  /\ stage = "list" => Form(cfg) /\ read.list = <<>>
  /\ stage \in {"attr", "groups"} =>
       Form(cfg) /\ (read.list # <<>> => ListKept(read, cfg))
  /\ stage \in {"groups", "expand"} /\ read.list # <<>> /\ Single(read) =>
       NoneMultiple(cfg) /\ AsListed(read, cfg)
  /\ stage = "expand" =>
       next \in Nat /\ (read.list # <<>> /\ Single(read) => Filled(cfg))

ListInv == AtStage /\ \A n \in 1 .. Len(parsed) : Obeys(parsed[n])

LEMMA ListInvIsEnough ==
  ASSUME \A n \in 1 .. Len(parsed) : Obeys(parsed[n])
  PROVE  ListedSourcesFillBatch
<1>1. ASSUME NEW f \in Accepted, f.read.list # <<>>, Single(f.read)
      PROVE  /\ f.cfg.mux.batch = f.cfg.nsrc /\ f.cfg.primary.batch = f.cfg.nsrc
             /\ \A i \in 1 .. Len(UrisIn(f.read)) :
                  ~OwnGroup(f.read, i - 1) => PlaysItsUri(f.read, f.cfg, i)
  BY Zenon, <1>1 DEF Accepted, Obeys, Filled, AsListed
<1> SUFFICES ASSUME NEW f \in Accepted, f.read.list # <<>>, Single(f.read)
             PROVE  /\ f.cfg.mux.batch = f.cfg.nsrc /\ f.cfg.primary.batch = f.cfg.nsrc
                    /\ \A i \in 1 .. Len(UrisIn(f.read)) :
                         ~OwnGroup(f.read, i - 1) => PlaysItsUri(f.read, f.cfg, i)
  BY DEF ListedSourcesFillBatch, Single, UrisIn, OwnGroup, PlaysItsUri
<1>. QED
  BY Zenon, <1>1

LEMMA EmptyForm == Form(EmptyConfig)
<1>1. /\ EmptyConfig.src = [i \in Slots(MaxSources) |-> NoSource]
      /\ EmptyConfig.primary = NoGie /\ "batch" \in DOMAIN EmptyConfig.mux
  BY DEF EmptyConfig
<1>2. "batch" \in DOMAIN NoGie
  BY DEF NoGie
<1>. QED
  BY <1>1, <1>2 DEF Form

(* The groups of the other components leave the sources alone.             *)
SourcesKept(c, d) ==
  /\ d.src = c.src /\ d.nsrc = c.nsrc /\ d.total = c.total /\ d.uris = c.uris
  /\ d.listed = c.listed
Beside(c, d) == Form(d) /\ SourcesKept(c, d)

LEMMA OtherGroups ==
  ASSUME Form(cfg), NEW g,
         \/ ParsePrimaryGie(g) \/ ParseSecondaryGie(g) \/ ParsePreprocess(g)
         \/ ParseSecondaryPreprocess(g) \/ ParseSink(g) \/ ParseStreammux(g)
         \/ ParseOsd(g) \/ ParseTracker(g) \/ ParseTiledDisplay(g)
         \/ ParseDsExample(g) \/ ParseImageSave(g) \/ ParseMsgconv(g)
         \/ ParseTests(g)
  PROVE  \/ stage' = "failed"
         \/ g.kind # "source" /\ Beside(cfg, cfg')
<1> DEFINE D == DOMAIN EmptyConfig
<1>0. /\ DOMAIN cfg = D /\ "batch" \in DOMAIN cfg.mux /\ "batch" \in DOMAIN cfg.primary
      /\ {"src", "nsrc", "total", "uris", "listed", "mux", "primary", "gie", "ngie", "pre",
          "npre", "preprocess", "sink", "nsink", "part", "tiles", "msgconv"} \subseteq D
  BY FieldsOfConfig DEF Form
<1> HIDE DEF D
<1>1. ASSUME NEW d, DOMAIN d = D, SourcesKept(cfg, d), d.mux = cfg.mux,
             d.primary = cfg.primary
      PROVE  Beside(cfg, d)
  BY Zenon, <1>0, <1>1 DEF Beside, Form, SourcesKept, D
<1>2. ASSUME NEW kind, kind # "source", Reading(g, kind) PROVE g.kind # "source"
  BY Zenon, <1>2 DEF Reading
<1>3. ASSUME NEW k \in {"gie", "ngie", "pre", "npre", "preprocess", "sink", "nsink", "part",
                       "tiles", "msgconv"},
             NEW c, NEW x, Beside(cfg, c), c.mux = cfg.mux, c.primary = cfg.primary
      PROVE  /\ Beside(cfg, [c EXCEPT ![k] = x])
             /\ [c EXCEPT ![k] = x].mux = cfg.mux /\ [c EXCEPT ![k] = x].primary = cfg.primary
  <2>1. DOMAIN c = D
    BY Zenon, <1>3 DEF Beside, Form, D
  <2>2. /\ [c EXCEPT ![k] = x].mux = c.mux /\ [c EXCEPT ![k] = x].primary = c.primary
        /\ DOMAIN [c EXCEPT ![k] = x] = D /\ SourcesKept(c, [c EXCEPT ![k] = x])
    BY <1>0, <1>3, <2>1 DEF SourcesKept
  <2>. QED
    BY Zenon, <1>1, <1>3, <2>1, <2>2 DEF Beside, SourcesKept
<1>4. Beside(cfg, cfg)
  BY Zenon, <1>0, <1>1 DEF SourcesKept
<1>5. CASE ParsePrimaryGie(g)
  <2>1. ASSUME NEW x, DOMAIN x = DOMAIN cfg.primary
        PROVE  Beside(cfg, [cfg EXCEPT !.primary = x])
    <3> DEFINE d == [cfg EXCEPT !.primary = x]
    <3>1. /\ DOMAIN d = D /\ SourcesKept(cfg, d) /\ d.mux = cfg.mux
          /\ "batch" \in DOMAIN d.primary
      BY <1>0, <2>1 DEF SourcesKept
    <3>. QED
      BY Zenon, <1>0, <3>1 DEF Beside, Form, SourcesKept, D
  <2>2. \A c : DOMAIN GlobalGie(c) = DOMAIN c /\ DOMAIN ParsedGie(c, g) = DOMAIN c
    BY Zenon DEF GlobalGie, ParsedGie
  <2>. QED
    BY Zenon, <1>2, <1>5, <2>1, <2>2 DEF ParsePrimaryGie, Outcome, Fail
<1>6. CASE ParseStreammux(g)
  <2>1. ASSUME NEW x, "batch" \in DOMAIN x
        PROVE  Beside(cfg, [cfg EXCEPT !.mux = x])
    <3> DEFINE d == [cfg EXCEPT !.mux = x]
    <3>1. /\ DOMAIN d = D /\ SourcesKept(cfg, d) /\ d.primary = cfg.primary
          /\ "batch" \in DOMAIN d.mux
      BY <1>0, <2>1 DEF SourcesKept
    <3>. QED
      BY Zenon, <1>0, <3>1 DEF Beside, Form, SourcesKept, D
  <2>. QED
    BY <1>2, <1>6, <2>1 DEF ParseStreammux, Outcome, Fail
<1>7. CASE ParseTests(g)
  BY Zenon, <1>2, <1>4, <1>7 DEF ParseTests, Outcome, Fail
<1>8. CASE ParseMsgconv(g)
  BY <1>2, <1>3, <1>4, <1>8 DEF ParseMsgconv, Outcome, Fail
<1>9. CASE ParseImageSave(g)
  BY <1>2, <1>3, <1>4, <1>9 DEF ParseImageSave, Outcome, Fail
<1>10. ASSUME NEW kind
       PROVE  /\ Beside(cfg, WithPart(g, kind))
              /\ WithPart(g, kind).mux = cfg.mux /\ WithPart(g, kind).primary = cfg.primary
  BY <1>3, <1>4 DEF WithPart
<1>11. CASE ParseOsd(g) \/ ParseTracker(g) \/ ParseDsExample(g)
  BY Zenon, <1>2, <1>10, <1>11 DEF ParseOsd, ParseTracker, ParseDsExample, ParsePart,
     Outcome, Fail
<1>12. CASE ParseTiledDisplay(g)
  BY <1>2, <1>3, <1>10, <1>12 DEF ParseTiledDisplay, Outcome, Fail
<1>13. CASE ParsePreprocess(g)
  BY <1>2, <1>3, <1>4, <1>13 DEF ParsePreprocess, Outcome, Fail
<1>14. CASE ParseSecondaryGie(g)
  BY <1>0, <1>1, <1>2, <1>14 DEF ParseSecondaryGie, Outcome, Fail, SourcesKept
<1>15. CASE ParseSecondaryPreprocess(g)
  BY <1>0, <1>1, <1>2, <1>15 DEF ParseSecondaryPreprocess, Outcome, Fail, SourcesKept
<1>16. CASE ParseSink(g)
  BY <1>0, <1>1, <1>2, <1>16 DEF ParseSink, Outcome, Fail, SourcesKept
<1>. QED
  BY Zenon, <1>5, <1>6, <1>7, <1>8, <1>9, <1>11, <1>12, <1>13, <1>14, <1>15, <1>16

(* A group of a listed source changes at most the source of its number:    *)
(* not its type and uri when it is disabled.                               *)
ListedSlots(g, c, d) ==
  /\ d.nsrc = c.nsrc /\ d.total = c.total /\ d.uris = c.uris /\ d.listed = c.listed
  /\ \A i \in Slots(MaxSources) :
       /\ d.src[i].type = c.src[i].type \/ d.src[i].type # SourceMultiple
       /\ ~(g.kind = "source" /\ g.index = i /\ ~Off(g)) =>
            d.src[i].type = c.src[i].type /\ d.src[i].uri = c.src[i].uri

LEMMA SourceGroup ==
  ASSUME Form(cfg), NEW g, ParseSourceGroup(g)
  PROVE  \/ stage' = "failed"
         \/ Form(cfg') /\ (cfg.listed = TRUE => ListedSlots(g, cfg, cfg'))
<1> DEFINE slot == SourceSlot(g)
           gpu == GlobalOr(cfg.src[slot].gpu)
           c == [cfg.src[slot] EXCEPT !.gpu = gpu]
           s == ParsedSource(c, g)
           n == IF s.enable # 0 /\ ~cfg.listed THEN cfg.nsrc + 1 ELSE cfg.nsrc
<1>1. /\ DOMAIN cfg = DOMAIN EmptyConfig /\ DOMAIN cfg.src = Slots(MaxSources)
      /\ \A i \in Slots(MaxSources) : DOMAIN cfg.src[i] = DOMAIN NoSource
      /\ "batch" \in DOMAIN cfg.mux /\ "batch" \in DOMAIN cfg.primary
      /\ {"src", "nsrc", "total", "uris", "listed", "mux", "primary"} \subseteq DOMAIN EmptyConfig
      /\ {"type", "uri", "gpu"} \subseteq DOMAIN NoSource
  BY FieldsOfConfig DEF Form, NoSource
<1>2. SUFFICES ASSUME ~(stage' = "failed")
               PROVE  Form(cfg') /\ (cfg.listed = TRUE => ListedSlots(g, cfg, cfg'))
  BY Zenon
<1>3. /\ ~(cfg.listed /\ s.type = SourceMultiple)
      /\ cfg' = [cfg EXCEPT !.src[slot] = s,
                            !.nsrc = IF s.enable # 0 /\ ~cfg.listed THEN @ + 1 ELSE @]
  BY Zenon, <1>2 DEF ParseSourceGroup, Fail
<1>4. /\ DOMAIN cfg' = DOMAIN EmptyConfig
      /\ cfg'.src = [cfg.src EXCEPT ![slot] = s] /\ cfg'.mux = cfg.mux
      /\ cfg'.primary = cfg.primary /\ cfg'.total = cfg.total /\ cfg'.uris = cfg.uris
      /\ cfg'.listed = cfg.listed /\ cfg'.nsrc = n
  <2> HIDE DEF s, slot
  <2>. QED
    BY <1>1, <1>3
<1>5. DOMAIN s = DOMAIN cfg.src[slot]
  BY Zenon DEF ParsedSource, SourceKeys
<1>6. Off(g) /\ slot \in Slots(MaxSources) =>
        s.type = cfg.src[slot].type /\ s.uri = cfg.src[slot].uri
  <2> SUFFICES ASSUME Off(g), slot \in Slots(MaxSources)
               PROVE  s.type = cfg.src[slot].type /\ s.uri = cfg.src[slot].uri
    OBVIOUS
  <2>1. s = c
    BY Zenon DEF ParsedSource
  <2>2. DOMAIN cfg.src[slot] = DOMAIN NoSource
    BY Zenon, <1>1
  <2> HIDE DEF gpu, slot
  <2>3. c.type = cfg.src[slot].type /\ c.uri = cfg.src[slot].uri
    BY <1>1, <2>2
  <2>. QED
    BY Zenon, <2>1, <2>3
<1> HIDE DEF s, slot
<1>7. \A i \in Slots(MaxSources) : cfg'.src[i] = IF i = slot THEN s ELSE cfg.src[i]
  BY Zenon, <1>1, <1>4
<1>8. Form(cfg')
  <2>1. DOMAIN cfg'.src = Slots(MaxSources)
    BY Zenon, <1>1, <1>4
  <2>2. \A i \in Slots(MaxSources) : DOMAIN cfg'.src[i] = DOMAIN NoSource
    BY Zenon, <1>1, <1>5, <1>7
  <2>. QED
    BY Zenon, <1>1, <1>4, <2>1, <2>2 DEF Form
<1>9. ASSUME cfg.listed = TRUE PROVE ListedSlots(g, cfg, cfg')
  <2>1. slot = g.index /\ s.type # SourceMultiple /\ n = cfg.nsrc /\ g.kind = "source"
    BY Zenon, <1>3, <1>9 DEF slot, SourceSlot, ParseSourceGroup, Reading
  <2>. QED
    BY Zenon, <1>4, <1>6, <1>7, <2>1 DEF ListedSlots
<1>. QED
  BY Zenon, <1>8, <1>9

(* What the list promises of the sources is kept by every group read.      *)
LEMMA ListedSlotsKeep ==
  ASSUME NEW r, NEW r2, NEW g, NEW c, NEW d, ListKept(r, c), ListedSlots(g, c, d),
         r2.list = r.list,
         \A i : OwnGroup(r, i) \/ (g.kind = "source" /\ g.index = i /\ ~Off(g))
                 => OwnGroup(r2, i)
  PROVE  /\ ListKept(r2, d)
         /\ NoneMultiple(c) => NoneMultiple(d)
         /\ AsListed(r, c) => AsListed(r2, d)
<1>1. UrisIn(r2) = UrisIn(r)
  BY Zenon DEF UrisIn
<1>2. /\ c.listed = TRUE /\ c.uris = UrisIn(r) /\ c.nsrc = c.total /\ c.total \in 0 .. MaxSources
      /\ Len(c.uris) \in Nat /\ (c.uris # <<>> => Len(c.uris) = c.total)
      /\ (c.uris = <<>> => Len(c.uris) = 0)
  BY Zenon DEF ListKept
<1>3. /\ d.nsrc = c.nsrc /\ d.total = c.total /\ d.uris = c.uris /\ d.listed = c.listed
      /\ \A i \in Slots(MaxSources) :
           /\ d.src[i].type = c.src[i].type \/ d.src[i].type # SourceMultiple
           /\ ~(g.kind = "source" /\ g.index = i /\ ~Off(g)) =>
                d.src[i].type = c.src[i].type /\ d.src[i].uri = c.src[i].uri
  BY Zenon DEF ListedSlots
<1>4. ListKept(r2, d)
  BY Zenon, <1>1, <1>2, <1>3 DEF ListKept
<1>5. MaxSources \in Nat
  BY ConfigAssumption
<1>6. NoneMultiple(c) => NoneMultiple(d)
  <2>1. \A i \in Slots(c.nsrc) : i \in Slots(MaxSources)
    BY <1>2, <1>5 DEF Slots
  <2>. QED
    BY Zenon, <1>3, <2>1 DEF NoneMultiple
<1>7. ASSUME AsListed(r, c) PROVE AsListed(r2, d)
  <2> SUFFICES ASSUME NEW i \in 1 .. Len(UrisIn(r)), ~OwnGroup(r2, i - 1)
               PROVE  PlaysItsUri(r2, d, i)
    BY Zenon, <1>1 DEF AsListed
  <2>1. i - 1 \in Slots(MaxSources)
    <3>1. i \in 1 .. Len(c.uris)
      BY Zenon, <1>2
    <3>2. i \in 1 .. MaxSources
      BY <1>2, <1>5, <3>1
    <3>. QED
      BY <1>5, <3>2 DEF Slots
  <2>2. PlaysItsUri(r, c, i)
    BY Zenon, <1>7 DEF AsListed
  <2>3. d.src[i - 1].type = c.src[i - 1].type /\ d.src[i - 1].uri = c.src[i - 1].uri
    BY Zenon, <1>3, <2>1
  <2>. QED
    BY Zenon, <1>1, <2>2, <2>3 DEF PlaysItsUri
<1>. QED
  BY Zenon, <1>4, <1>6, <1>7

LEMMA ListOver ==
  ASSUME stage' \in {"failed", "done"}
  PROVE  AtStage'
<1>1. stage' \notin {"app", "list", "attr", "groups", "expand"}
  OBVIOUS
<1>. QED
  BY <1>1 DEF AtStage

LEMMA ListGroups == FilesType /\ AtStage /\ ParseGroup => AtStage'
<1> SUFFICES ASSUME FilesType, AtStage, ParseGroup PROVE AtStage'
  OBVIOUS
<1>1. PICK g \in family.groups :
        /\ ReadStep(g)
        /\ \/ ParseSourceGroup(g)
           \/ \/ ParsePrimaryGie(g) \/ ParseSecondaryGie(g) \/ ParsePreprocess(g)
              \/ ParseSecondaryPreprocess(g) \/ ParseSink(g) \/ ParseStreammux(g)
              \/ ParseOsd(g) \/ ParseTracker(g) \/ ParseTiledDisplay(g)
              \/ ParseDsExample(g) \/ ParseImageSave(g) \/ ParseMsgconv(g)
              \/ ParseTests(g)
  BY Zenon, GroupSteps DEF ParseGroup
<1>2. CASE stage' = "failed"
  BY <1>2, ListOver
<1>3. CASE ~(stage' = "failed")
  <2>1. /\ stage = "groups" /\ stage' = "groups"
        /\ read' = [read EXCEPT !.groups = Append(@, g)]
        /\ read.groups \in Seq(Groups) /\ DOMAIN read = {"app", "list", "attr", "groups"}
    BY Zenon, <1>1, <1>3 DEF ReadStep, FilesType
  <2>2. /\ read'.list = read.list /\ read'.attr = read.attr
        /\ read'.groups = Append(read.groups, g)
    BY <2>1
  <2>3. /\ Form(cfg) /\ (read.list # <<>> => ListKept(read, cfg))
        /\ (read.list # <<>> /\ Single(read) => NoneMultiple(cfg) /\ AsListed(read, cfg))
    BY <2>1 DEF AtStage
  <2>4. Form(cfg') /\ (cfg.listed = TRUE => ListedSlots(g, cfg, cfg'))
    <3>1. CASE ParseSourceGroup(g)
      BY Zenon, <1>3, <2>3, <3>1, SourceGroup
    <3>2. ASSUME g.kind # "source", Beside(cfg, cfg')
          PROVE  Form(cfg') /\ (cfg.listed = TRUE => ListedSlots(g, cfg, cfg'))
      BY Zenon, <3>2 DEF Beside, SourcesKept, ListedSlots
    <3>. QED
      BY Zenon, <1>1, <1>3, <2>3, <3>1, <3>2, OtherGroups
  <2>5. \A i : OwnGroup(read, i) \/ (g.kind = "source" /\ g.index = i /\ ~Off(g))
                 => OwnGroup(read', i)
    <3>1. /\ Len(Append(read.groups, g)) = Len(read.groups) + 1 /\ Len(read.groups) \in Nat
          /\ Append(read.groups, g)[Len(read.groups) + 1] = g
          /\ \A k \in 1 .. Len(read.groups) : Append(read.groups, g)[k] = read.groups[k]
      BY <2>1, AppendFacts
    <3>2. /\ \A k \in 1 .. Len(read.groups) : k \in 1 .. Len(read.groups) + 1
          /\ Len(read.groups) + 1 \in 1 .. Len(read.groups) + 1
      BY <3>1
    <3>. QED
      BY Zenon, <2>2, <3>1, <3>2 DEF OwnGroup
  <2>6. ASSUME read'.list # <<>>
        PROVE  /\ ListKept(read', cfg')
               /\ Single(read') => NoneMultiple(cfg') /\ AsListed(read', cfg')
    <3>1. ListKept(read, cfg) /\ cfg.listed = TRUE
      BY Zenon, <2>2, <2>3, <2>6 DEF ListKept
    <3>2. /\ ListKept(read', cfg')
          /\ NoneMultiple(cfg) => NoneMultiple(cfg')
          /\ AsListed(read, cfg) => AsListed(read', cfg')
      BY Zenon, <2>2, <2>4, <2>5, <3>1, ListedSlotsKeep
    <3>3. Single(read') <=> Single(read)
      BY Zenon, <2>2 DEF Single, UrisIn
    <3>. QED
      BY Zenon, <2>2, <2>3, <2>6, <3>2, <3>3
  <2>. QED
    BY <2>1, <2>4, <2>6 DEF AtStage
<1>. QED
  BY Zenon, <1>2, <1>3

(* [application] and the list itself.                                      *)
LEMMA ListApp ==
  ASSUME FilesType, AtStage, NEW g, ParseApp(g)
  PROVE  AtStage'
<1>1. CASE stage' = "failed"
  BY <1>1, ListOver
<1>2. CASE ~(stage' = "failed")
  <2>1. /\ stage = "app" /\ stage' = "list" /\ read' = [read EXCEPT !.app = <<g>>]
        /\ cfg' = [cfg EXCEPT !.global = Get(g, "gpu", -1)]
    BY Zenon, <1>2 DEF ParseApp, Fail
  <2>2. cfg = EmptyConfig /\ read.list = <<>>
    BY <2>1 DEF AtStage
  <2>3. DOMAIN read = {"app", "list", "attr", "groups"}
    BY Zenon DEF FilesType
  <2>4. read'.list = <<>>
    BY <2>1, <2>2, <2>3
  <2>5. {"global", "src", "mux", "primary"} \subseteq DOMAIN EmptyConfig
    BY FieldsOfConfig
  <2>6. /\ DOMAIN cfg' = DOMAIN EmptyConfig /\ cfg'.src = cfg.src
        /\ cfg'.mux = cfg.mux /\ cfg'.primary = cfg.primary
    BY <2>1, <2>2, <2>5
  <2>7. Form(cfg')
    BY Zenon, <2>2, <2>6, EmptyForm DEF Form
  <2>. QED
    BY <2>1, <2>4, <2>7 DEF AtStage
<1>. QED
  BY Zenon, <1>1, <1>2

LEMMA ListTotals ==
  ASSUME NEW f \in Families, NEW l \in f.lists,
         ~Unreadable(l), ~ListTooLong(l), ~ListMismatch(l)
  PROVE  LET uris == Get(l, "uri-list", <<>>) IN
         /\ ListTotal(l) \in 0 .. MaxSources /\ Len(uris) \in Nat
         /\ uris # <<>> => Len(uris) = ListTotal(l)
         /\ uris = <<>> => Len(uris) = 0
<1> DEFINE uris == Get(l, "uri-list", <<>>)
<1>1. Get(l, "num-source-bins", 0) \in 0 .. MaxSources
  BY Zenon, ListsAssumption
<1>2. uris \in Seq({uris[i] : i \in 1 .. Len(uris)})
  BY Zenon, ListsAssumption
<1>3. "uri-list" \notin DOMAIN l.keys => uris = <<>>
  BY Zenon DEF Get
<1>4. "uri-list" \in DOMAIN l.keys => uris = l.keys["uri-list"]
  BY Zenon DEF Get
<1>5. ~(Len(uris) > MaxSources)
  BY Zenon DEF ListTooLong
<1>6. /\ "num-source-bins" \in DOMAIN l.keys =>
            ListTotal(l) = l.keys["num-source-bins"]
              /\ Get(l, "num-source-bins", 0) = l.keys["num-source-bins"]
      /\ "num-source-bins" \notin DOMAIN l.keys => ListTotal(l) = Len(uris)
  BY Zenon DEF ListTotal, Get
<1>7. /\ "uri-list" \in DOMAIN l.keys /\ "num-source-bins" \in DOMAIN l.keys =>
            Len(l.keys["uri-list"]) = l.keys["num-source-bins"]
  BY DEF ListMismatch
<1> HIDE DEF uris
<1>8. Len(uris) \in Nat /\ (uris = <<>> => Len(uris) = 0)
  BY <1>2
<1>9. ListTotal(l) \in 0 .. MaxSources /\ (uris # <<>> => Len(uris) = ListTotal(l))
  BY <1>1, <1>3, <1>4, <1>5, <1>6, <1>7, <1>8, ConfigAssumption
<1>. QED
  BY Zenon, <1>8, <1>9 DEF uris

LEMMA ListList ==
  ASSUME FilesType, AtStage, NEW l \in family.lists, ParseSourceList(l)
  PROVE  AtStage'
<1>1. CASE stage' = "failed"
  BY <1>1, ListOver
<1>2. CASE ~(stage' = "failed")
  <2>1. /\ stage = "list" /\ stage' = "attr" /\ read' = [read EXCEPT !.list = <<l>>]
        /\ ~Unreadable(l) /\ ~ListTooLong(l) /\ ~ListMismatch(l)
        /\ cfg' = [cfg EXCEPT !.listed = TRUE, !.total = ListTotal(l),
                              !.nsrc = ListTotal(l),
                              !.uris = Get(l, "uri-list", <<>>),
                              !.multi = Get(l, "use-nvmultiurisrcbin", 0),
                              !.maxBatch = Get(l, "max-batch-size", 0),
                              !.sgieBatch = Get(l, "sgie-batch-size", 0)]
    BY Zenon, <1>2 DEF ParseSourceList, Fail
  <2>2. Form(cfg)
    BY <2>1 DEF AtStage
  <2>3. DOMAIN read = {"app", "list", "attr", "groups"} /\ family \in Families
    BY Zenon DEF FilesType
  <2>4. read'.list = <<l>> /\ UrisIn(read') = Get(l, "uri-list", <<>>)
    BY <2>1, <2>3 DEF UrisIn
  <2> DEFINE uris == Get(l, "uri-list", <<>>)
             n == ListTotal(l)
  <2>5. /\ n \in 0 .. MaxSources /\ Len(uris) \in Nat
        /\ uris # <<>> => Len(uris) = n
        /\ uris = <<>> => Len(uris) = 0
    BY Zenon, <2>1, <2>3, ListTotals
  <2>6. /\ {"listed", "total", "nsrc", "uris", "multi", "maxBatch", "sgieBatch", "src", "mux",
            "primary"} \subseteq DOMAIN EmptyConfig
        /\ DOMAIN cfg = DOMAIN EmptyConfig
    BY FieldsOfConfig, <2>2 DEF Form
  <2> HIDE DEF uris, n
  <2>7. /\ DOMAIN cfg' = DOMAIN EmptyConfig /\ cfg'.src = cfg.src
        /\ cfg'.mux = cfg.mux /\ cfg'.primary = cfg.primary
        /\ cfg'.listed = TRUE /\ cfg'.total = n /\ cfg'.nsrc = n /\ cfg'.uris = uris
    BY <2>1, <2>6 DEF uris, n
  <2>8. Form(cfg')
    BY Zenon, <2>2, <2>7 DEF Form
  <2>9. ListKept(read', cfg')
    BY Zenon, <2>4, <2>5, <2>7 DEF ListKept, uris
  <2>. QED
    BY <2>1, <2>8, <2>9 DEF AtStage
<1>. QED
  BY Zenon, <1>1, <1>2

LEMMA ListNone ==
  ASSUME FilesType, AtStage, NoSourceList \/ NoAttrAll
  PROVE  AtStage'
<1>1. CASE stage' = "failed"
  BY <1>1, ListOver
<1>2. CASE NoSourceList
  <2>1. stage = "list" /\ stage' = "attr" /\ cfg' = cfg /\ read' = read
    BY Zenon, <1>2 DEF NoSourceList
  <2>. QED
    BY <2>1 DEF AtStage
<1>3. CASE NoAttrAll /\ ~(stage' = "failed")
  <2>1. /\ stage = "attr" /\ stage' = "groups" /\ cfg' = cfg /\ read' = read
        /\ ~cfg.listed
    BY Zenon, <1>3 DEF NoAttrAll, Fail
  <2>2. Form(cfg) /\ (read.list # <<>> => ListKept(read, cfg))
    BY <2>1 DEF AtStage
  <2>3. read.list = <<>>
    BY Zenon, <2>1, <2>2 DEF ListKept
  <2>. QED
    BY <2>1, <2>2, <2>3 DEF AtStage
<1>. QED
  BY Zenon, <1>1, <1>2, <1>3

(* Each listed source gets the common keys, its number and its uri.        *)
LEMMA ListedSourceSays ==
  ASSUME NEW attr, DOMAIN attr = DOMAIN NoSource, NEW uris, NEW i \in Int,
         uris # <<>> => uris[i + 1].scheme \in DOMAIN Schemes,
         uris # <<>> \/ attr.type # SourceMultiple
  PROVE  LET s == ListedSource(attr, uris, i)
             u == uris[i + 1]
         IN /\ s.type # SourceMultiple
            /\ uris # <<>> =>
                 /\ s.type = Schemes[u.scheme]
                 /\ u.scheme \in {"file", "rtsp"} => s.uri = <<u.name>>
<1> DEFINE s == ListedSource(attr, uris, i)
           u == uris[i + 1]
<1>1. {"id", "type", "uri", "device"} \subseteq DOMAIN attr
  BY DEF NoSource
<1>2. CASE uris = <<>>
  <2>1. s = [attr EXCEPT !.id = i]
    BY Zenon, <1>2 DEF ListedSource
  <2> HIDE DEF s
  <2>2. s.type = attr.type
    BY <1>1, <2>1
  <2>. QED
    BY <1>2, <2>2 DEF s
<1>3. CASE uris # <<>>
  <2>1. Schemes[u.scheme] # SourceMultiple
    <3>1. u.scheme \in DOMAIN Schemes
      BY Zenon, <1>3
    <3> HIDE DEF u
    <3>. QED
      BY <3>1 DEF Schemes, SourceMultiple
  <2>2. s = IF u.scheme \in {"file", "rtsp"}
            THEN [[attr EXCEPT !.id = i] EXCEPT !.type = Schemes[u.scheme], !.uri = <<u.name>>]
            ELSE [[attr EXCEPT !.id = i] EXCEPT !.type = Schemes[u.scheme], !.device = u.name]
    BY Zenon, <1>3 DEF ListedSource
  <2> HIDE DEF s, u
  <2>3. /\ s.type = Schemes[u.scheme]
        /\ u.scheme \in {"file", "rtsp"} => s.uri = <<u.name>>
    BY <1>1, <2>2
  <2>. QED
    BY Zenon, <1>3, <2>1, <2>3 DEF s, u
<1>. QED
  BY Zenon, <1>2, <1>3

LEMMA ListAttr ==
  ASSUME FilesType, AtStage, NEW g, ParseAttrAll(g)
  PROVE  AtStage'
<1>1. CASE stage' = "failed"
  BY <1>1, ListOver
<1>2. CASE ~(stage' = "failed")
  <2> DEFINE attr == SourceKeys([NoSource EXCEPT !.gpu = GlobalOr(0)], g)
             src == [i \in Slots(MaxSources) |->
                       IF i < cfg.total THEN ListedSource(attr, cfg.uris, i) ELSE cfg.src[i]]
  <2>1. /\ stage = "attr" /\ stage' = "groups" /\ read' = [read EXCEPT !.attr = <<g>>]
        /\ \A i \in 1 .. Len(cfg.uris) : cfg.uris[i].scheme \in DOMAIN Schemes
        /\ cfg' = [cfg EXCEPT
             !.attrAll = attr,
             !.src = [i \in Slots(MaxSources) |->
                        IF i < cfg.total THEN ListedSource(attr, cfg.uris, i) ELSE @[i]]]
    BY Zenon, <1>2 DEF ParseAttrAll, Fail
  <2>2. Form(cfg) /\ (read.list # <<>> => ListKept(read, cfg))
    BY <2>1 DEF AtStage
  <2>3. DOMAIN read = {"app", "list", "attr", "groups"}
    BY Zenon DEF FilesType
  <2>4. read'.list = read.list /\ read'.attr = <<g>> /\ read'.groups = read.groups
    BY <2>1, <2>3
  <2>5. DOMAIN attr = DOMAIN NoSource /\ attr.type = Get(g, "type", 0)
    <3> DEFINE c == [NoSource EXCEPT !.gpu = GlobalOr(0)]
    <3>1. DOMAIN c = DOMAIN NoSource /\ c.type = 0
      <4> DEFINE gpu == GlobalOr(0)
      <4> HIDE DEF gpu
      <4>1. /\ DOMAIN [NoSource EXCEPT !.gpu = gpu] = DOMAIN NoSource
            /\ [NoSource EXCEPT !.gpu = gpu].type = 0
        BY DEF NoSource
      <4>. QED
        BY Zenon, <4>1 DEF gpu
    <3>2. "type" \in DOMAIN c /\ "type" \in DOMAIN NoSource
      BY <3>1 DEF NoSource
    <3> HIDE DEF c
    <3>3. DOMAIN SourceKeys(c, g) = DOMAIN c
      BY Zenon DEF SourceKeys
    <3>4. SourceKeys(c, g).type = Get(g, "type", c.type)
      BY <3>2 DEF SourceKeys
    <3>. QED
      BY Zenon, <3>1, <3>3, <3>4 DEF c
  <2> HIDE DEF attr
  <2>6. /\ {"attrAll", "src", "listed", "total", "nsrc", "uris", "mux", "primary"}
             \subseteq DOMAIN EmptyConfig
        /\ DOMAIN cfg = DOMAIN EmptyConfig
    BY FieldsOfConfig, <2>2 DEF Form
  <2>7. /\ DOMAIN cfg' = DOMAIN EmptyConfig /\ cfg'.src = src
        /\ cfg'.mux = cfg.mux /\ cfg'.primary = cfg.primary
        /\ cfg'.listed = cfg.listed /\ cfg'.total = cfg.total /\ cfg'.nsrc = cfg.nsrc
        /\ cfg'.uris = cfg.uris
    BY <2>1, <2>6
  <2>8. DOMAIN src = Slots(MaxSources)
        /\ \A i \in Slots(MaxSources) :
             src[i] = IF i < cfg.total THEN ListedSource(attr, cfg.uris, i) ELSE cfg.src[i]
    BY Zenon
  <2> HIDE DEF src
  <2>9. Form(cfg')
    <3>1. \A i \in Slots(MaxSources) : DOMAIN src[i] = DOMAIN NoSource
      <4>1. \A i : DOMAIN ListedSource(attr, cfg.uris, i) = DOMAIN attr
        BY Zenon DEF ListedSource
      <4>. QED
        BY Zenon, <2>2, <2>5, <2>8, <4>1 DEF Form
    <3>. QED
      BY Zenon, <2>2, <2>7, <2>8, <3>1 DEF Form
  <2>10. ASSUME read'.list # <<>>
         PROVE  /\ ListKept(read', cfg')
                /\ Single(read') => NoneMultiple(cfg') /\ AsListed(read', cfg')
    <3>1. ListKept(read, cfg) /\ UrisIn(read') = UrisIn(read)
      BY Zenon, <2>2, <2>4, <2>10 DEF UrisIn
    <3>2. ListKept(read', cfg')
      BY Zenon, <2>7, <3>1 DEF ListKept
    <3>3. ASSUME Single(read')
          PROVE  NoneMultiple(cfg') /\ AsListed(read', cfg')
      <4> DEFINE n == cfg.total
                 uris == cfg.uris
      <4>1. /\ cfg.nsrc = n /\ n \in 0 .. MaxSources /\ uris = UrisIn(read')
            /\ Len(uris) \in Nat /\ (uris # <<>> => Len(uris) = n)
            /\ (uris = <<>> => Len(uris) = 0)
        BY Zenon, <3>1 DEF ListKept
      <4>2. uris # <<>> \/ attr.type # SourceMultiple
        <5>1. read'.attr[1] = g
          BY <2>4
        <5>. QED
          BY Zenon, <2>5, <3>3, <4>1, <5>1 DEF Single
      <4>3. ASSUME NEW i \in Int, 0 <= i, i < n
            PROVE  /\ i \in Slots(MaxSources) /\ cfg'.src[i] = ListedSource(attr, uris, i)
                   /\ cfg'.src[i].type # SourceMultiple
                   /\ uris # <<>> =>
                        /\ cfg'.src[i].type = Schemes[uris[i + 1].scheme]
                        /\ uris[i + 1].scheme \in {"file", "rtsp"} =>
                             cfg'.src[i].uri = <<uris[i + 1].name>>
        <5>1. i \in Slots(MaxSources)
          BY <4>1, <4>3, ConfigAssumption DEF Slots
        <5>2. cfg'.src[i] = ListedSource(attr, uris, i)
          BY Zenon, <2>7, <2>8, <4>3, <5>1
        <5>3. uris # <<>> => i + 1 \in 1 .. Len(uris)
          BY <4>1, <4>3
        <5>4. uris # <<>> => uris[i + 1].scheme \in DOMAIN Schemes
          BY Zenon, <2>1, <5>3
        <5>5. LET s == ListedSource(attr, uris, i) IN
              /\ s.type # SourceMultiple
              /\ uris # <<>> =>
                   /\ s.type = Schemes[uris[i + 1].scheme]
                   /\ uris[i + 1].scheme \in {"file", "rtsp"} =>
                        s.uri = <<uris[i + 1].name>>
          <6> HIDE DEF uris
          <6>. QED
            BY ONLY <2>5, <4>2, <4>3, <5>4, ListedSourceSays
        <5>. QED
          BY Zenon, <5>1, <5>2, <5>5
      <4> HIDE DEF n, uris
      <4>4. NoneMultiple(cfg')
        <5>1. cfg'.nsrc = n /\ n \in Nat
          BY <2>7, <4>1
        <5>2. \A i \in Slots(n) : i \in Int /\ 0 <= i /\ i < n
          BY <5>1 DEF Slots
        <5>. QED
          BY Zenon, <4>3, <5>1, <5>2 DEF NoneMultiple
      <4>5. AsListed(read', cfg')
        <5> SUFFICES ASSUME NEW i \in 1 .. Len(uris) PROVE PlaysItsUri(read', cfg', i)
          BY Zenon, <4>1 DEF AsListed
        <5>1. uris # <<>> /\ i - 1 \in Int /\ 0 <= i - 1 /\ i - 1 < n /\ i - 1 + 1 = i
          BY <4>1
        <5>. QED
          BY Zenon, <4>1, <4>3, <5>1 DEF PlaysItsUri
      <4>. QED
        BY Zenon, <4>4, <4>5
    <3>. QED
      BY Zenon, <3>2, <3>3
  <2>. QED
    BY <2>1, <2>9, <2>10 DEF AtStage
<1>. QED
  BY Zenon, <1>1, <1>2

(* The rest of the file: batch sizes, expansion, acceptance.               *)
LEMMA ListEnd ==
  ASSUME FilesType, AtStage, EndOfGroups \/ ExpandSource
  PROVE  AtStage'
<1>1. CASE stage' = "failed"
  BY <1>1, ListOver
<1>2. CASE EndOfGroups /\ ~(stage' = "failed")
  <2>1. /\ stage = "groups" /\ stage' = "expand" /\ next' = 0 /\ cfg' = Batched
        /\ read' = read
    BY Zenon, <1>2 DEF EndOfGroups, Fail
  <2>2. /\ Form(cfg) /\ (read.list # <<>> => ListKept(read, cfg))
        /\ read.list # <<>> /\ Single(read) => NoneMultiple(cfg) /\ AsListed(read, cfg)
    BY <2>1 DEF AtStage
  <2>3. ASSUME read.list # <<>>
        PROVE  cfg'.src = cfg.src /\ cfg'.nsrc = cfg.nsrc /\ Filled(cfg')
    <3> DEFINE gie == [i \in Slots(MaxGies) |->
                         IF i < cfg.ngie /\ cfg.sgieBatch # 0
                         THEN [cfg.gie[i] EXCEPT !.batch = cfg.sgieBatch] ELSE cfg.gie[i]]
    <3>1. cfg.listed = TRUE
      BY Zenon, <2>2, <2>3 DEF ListKept
    <3>2. cfg' = [cfg EXCEPT !.mux.batch = cfg.nsrc, !.primary.batch = cfg.nsrc, !.gie = gie]
      <4>1. cfg' = [cfg EXCEPT
                      !.mux.batch = cfg.nsrc,
                      !.primary.batch = cfg.nsrc,
                      !.gie = [i \in Slots(MaxGies) |->
                                 IF i < cfg.ngie /\ cfg.sgieBatch # 0
                                 THEN [@[i] EXCEPT !.batch = cfg.sgieBatch] ELSE @[i]]]
        BY Zenon, <2>1, <3>1 DEF Batched
      <4>. QED
        BY <4>1
    <3>3. /\ "batch" \in DOMAIN cfg.mux /\ "batch" \in DOMAIN cfg.primary
          /\ {"mux", "primary", "gie", "src", "nsrc"} \subseteq DOMAIN cfg
      BY <2>2, FieldsOfConfig DEF Form
    <3> HIDE DEF gie
    <3>4. /\ cfg'.src = cfg.src /\ cfg'.nsrc = cfg.nsrc
          /\ cfg'.mux.batch = cfg.nsrc /\ cfg'.primary.batch = cfg.nsrc
      BY <3>2, <3>3
    <3>. QED
      BY Zenon, <3>4 DEF Filled
  <2>4. ASSUME read.list # <<>>, Single(read)
        PROVE  NoneMultiple(cfg') /\ AsListed(read', cfg') /\ Filled(cfg')
    <3>1. NoneMultiple(cfg) /\ AsListed(read, cfg)
      BY Zenon, <2>2, <2>4
    <3>2. cfg'.src = cfg.src /\ cfg'.nsrc = cfg.nsrc /\ Filled(cfg')
      BY Zenon, <2>3, <2>4
    <3>. QED
      BY Zenon, <2>1, <3>1, <3>2 DEF NoneMultiple, AsListed, PlaysItsUri
  <2>5. Single(read') <=> Single(read)
    BY Zenon, <2>1
  <2>. QED
    BY <2>1, <2>4, <2>5 DEF AtStage
<1>3. CASE ExpandSource /\ ~(stage' = "failed")
  <2>1. /\ stage = "expand" /\ stage' = "expand" /\ next < cfg.nsrc /\ next' = next + 1
        /\ read' = read /\ (cfg.src[next].type # SourceMultiple => cfg' = cfg)
    BY Zenon, <1>3 DEF ExpandSource, Fail
  <2>2. /\ next \in Nat
        /\ read.list # <<>> /\ Single(read) =>
             NoneMultiple(cfg) /\ AsListed(read, cfg) /\ Filled(cfg)
    BY <2>1 DEF AtStage
  <2>3. ASSUME read.list # <<>>, Single(read) PROVE cfg' = cfg
    <3>1. cfg.nsrc \in Nat
      BY Zenon, <2>2, <2>3 DEF NoneMultiple
    <3>2. next \in Slots(cfg.nsrc)
      BY <2>1, <2>2, <3>1 DEF Slots
    <3>. QED
      BY Zenon, <2>1, <2>2, <2>3, <3>2 DEF NoneMultiple
  <2>4. ASSUME read'.list # <<>>, Single(read')
        PROVE  NoneMultiple(cfg') /\ AsListed(read', cfg') /\ Filled(cfg')
    BY Zenon, <2>1, <2>2, <2>3, <2>4
  <2>5. next' \in Nat
    BY <2>1, <2>2
  <2>. QED
    BY <2>1, <2>4, <2>5 DEF AtStage
<1>. QED
  BY Zenon, <1>1, <1>2, <1>3

LEMMA ListAccept ==
  ASSUME FilesType, ListInv, AcceptFile
  PROVE  ListInv'
<1> DEFINE f == [read |-> read, cfg |-> cfg]
<1>1. f.read = read /\ f.cfg = cfg
  OBVIOUS
<1> HIDE DEF f
<1>2. /\ stage = "expand" /\ parsed' = Append(parsed, f)
      /\ \/ stage' = "app" /\ cfg' = EmptyConfig /\ read' = NothingRead
         \/ stage' = "done"
  BY Zenon DEF AcceptFile, f
<1>3. Obeys(f)
  <2>1. read.list # <<>> /\ Single(read) => AsListed(read, cfg) /\ Filled(cfg)
    BY <1>2 DEF ListInv, AtStage
  <2>. QED
    BY Zenon, <1>1, <2>1 DEF Obeys
<1>4. \A n \in 1 .. Len(parsed') : Obeys(parsed'[n])
  <2>1. PICK S : parsed \in Seq(S)
    BY Zenon DEF FilesType
  <2>2. /\ Len(Append(parsed, f)) = Len(parsed) + 1 /\ Len(parsed) \in Nat
        /\ Append(parsed, f)[Len(parsed) + 1] = f
        /\ \A n \in 1 .. Len(parsed) : Append(parsed, f)[n] = parsed[n]
    BY <2>1, AppendFacts
  <2>3. \A n : n \in 1 .. Len(parsed) + 1 <=> n \in 1 .. Len(parsed) \/ n = Len(parsed) + 1
    BY <2>2
  <2>. QED
    BY Zenon, <1>2, <1>3, <2>2, <2>3 DEF ListInv
<1>5. AtStage'
  <2>1. CASE stage' = "done"
    BY <2>1, ListOver
  <2>2. CASE stage' = "app" /\ cfg' = EmptyConfig /\ read' = NothingRead
    <3>1. NothingRead.list = <<>>
      BY DEF NothingRead
    <3>2. read'.list = <<>>
      BY Zenon, <2>2, <3>1
    <3>. QED
      BY <2>2, <3>2 DEF AtStage
  <2>. QED
    BY Zenon, <1>2, <2>1, <2>2
<1>. QED
  BY Zenon, <1>4, <1>5 DEF ListInv

LEMMA ListInit == BuildInit => ListInv
<1> SUFFICES ASSUME BuildInit PROVE ListInv
  OBVIOUS
<1>1. stage = "app" /\ cfg = EmptyConfig /\ read = NothingRead /\ parsed = <<>>
  BY Zenon DEF BuildInit, Init
<1>2. NothingRead.list = <<>>
  BY DEF NothingRead
<1>3. read.list = <<>>
  BY Zenon, <1>1, <1>2
<1>4. AtStage
  BY <1>1, <1>3 DEF AtStage
<1>5. 1 .. Len(parsed) = {}
  BY <1>1
<1>. QED
  BY Zenon, <1>4, <1>5 DEF ListInv

LEMMA ListNext ==
  BuildInv /\ FilesType /\ ListInv /\ [BuildNext]_buildVars => ListInv'
<1> SUFFICES ASSUME BuildInv, FilesType, ListInv, [BuildNext]_buildVars PROVE ListInv'
  OBVIOUS
<1>1. AtStage /\ \A n \in 1 .. Len(parsed) : Obeys(parsed[n])
  BY Zenon DEF ListInv
<1>2. CASE AcceptFile
  BY Zenon, <1>2, ListAccept
<1>3. CASE ~AcceptFile
  <2>1. parsed' = parsed
    BY Zenon, <1>3, BuildSteps DEF QuietStep, ReadStep
  <2>2. AtStage'
    <3>1. CASE Parse
      <4>1. ASSUME NEW g, ParseApp(g) PROVE AtStage'
        BY Zenon, <1>1, <4>1, ListApp
      <4>2. ASSUME NEW l \in family.lists, ParseSourceList(l) PROVE AtStage'
        BY Zenon, <1>1, <4>2, ListList
      <4>3. ASSUME NEW g, ParseAttrAll(g) PROVE AtStage'
        BY Zenon, <1>1, <4>3, ListAttr
      <4>. QED
        BY Zenon, <1>1, <1>3, <3>1, <4>1, <4>2, <4>3, ListNone, ListGroups, ListEnd
           DEF Parse, Next
    <3>2. CASE stage = "done" /\ stage' = stage
      BY Zenon, <3>2, ListOver
    <3>3. CASE UNCHANGED <<stage, cfg, read, next>>
      BY Zenon, <1>1, <3>3 DEF AtStage
    <3>4. step # "idle" => stage = "done"
      BY Zenon DEF BuildInv, Where
    <3>5. CASE \/ CreatePipeline \/ ElementFails \/ BuildSources \/ DemuxDone
               \/ BuildExample \/ BuildTee \/ LinkBroker \/ LinkSources
               \/ DestroyPipeline
      BY Zenon, <3>3, <3>5 DEF CreatePipeline, ElementFails, BuildSources, DemuxDone,
         BuildExample, BuildTee, LinkBroker, LinkSources, DestroyPipeline, vars
    <3>6. CASE BuildMultiSource \/ BuildTiled \/ BuildDemuxed \/ BuildCommon
      <4>1. step # "idle" /\ stage' = stage
        BY Zenon, <3>6 DEF BuildMultiSource, BuildTiled, BuildDemuxed, BuildCommon, vars
      <4>. QED
        BY Zenon, <3>2, <3>4, <4>1
    <3>7. CASE UNCHANGED buildVars
      BY Zenon, <3>3, <3>7 DEF buildVars, vars
    <3>. QED
      BY Zenon, <3>1, <3>5, <3>6, <3>7 DEF BuildNext
  <2>. QED
    BY Zenon, <1>1, <2>1, <2>2 DEF ListInv
<1>. QED
  BY Zenon, <1>2, <1>3

(* With a source list whose sources are single uris, the muxer and the     *)
(* primary engine of every accepted file get the number of sources as      *)
(* batch size, and source i plays the i-th uri unless its own group says   *)
(* otherwise (parse_source_list, set_source_all_configs, parse_source and  *)
(* the end of parse_config_file).                                          *)
THEOREM ListFillsBatch == BuildSpec => []ListedSourcesFillBatch
<1>1. ListInv => ListedSourcesFillBatch
  BY Zenon, ListInvIsEnough DEF ListInv
<1>2. BuildInit => BuildInv /\ FilesType /\ NumbersInv /\ ListInv
  BY Zenon, BuildInvInit, NumbersInit, ListInit
<1>3. BuildInv /\ FilesType /\ NumbersInv /\ ListInv /\ [BuildNext]_buildVars
        => (BuildInv /\ FilesType /\ NumbersInv /\ ListInv)'
  BY Zenon, BuildInvNext, NumbersNext, ListNext
<1>. QED
  BY <1>1, <1>2, <1>3, PTL DEF BuildSpec

-----------------------------------------------------------------------------
(* Types.  The counts of a configuration and the arrays they count.        *)
Counts(c) ==
  /\ DOMAIN c = DOMAIN EmptyConfig
  /\ c.nsrc \in 0 .. MaxSources /\ DOMAIN c.src = Slots(MaxSources)
  /\ \A i \in Slots(MaxSources) :
       DOMAIN c.src[i] = DOMAIN NoSource /\ c.src[i].num \in Int
  /\ c.ngie \in 0 .. MaxGies /\ DOMAIN c.gie = Slots(MaxGies)
  /\ c.npre \in 0 .. MaxPreprocess /\ DOMAIN c.pre = Slots(MaxPreprocess)
  /\ c.nsink \in 0 .. MaxSinks /\ DOMAIN c.sink = Slots(MaxSinks)

(* d differs from c in the fields K at most.                               *)
Rest(c, d, K) == DOMAIN d = DOMAIN c /\ \A k \in DOMAIN c \ K : d[k] = c[k]

Counting == {"nsrc", "src", "ngie", "gie", "npre", "pre", "nsink", "sink"}

LEMMA EmptyCounts == Counts(EmptyConfig)
<1>1. /\ EmptyConfig.nsrc = 0 /\ EmptyConfig.src = [i \in Slots(MaxSources) |-> NoSource]
      /\ EmptyConfig.ngie = 0 /\ EmptyConfig.gie = [i \in Slots(MaxGies) |-> NoGie]
      /\ EmptyConfig.npre = 0
      /\ EmptyConfig.pre = [i \in Slots(MaxPreprocess) |-> NoPreprocess]
      /\ EmptyConfig.nsink = 0 /\ EmptyConfig.sink = [i \in Slots(MaxSinks) |-> NoSink]
  BY DEF EmptyConfig
<1>2. NoSource.num = 0 /\ 0 \in Int
  BY DEF NoSource
<1>3. /\ 0 \in 0 .. MaxSources /\ 0 \in 0 .. MaxGies /\ 0 \in 0 .. MaxPreprocess
      /\ 0 \in 0 .. MaxSinks
  BY ConfigAssumption
<1>. QED
  BY Zenon, <1>1, <1>2, <1>3 DEF Counts

LEMMA CountsRest ==
  ASSUME NEW c, NEW d, NEW K, Counts(c), Rest(c, d, K),
         \A k \in Counting : k \notin K
  PROVE  Counts(d)
<1>1. DOMAIN d = DOMAIN c /\ \A k \in Counting : d[k] = c[k]
  BY FieldsOfConfig DEF Counts, Rest, Counting
<1>2. /\ d.nsrc = c.nsrc /\ d.src = c.src /\ d.ngie = c.ngie /\ d.gie = c.gie
      /\ d.npre = c.npre /\ d.pre = c.pre /\ d.nsink = c.nsink /\ d.sink = c.sink
  BY <1>1 DEF Counting
<1>. QED
  BY Zenon, <1>1, <1>2 DEF Counts

(* What each kind of group writes.                                         *)
Others == {"primary", "preprocess", "mux", "part", "tiles", "msgconv"}

LEMMA OthersWrite ==
  ASSUME NEW g, DOMAIN cfg = DOMAIN EmptyConfig,
         \/ ParsePrimaryGie(g) \/ ParsePreprocess(g) \/ ParseStreammux(g)
         \/ ParseOsd(g) \/ ParseTracker(g) \/ ParseTiledDisplay(g)
         \/ ParseDsExample(g) \/ ParseImageSave(g) \/ ParseMsgconv(g)
         \/ ParseTests(g)
  PROVE  Rest(cfg, cfg', Others)
<1>1. ASSUME NEW k \in Others, NEW x, NEW c, Rest(cfg, c, Others)
      PROVE  Rest(cfg, [c EXCEPT ![k] = x], Others)
  <2>1. DOMAIN c = DOMAIN cfg /\ \A j \in DOMAIN cfg \ Others : c[j] = cfg[j]
    BY Zenon, <1>1 DEF Rest
  <2>2. /\ DOMAIN [c EXCEPT ![k] = x] = DOMAIN c
        /\ \A j \in DOMAIN c : j # k => [c EXCEPT ![k] = x][j] = c[j]
    BY Zenon
  <2>. QED
    BY Zenon, <1>1, <2>1, <2>2 DEF Rest
<1>2. Rest(cfg, cfg, Others)
  BY Zenon DEF Rest
<1>3. /\ "primary" \in Others /\ "preprocess" \in Others /\ "mux" \in Others
      /\ "part" \in Others /\ "tiles" \in Others /\ "msgconv" \in Others
  BY Zenon DEF Others
<1>4. CASE ParsePrimaryGie(g)
  BY <1>1, <1>2, <1>3, <1>4 DEF ParsePrimaryGie, Outcome, Fail
<1>5. CASE ParsePreprocess(g)
  BY <1>1, <1>2, <1>3, <1>5 DEF ParsePreprocess, Outcome, Fail
<1>6. CASE ParseStreammux(g)
  BY <1>1, <1>2, <1>3, <1>6 DEF ParseStreammux, Outcome, Fail
<1>7. ASSUME NEW kind PROVE Rest(cfg, WithPart(g, kind), Others)
  BY <1>1, <1>2, <1>3 DEF WithPart
<1>8. CASE ParseOsd(g) \/ ParseTracker(g) \/ ParseDsExample(g)
  BY Zenon, <1>2, <1>7, <1>8 DEF ParseOsd, ParseTracker, ParseDsExample, ParsePart,
     Outcome, Fail
<1>9. CASE ParseTiledDisplay(g)
  BY <1>1, <1>2, <1>3, <1>7, <1>9 DEF ParseTiledDisplay, Outcome, Fail
<1>10. CASE ParseImageSave(g)
  BY <1>1, <1>2, <1>3, <1>10 DEF ParseImageSave, Outcome, Fail
<1>11. CASE ParseMsgconv(g) \/ ParseTests(g)
  BY <1>1, <1>2, <1>3, <1>11 DEF ParseMsgconv, ParseTests, Outcome, Fail
<1>. QED
  BY Zenon, <1>4, <1>5, <1>6, <1>8, <1>9, <1>10, <1>11

(* A numbered group goes to the slot after those taken.                    *)
LEMMA SourceWrites ==
  ASSUME DOMAIN cfg = DOMAIN EmptyConfig, NEW g, ParseSourceGroup(g)
  PROVE  \/ stage' = "failed" /\ cfg' = cfg
         \/ LET slot == SourceSlot(g)
                s == ParsedSource([cfg.src[slot] EXCEPT !.gpu = GlobalOr(@)], g)
            IN /\ ~SourceRefused(g) /\ g.index # -1 /\ cfg.nsrc # MaxSources
               /\ Rest(cfg, cfg', {"src", "nsrc"})
               /\ cfg'.src = [cfg.src EXCEPT ![slot] = s]
               /\ cfg'.nsrc = IF s.enable # 0 /\ ~cfg.listed THEN cfg.nsrc + 1 ELSE cfg.nsrc
<1> DEFINE slot == SourceSlot(g)
           s == ParsedSource([cfg.src[slot] EXCEPT !.gpu = GlobalOr(@)], g)
           n == IF s.enable # 0 /\ ~cfg.listed THEN cfg.nsrc + 1 ELSE cfg.nsrc
<1>1. CASE Fail
  BY Zenon, <1>1 DEF Fail
<1>2. CASE ~Fail
  <2>1. /\ ~SourceRefused(g) /\ g.index # -1 /\ cfg.nsrc # MaxSources
        /\ cfg' = [cfg EXCEPT !.src[slot] = s,
                              !.nsrc = IF s.enable # 0 /\ ~cfg.listed THEN @ + 1 ELSE @]
    BY Zenon, <1>2 DEF ParseSourceGroup, SourceLimit
  <2>2. "src" \in DOMAIN cfg /\ "nsrc" \in DOMAIN cfg
    BY FieldsOfConfig
  <2>3. /\ Rest(cfg, cfg', {"src", "nsrc"}) /\ cfg'.src = [cfg.src EXCEPT ![slot] = s]
        /\ cfg'.nsrc = n
    <3> HIDE DEF s, slot
    <3>. QED
      BY <2>1, <2>2 DEF Rest
  <2>. QED
    BY Zenon, <2>1, <2>3
<1>. QED
  BY Zenon, <1>1, <1>2

LEMMA GieWrites ==
  ASSUME DOMAIN cfg = DOMAIN EmptyConfig, NEW g, ParseSecondaryGie(g)
  PROVE  \/ stage' = "failed" /\ cfg' = cfg
         \/ LET c == SecondaryGie(g)
            IN /\ ~GieRefused(g) /\ cfg.ngie < MaxGies /\ Rest(cfg, cfg', {"gie", "ngie"})
               /\ cfg'.gie = [cfg.gie EXCEPT ![cfg.ngie] = c]
               /\ cfg'.ngie = IF c.enable # 0 THEN cfg.ngie + 1 ELSE cfg.ngie
<1> DEFINE c == SecondaryGie(g)
<1>1. CASE Fail
  BY Zenon, <1>1 DEF Fail
<1>2. CASE ~Fail
  <2>1. /\ ~GieRefused(g) /\ cfg.ngie < MaxGies
        /\ cfg' = [cfg EXCEPT !.gie[cfg.ngie] = c,
                              !.ngie = IF c.enable # 0 THEN @ + 1 ELSE @]
    BY Zenon, <1>2 DEF ParseSecondaryGie, Outcome
  <2>2. "gie" \in DOMAIN cfg /\ "ngie" \in DOMAIN cfg
    BY FieldsOfConfig
  <2>3. /\ Rest(cfg, cfg', {"gie", "ngie"}) /\ cfg'.gie = [cfg.gie EXCEPT ![cfg.ngie] = c]
        /\ cfg'.ngie = IF c.enable # 0 THEN cfg.ngie + 1 ELSE cfg.ngie
    <3> HIDE DEF c
    <3>. QED
      BY <2>1, <2>2 DEF Rest
  <2>. QED
    BY Zenon, <2>1, <2>3
<1>. QED
  BY Zenon, <1>1, <1>2

LEMMA PreprocessWrites ==
  ASSUME DOMAIN cfg = DOMAIN EmptyConfig, NEW g, ParseSecondaryPreprocess(g)
  PROVE  \/ stage' = "failed" /\ cfg' = cfg
         \/ LET c == ParsedPreprocess(cfg.pre[cfg.npre], g)
            IN /\ cfg.npre < MaxPreprocess /\ Rest(cfg, cfg', {"pre", "npre"})
               /\ cfg'.pre = [cfg.pre EXCEPT ![cfg.npre] = c]
               /\ cfg'.npre = IF c.enable # 0 THEN cfg.npre + 1 ELSE cfg.npre
<1> DEFINE c == ParsedPreprocess(cfg.pre[cfg.npre], g)
<1>1. CASE Fail
  BY Zenon, <1>1 DEF Fail
<1>2. CASE ~Fail
  <2>1. /\ cfg.npre < MaxPreprocess
        /\ cfg' = [cfg EXCEPT !.pre[cfg.npre] = c,
                              !.npre = IF c.enable # 0 THEN @ + 1 ELSE @]
    BY Zenon, <1>2 DEF ParseSecondaryPreprocess, Outcome
  <2>2. "pre" \in DOMAIN cfg /\ "npre" \in DOMAIN cfg
    BY FieldsOfConfig
  <2>3. /\ Rest(cfg, cfg', {"pre", "npre"}) /\ cfg'.pre = [cfg.pre EXCEPT ![cfg.npre] = c]
        /\ cfg'.npre = IF c.enable # 0 THEN cfg.npre + 1 ELSE cfg.npre
    <3> HIDE DEF c
    <3>. QED
      BY <2>1, <2>2 DEF Rest
  <2>. QED
    BY Zenon, <2>1, <2>3
<1>. QED
  BY Zenon, <1>1, <1>2

LEMMA SinkWrites ==
  ASSUME DOMAIN cfg = DOMAIN EmptyConfig, NEW g, ParseSink(g)
  PROVE  \/ stage' = "failed" /\ cfg' = cfg
         \/ LET c == ParsedSink(GlobalSink(cfg.sink[cfg.nsink], g), g)
            IN /\ ~(~Off(g) /\ Unreadable(g)) /\ cfg.nsink < MaxSinks
               /\ Rest(cfg, cfg', {"sink", "nsink"})
               /\ cfg'.sink = [cfg.sink EXCEPT ![cfg.nsink] = c]
               /\ cfg'.nsink = IF c.enable # 0 THEN cfg.nsink + 1 ELSE cfg.nsink
<1> DEFINE c == ParsedSink(GlobalSink(cfg.sink[cfg.nsink], g), g)
<1>1. CASE Fail
  BY Zenon, <1>1 DEF Fail
<1>2. CASE ~Fail
  <2>1. /\ ~(~Off(g) /\ Unreadable(g)) /\ cfg.nsink < MaxSinks
        /\ cfg' = [cfg EXCEPT !.sink[cfg.nsink] = c,
                              !.nsink = IF c.enable # 0 THEN @ + 1 ELSE @]
    BY Zenon, <1>2 DEF ParseSink, Outcome
  <2>2. "sink" \in DOMAIN cfg /\ "nsink" \in DOMAIN cfg
    BY FieldsOfConfig
  <2>3. /\ Rest(cfg, cfg', {"sink", "nsink"})
        /\ cfg'.sink = [cfg.sink EXCEPT ![cfg.nsink] = c]
        /\ cfg'.nsink = IF c.enable # 0 THEN cfg.nsink + 1 ELSE cfg.nsink
    <3> HIDE DEF c
    <3>. QED
      BY <2>1, <2>2 DEF Rest
  <2>. QED
    BY Zenon, <2>1, <2>3
<1>. QED
  BY Zenon, <1>1, <1>2

(* The number of uris a source group gives is a number, at least one.      *)
LEMMA NumSourcesType ==
  ASSUME NEW n \in Int
  PROVE  NumSources(n) \in Nat \ {0}
<1> DEFINE m == n % GuintRange
<1>1. m \in Nat
  BY ConfigAssumption
<1> HIDE DEF m
<1>2. (IF m < 1 THEN 1 ELSE m) \in Nat \ {0}
  BY <1>1
<1>. QED
  BY Zenon, <1>2 DEF NumSources, m

LEMMA OneIsCount == 1 \in Nat \ {0}
OBVIOUS

LEMMA NumIsNumber ==
  ASSUME NEW f \in Families, NEW g \in f.groups \cup f.attrs, ~Unreadable(g),
         NEW c, DOMAIN c = DOMAIN NoSource, c.num \in Int
  PROVE  SourceKeys(c, g).num \in Int
<1> DEFINE n == IF "num-sources" \in DOMAIN g.keys
                THEN NumSources(g.keys["num-sources"]) ELSE c.num
<1>1. Get(g, "num-sources", 0) \in Int \cup {Bad}
  BY Zenon, NumSourcesAssumption
<1>2. n \in Int
  <2>1. CASE "num-sources" \in DOMAIN g.keys
    <3>1. /\ g.keys["num-sources"] = Get(g, "num-sources", 0)
          /\ g.keys["num-sources"] # Bad
      BY Zenon, <2>1 DEF Get, Unreadable
    <3>2. g.keys["num-sources"] \in Int
      BY Zenon, <1>1, <3>1
    <3>3. n \in Nat \ {0}
      BY Zenon, <2>1, <3>2, NumSourcesType
    <3>. QED
      BY <3>3
  <2>2. CASE "num-sources" \notin DOMAIN g.keys
    BY Zenon, <2>2
  <2>. QED
    BY Zenon, <2>1, <2>2
<1> HIDE DEF n
<1>3. "num" \in DOMAIN c
  BY DEF NoSource
<1>4. SourceKeys(c, g).num = n
  BY <1>3 DEF SourceKeys, n
<1>. QED
  BY Zenon, <1>2, <1>4

LEMMA SourceCounts ==
  ASSUME Counts(cfg), family \in Families, NEW g \in family.groups, ParseSourceGroup(g)
  PROVE  Counts(cfg')
<1> DEFINE slot == SourceSlot(g)
           c == [cfg.src[slot] EXCEPT !.gpu = GlobalOr(@)]
           s == ParsedSource(c, g)
<1>1. /\ DOMAIN cfg = DOMAIN EmptyConfig
      /\ cfg.nsrc \in 0 .. MaxSources /\ DOMAIN cfg.src = Slots(MaxSources)
      /\ \A i \in Slots(MaxSources) :
           DOMAIN cfg.src[i] = DOMAIN NoSource /\ cfg.src[i].num \in Int
  BY Zenon DEF Counts
<1>2. CASE cfg' = cfg
  BY Zenon, <1>2
<1>3. CASE ~(cfg' = cfg)
  <2>1. /\ ~SourceRefused(g) /\ g.index # -1 /\ cfg.nsrc # MaxSources
        /\ Rest(cfg, cfg', {"src", "nsrc"})
        /\ cfg'.src = [cfg.src EXCEPT ![slot] = s]
        /\ cfg'.nsrc = IF s.enable # 0 /\ ~cfg.listed THEN cfg.nsrc + 1 ELSE cfg.nsrc
    BY Zenon, <1>1, <1>3, SourceWrites
  <2>2. ASSUME slot \in Slots(MaxSources)
        PROVE  DOMAIN s = DOMAIN NoSource /\ s.num \in Int
    <3>1. DOMAIN cfg.src[slot] = DOMAIN NoSource /\ cfg.src[slot].num \in Int
      BY Zenon, <1>1, <2>2
    <3>2. DOMAIN c = DOMAIN NoSource /\ c.num = cfg.src[slot].num
      <4> HIDE DEF slot
      <4> DEFINE gpu == GlobalOr(cfg.src[slot].gpu)
      <4>1. c = [cfg.src[slot] EXCEPT !.gpu = gpu]
        BY Zenon
      <4> HIDE DEF c, gpu
      <4>2. "num" \in DOMAIN NoSource
        BY DEF NoSource
      <4>. QED
        BY <3>1, <4>1, <4>2
    <3> HIDE DEF c, slot
    <3>3. CASE Off(g)
      <4>1. s = c
        BY Zenon, <3>3 DEF ParsedSource
      <4>. QED
        BY Zenon, <3>1, <3>2, <4>1
    <3>4. CASE ~Off(g)
      <4> DEFINE d == [c EXCEPT !.id = g.index, !.attempts = -1]
      <4>1. s = SourceKeys(d, g)
        BY Zenon, <3>4 DEF ParsedSource
      <4>2. DOMAIN d = DOMAIN NoSource /\ d.num = c.num
        BY <3>2 DEF NoSource
      <4> HIDE DEF d, s
      <4>3. ~Unreadable(g)
        BY Zenon, <2>1, <3>4 DEF SourceRefused, SourceKeysRefused
      <4>4. s.num \in Int
        BY Zenon, <3>1, <3>2, <4>1, <4>2, <4>3, NumIsNumber
      <4>5. DOMAIN SourceKeys(d, g) = DOMAIN d
        BY Zenon DEF SourceKeys
      <4>. QED
        BY Zenon, <4>1, <4>2, <4>4, <4>5
    <3>. QED
      BY Zenon, <3>3, <3>4
  <2> HIDE DEF s, slot
  <2>3. /\ DOMAIN cfg'.src = Slots(MaxSources)
        /\ \A i \in Slots(MaxSources) :
             DOMAIN cfg'.src[i] = DOMAIN NoSource /\ cfg'.src[i].num \in Int
    <3>1. DOMAIN cfg'.src = Slots(MaxSources)
      BY Zenon, <1>1, <2>1
    <3>2. \A i \in Slots(MaxSources) : cfg'.src[i] = IF i = slot THEN s ELSE cfg.src[i]
      BY Zenon, <1>1, <2>1
    <3>. QED
      BY Zenon, <1>1, <2>2, <3>1, <3>2
  <2>4. cfg'.nsrc \in 0 .. MaxSources
    BY <1>1, <2>1, ConfigAssumption
  <2>5. /\ DOMAIN cfg' = DOMAIN cfg /\ cfg'.ngie = cfg.ngie /\ cfg'.gie = cfg.gie
        /\ cfg'.npre = cfg.npre /\ cfg'.pre = cfg.pre /\ cfg'.nsink = cfg.nsink
        /\ cfg'.sink = cfg.sink
    BY <1>1, <2>1, FieldsOfConfig DEF Rest
  <2>. QED
    BY Zenon, <2>3, <2>4, <2>5 DEF Counts
<1>. QED
  BY Zenon, <1>2, <1>3

LEMMA GroupCounts ==
  ASSUME Counts(cfg), family \in Families, ParseGroup
  PROVE  Counts(cfg')
<1>1. PICK g \in family.groups :
        \/ ParseSourceGroup(g)
        \/ ParseSecondaryGie(g) \/ ParseSecondaryPreprocess(g) \/ ParseSink(g)
        \/ \/ ParsePrimaryGie(g) \/ ParsePreprocess(g) \/ ParseStreammux(g)
           \/ ParseOsd(g) \/ ParseTracker(g) \/ ParseTiledDisplay(g)
           \/ ParseDsExample(g) \/ ParseImageSave(g) \/ ParseMsgconv(g)
           \/ ParseTests(g)
  BY Zenon DEF ParseGroup
<1>2. /\ DOMAIN cfg = DOMAIN EmptyConfig
      /\ cfg.nsrc \in 0 .. MaxSources /\ DOMAIN cfg.src = Slots(MaxSources)
      /\ cfg.ngie \in 0 .. MaxGies /\ DOMAIN cfg.gie = Slots(MaxGies)
      /\ cfg.npre \in 0 .. MaxPreprocess /\ DOMAIN cfg.pre = Slots(MaxPreprocess)
      /\ cfg.nsink \in 0 .. MaxSinks /\ DOMAIN cfg.sink = Slots(MaxSinks)
  BY Zenon DEF Counts
<1>3. CASE ParseSourceGroup(g)
  BY Zenon, <1>3, SourceCounts
<1>4. CASE ~(cfg' = cfg) /\ ParseSecondaryGie(g)
  <2>1. /\ cfg.ngie < MaxGies /\ Rest(cfg, cfg', {"gie", "ngie"})
        /\ DOMAIN cfg'.gie = DOMAIN cfg.gie
        /\ cfg'.ngie = cfg.ngie + 1 \/ cfg'.ngie = cfg.ngie
    BY Zenon, <1>2, <1>4, GieWrites
  <2>2. cfg'.ngie \in 0 .. MaxGies
    BY <1>2, <2>1, ConfigAssumption
  <2>3. /\ DOMAIN cfg' = DOMAIN cfg /\ cfg'.nsrc = cfg.nsrc /\ cfg'.src = cfg.src
        /\ cfg'.npre = cfg.npre /\ cfg'.pre = cfg.pre /\ cfg'.nsink = cfg.nsink
        /\ cfg'.sink = cfg.sink
    BY <1>2, <2>1, FieldsOfConfig DEF Rest
  <2>. QED
    BY Zenon, <1>2, <2>1, <2>2, <2>3 DEF Counts
<1>5. CASE ~(cfg' = cfg) /\ ParseSecondaryPreprocess(g)
  <2>1. /\ cfg.npre < MaxPreprocess /\ Rest(cfg, cfg', {"pre", "npre"})
        /\ DOMAIN cfg'.pre = DOMAIN cfg.pre
        /\ cfg'.npre = cfg.npre + 1 \/ cfg'.npre = cfg.npre
    BY Zenon, <1>2, <1>5, PreprocessWrites
  <2>2. cfg'.npre \in 0 .. MaxPreprocess
    BY <1>2, <2>1, ConfigAssumption
  <2>3. /\ DOMAIN cfg' = DOMAIN cfg /\ cfg'.nsrc = cfg.nsrc /\ cfg'.src = cfg.src
        /\ cfg'.ngie = cfg.ngie /\ cfg'.gie = cfg.gie /\ cfg'.nsink = cfg.nsink
        /\ cfg'.sink = cfg.sink
    BY <1>2, <2>1, FieldsOfConfig DEF Rest
  <2>. QED
    BY Zenon, <1>2, <2>1, <2>2, <2>3 DEF Counts
<1>6. CASE ~(cfg' = cfg) /\ ParseSink(g)
  <2>1. /\ cfg.nsink < MaxSinks /\ Rest(cfg, cfg', {"sink", "nsink"})
        /\ DOMAIN cfg'.sink = DOMAIN cfg.sink
        /\ cfg'.nsink = cfg.nsink + 1 \/ cfg'.nsink = cfg.nsink
    BY Zenon, <1>2, <1>6, SinkWrites
  <2>2. cfg'.nsink \in 0 .. MaxSinks
    BY <1>2, <2>1, ConfigAssumption
  <2>3. /\ DOMAIN cfg' = DOMAIN cfg /\ cfg'.nsrc = cfg.nsrc /\ cfg'.src = cfg.src
        /\ cfg'.ngie = cfg.ngie /\ cfg'.gie = cfg.gie /\ cfg'.npre = cfg.npre
        /\ cfg'.pre = cfg.pre
    BY <1>2, <2>1, FieldsOfConfig DEF Rest
  <2>. QED
    BY Zenon, <1>2, <2>1, <2>2, <2>3 DEF Counts
<1>7. CASE Rest(cfg, cfg', Others)
  <2>1. \A k \in Counting : k \notin Others
    BY DEF Counting, Others
  <2>. QED
    BY Zenon, <1>7, <2>1, CountsRest
<1>. QED
  BY Zenon, <1>1, <1>2, <1>3, <1>4, <1>5, <1>6, <1>7, OthersWrite

LEMMA AttrWrites ==
  ASSUME DOMAIN cfg = DOMAIN EmptyConfig, NEW g, ParseAttrAll(g)
  PROVE  \/ stage' = "failed" /\ cfg' = cfg
         \/ LET attr == SourceKeys([NoSource EXCEPT !.gpu = GlobalOr(0)], g)
            IN /\ ~Unreadable(g) /\ Rest(cfg, cfg', {"attrAll", "src"})
               /\ cfg'.src = [i \in Slots(MaxSources) |->
                                IF i < cfg.total THEN ListedSource(attr, cfg.uris, i)
                                ELSE cfg.src[i]]
<1> DEFINE attr == SourceKeys([NoSource EXCEPT !.gpu = GlobalOr(0)], g)
           src == [i \in Slots(MaxSources) |->
                     IF i < cfg.total THEN ListedSource(attr, cfg.uris, i) ELSE cfg.src[i]]
<1>1. CASE Fail
  BY Zenon, <1>1 DEF Fail
<1>2. CASE ~Fail
  <2>1. /\ ~Unreadable(g)
        /\ cfg' = [cfg EXCEPT !.attrAll = attr,
                              !.src = [i \in Slots(MaxSources) |->
                                         IF i < cfg.total
                                         THEN ListedSource(attr, cfg.uris, i) ELSE @[i]]]
    BY Zenon, <1>2 DEF ParseAttrAll, SourceKeysRefused
  <2>2. "attrAll" \in DOMAIN cfg /\ "src" \in DOMAIN cfg
    BY FieldsOfConfig
  <2> HIDE DEF attr
  <2>3. cfg' = [cfg EXCEPT !.attrAll = attr, !.src = src]
    BY <2>1, <2>2
  <2> HIDE DEF src
  <2>4. Rest(cfg, cfg', {"attrAll", "src"}) /\ cfg'.src = src
    BY <2>2, <2>3 DEF Rest
  <2>. QED
    BY Zenon, <2>1, <2>4 DEF src, attr
<1>. QED
  BY Zenon, <1>1, <1>2

LEMMA EndWrites ==
  ASSUME DOMAIN cfg = DOMAIN EmptyConfig, EndOfGroups
  PROVE  \/ cfg' = cfg
         \/ /\ Rest(cfg, cfg', {"mux", "primary", "gie"})
            /\ cfg'.mux = [cfg.mux EXCEPT !.batch = cfg.nsrc]
            /\ cfg'.gie = [i \in Slots(MaxGies) |->
                             IF i < cfg.ngie /\ cfg.sgieBatch # 0
                             THEN [cfg.gie[i] EXCEPT !.batch = cfg.sgieBatch]
                             ELSE cfg.gie[i]]
<1> DEFINE gie == [i \in Slots(MaxGies) |->
                     IF i < cfg.ngie /\ cfg.sgieBatch # 0
                     THEN [cfg.gie[i] EXCEPT !.batch = cfg.sgieBatch] ELSE cfg.gie[i]]
<1>1. CASE cfg' = cfg
  BY Zenon, <1>1
<1>2. CASE ~(cfg' = cfg)
  <2>1. cfg' = [cfg EXCEPT
                  !.mux.batch = cfg.nsrc,
                  !.primary.batch = cfg.nsrc,
                  !.gie = [i \in Slots(MaxGies) |->
                             IF i < cfg.ngie /\ cfg.sgieBatch # 0
                             THEN [@[i] EXCEPT !.batch = cfg.sgieBatch] ELSE @[i]]]
    BY Zenon, <1>2 DEF EndOfGroups, Fail, Batched
  <2>2. "mux" \in DOMAIN cfg /\ "primary" \in DOMAIN cfg /\ "gie" \in DOMAIN cfg
    BY FieldsOfConfig
  <2>3. cfg' = [cfg EXCEPT !.mux.batch = cfg.nsrc, !.primary.batch = cfg.nsrc, !.gie = gie]
    BY <2>1
  <2> HIDE DEF gie
  <2>4. /\ Rest(cfg, cfg', {"mux", "primary", "gie"}) /\ cfg'.gie = gie
        /\ cfg'.mux = [cfg.mux EXCEPT !.batch = cfg.nsrc]
    BY <2>2, <2>3 DEF Rest
  <2>. QED
    BY Zenon, <2>4 DEF gie
<1>. QED
  BY Zenon, <1>1, <1>2

(* The source that is expanded keeps all but its type and its uris, and    *)
(* its copies go to the slots after those taken.                           *)
ExpandedFrom(s, t) ==
  /\ DOMAIN t = DOMAIN s /\ t.gpu = s.gpu /\ (t.num = s.num \/ t.num = 1)

LEMMA ExpandWrites ==
  ASSUME Counts(cfg), next \in Nat, ExpandSource
  PROVE  \/ cfg' = cfg
         \/ /\ Rest(cfg, cfg', {"nsrc", "src"})
            /\ cfg'.nsrc \in cfg.nsrc .. MaxSources
            /\ DOMAIN cfg'.src = Slots(MaxSources)
            /\ \A i \in Slots(MaxSources) :
                 \/ i # next /\ i < cfg.nsrc /\ cfg'.src[i] = cfg.src[i]
                 \/ i >= cfg.nsrc /\ cfg'.src[i] = cfg.src[i]
                 \/ i = next /\ ExpandedFrom(cfg.src[i], cfg'.src[i])
                 \/ i >= cfg.nsrc /\ ExpandedFrom(cfg.src[next], cfg'.src[i])
<1> DEFINE s == cfg.src[next]
           of(j) == [s EXCEPT !.type = SourceUri, !.uri = Append(@, j)]
           first == [of(0) EXCEPT !.num = IF @ < 1 THEN 1 ELSE @]
           n == cfg.nsrc
           k == Copies(s)
           src == [i \in Slots(MaxSources) |->
                     IF i = next THEN first
                     ELSE IF i \in n .. n + k - 1 THEN of(i - n + 1) ELSE cfg.src[i]]
<1>1. CASE cfg' = cfg
  BY Zenon, <1>1
<1>2. CASE ~(cfg' = cfg)
  <2>1. /\ ~TooManyCopies(s)
        /\ cfg' = [cfg EXCEPT
             !.nsrc = @ + Copies(s),
             !.src = [i \in Slots(MaxSources) |->
               IF i = next THEN [of(0) EXCEPT !.num = IF @ < 1 THEN 1 ELSE @]
               ELSE IF i \in cfg.nsrc .. cfg.nsrc + Copies(s) - 1
                    THEN of(i - cfg.nsrc + 1) ELSE @[i]]]
    BY Zenon, <1>2 DEF ExpandSource, Fail
  <2>2. /\ DOMAIN cfg = DOMAIN EmptyConfig /\ n \in 0 .. MaxSources
        /\ \A i \in Slots(MaxSources) :
             DOMAIN cfg.src[i] = DOMAIN NoSource /\ cfg.src[i].num \in Int
    BY Zenon DEF Counts
  <2>3. stage = "expand" /\ next < n
    BY Zenon DEF ExpandSource
  <2>4. next \in Slots(MaxSources) => DOMAIN s = DOMAIN NoSource /\ s.num \in Int
    BY Zenon, <2>2
  <2>5. {"nsrc", "src"} \subseteq DOMAIN cfg
    BY <2>2, FieldsOfConfig
  <2>6. ASSUME NEW j, next \in Slots(MaxSources)
        PROVE  ExpandedFrom(s, of(j)) /\ DOMAIN of(j) = DOMAIN NoSource
    <3>1. {"type", "uri", "num", "gpu"} \subseteq DOMAIN s
      BY <2>4, <2>6 DEF NoSource
    <3> HIDE DEF s
    <3>. QED
      BY <2>4, <2>6, <3>1 DEF ExpandedFrom
  <2>7. next \in Slots(MaxSources) => ExpandedFrom(s, first)
    <3> DEFINE o == of(0)
    <3> SUFFICES ASSUME next \in Slots(MaxSources) PROVE ExpandedFrom(s, first)
      OBVIOUS
    <3>1. ExpandedFrom(s, o) /\ DOMAIN o = DOMAIN NoSource /\ "num" \in DOMAIN NoSource
      BY <2>6 DEF NoSource
    <3> HIDE DEF o, s
    <3>2. first = [o EXCEPT !.num = IF o.num < 1 THEN 1 ELSE o.num]
      BY DEF o
    <3> HIDE DEF first
    <3>. QED
      BY <3>1, <3>2 DEF ExpandedFrom
  <2>8. cfg' = [cfg EXCEPT !.nsrc = n + k, !.src = src]
    BY <2>1, <2>5
  <2>9. \A i \in Slots(MaxSources) :
          src[i] = IF i = next THEN first
                   ELSE IF i \in n .. n + k - 1 THEN of(i - n + 1) ELSE cfg.src[i]
    BY Zenon
  <2>10. DOMAIN src = Slots(MaxSources)
    BY Zenon
  <2> HIDE DEF src
  <2>11. /\ Rest(cfg, cfg', {"nsrc", "src"}) /\ cfg'.nsrc = n + k /\ cfg'.src = src
    <3> HIDE DEF k, n
    <3>. QED
      BY <2>5, <2>8 DEF Rest
  <2>12. ASSUME next \in Slots(MaxSources) PROVE n + k \in n .. MaxSources
    <3>1. /\ s.num \in Int /\ ~(n + k > MaxSources)
          /\ k = IF s.type = SourceMultiple /\ s.num > 1 THEN s.num - 1 ELSE 0
      BY Zenon, <2>1, <2>4, <2>12 DEF TooManyCopies, Copies
    <3> HIDE DEF k, s
    <3>. QED
      BY <2>2, <3>1, ConfigAssumption
  <2>13. next \in Slots(MaxSources)
    BY <2>2, <2>3, ConfigAssumption DEF Slots
  <2>14. n + k \in n .. MaxSources
    BY Zenon, <2>12, <2>13
  <2>15. ASSUME NEW i \in Slots(MaxSources)
         PROVE  \/ i # next /\ i < n /\ src[i] = cfg.src[i]
                \/ i >= n /\ src[i] = cfg.src[i]
                \/ i = next /\ ExpandedFrom(cfg.src[i], src[i])
                \/ i >= n /\ ExpandedFrom(cfg.src[next], src[i])
    <3>1. i < n \/ i >= n
      BY <2>2, ConfigAssumption DEF Slots
    <3>2. i \in n .. n + k - 1 => i >= n
      BY <2>2, <2>14, ConfigAssumption
    <3> HIDE DEF n
    <3>. QED
      BY Zenon, <2>6, <2>7, <2>9, <2>13, <3>1, <3>2
  <2>. QED
    BY Zenon, <2>10, <2>11, <2>14, <2>15
<1>. QED
  BY Zenon, <1>1, <1>2

(* The parser keeps the counts, and its own variables their types.         *)
ParserTypes ==
  /\ family \in Families /\ stage \in Stages /\ next \in 0 .. MaxSources
  /\ Counts(cfg) /\ cameraIds \subseteq Nat
  /\ Len(parsed) \in Nat /\ Len(parsed) <= family.files
  /\ stage \notin {"done", "failed"} => Len(parsed) < family.files

LEMMA AttrCounts ==
  ASSUME Counts(cfg), family \in Families, NEW g \in family.attrs, ParseAttrAll(g)
  PROVE  Counts(cfg')
<1> DEFINE c == [NoSource EXCEPT !.gpu = GlobalOr(0)]
           attr == SourceKeys(c, g)
<1>1. CASE cfg' = cfg
  BY Zenon, <1>1
<1>2. CASE ~(cfg' = cfg)
  <2>1. /\ ~Unreadable(g) /\ Rest(cfg, cfg', {"attrAll", "src"})
        /\ cfg'.src = [i \in Slots(MaxSources) |->
                         IF i < cfg.total THEN ListedSource(attr, cfg.uris, i) ELSE cfg.src[i]]
    BY Zenon, <1>2, AttrWrites DEF Counts
  <2>2. DOMAIN c = DOMAIN NoSource /\ c.num \in Int
    <3> DEFINE gpu == GlobalOr(0)
    <3> HIDE DEF gpu
    <3>1. /\ DOMAIN [NoSource EXCEPT !.gpu = gpu] = DOMAIN NoSource
          /\ [NoSource EXCEPT !.gpu = gpu].num \in Int
      BY DEF NoSource
    <3>. QED
      BY Zenon, <3>1 DEF gpu
  <2> HIDE DEF c
  <2>3. attr.num \in Int /\ DOMAIN attr = DOMAIN NoSource
    <3>1. DOMAIN SourceKeys(c, g) = DOMAIN c
      BY Zenon DEF SourceKeys
    <3>. QED
      BY Zenon, <2>1, <2>2, <3>1, NumIsNumber
  <2> HIDE DEF attr
  <2>4. ASSUME NEW uris, NEW i
        PROVE  /\ DOMAIN ListedSource(attr, uris, i) = DOMAIN NoSource
               /\ ListedSource(attr, uris, i).num \in Int
    <3>1. {"id", "type", "uri", "device", "num"} \subseteq DOMAIN attr
      BY <2>3 DEF NoSource
    <3>2. ASSUME NEW type, NEW x
          PROVE  /\ [attr EXCEPT !.id = i].num = attr.num
                 /\ [[attr EXCEPT !.id = i] EXCEPT !.type = type, !.uri = x].num = attr.num
                 /\ [[attr EXCEPT !.id = i] EXCEPT !.type = type, !.device = x].num = attr.num
      BY <3>1
    <3>3. ListedSource(attr, uris, i).num = attr.num
      BY Zenon, <3>2 DEF ListedSource
    <3>4. DOMAIN ListedSource(attr, uris, i) = DOMAIN attr
      BY Zenon DEF ListedSource
    <3>. QED
      BY Zenon, <2>3, <3>3, <3>4
  <2>5. /\ DOMAIN cfg'.src = Slots(MaxSources)
        /\ \A i \in Slots(MaxSources) :
             DOMAIN cfg'.src[i] = DOMAIN NoSource /\ cfg'.src[i].num \in Int
    <3>1. /\ DOMAIN cfg'.src = Slots(MaxSources)
          /\ \A i \in Slots(MaxSources) :
               cfg'.src[i] = IF i < cfg.total THEN ListedSource(attr, cfg.uris, i)
                             ELSE cfg.src[i]
      BY Zenon, <2>1
    <3>2. \A i \in Slots(MaxSources) :
            DOMAIN cfg.src[i] = DOMAIN NoSource /\ cfg.src[i].num \in Int
      BY Zenon DEF Counts
    <3>. QED
      BY Zenon, <2>4, <3>1, <3>2
  <2>6. /\ DOMAIN cfg' = DOMAIN cfg /\ cfg'.nsrc = cfg.nsrc
        /\ cfg'.ngie = cfg.ngie /\ cfg'.gie = cfg.gie /\ cfg'.npre = cfg.npre
        /\ cfg'.pre = cfg.pre /\ cfg'.nsink = cfg.nsink /\ cfg'.sink = cfg.sink
    BY <2>1, FieldsOfConfig DEF Rest, Counts
  <2>. QED
    BY Zenon, <2>5, <2>6 DEF Counts
<1>. QED
  BY Zenon, <1>1, <1>2

LEMMA EndCounts ==
  ASSUME Counts(cfg), EndOfGroups
  PROVE  Counts(cfg')
<1>1. CASE cfg' = cfg
  BY Zenon, <1>1
<1>2. CASE ~(cfg' = cfg)
  <2>1. Rest(cfg, cfg', {"mux", "primary", "gie"}) /\ DOMAIN cfg'.gie = Slots(MaxGies)
    BY Zenon, <1>2, EndWrites DEF Counts
  <2>2. /\ DOMAIN cfg' = DOMAIN cfg /\ cfg'.nsrc = cfg.nsrc /\ cfg'.src = cfg.src
        /\ cfg'.ngie = cfg.ngie /\ cfg'.npre = cfg.npre
        /\ cfg'.pre = cfg.pre /\ cfg'.nsink = cfg.nsink /\ cfg'.sink = cfg.sink
    BY <2>1, FieldsOfConfig DEF Rest, Counts
  <2>. QED
    BY Zenon, <2>1, <2>2 DEF Counts
<1>. QED
  BY Zenon, <1>1, <1>2

LEMMA ExpandCounts ==
  ASSUME Counts(cfg), next \in Nat, ExpandSource
  PROVE  Counts(cfg')
<1>1. CASE cfg' = cfg
  BY Zenon, <1>1
<1>2. CASE ~(cfg' = cfg)
  <2>1. /\ Rest(cfg, cfg', {"nsrc", "src"}) /\ cfg'.nsrc \in cfg.nsrc .. MaxSources
        /\ DOMAIN cfg'.src = Slots(MaxSources)
        /\ \A i \in Slots(MaxSources) :
             \/ cfg'.src[i] = cfg.src[i]
             \/ i = next /\ ExpandedFrom(cfg.src[i], cfg'.src[i])
             \/ ExpandedFrom(cfg.src[next], cfg'.src[i])
    BY Zenon, <1>2, ExpandWrites
  <2>2. /\ next < cfg.nsrc /\ cfg.nsrc \in 0 .. MaxSources
        /\ \A i \in Slots(MaxSources) :
             DOMAIN cfg.src[i] = DOMAIN NoSource /\ cfg.src[i].num \in Int
    BY Zenon DEF ExpandSource, Counts
  <2>3. next \in Slots(MaxSources) /\ cfg'.nsrc \in 0 .. MaxSources /\ 1 \in Int
    BY <2>1, <2>2, ConfigAssumption DEF Slots
  <2>4. \A i \in Slots(MaxSources) :
          DOMAIN cfg'.src[i] = DOMAIN NoSource /\ cfg'.src[i].num \in Int
    BY Zenon, <2>1, <2>2, <2>3 DEF ExpandedFrom
  <2>5. /\ DOMAIN cfg' = DOMAIN cfg
        /\ cfg'.ngie = cfg.ngie /\ cfg'.gie = cfg.gie /\ cfg'.npre = cfg.npre
        /\ cfg'.pre = cfg.pre /\ cfg'.nsink = cfg.nsink /\ cfg'.sink = cfg.sink
    BY <2>1, FieldsOfConfig DEF Rest, Counts
  <2>. QED
    BY Zenon, <2>1, <2>3, <2>4, <2>5 DEF Counts
<1>. QED
  BY Zenon, <1>1, <1>2

LEMMA ListCounts ==
  ASSUME Counts(cfg), family \in Families, NEW l \in family.lists, ParseSourceList(l)
  PROVE  Counts(cfg')
<1>1. CASE cfg' = cfg
  BY Zenon, <1>1
<1>2. CASE ~(cfg' = cfg)
  <2>1. /\ ~Unreadable(l) /\ ~ListTooLong(l) /\ ~ListMismatch(l)
        /\ cfg' = [cfg EXCEPT !.listed = TRUE, !.total = ListTotal(l),
                              !.nsrc = ListTotal(l),
                              !.uris = Get(l, "uri-list", <<>>),
                              !.multi = Get(l, "use-nvmultiurisrcbin", 0),
                              !.maxBatch = Get(l, "max-batch-size", 0),
                              !.sgieBatch = Get(l, "sgie-batch-size", 0)]
    BY Zenon, <1>2 DEF ParseSourceList, Fail
  <2> DEFINE n == ListTotal(l)
  <2>2. n \in 0 .. MaxSources
    BY Zenon, <2>1, ListTotals
  <2> HIDE DEF n
  <2>3. /\ DOMAIN cfg' = DOMAIN cfg /\ cfg'.nsrc = n /\ cfg'.src = cfg.src
        /\ cfg'.ngie = cfg.ngie /\ cfg'.gie = cfg.gie /\ cfg'.npre = cfg.npre
        /\ cfg'.pre = cfg.pre /\ cfg'.nsink = cfg.nsink /\ cfg'.sink = cfg.sink
    BY <2>1, FieldsOfConfig DEF Counts, n
  <2>. QED
    BY Zenon, <2>2, <2>3 DEF Counts
<1>. QED
  BY Zenon, <1>1, <1>2

LEMMA ParserTypesNext ==
  ASSUME FilesType, ParserTypes, Next
  PROVE  ParserTypes'
<1>1. /\ family \in Families /\ stage \in Stages /\ next \in 0 .. MaxSources
      /\ Counts(cfg) /\ cameraIds \subseteq Nat
      /\ Len(parsed) \in Nat /\ Len(parsed) <= family.files
      /\ stage \notin {"done", "failed"} => Len(parsed) < family.files
  BY Zenon DEF ParserTypes
<1>2. 0 \in 0 .. MaxSources
  BY ConfigAssumption
<1>3. "failed" \in Stages /\ "list" \in Stages /\ "attr" \in Stages /\ "groups" \in Stages
      /\ "expand" \in Stages /\ "done" \in Stages /\ "app" \in Stages
  BY Zenon DEF Stages
<1>4. ASSUME Counts(cfg'), family' = family, parsed' = parsed, cameraIds' \subseteq Nat,
             next' \in 0 .. MaxSources, stage' \in Stages,
             stage \notin {"done", "failed"}
      PROVE  ParserTypes'
  BY Zenon, <1>1, <1>4 DEF ParserTypes
<1>5. ASSUME NEW g, ParseApp(g) PROVE ParserTypes'
  <2>1. /\ family' = family /\ parsed' = parsed /\ cameraIds' = cameraIds /\ next' = next
        /\ stage = "app" /\ stage' \in {"failed", "list"}
        /\ cfg' = cfg \/ cfg' = [cfg EXCEPT !.global = Get(g, "gpu", -1)]
    BY Zenon, <1>5 DEF ParseApp, Fail
  <2>2. Rest(cfg, cfg', {"global"})
    BY <1>1, <2>1, FieldsOfConfig DEF Rest, Counts
  <2>3. \A k \in Counting : k \notin {"global"}
    BY DEF Counting
  <2>4. Counts(cfg')
    BY Zenon, <1>1, <2>2, <2>3, CountsRest
  <2>. QED
    BY Zenon, <1>1, <1>3, <1>4, <2>1, <2>4
<1>6. ASSUME NEW l \in family.lists, ParseSourceList(l) PROVE ParserTypes'
  <2>1. /\ family' = family /\ parsed' = parsed /\ cameraIds' = cameraIds /\ next' = next
        /\ stage = "list" /\ stage' \in {"failed", "attr"}
    BY Zenon, <1>6 DEF ParseSourceList, Fail
  <2>. QED
    BY Zenon, <1>1, <1>3, <1>4, <1>6, <2>1, ListCounts
<1>7. CASE NoSourceList \/ NoAttrAll
  <2>1. /\ family' = family /\ parsed' = parsed /\ cameraIds' = cameraIds /\ next' = next
        /\ stage \in {"list", "attr"} /\ stage' \in {"failed", "attr", "groups"} /\ cfg' = cfg
    BY Zenon, <1>7 DEF NoSourceList, NoAttrAll, Fail
  <2>. QED
    BY Zenon, <1>1, <1>3, <1>4, <2>1
<1>8. ASSUME NEW g \in family.attrs, ParseAttrAll(g) PROVE ParserTypes'
  <2>1. /\ family' = family /\ parsed' = parsed /\ cameraIds' = cameraIds /\ next' = next
        /\ stage = "attr" /\ stage' \in {"failed", "groups"}
    BY Zenon, <1>8 DEF ParseAttrAll, Fail
  <2>. QED
    BY Zenon, <1>1, <1>3, <1>4, <1>8, <2>1, AttrCounts
<1>9. CASE ParseGroup
  <2>1. PICK g \in family.groups :
          /\ ReadStep(g)
          /\ next' = next
          /\ cameraIds' = cameraIds \/ (g.index # -1 /\ cameraIds' = cameraIds \cup {g.index})
    <3>1. \A fails, c : Outcome(fails, c) => next' = next /\ cameraIds' = cameraIds
      BY Zenon DEF Outcome, Fail
    <3>2. ASSUME NEW g, ParseSourceGroup(g)
          PROVE  /\ next' = next
                 /\ \/ cameraIds' = cameraIds
                    \/ g.index # -1 /\ cameraIds' = cameraIds \cup {g.index}
      BY Zenon, <3>2 DEF ParseSourceGroup, Fail
    <3>3. ASSUME NEW g,
                 \/ ParsePrimaryGie(g) \/ ParseSecondaryGie(g) \/ ParsePreprocess(g)
                 \/ ParseSecondaryPreprocess(g) \/ ParseSink(g) \/ ParseStreammux(g)
                 \/ ParseOsd(g) \/ ParseTracker(g) \/ ParseTiledDisplay(g)
                 \/ ParseDsExample(g) \/ ParseImageSave(g) \/ ParseMsgconv(g)
                 \/ ParseTests(g)
          PROVE  next' = next /\ cameraIds' = cameraIds
      BY Zenon, <3>1, <3>3 DEF ParsePrimaryGie, ParseSecondaryGie, ParsePreprocess,
         ParseSecondaryPreprocess, ParseSink, ParseStreammux, ParseOsd, ParseTracker,
         ParseTiledDisplay, ParseDsExample, ParsePart, ParseImageSave, ParseMsgconv,
         ParseTests, Fail
    <3>. QED
      BY Zenon, <1>9, <3>2, <3>3, GroupSteps DEF ParseGroup
  <2>2. /\ family' = family /\ parsed' = parsed /\ stage = "groups"
        /\ stage' \in {"failed", "groups"}
    BY Zenon, <2>1 DEF ReadStep
  <2>3. g.index \in Nat \cup {-1}
    BY Zenon, <1>1, FamiliesAssumption
  <2>4. cameraIds' \subseteq Nat
    <3>1. g.index # -1 => g.index \in Nat
      BY <2>3
    <3>. QED
      BY Zenon, <1>1, <2>1, <3>1
  <2>. QED
    BY Zenon, <1>1, <1>3, <1>4, <1>9, <2>1, <2>2, <2>4, GroupCounts
<1>10. CASE EndOfGroups
  <2>1. /\ family' = family /\ parsed' = parsed /\ cameraIds' = cameraIds
        /\ next' = next \/ next' = 0
        /\ stage = "groups" /\ stage' \in {"failed", "expand"}
    BY Zenon, <1>10 DEF EndOfGroups, Fail
  <2>. QED
    BY Zenon, <1>1, <1>2, <1>3, <1>4, <1>10, <2>1, EndCounts
<1>11. CASE ExpandSource
  <2>1. /\ family' = family /\ parsed' = parsed /\ cameraIds' = cameraIds
        /\ next' = next \/ (next < cfg.nsrc /\ next' = next + 1)
        /\ stage = "expand" /\ stage' \in {"failed", "expand"}
    BY Zenon, <1>11 DEF ExpandSource, Fail
  <2>2. next' \in 0 .. MaxSources /\ next \in Nat
    BY <1>1, <2>1, ConfigAssumption DEF Counts
  <2>. QED
    BY Zenon, <1>1, <1>3, <1>4, <1>11, <2>1, <2>2, ExpandCounts
<1>12. CASE AcceptFile
  <2> DEFINE f == [read |-> read, cfg |-> cfg]
  <2>1. /\ parsed' = Append(parsed, f) /\ family' = family /\ cameraIds' = cameraIds
        /\ next' = 0 /\ stage = "expand"
        /\ \/ Len(parsed) + 1 < family.files /\ stage' = "app" /\ cfg' = EmptyConfig
           \/ stage' = "done" /\ cfg' = cfg
    BY Zenon, <1>12 DEF AcceptFile
  <2> HIDE DEF f
  <2>2. Len(parsed') = Len(parsed) + 1
    BY Zenon, <2>1, AppendFacts DEF FilesType
  <2>3. Counts(cfg')
    BY Zenon, <1>1, <2>1, EmptyCounts
  <2>4. family.files \in Nat
    BY Zenon, <1>1, FamiliesAssumption
  <2>5. /\ Len(parsed') \in Nat /\ Len(parsed') <= family.files
        /\ stage' # "done" => Len(parsed') < family.files
    BY <1>1, <2>1, <2>2, <2>4
  <2>. QED
    BY Zenon, <1>1, <1>2, <1>3, <2>1, <2>3, <2>5 DEF ParserTypes
<1>. QED
  BY Zenon, <1>5, <1>6, <1>7, <1>8, <1>9, <1>10, <1>11, <1>12 DEF Next

(* Construction: its place, and the counts it may write.                   *)
BuildTypes ==
  /\ step \in Steps /\ at \in 0 .. MaxSources + Len(Common)
  /\ step = "outputs" => at <= cfg.nsrc
  /\ step = "common" => at <= Len(Common)
  /\ builds <= family.builds /\ lost \in BOOLEAN

LEMMA TypesAreEnough ==
  ASSUME BuildInv, ParserTypes, BuildTypes
  PROVE  BuildTypeOK
<1>1. /\ cfg.nsrc \in 0 .. MaxSources /\ DOMAIN cfg.src = Slots(MaxSources)
      /\ cfg.ngie \in 0 .. MaxGies /\ DOMAIN cfg.gie = Slots(MaxGies)
      /\ cfg.npre \in 0 .. MaxPreprocess /\ DOMAIN cfg.pre = Slots(MaxPreprocess)
      /\ cfg.nsink \in 0 .. MaxSinks /\ DOMAIN cfg.sink = Slots(MaxSinks)
  BY Zenon DEF ParserTypes, Counts
<1>2. family.files \in Nat /\ family.builds \in Nat
  BY Zenon, FamiliesAssumption DEF ParserTypes
<1>3. Len(parsed) \in 0 .. family.files
  BY <1>2 DEF ParserTypes
<1>4. TypeOK
  BY Zenon, <1>1, <1>3 DEF ParserTypes, TypeOK
<1>5. builds \in 0 .. family.builds
  BY <1>2 DEF BuildInv, Where, BuildTypes
<1>. QED
  BY Zenon, <1>4, <1>5 DEF BuildTypeOK, BuildTypes, BuildInv, Where

LEMMA TypesInit == BuildInit => ParserTypes /\ BuildTypes
<1> SUFFICES ASSUME BuildInit PROVE ParserTypes /\ BuildTypes
  OBVIOUS
<1>1. /\ family \in Families /\ stage = "app" /\ cfg = EmptyConfig /\ next = 0
      /\ cameraIds = {} /\ parsed = <<>> /\ step = "idle" /\ at = 0 /\ builds = 0
      /\ lost = FALSE
  BY Zenon DEF BuildInit, Init
<1>2. family.files \in Nat \ {0} /\ family.builds \in Nat
  BY Zenon, <1>1, FamiliesAssumption
<1>3. ParserTypes
  <2>1. /\ Len(parsed) \in Nat /\ Len(parsed) <= family.files /\ Len(parsed) < family.files
        /\ next \in 0 .. MaxSources
    BY <1>1, <1>2, ConfigAssumption
  <2>2. cameraIds \subseteq Nat /\ stage \in Stages /\ Counts(cfg)
    BY Zenon, <1>1, EmptyCounts DEF Stages
  <2>. QED
    BY Zenon, <1>1, <2>1, <2>2 DEF ParserTypes
<1>4. at \in 0 .. MaxSources + Len(Common)
  BY <1>1, ConfigAssumption DEF Common
<1>5. step \in Steps /\ step # "outputs" /\ step # "common"
  BY <1>1 DEF Steps
<1>6. builds <= family.builds
  BY <1>1, <1>2
<1>7. lost \in BOOLEAN
  BY Zenon, <1>1
<1>. QED
  BY Zenon, <1>3, <1>4, <1>5, <1>6, <1>7 DEF BuildTypes

LEMMA BuildTypesNext ==
  ASSUME FilesType, BuildInv, ParserTypes, BuildTypes, [BuildNext]_buildVars
  PROVE  ParserTypes' /\ BuildTypes'
<1>1. /\ step \in Steps /\ at \in 0 .. MaxSources + Len(Common)
      /\ step = "outputs" => at <= cfg.nsrc
      /\ step = "common" => at <= Len(Common)
      /\ builds <= family.builds /\ lost \in BOOLEAN
  BY Zenon DEF BuildTypes
<1>2. /\ Counts(cfg) /\ DOMAIN cfg = DOMAIN EmptyConfig /\ cfg.nsrc \in 0 .. MaxSources
  BY Zenon DEF ParserTypes, Counts
<1>3. /\ "sources" \in Steps /\ "outputs" \in Steps /\ "example" \in Steps
      /\ "common" \in Steps /\ "broker" \in Steps /\ "last" \in Steps /\ "idle" \in Steps
      /\ "built" \in Steps /\ "failed" \in Steps /\ "crashed" \in Steps
  BY Zenon DEF Steps
<1>4. MaxSources \in Nat \ {0} /\ Len(Common) = 5
  BY ConfigAssumption DEF Common
<1>5. ASSUME family' = family, stage' = stage, next' = next, cameraIds' = cameraIds,
             parsed' = parsed, Counts(cfg')
      PROVE  ParserTypes'
  BY Zenon, <1>5 DEF ParserTypes
<1>6. 0 \in 0 .. MaxSources + Len(Common) /\ 0 <= Len(Common) /\ 0 <= cfg.nsrc
  BY <1>2, <1>4
<1>7. CASE Parse
  <2>1. Next /\ stage # "done" /\ UNCHANGED building
    BY Zenon, <1>7, ParserNotDone DEF Parse
  <2>2. step = "idle" /\ step' = "idle" /\ at' = at /\ builds' = builds /\ lost' = lost
    BY Zenon, <2>1 DEF BuildInv, Where, building
  <2>3. family' = family
    BY Zenon, <1>7, BuildSteps DEF QuietStep, ReadStep, AcceptFile
  <2>4. step' # "outputs" /\ step' # "common"
    BY <2>2
  <2>. QED
    BY Zenon, <1>1, <2>1, <2>2, <2>3, <2>4, ParserTypesNext DEF BuildTypes
<1>8. CASE CreatePipeline
  <2>1. /\ family' = family /\ stage' = stage /\ next' = next /\ cameraIds' = cameraIds
        /\ parsed' = parsed /\ cfg' = cfg /\ step' = "sources" /\ at' = at
        /\ builds < family.builds /\ builds' = builds + 1 /\ lost' = lost
    BY Zenon, <1>8 DEF CreatePipeline, GoTo, vars
  <2>2. builds' <= family.builds
    <3>1. family.builds \in Nat /\ builds \in Nat
      BY Zenon, FamiliesAssumption DEF ParserTypes, BuildInv, Where
    <3>. QED
      BY <2>1, <3>1
  <2>3. step' # "outputs" /\ step' # "common"
    BY <2>1
  <2>. QED
    BY Zenon, <1>1, <1>2, <1>3, <1>5, <2>1, <2>2, <2>3 DEF BuildTypes
<1>9. CASE \/ ElementFails \/ BuildSources \/ DemuxDone \/ BuildExample \/ BuildTee
           \/ LinkBroker \/ LinkSources \/ DestroyPipeline \/ UNCHANGED buildVars
  <2>1. /\ family' = family /\ stage' = stage /\ next' = next /\ cameraIds' = cameraIds
        /\ parsed' = parsed /\ cfg' = cfg /\ builds' = builds
        /\ lost' = lost \/ lost' = TRUE
        /\ \/ step' = step /\ at' = at
           \/ step' = "failed" /\ at' = at
           \/ step' \in {"outputs", "common"} /\ at' = 0
           \/ step' \in {"example", "broker", "last", "built", "idle"} /\ at' = at
    BY Zenon, <1>9 DEF ElementFails, BuildSources, DemuxDone, BuildExample, BuildTee,
       LinkBroker, LinkSources, DestroyPipeline, Abandon, GoTo, vars, buildVars, building
  <2>2. "failed" \notin {"outputs", "common"}
        /\ \A s \in {"example", "broker", "last", "built", "idle"} : s # "outputs" /\ s # "common"
    OBVIOUS
  <2>. QED
    BY Zenon, <1>1, <1>2, <1>3, <1>5, <1>6, <2>1, <2>2 DEF BuildTypes
<1>10. CASE BuildMultiSource
  <2>1. /\ family' = family /\ stage' = stage /\ next' = next /\ cameraIds' = cameraIds
        /\ parsed' = parsed /\ builds' = builds /\ lost' = lost
        /\ step' = "outputs" /\ at' = 0
        /\ cfg' = [cfg EXCEPT
                     !.nsrc = IF @ = 0 THEN 1 ELSE @,
                     !.mux.batch = IF cfg.mux.parsed THEN cfg.maxBatch ELSE @]
    BY Zenon, <1>10 DEF BuildMultiSource, GoTo
  <2>2. /\ DOMAIN cfg' = DOMAIN cfg /\ cfg'.src = cfg.src
        /\ cfg'.nsrc = IF cfg.nsrc = 0 THEN 1 ELSE cfg.nsrc
        /\ cfg'.ngie = cfg.ngie /\ cfg'.gie = cfg.gie /\ cfg'.npre = cfg.npre
        /\ cfg'.pre = cfg.pre /\ cfg'.nsink = cfg.nsink /\ cfg'.sink = cfg.sink
    BY <1>2, <2>1, FieldsOfConfig
  <2>3. cfg'.nsrc \in 0 .. MaxSources /\ at' <= cfg'.nsrc
    BY <1>2, <1>4, <2>1, <2>2
  <2>4. Counts(cfg')
    BY Zenon, <1>2, <2>2, <2>3 DEF Counts
  <2>5. step' # "common"
    BY <2>1
  <2>. QED
    BY Zenon, <1>1, <1>3, <1>5, <1>6, <2>1, <2>3, <2>4, <2>5 DEF BuildTypes
<1>11. ASSUME family' = family, stage' = stage, next' = next, cameraIds' = cameraIds,
              parsed' = parsed, builds' = builds, lost' = lost, at' = at,
              cfg' = cfg \/ \E x : cfg' = [cfg EXCEPT !.tiles = x],
              step' \in {"failed", "crashed", "example"}
       PROVE  ParserTypes' /\ BuildTypes'
  <2>1. Rest(cfg, cfg', {"tiles"})
    BY <1>2, <1>11 DEF Rest
  <2>2. \A k \in Counting : k \notin {"tiles"}
    BY DEF Counting
  <2>3. Counts(cfg')
    BY Zenon, <1>2, <2>1, <2>2, CountsRest
  <2>4. step' # "outputs" /\ step' # "common"
    BY <1>11
  <2>. QED
    BY Zenon, <1>1, <1>3, <1>5, <1>11, <2>3, <2>4 DEF BuildTypes
<1>12. CASE BuildTiled
  BY Zenon, <1>11, <1>12 DEF BuildTiled, Abandon, Probe, GoTo
<1>13. CASE BuildDemuxed
  <2>1. /\ family' = family /\ stage' = stage /\ next' = next /\ cameraIds' = cameraIds
        /\ parsed' = parsed /\ cfg' = cfg /\ builds' = builds /\ lost' = lost
        /\ step = "outputs" /\ at < cfg.nsrc
        /\ \/ step' = "failed" /\ at' = at
           \/ step' = step /\ at' = at + 1
    BY Zenon, <1>13 DEF BuildDemuxed, Abandon, vars
  <2>2. at' \in 0 .. MaxSources + Len(Common) /\ (step' = step => at' <= cfg'.nsrc)
    BY <1>1, <1>2, <1>4, <2>1
  <2>3. step' \in {"failed", "outputs"} /\ step' # "common" /\ (step' = "outputs" => step' = step)
    BY <2>1
  <2>. QED
    BY Zenon, <1>1, <1>2, <1>3, <1>5, <2>1, <2>2, <2>3 DEF BuildTypes
<1>14. CASE BuildCommon
  <2>1. /\ family' = family /\ stage' = stage /\ next' = next /\ cameraIds' = cameraIds
        /\ parsed' = parsed /\ builds' = builds /\ lost' = lost
        /\ step = "common" /\ step' = step /\ at < Len(Common) /\ at' = at + 1
        /\ cfg' = cfg \/ cfg' = BatchOverridden(Common[at + 1])
    BY Zenon, <1>14 DEF BuildCommon
  <2>2. at' \in 0 .. MaxSources + Len(Common) /\ at' <= Len(Common)
    BY <1>1, <1>4, <2>1
  <2>3. Counts(cfg')
    <3>1. CASE cfg' = cfg
      BY Zenon, <1>2, <3>1
    <3>2. CASE cfg' = [cfg EXCEPT !.primary.batch = cfg.maxBatch]
      <4>1. Rest(cfg, cfg', {"primary"})
        BY <1>2, <3>2 DEF Rest
      <4>2. \A k \in Counting : k \notin {"primary"}
        BY DEF Counting
      <4>. QED
        BY Zenon, <1>2, <4>1, <4>2, CountsRest
    <3>3. ASSUME NEW gie, DOMAIN gie = Slots(MaxGies), cfg' = [cfg EXCEPT !.gie = gie]
          PROVE  Counts(cfg')
      <4>1. /\ DOMAIN cfg' = DOMAIN cfg /\ cfg'.src = cfg.src /\ cfg'.nsrc = cfg.nsrc
            /\ cfg'.ngie = cfg.ngie /\ cfg'.gie = gie /\ cfg'.npre = cfg.npre
            /\ cfg'.pre = cfg.pre /\ cfg'.nsink = cfg.nsink /\ cfg'.sink = cfg.sink
        BY <1>2, <3>3, FieldsOfConfig
      <4>. QED
        BY Zenon, <1>2, <3>3, <4>1 DEF Counts
    <3>4. \/ cfg' = cfg
          \/ cfg' = [cfg EXCEPT !.primary.batch = cfg.maxBatch]
          \/ \E gie : DOMAIN gie = Slots(MaxGies) /\ cfg' = [cfg EXCEPT !.gie = gie]
      BY Zenon, <2>1 DEF BatchOverridden
    <3>. QED
      BY Zenon, <3>1, <3>2, <3>3, <3>4
  <2>4. step' # "outputs"
    BY <2>1
  <2>. QED
    BY Zenon, <1>1, <1>3, <1>5, <2>1, <2>2, <2>3, <2>4 DEF BuildTypes
<1>. QED
  BY Zenon, <1>7, <1>8, <1>9, <1>10, <1>12, <1>13, <1>14 DEF BuildNext

(* The counts of the configuration never exceed the arrays they count, and *)
(* construction stays within its loops and the pipelines it was asked for, *)
(* whatever the files say (MAX_SOURCE_BINS and the other maxima).          *)
THEOREM TypeCorrect == BuildSpec => []BuildTypeOK
<1>1. BuildInv /\ ParserTypes /\ BuildTypes => BuildTypeOK
  BY Zenon, TypesAreEnough
<1>2. BuildInit => BuildInv /\ FilesType /\ NumbersInv /\ ParserTypes /\ BuildTypes
  BY Zenon, BuildInvInit, NumbersInit, TypesInit
<1>3. BuildInv /\ FilesType /\ NumbersInv /\ ParserTypes /\ BuildTypes /\ [BuildNext]_buildVars
        => (BuildInv /\ FilesType /\ NumbersInv /\ ParserTypes /\ BuildTypes)'
  BY Zenon, BuildInvNext, NumbersNext, BuildTypesNext
<1>. QED
  BY <1>1, <1>2, <1>3, PTL DEF BuildSpec

-----------------------------------------------------------------------------
(* Induction over the natural numbers, by the least one of a set.          *)
LEMMA LeastNumber ==
  ASSUME NEW S \in SUBSET Nat, S # {}
  PROVE  \E m \in S : \A n \in S : m <= n
<1>1. \E m \in S : \A n \in S : ~(<<n, m>> \in OpToRel(<, Nat))
  BY NatLessThanWellFounded, WFMin
<1>2. ASSUME NEW m \in S, NEW n \in S, ~(<<n, m>> \in OpToRel(<, Nat))
      PROVE  m <= n
  BY <1>2 DEF OpToRel
<1>. QED
  BY <1>1, <1>2

LEMMA AllNumbers ==
  ASSUME NEW S \in SUBSET Nat, 0 \in S, \A n \in S : n + 1 \in S
  PROVE  S = Nat
<1> SUFFICES ASSUME Nat \ S # {} PROVE FALSE
  OBVIOUS
<1>1. PICK m \in Nat \ S : \A n \in Nat \ S : m <= n
  BY LeastNumber
<1>2. m - 1 \in Nat /\ m - 1 \notin Nat \ S
  BY <1>1
<1>. QED
  BY <1>2

-----------------------------------------------------------------------------
(* What is reached is the least set that holds the sources and every       *)
(* element a link leads to from one of its own: a step that adds nothing   *)
(* is followed by none that does, and each of the others uses a link more. *)
OneLinkOn(W) == W \cup {l[2] : l \in {m \in graph : m[1] \in W}}
IsWithin(f, m) ==
  f = [n \in 0 .. m |-> IF n = 0 THEN {Elem("source")} ELSE OneLinkOn(f[n - 1])]
Within == CHOOSE f : IsWithin(f, Cardinality(graph))

LEMMA WithinExists ==
  ASSUME NEW m \in Nat
  PROVE  \E f : IsWithin(f, m)
<1> DEFINE S == {k \in Nat : \E f : IsWithin(f, k)}
<1>1. 0 \in S
  <2> DEFINE f == [n \in 0 .. 0 |-> {Elem("source")}]
  <2>1. IsWithin(f, 0)
    BY DEF IsWithin
  <2>. QED
    BY Zenon, <2>1
<1>2. ASSUME NEW k \in S PROVE k + 1 \in S
  <2>1. PICK f : IsWithin(f, k)
    OBVIOUS
  <2>2. \A n \in 0 .. k : f[n] = IF n = 0 THEN {Elem("source")} ELSE OneLinkOn(f[n - 1])
    BY Zenon, <2>1 DEF IsWithin
  <2> DEFINE g == [n \in 0 .. k + 1 |-> IF n = 0 THEN {Elem("source")} ELSE OneLinkOn(f[n - 1])]
  <2>3. \A n \in 0 .. k : g[n] = f[n]
    <3>1. \A n \in 0 .. k : n \in 0 .. k + 1
      OBVIOUS
    <3>. QED
      BY Zenon, <2>2, <3>1
  <2>4. \A n \in 0 .. k + 1 : n # 0 => n - 1 \in 0 .. k
    OBVIOUS
  <2>5. \A n \in 0 .. k + 1 :
          g[n] = IF n = 0 THEN {Elem("source")} ELSE OneLinkOn(g[n - 1])
    BY Zenon, <2>3, <2>4
  <2>6. g = [n \in 0 .. k + 1 |-> g[n]]
    OBVIOUS
  <2> HIDE DEF g
  <2>7. g = [n \in 0 .. k + 1 |-> IF n = 0 THEN {Elem("source")} ELSE OneLinkOn(g[n - 1])]
    BY Zenon, <2>5, <2>6
  <2>8. k + 1 \in Nat
    OBVIOUS
  <2>. QED
    BY Zenon, <2>7, <2>8 DEF IsWithin
<1> HIDE DEF S
<1>3. S = Nat
  BY <1>1, <1>2, AllNumbers DEF S
<1>. QED
  BY Zenon, <1>3 DEF S

LEMMA WithinSteps ==
  ASSUME IsFiniteSet(graph)
  PROVE  /\ Cardinality(graph) \in Nat
         /\ Within[0] = {Elem("source")}
         /\ \A n \in 0 .. Cardinality(graph) - 1 : Within[n + 1] = OneLinkOn(Within[n])
         /\ Reached = Within[Cardinality(graph)]
<1> DEFINE c == Cardinality(graph)
<1>1. c \in Nat
  BY FS_CardinalityType
<1>2. IsWithin(Within, c)
  BY Zenon, <1>1, WithinExists DEF Within
<1>3. \A n \in 0 .. c : Within[n] = IF n = 0 THEN {Elem("source")} ELSE OneLinkOn(Within[n - 1])
  BY Zenon, <1>2 DEF IsWithin
<1>4. Reached = Within[c]
  BY Zenon DEF Reached, Within, IsWithin, OneLinkOn
<1> HIDE DEF c
<1>5. \A n \in 0 .. c - 1 : n + 1 \in 0 .. c /\ n + 1 # 0 /\ (n + 1) - 1 = n
  BY <1>1
<1>6. 0 \in 0 .. c
  BY <1>1
<1>. QED
  BY Zenon, <1>1, <1>3, <1>4, <1>5, <1>6 DEF c

LEMMA ReachedIsClosure ==
  ASSUME IsFiniteSet(graph)
  PROVE  /\ Elem("source") \in Reached
         /\ \A l \in graph : l[1] \in Reached => l[2] \in Reached
         /\ \A S : Elem("source") \in S /\ (\A l \in graph : l[1] \in S => l[2] \in S)
                  => Reached \subseteq S
<1> DEFINE c == Cardinality(graph)
           W(n) == Within[n]
           Touched(n) == {l \in graph : l[1] \in W(n)}
           Closed(n) == \A l \in graph : l[1] \in W(n) => l[2] \in W(n)
<1>1. /\ c \in Nat /\ W(0) = {Elem("source")} /\ Reached = W(c)
      /\ \A n \in 0 .. c - 1 : W(n + 1) = OneLinkOn(W(n))
  BY Zenon, WithinSteps
<1>2. ASSUME NEW V, NEW l \in graph, l[1] \in V PROVE l[2] \in OneLinkOn(V)
  BY <1>2 DEF OneLinkOn
<1>3. ASSUME NEW V, NEW T, V \subseteq T, \A l \in graph : l[1] \in V => l[2] \in T
      PROVE  OneLinkOn(V) \subseteq T
  BY <1>3 DEF OneLinkOn
<1>4. \A V : V \subseteq OneLinkOn(V)
  BY DEF OneLinkOn
<1> HIDE DEF c, W
<1>5. \A n \in 0 .. c : n # c => n \in 0 .. c - 1
  BY <1>1
<1>6. \A n : IsFiniteSet(Touched(n)) /\ Cardinality(Touched(n)) \in Nat /\ Cardinality(Touched(n)) <= c
  <2> SUFFICES ASSUME NEW n
               PROVE  IsFiniteSet(Touched(n)) /\ Cardinality(Touched(n)) \in Nat
                        /\ Cardinality(Touched(n)) <= c
    OBVIOUS
  <2>1. Touched(n) \in SUBSET graph
    OBVIOUS
  <2> HIDE DEF Touched
  <2>. QED
    BY Zenon, <2>1, FS_Subset, FS_CardinalityType DEF c
<1>7. ASSUME NEW n \in Nat
      PROVE  n \in 0 .. c => Closed(n) \/ Cardinality(Touched(n)) >= n + 1
  <2> DEFINE P(k) == k \in 0 .. c => Closed(k) \/ Cardinality(Touched(k)) >= k + 1
             S == {k \in Nat : P(k)}
  <2>1. 0 \in S
    <3>1. CASE Touched(0) = {}
      BY Zenon, <3>1
    <3>2. CASE Touched(0) # {}
      <4> HIDE DEF Touched
      <4>1. Cardinality(Touched(0)) # 0
        BY Zenon, <1>6, <3>2, FS_EmptySet
      <4>. QED
        BY <1>6, <4>1
    <3>. QED
      BY <3>1, <3>2
  <2>2. ASSUME NEW k \in S PROVE k + 1 \in S
    <3> SUFFICES ASSUME k + 1 \in 0 .. c
                 PROVE  Closed(k + 1) \/ Cardinality(Touched(k + 1)) >= (k + 1) + 1
      <4>1. k + 1 \in Nat
        OBVIOUS
      <4> HIDE DEF Closed, Touched
      <4>. QED
        BY Zenon, <4>1
    <3>1. k \in 0 .. c - 1 /\ k \in 0 .. c /\ P(k) /\ k \in Nat
      BY <1>1
    <3>2. W(k + 1) = OneLinkOn(W(k))
      BY Zenon, <1>1, <3>1
    <3>3. CASE Closed(k)
      <4>1. W(k + 1) = W(k)
        <5>1. OneLinkOn(W(k)) \subseteq W(k) /\ W(k) \subseteq OneLinkOn(W(k))
          BY Zenon, <1>3, <1>4, <3>3
        <5>. QED
          BY Zenon, <3>2, <5>1
      <4>. QED
        BY Zenon, <3>3, <4>1
    <3>4. CASE Cardinality(Touched(k)) >= k + 1
      <4>1. Touched(k) \in SUBSET Touched(k + 1)
        <5>1. W(k) \subseteq W(k + 1)
          BY Zenon, <1>4, <3>2
        <5>. QED
          BY <5>1
      <4>2. CASE Touched(k) = Touched(k + 1)
        <5>1. \A l \in graph : l[1] \in W(k + 1) => l[1] \in W(k)
          BY Zenon, <4>2
        <5>. QED
          BY Zenon, <1>2, <3>2, <5>1
      <4>3. CASE Touched(k) # Touched(k + 1)
        <5> HIDE DEF Touched
        <5>1. Cardinality(Touched(k)) <= Cardinality(Touched(k + 1))
              /\ Cardinality(Touched(k)) # Cardinality(Touched(k + 1))
          BY Zenon, <1>6, <4>1, <4>3, FS_Subset
        <5>2. Cardinality(Touched(k)) \in Nat /\ Cardinality(Touched(k + 1)) \in Nat
          BY Zenon, <1>6
        <5> HIDE DEF P, S, Closed
        <5>. QED
          BY <3>1, <3>4, <5>1, <5>2
      <4>. QED
        BY Zenon, <4>2, <4>3
    <3>. QED
      BY Zenon, <3>1, <3>3, <3>4
  <2> HIDE DEF S
  <2>3. S \in SUBSET Nat
    BY DEF S
  <2>4. S = Nat
    BY Zenon, <2>1, <2>2, <2>3, AllNumbers
  <2>. QED
    BY Zenon, <2>4 DEF S
<1>8. Closed(c)
  <2>1. Closed(c) \/ Cardinality(Touched(c)) >= c + 1
    BY <1>1, <1>7
  <2>2. ~(Cardinality(Touched(c)) >= c + 1)
    <3>1. Cardinality(Touched(c)) \in Nat /\ Cardinality(Touched(c)) <= c
      BY Zenon, <1>6
    <3> HIDE DEF Touched
    <3>. QED
      BY <1>1, <3>1
  <2>. QED
    BY Zenon, <2>1, <2>2
<1>9. ASSUME NEW n \in Nat PROVE n \in 0 .. c => Elem("source") \in W(n)
  <2> DEFINE S == {k \in Nat : k \in 0 .. c => Elem("source") \in W(k)}
  <2>1. 0 \in S
    BY <1>1
  <2>2. ASSUME NEW k \in S PROVE k + 1 \in S
    <3> SUFFICES ASSUME k + 1 \in 0 .. c PROVE Elem("source") \in W(k + 1)
      OBVIOUS
    <3>1. k \in 0 .. c - 1 /\ k \in 0 .. c
      BY <1>1
    <3>2. W(k + 1) = OneLinkOn(W(k)) /\ Elem("source") \in W(k)
      BY Zenon, <1>1, <3>1
    <3>. QED
      BY Zenon, <1>4, <3>2
  <2> HIDE DEF S
  <2>3. S \in SUBSET Nat
    BY DEF S
  <2>4. S = Nat
    BY Zenon, <2>1, <2>2, <2>3, AllNumbers
  <2>. QED
    BY Zenon, <2>4 DEF S
<1>10. ASSUME NEW T, Elem("source") \in T, \A l \in graph : l[1] \in T => l[2] \in T,
              NEW n \in Nat
       PROVE  n \in 0 .. c => W(n) \subseteq T
  <2> DEFINE S == {k \in Nat : k \in 0 .. c => W(k) \subseteq T}
  <2>1. 0 \in S
    BY Zenon, <1>1, <1>10
  <2>2. ASSUME NEW k \in S PROVE k + 1 \in S
    <3> SUFFICES ASSUME k + 1 \in 0 .. c PROVE W(k + 1) \subseteq T
      OBVIOUS
    <3>1. k \in 0 .. c - 1 /\ k \in 0 .. c
      BY <1>1
    <3>2. W(k) \subseteq T /\ W(k + 1) = OneLinkOn(W(k))
      BY Zenon, <1>1, <3>1
    <3>3. OneLinkOn(W(k)) \subseteq T
      BY Zenon, <1>3, <1>10, <3>2
    <3>. QED
      BY Zenon, <3>2, <3>3
  <2> HIDE DEF S
  <2>3. S \in SUBSET Nat
    BY DEF S
  <2>4. S = Nat
    BY Zenon, <2>1, <2>2, <2>3, AllNumbers
  <2>. QED
    BY Zenon, <2>4 DEF S
<1>11. c \in 0 .. c
  BY <1>1
<1>. QED
  BY Zenon, <1>1, <1>8, <1>9, <1>10, <1>11

-----------------------------------------------------------------------------
(* What is made of the sinks and of the tiler: the sinks counted are on,   *)
(* and the tiler has rows and columns.                                     *)
Sane(c) ==
  /\ \A k \in Slots(c.nsink) : c.sink[k].enable # 0
  /\ DOMAIN c.tiles = {"rows", "columns"}
  /\ c.tiles.rows \in Nat /\ c.tiles.columns \in Nat

LEMMA SaneEmpty == Sane(EmptyConfig)
<1>1. EmptyConfig.nsink = 0 /\ EmptyConfig.tiles = [rows |-> 0, columns |-> 0]
  BY DEF EmptyConfig
<1>2. Slots(0) = {}
  BY DEF Slots
<1>3. /\ DOMAIN [rows |-> 0, columns |-> 0] = {"rows", "columns"}
      /\ [rows |-> 0, columns |-> 0].rows = 0 /\ [rows |-> 0, columns |-> 0].columns = 0
      /\ 0 \in Nat
  OBVIOUS
<1>. QED
  BY Zenon, <1>1, <1>2, <1>3 DEF Sane

LEMMA SaneRest ==
  ASSUME NEW c, NEW d, NEW K, Sane(c), DOMAIN c = DOMAIN EmptyConfig, Rest(c, d, K),
         "nsink" \notin K, "sink" \notin K, "tiles" \notin K
  PROVE  Sane(d)
<1>1. d.nsink = c.nsink /\ d.sink = c.sink /\ d.tiles = c.tiles
  BY FieldsOfConfig DEF Rest
<1>. QED
  BY Zenon, <1>1 DEF Sane

LEMMA SaneSink ==
  ASSUME Sane(cfg), Counts(cfg), NEW g, ParseSink(g)
  PROVE  Sane(cfg')
<1>1. CASE cfg' = cfg
  BY Zenon, <1>1
<1>2. CASE ~(cfg' = cfg)
  <2> DEFINE c == ParsedSink(GlobalSink(cfg.sink[cfg.nsink], g), g)
  <2>1. /\ cfg.nsink < MaxSinks /\ Rest(cfg, cfg', {"sink", "nsink"})
        /\ cfg'.sink = [cfg.sink EXCEPT ![cfg.nsink] = c]
        /\ cfg'.nsink = IF c.enable # 0 THEN cfg.nsink + 1 ELSE cfg.nsink
    BY Zenon, <1>2, SinkWrites DEF Counts
  <2> HIDE DEF c
  <2>2. cfg'.tiles = cfg.tiles
    BY <2>1, FieldsOfConfig DEF Rest, Counts
  <2>3. cfg.nsink \in 0 .. MaxSinks /\ DOMAIN cfg.sink = Slots(MaxSinks) /\ MaxSinks \in Nat
    BY Zenon, ConfigAssumption DEF Counts
  <2>4. cfg.nsink \in Slots(MaxSinks)
        /\ \A k \in Slots(cfg'.nsink) :
             \/ k \in Slots(cfg.nsink) /\ k # cfg.nsink
             \/ k = cfg.nsink /\ c.enable # 0
    BY <2>1, <2>3 DEF Slots
  <2>5. \A k \in Slots(cfg.nsink) : k # cfg.nsink => cfg'.sink[k] = cfg.sink[k]
    <3>1. \A k \in Slots(cfg.nsink) : k \in Slots(MaxSinks)
      BY <2>3 DEF Slots
    <3>. QED
      BY Zenon, <2>1, <2>3, <3>1
  <2>6. cfg'.sink[cfg.nsink] = c
    BY Zenon, <2>1, <2>3, <2>4
  <2>. QED
    BY Zenon, <2>2, <2>4, <2>5, <2>6 DEF Sane
<1>. QED
  BY Zenon, <1>1, <1>2

LEMMA SaneTiles ==
  ASSUME Sane(cfg), Counts(cfg), family \in Families, NEW g \in family.groups,
         ParseTiledDisplay(g)
  PROVE  Sane(cfg')
<1> DEFINE w == WithPart(g, "tiled-display")
           r == Get(g, "rows", w.tiles.rows)
           c == Get(g, "columns", w.tiles.columns)
<1>1. CASE cfg' = cfg
  BY Zenon, <1>1
<1>2. CASE ~(cfg' = cfg)
  <2>1. /\ ~Unreadable(g)
        /\ cfg' = [WithPart(g, "tiled-display") EXCEPT
                     !.tiles = [rows |-> Get(g, "rows", @.rows),
                                columns |-> Get(g, "columns", @.columns)]]
    BY Zenon, <1>2 DEF ParseTiledDisplay, Outcome, Fail
  <2>2. /\ w.nsink = cfg.nsink /\ w.sink = cfg.sink /\ w.tiles = cfg.tiles
        /\ DOMAIN w = DOMAIN cfg
    BY FieldsOfConfig DEF WithPart, Counts
  <2>3. DOMAIN cfg = DOMAIN EmptyConfig
    BY Zenon DEF Counts
  <2> HIDE DEF w
  <2>4. /\ cfg'.nsink = cfg.nsink /\ cfg'.sink = cfg.sink
        /\ cfg'.tiles = [rows |-> r, columns |-> c]
    <3>1. cfg' = [w EXCEPT !.tiles = [rows |-> Get(g, "rows", @.rows),
                                      columns |-> Get(g, "columns", @.columns)]]
      BY Zenon, <2>1 DEF w
    <3>2. cfg' = [w EXCEPT !.tiles = [rows |-> r, columns |-> c]]
      BY <2>2, <2>3, <3>1, FieldsOfConfig
    <3> HIDE DEF r, c
    <3>. QED
      BY <2>2, <2>3, <3>2, FieldsOfConfig
  <2>5. ASSUME NEW k \in {"rows", "columns"}, NEW old \in Nat
        PROVE  Get(g, k, old) \in Nat
    <3>1. Get(g, k, 0) \in Nat \cup {Bad}
      BY TilesAssumption
    <3>2. CASE k \in DOMAIN g.keys
      <4>1. Get(g, k, old) = Get(g, k, 0) /\ Get(g, k, 0) # Bad
        BY Zenon, <2>1, <3>2 DEF Get, Unreadable
      <4>. QED
        BY <3>1, <4>1
    <3>3. CASE k \notin DOMAIN g.keys
      BY Zenon, <3>3 DEF Get
    <3>. QED
      BY Zenon, <3>2, <3>3
  <2>6. r \in Nat /\ c \in Nat
    <3>1. w.tiles.rows \in Nat /\ w.tiles.columns \in Nat
      BY Zenon, <2>2 DEF Sane
    <3>2. "rows" \in {"rows", "columns"} /\ "columns" \in {"rows", "columns"}
      OBVIOUS
    <3>. QED
      BY Zenon, <2>5, <3>1, <3>2
  <2> HIDE DEF r, c
  <2>7. /\ DOMAIN cfg'.tiles = {"rows", "columns"}
        /\ cfg'.tiles.rows \in Nat /\ cfg'.tiles.columns \in Nat
    BY <2>4, <2>6
  <2>. QED
    BY Zenon, <2>4, <2>7 DEF Sane
<1>. QED
  BY Zenon, <1>1, <1>2

LEMMA SaneGroup ==
  ASSUME Sane(cfg), Counts(cfg), family \in Families, ParseGroup
  PROVE  Sane(cfg')
<1>1. DOMAIN cfg = DOMAIN EmptyConfig
  BY Zenon DEF Counts
<1>2. PICK g \in family.groups :
        \/ ParseSourceGroup(g)
        \/ ParseSecondaryGie(g) \/ ParseSecondaryPreprocess(g) \/ ParseSink(g)
        \/ ParseTiledDisplay(g)
        \/ \/ ParsePrimaryGie(g) \/ ParsePreprocess(g) \/ ParseStreammux(g)
           \/ ParseOsd(g) \/ ParseTracker(g)
           \/ ParseDsExample(g) \/ ParseImageSave(g) \/ ParseMsgconv(g)
           \/ ParseTests(g)
  BY Zenon DEF ParseGroup
<1>3. ASSUME NEW K, Rest(cfg, cfg', K),
             K \in {{"src", "nsrc"}, {"gie", "ngie"}, {"pre", "npre"},
                    {"primary", "preprocess", "mux", "part", "msgconv"}}
      PROVE  Sane(cfg')
  <2>1. "nsink" \notin K /\ "sink" \notin K /\ "tiles" \notin K
    BY <1>3
  <2>. QED
    BY Zenon, <1>1, <1>3, <2>1, SaneRest
<1>4. CASE ParseSourceGroup(g)
  BY Zenon, <1>1, <1>3, <1>4, SourceWrites
<1>5. CASE ParseSecondaryGie(g)
  BY Zenon, <1>1, <1>3, <1>5, GieWrites
<1>6. CASE ParseSecondaryPreprocess(g)
  BY Zenon, <1>1, <1>3, <1>6, PreprocessWrites
<1>7. CASE \/ ParsePrimaryGie(g) \/ ParsePreprocess(g) \/ ParseStreammux(g)
           \/ ParseOsd(g) \/ ParseTracker(g)
           \/ ParseDsExample(g) \/ ParseImageSave(g) \/ ParseMsgconv(g)
           \/ ParseTests(g)
  <2>1. Rest(cfg, cfg', Others) /\ cfg'.tiles = cfg.tiles
    <3>1. Rest(cfg, cfg', Others)
      BY Zenon, <1>1, <1>7, OthersWrite
    <3>4. \A kind : WithPart(g, kind).tiles = cfg.tiles
      BY <1>1, FieldsOfConfig DEF WithPart
    <3>5. \A fails, c : Outcome(fails, c) => cfg' = cfg \/ cfg' = c
      BY Zenon DEF Outcome, Fail
    <3> DEFINE Kept(c) == c.tiles = cfg.tiles
    <3>2. ASSUME NEW k \in {"primary", "preprocess", "mux", "part", "msgconv"}, NEW x
          PROVE  Kept([cfg EXCEPT ![k] = x])
      BY <1>1, FieldsOfConfig
    <3>3. /\ "primary" \in {"primary", "preprocess", "mux", "part", "msgconv"}
          /\ "preprocess" \in {"primary", "preprocess", "mux", "part", "msgconv"}
          /\ "mux" \in {"primary", "preprocess", "mux", "part", "msgconv"}
          /\ "part" \in {"primary", "preprocess", "mux", "part", "msgconv"}
          /\ "msgconv" \in {"primary", "preprocess", "mux", "part", "msgconv"}
          /\ Kept(cfg)
      OBVIOUS
    <3> HIDE DEF Kept
    <3>6. \A kind : ParsePart(g, kind) => cfg'.tiles = cfg.tiles
      BY Zenon, <3>4, <3>5 DEF ParsePart
    <3>7. ASSUME ParsePrimaryGie(g) PROVE Kept(cfg')
      BY <3>2, <3>3, <3>7 DEF ParsePrimaryGie, Outcome, Fail
    <3>8. ASSUME ParsePreprocess(g) PROVE Kept(cfg')
      BY <3>2, <3>3, <3>8 DEF ParsePreprocess, Outcome, Fail
    <3>9. ASSUME ParseStreammux(g) PROVE Kept(cfg')
      BY <3>2, <3>3, <3>9 DEF ParseStreammux, Outcome, Fail
    <3>10. ASSUME ParseImageSave(g) PROVE Kept(cfg')
      BY <3>2, <3>3, <3>10 DEF ParseImageSave, Outcome, Fail
    <3>11. ASSUME ParseMsgconv(g) \/ ParseTests(g) PROVE Kept(cfg')
      BY <3>2, <3>3, <3>11 DEF ParseMsgconv, ParseTests, Outcome, Fail
    <3>. QED
      BY Zenon, <1>7, <3>1, <3>6, <3>7, <3>8, <3>9, <3>10, <3>11
         DEF ParseOsd, ParseTracker, ParseDsExample, Kept
  <2>2. cfg'.nsink = cfg.nsink /\ cfg'.sink = cfg.sink
    BY <1>1, <2>1, FieldsOfConfig DEF Rest, Others
  <2>. QED
    BY Zenon, <2>1, <2>2 DEF Sane
<1>8. CASE ParseSink(g)
  BY Zenon, <1>8, SaneSink
<1>9. CASE ParseTiledDisplay(g)
  BY Zenon, <1>9, SaneTiles
<1>. QED
  BY Zenon, <1>2, <1>4, <1>5, <1>6, <1>7, <1>8, <1>9

LEMMA SaneParse ==
  ASSUME Sane(cfg), ParserTypes, Next
  PROVE  Sane(cfg')
<1>1. Counts(cfg) /\ family \in Families /\ next \in Nat /\ DOMAIN cfg = DOMAIN EmptyConfig
  BY ConfigAssumption DEF ParserTypes, Counts
<1>2. ASSUME NEW K, Rest(cfg, cfg', K),
             "nsink" \notin K, "sink" \notin K, "tiles" \notin K
      PROVE  Sane(cfg')
  BY Zenon, <1>1, <1>2, SaneRest
<1>3. ASSUME NEW g, ParseApp(g) PROVE Sane(cfg')
  <2>1. cfg' = cfg \/ cfg' = [cfg EXCEPT !.global = Get(g, "gpu", -1)]
    BY Zenon, <1>3 DEF ParseApp, Fail
  <2>2. Rest(cfg, cfg', {"global"})
    BY <1>1, <2>1, FieldsOfConfig DEF Rest
  <2>. QED
    BY <1>2, <2>2
<1>4. ASSUME NEW l, ParseSourceList(l) PROVE Sane(cfg')
  <2>1. \/ cfg' = cfg
        \/ cfg' = [cfg EXCEPT !.listed = TRUE, !.total = ListTotal(l),
                              !.nsrc = ListTotal(l),
                              !.uris = Get(l, "uri-list", <<>>),
                              !.multi = Get(l, "use-nvmultiurisrcbin", 0),
                              !.maxBatch = Get(l, "max-batch-size", 0),
                              !.sgieBatch = Get(l, "sgie-batch-size", 0)]
    BY Zenon, <1>4 DEF ParseSourceList, Fail
  <2>2. cfg'.nsink = cfg.nsink /\ cfg'.sink = cfg.sink /\ cfg'.tiles = cfg.tiles
    BY <1>1, <2>1, FieldsOfConfig
  <2>. QED
    BY Zenon, <2>2 DEF Sane
<1>5. ASSUME NEW g, ParseAttrAll(g) PROVE Sane(cfg')
  <2>1. cfg' = cfg \/ Rest(cfg, cfg', {"attrAll", "src"})
    BY Zenon, <1>1, <1>5, AttrWrites
  <2>. QED
    BY <1>2, <2>1
<1>6. CASE NoSourceList \/ NoAttrAll
  BY Zenon, <1>6 DEF NoSourceList, NoAttrAll, Fail
<1>7. CASE EndOfGroups
  <2>1. cfg' = cfg \/ Rest(cfg, cfg', {"mux", "primary", "gie"})
    BY Zenon, <1>1, <1>7, EndWrites
  <2>. QED
    BY <1>2, <2>1
<1>8. CASE ExpandSource
  <2>1. cfg' = cfg \/ Rest(cfg, cfg', {"nsrc", "src"})
    BY Zenon, <1>1, <1>8, ExpandWrites
  <2>. QED
    BY <1>2, <2>1
<1>9. CASE AcceptFile
  BY Zenon, <1>9, SaneEmpty DEF AcceptFile
<1>. QED
  BY Zenon, <1>1, <1>3, <1>4, <1>5, <1>6, <1>7, <1>8, <1>9, SaneGroup DEF Next

-----------------------------------------------------------------------------
(* The sinks of instance i that were made, the links of a sink bin with    *)
(* the sinks ks, and those of a whole output.                              *)
Made(i) == {k \in Slots(MaxSinks) : sinkBins[i].sinks[k] = "made"}
BinLinks(i, ks) ==
  (UNION {SubLinks(i, k, MadeElements(i, k)) : k \in ks})
  \cup {<<SinkBin(i), Sub(i, k, "queue")>> :
          k \in {j \in ks : j \in Mine(i) => cfg.sink[j].type # Broker}}
  \cup (IF cfg.part["osd"].enable # 0 THEN {<<Osd(i), SinkBin(i)>>} ELSE {})
Feeder == IF Tiled THEN Elem("tiler") ELSE Elem("demuxer")
OutLinks(i) == BinLinks(i, Made(i)) \cup {<<Feeder, Entry(i)>>}
BrokerLinks == {<<Elem("tee"), Sub(0, k, "queue")>> : k \in Brokers}

(* The outputs of the pipeline that is built or being built.               *)
Building == {"outputs", "example", "common", "broker", "last", "built"}
Outs ==
  IF Tiled THEN IF step = "outputs" THEN {} ELSE {0}
  ELSE {i \in Slots(IF step = "outputs" THEN at ELSE cfg.nsrc) : Mine(i) # {}}

(* Off the spine a pipeline has its outputs and, in the end, the links to  *)
(* the brokers.  A sink bin holds the sinks of its instance, or a fake one.*)
ToBrokers == IF step \in {"last", "built"} THEN BrokerLinks ELSE {}
OutputsLinked ==
  /\ graph = Spine(graph) \cup (UNION {OutLinks(i) : i \in Outs}) \cup ToBrokers
  /\ \A i \in Instances : i \notin Outs => Made(i) = {}
  /\ \A i \in Outs :
       /\ i \in Instances /\ ~UnknownSink(i)
       /\ Made(i) = Mine(i) \/ (Mine(i) = {} /\ Made(i) \subseteq {0})

OutputsInv ==
  /\ step \in {"idle", "sources"} => graph = {} /\ \A i \in Instances : Made(i) = {}
  /\ step \in Building => OutputsLinked

LEMMA SameOutputs ==
  ASSUME SameInBuild
  PROVE  /\ \A i, ks : BinLinks(i, ks)' = BinLinks(i, ks)
         /\ \A i : Entry(i)' = Entry(i) /\ (UnknownSink(i)' <=> UnknownSink(i))
         /\ BrokerLinks' = BrokerLinks /\ Feeder' = Feeder
         /\ sinkBins' = sinkBins =>
              \A i : Made(i)' = Made(i) /\ OutLinks(i)' = OutLinks(i)
<1>1. /\ Tiled' <=> Tiled
      /\ \A i : Mine(i)' = Mine(i)
      /\ Brokers' = Brokers /\ cfg'.sink = cfg.sink /\ cfg'.part = cfg.part
  BY Zenon, SameViews DEF SameInBuild
<1>2. \A i, k : MadeElements(i, k)' = MadeElements(i, k)
  BY Zenon, <1>1 DEF MadeElements
<1>3. ASSUME NEW i, NEW ks PROVE BinLinks(i, ks)' = BinLinks(i, ks)
  BY Zenon, <1>1, <1>2 DEF BinLinks
<1>4. ASSUME NEW i PROVE Entry(i)' = Entry(i) /\ (UnknownSink(i)' <=> UnknownSink(i))
  BY Zenon, <1>1 DEF Entry, UnknownSink
<1>5. BrokerLinks' = BrokerLinks /\ Feeder' = Feeder
  BY Zenon, <1>1 DEF BrokerLinks, Feeder
<1>6. ASSUME sinkBins' = sinkBins, NEW i
      PROVE  Made(i)' = Made(i) /\ OutLinks(i)' = OutLinks(i)
  <2>1. Made(i)' = Made(i)
    BY Zenon, <1>6 DEF Made
  <2>2. BinLinks(i, Made(i))' = BinLinks(i, Made(i))
    BY Zenon, <1>3, <2>1
  <2>. QED
    BY Zenon, <1>4, <1>5, <2>1, <2>2 DEF OutLinks
<1>. QED
  BY Zenon, <1>3, <1>4, <1>5, <1>6

(* Links of the spine and links to the brokers leave the outputs alone.    *)
LEMMA OutputsRest ==
  ASSUME OutputsInv, SameInBuild, sinkBins' = sinkBins,
         step \in Building, step' \in Building, Outs' = Outs,
         NEW h, Spine(h) = h, NEW b, Spine(b) = {},
         graph' = (graph \cup h) \cup b, ToBrokers' = ToBrokers \cup b
  PROVE  OutputsInv'
<1> DEFINE U == UNION {OutLinks(i) : i \in Outs}
<1>1. OutputsLinked
  BY Zenon DEF OutputsInv
<1>2. /\ \A i : Made(i)' = Made(i) /\ OutLinks(i)' = OutLinks(i) /\ Mine(i)' = Mine(i)
      /\ \A i : UnknownSink(i)' <=> UnknownSink(i)
  BY Zenon, SameOutputs, SameViews
<1>3. U' = U
  BY Zenon, <1>2
<1>4. graph = Spine(graph) \cup U \cup ToBrokers
  BY Zenon, <1>1 DEF OutputsLinked
<1>5. Spine(graph') = Spine(graph) \cup h
  <2>1. Spine(graph \cup h) = Spine(graph) \cup Spine(h)
    BY Zenon, SpineJoin
  <2>2. Spine((graph \cup h) \cup b) = Spine(graph \cup h) \cup Spine(b)
    BY Zenon, SpineJoin
  <2>. QED
    BY <2>1, <2>2
<1> HIDE DEF U
<1>6. graph' = Spine(graph') \cup U' \cup ToBrokers'
  BY <1>3, <1>4, <1>5
<1>7. /\ \A i \in Instances : i \notin Outs' => Made(i)' = {}
      /\ \A i \in Outs' :
           /\ i \in Instances /\ ~UnknownSink(i)'
           /\ Made(i)' = Mine(i)' \/ (Mine(i)' = {} /\ Made(i)' \subseteq {0})
  BY Zenon, <1>1, <1>2 DEF OutputsLinked
<1>8. Instances' = Instances
  BY Zenon DEF Instances, Slots
<1>9. OutputsLinked'
  BY Zenon, <1>6, <1>7, <1>8 DEF OutputsLinked, U
<1>10. \A s \in Building : s \notin {"idle", "sources"}
  BY DEF Building
<1>. QED
  BY Zenon, <1>9, <1>10 DEF OutputsInv

(* One more output, of the instance i.                                     *)
LEMMA OneOutput ==
  ASSUME OutputsInv, Shaped(cfg), SameInBuild, DOMAIN sinkBins = Instances,
         NEW i \in Instances, i \notin Outs, ~UnknownSink(i),
         sinkBins' = [sinkBins EXCEPT ![i] = SinkBinOf(i)],
         step = "outputs", step' \in {"outputs", "example"}, Outs' = Outs \cup {i},
         NEW h, Spine(h) = h,
         graph' = ((graph \cup InstanceLinks(i)) \cup h) \cup {<<Feeder, Entry(i)>>}
  PROVE  OutputsInv' /\ Made(i)' = SubsMade(i)
<1>1. OutputsLinked /\ step' \in Building /\ step' \notin {"idle", "sources"}
      /\ step' \notin {"last", "built"} /\ step \notin {"last", "built"}
  BY DEF OutputsInv, Building
<1>2. /\ \A j : Mine(j)' = Mine(j) /\ Entry(j)' = Entry(j)
      /\ \A j : UnknownSink(j)' <=> UnknownSink(j)
      /\ \A j, ks : BinLinks(j, ks)' = BinLinks(j, ks)
      /\ Feeder' = Feeder
  BY Zenon, SameOutputs, SameViews
<1>3. Made(i) = {}
  BY Zenon, <1>1 DEF OutputsLinked
<1>4. SubsMade(i) \subseteq Slots(MaxSinks)
  <2>1. 0 \in Slots(MaxSinks) /\ \A k \in Slots(cfg.nsink) : k \in Slots(MaxSinks)
    BY ConfigAssumption DEF Shaped, Slots
  <2>. QED
    BY Zenon, <2>1 DEF SubsMade, Mine
<1>5. Made(i)' = SubsMade(i)
  <2> DEFINE f == [k \in Slots(MaxSinks) |->
                     IF k \in SubsMade(i) THEN "made" ELSE sinkBins[i].sinks[k]]
  <2>1. SinkBinOf(i).sinks = f /\ sinkBins'[i] = SinkBinOf(i)
    <3>1. SinkBinOf(i).sinks = f
      BY DEF SinkBinOf
    <3>. QED
      BY Zenon, <3>1
  <2>2. \A k \in Slots(MaxSinks) :
          f[k] = IF k \in SubsMade(i) THEN "made" ELSE sinkBins[i].sinks[k]
    BY Zenon
  <2> HIDE DEF f
  <2>3. \A k \in Slots(MaxSinks) : sinkBins[i].sinks[k] # "made"
    BY Zenon, <1>3 DEF Made
  <2>4. Made(i)' = {k \in Slots(MaxSinks) : f[k] = "made"}
    BY Zenon, <2>1 DEF Made, Slots
  <2>. QED
    BY Zenon, <1>4, <2>2, <2>3, <2>4
<1>6. ASSUME NEW j \in Instances, j # i
      PROVE  Made(j)' = Made(j) /\ OutLinks(j)' = OutLinks(j)
  <2>1. Made(j)' = Made(j)
    <3>1. sinkBins'[j] = sinkBins[j]
      BY Zenon, <1>6
    <3>. QED
      BY Zenon, <3>1 DEF Made, Slots
  <2>2. BinLinks(j, Made(j))' = BinLinks(j, Made(j))
    BY Zenon, <1>2, <2>1
  <2>. QED
    BY Zenon, <1>2, <2>1, <2>2 DEF OutLinks
<1>7. OutLinks(i)' = InstanceLinks(i) \cup {<<Feeder, Entry(i)>>}
  <2>1. BinLinks(i, Made(i))' = BinLinks(i, SubsMade(i))
    BY Zenon, <1>2, <1>5
  <2>2. BinLinks(i, SubsMade(i)) = InstanceLinks(i)
    BY Zenon DEF BinLinks, InstanceLinks, OnTee
  <2>. QED
    BY Zenon, <1>2, <2>1, <2>2 DEF OutLinks
<1>8. \A j \in Outs : j \in Instances /\ j # i
  BY Zenon, <1>1 DEF OutputsLinked
<1> DEFINE U == UNION {OutLinks(j) : j \in Outs}
<1>9. U' = U \cup OutLinks(i)'
  <2>1. U' = UNION {OutLinks(j)' : j \in Outs'}
    BY Zenon
  <2>2. U' = (UNION {OutLinks(j)' : j \in Outs}) \cup OutLinks(i)'
    BY Zenon, <2>1
  <2>3. \A j \in Outs : OutLinks(j)' = OutLinks(j)
    BY Zenon, <1>6, <1>8
  <2>. QED
    BY Zenon, <2>2, <2>3
<1>10. graph = Spine(graph) \cup U
  BY Zenon, <1>1 DEF OutputsLinked, ToBrokers
<1>11. Spine(graph') = Spine(graph) \cup h
  <2> DEFINE a == graph \cup InstanceLinks(i)
             e == {<<Feeder, Entry(i)>>}
  <2>1. Spine(InstanceLinks(i)) = {} /\ Spine(e) = {}
    BY Zenon, InstanceInside
  <2>2. Spine(a) = Spine(graph) \cup Spine(InstanceLinks(i))
    BY Zenon, SpineJoin
  <2> HIDE DEF a, e
  <2>3. /\ Spine(a \cup h) = Spine(a) \cup Spine(h)
        /\ Spine((a \cup h) \cup e) = Spine(a \cup h) \cup Spine(e)
    BY Zenon, SpineJoin
  <2>4. graph' = (a \cup h) \cup e
    BY Zenon DEF a, e
  <2>. QED
    BY <2>1, <2>2, <2>3, <2>4
<1> HIDE DEF U
<1>12. graph' = Spine(graph') \cup U'
  BY <1>7, <1>9, <1>10, <1>11
<1>13. OutputsLinked'
  <2>1. graph' = Spine(graph') \cup U' \cup ToBrokers'
    BY Zenon, <1>1, <1>12 DEF ToBrokers
  <2>2. Instances' = Instances
    BY Zenon DEF Instances, Slots
  <2>3. \A j \in Instances : j \notin Outs' => Made(j)' = {}
    BY Zenon, <1>1, <1>6 DEF OutputsLinked
  <2>4. SubsMade(i) = Mine(i) \/ (Mine(i) = {} /\ SubsMade(i) \subseteq {0})
    BY Zenon DEF SubsMade
  <2>5. \A j \in Outs' :
          /\ j \in Instances /\ ~UnknownSink(j)'
          /\ Made(j)' = Mine(j)' \/ (Mine(j)' = {} /\ Made(j)' \subseteq {0})
    BY Zenon, <1>1, <1>2, <1>5, <1>6, <1>8, <2>4 DEF OutputsLinked
  <2>. QED
    BY Zenon, <2>1, <2>2, <2>3, <2>5 DEF OutputsLinked, U
<1>. QED
  BY Zenon, <1>1, <1>5, <1>13 DEF OutputsInv

(* A sink bin counts its sinks and has a pointer for each it may have.     *)
PointersTyped ==
  \A i \in Instances :
    DOMAIN sinkBins[i] = {"num", "sinks"} /\ DOMAIN sinkBins[i].sinks = Slots(MaxSinks)

LEMMA OutputsBegin ==
  BuildInv /\ OutputsInv
  /\ (Parse \/ CreatePipeline \/ BuildSources \/ BuildMultiSource \/ ElementFails)
    => OutputsInv'
<1> SUFFICES ASSUME BuildInv, OutputsInv,
                    Parse \/ CreatePipeline \/ BuildSources \/ BuildMultiSource
                      \/ ElementFails
             PROVE  OutputsInv'
  OBVIOUS
<1>1. ASSUME step' \in {"failed", "crashed"} PROVE OutputsInv'
  BY <1>1 DEF OutputsInv, Building
<1>2. ASSUME sinkBins' = sinkBins PROVE \A i : Made(i)' = Made(i)
  BY Zenon, <1>2 DEF Made, Slots
<1>3. Instances' = Instances
  BY Zenon DEF Instances, Slots
<1>4. ASSUME step \in {"idle", "sources"}, step' \in {"idle", "sources"},
             graph' = graph, sinkBins' = sinkBins
      PROVE  OutputsInv'
  <2>1. step' \notin Building
    BY <1>4 DEF Building
  <2>. QED
    BY Zenon, <1>2, <1>3, <1>4, <2>1 DEF OutputsInv
<1>5. ASSUME step = "sources", step' = "outputs", graph' = graph, sinkBins' = sinkBins,
             at' = 0
      PROVE  OutputsInv'
  <2>1. step \in {"idle", "sources"} /\ step' \notin {"idle", "sources"}
        /\ step' \notin {"last", "built"}
    BY <1>5
  <2>2. graph' = {} /\ \A i \in Instances : Made(i)' = {}
    BY Zenon, <1>2, <1>5, <2>1 DEF OutputsInv
  <2>3. Slots(at') = {}
    BY <1>5 DEF Slots
  <2>4. Outs' = {}
    <3>1. Slots(at)' = {}
      BY <2>3 DEF Slots
    <3>. QED
      BY <1>5, <3>1 DEF Outs
  <2>5. Spine(graph') = {}
    BY Zenon, <2>2 DEF Spine
  <2>6. ToBrokers' = {}
    BY Zenon, <2>1 DEF ToBrokers
  <2>7. UNION {OutLinks(i)' : i \in Outs'} = {}
    BY Zenon, <2>4
  <2>8. graph' = Spine(graph') \cup (UNION {OutLinks(i)' : i \in Outs'}) \cup ToBrokers'
    BY <2>2, <2>5, <2>6, <2>7
  <2>9. OutputsLinked'
    BY Zenon, <1>3, <2>2, <2>4, <2>8 DEF OutputsLinked
  <2>. QED
    BY Zenon, <2>1, <2>9 DEF OutputsInv
<1>6. CASE Parse
  <2>1. step = "idle"
    BY Zenon, <1>6, ParserNotDone DEF Parse, BuildInv, Where
  <2>2. graph' = graph /\ sinkBins' = sinkBins /\ step' = step
    BY Zenon, <1>6 DEF Parse, building
  <2>. QED
    BY <1>4, <2>1, <2>2
<1>7. CASE CreatePipeline
  BY <1>4, <1>7 DEF CreatePipeline, GoTo
<1>8. CASE BuildSources
  BY <1>1, <1>5, <1>8 DEF BuildSources, GoTo, Abandon
<1>9. CASE BuildMultiSource
  BY Zenon, <1>5, <1>9 DEF BuildMultiSource, GoTo
<1>10. CASE ElementFails
  BY <1>1, <1>10 DEF ElementFails, Abandon
<1>. QED
  BY Zenon, <1>6, <1>7, <1>8, <1>9, <1>10

LEMMA OutputsEnd ==
  ASSUME PointersTyped, DestroyPipeline
  PROVE  OutputsInv'
<1>1. step' = "idle" /\ graph' = {}
      /\ sinkBins' = [i \in Instances |->
           [sinkBins[i] EXCEPT !.sinks = [k \in Slots(MaxSinks) |->
              IF @[k] = "made" THEN "freed" ELSE @[k]]]]
  BY Zenon DEF DestroyPipeline, GoTo
<1>2. ASSUME NEW i \in Instances PROVE Made(i)' = {}
  <2> DEFINE f == [k \in Slots(MaxSinks) |->
                     IF sinkBins[i].sinks[k] = "made" THEN "freed" ELSE sinkBins[i].sinks[k]]
  <2>1. sinkBins'[i] = [sinkBins[i] EXCEPT !.sinks = f]
    BY Zenon, <1>1
  <2>2. \A k \in Slots(MaxSinks) : f[k] # "made"
    OBVIOUS
  <2> HIDE DEF f
  <2>3. sinkBins'[i].sinks = f
    BY <2>1 DEF PointersTyped
  <2>4. Made(i)' = {k \in Slots(MaxSinks) : sinkBins'[i].sinks[k] = "made"}
    BY Zenon DEF Made, Slots
  <2>. QED
    BY Zenon, <2>2, <2>3, <2>4
<1>3. Instances' = Instances
  BY Zenon DEF Instances, Slots
<1>4. step' \notin Building
  BY <1>1 DEF Building
<1>. QED
  BY Zenon, <1>1, <1>2, <1>3, <1>4 DEF OutputsInv

(* The links of the spine and of the brokers, from where they lead to.     *)
LEMMA SpineWhole ==
  ASSUME NEW h, \A l \in h : \E n \in 1 .. 12 : l[2] = E(n)
  PROVE  Spine(h) = h
BY Zenon, Positions DEF Spine

LEMMA BrokersOff == Spine(BrokerLinks) = {} /\ Spine({}) = {}
<1>1. "queue" \in OutNames /\ \A a, b : <<a, b>>[2] = b
  BY DEF OutNames
<1>2. \A l \in BrokerLinks : Inside(l[2])
  BY Zenon, <1>1 DEF Inside, Sub, BrokerLinks
<1>3. Spine({}) = {}
  BY Zenon DEF Spine
<1>. QED
  BY Zenon, <1>2, <1>3, InsideIsOff

LEMMA OutputsTiled ==
  ASSUME BuildInv, OutputsInv, BuildTiled
  PROVE  OutputsInv' /\ (step' = "example" => Made(0)' = SubsMade(0))
<1>1. CASE step' \in {"failed", "crashed"}
  BY <1>1 DEF OutputsInv, Building
<1>2. CASE step' \notin {"failed", "crashed"}
  <2>1. "failed" \in {"failed", "crashed"} /\ "crashed" \in {"failed", "crashed"}
    OBVIOUS
  <2>2. /\ Tiled /\ ~UnknownSink(0) /\ step = "outputs" /\ step' = "example"
        /\ cfg' = [cfg EXCEPT !.tiles = Readjusted(@)]
        /\ sinkBins' = [sinkBins EXCEPT ![0] = SinkBinOf(0)]
        /\ graph' = graph \cup InstanceLinks(0)
             \cup {<<Elem("tiler_tee"), Elem("tiler")>>, <<Elem("tiler"), Entry(0)>>}
    BY Zenon, <1>2, <2>1 DEF BuildTiled, Probe, Abandon, GoTo
  <2>3. Shaped(cfg) /\ DOMAIN sinkBins = Instances
    BY Zenon DEF BuildInv, Where
  <2>4. SameInBuild
    BY <2>2, <2>3, TilesSame
  <2>5. 0 \in Instances
    BY ConfigAssumption DEF Instances, Slots
  <2>6. Outs = {} /\ Outs' = {0} /\ 0 \notin Outs
    <3>1. Tiled'
      BY Zenon, <2>2, <2>4, SameViews
    <3>. QED
      BY <2>2, <3>1 DEF Outs
  <2> DEFINE h == {<<Elem("tiler_tee"), Elem("tiler")>>}
  <2>7. Spine(h) = h
    <3>1. E(11) = Elem("tiler") /\ 11 \in 1 .. 12
      BY Positions DEF E
    <3>. QED
      BY Zenon, <3>1, SpineOfLink
  <2>8. graph' = ((graph \cup InstanceLinks(0)) \cup h) \cup {<<Feeder, Entry(0)>>}
    <3>1. Feeder = Elem("tiler")
      BY <2>2 DEF Feeder
    <3>2. graph' = ((graph \cup InstanceLinks(0)) \cup {<<Elem("tiler_tee"), Elem("tiler")>>})
                     \cup {<<Elem("tiler"), Entry(0)>>}
      BY <2>2
    <3>. QED
      BY Zenon, <3>1, <3>2
  <2>9. step' \in {"outputs", "example"} /\ Outs' = Outs \cup {0}
    BY <2>2, <2>6
  <2> HIDE DEF h
  <2>. QED
    BY Zenon, <2>2, <2>3, <2>4, <2>5, <2>6, <2>7, <2>8, <2>9, OneOutput
<1>. QED
  BY Zenon, <1>1, <1>2

LEMMA NextSlot ==
  ASSUME NEW n \in Nat
  PROVE  Slots(n + 1) = Slots(n) \cup {n} /\ n \notin Slots(n)
BY DEF Slots

LEMMA OutputsDemuxed ==
  ASSUME BuildInv, BuildTypes, ParserTypes, OutputsInv, BuildDemuxed
  PROVE  OutputsInv'
<1>1. CASE step' = "failed"
  BY <1>1 DEF OutputsInv, Building
<1>2. CASE step' # "failed"
  <2>1. /\ step = "outputs" /\ step' = "outputs" /\ ~Tiled /\ at < cfg.nsrc /\ at' = at + 1
        /\ cfg' = cfg
        /\ \/ Mine(at) = {} /\ graph' = graph /\ sinkBins' = sinkBins
           \/ /\ Mine(at) # {} /\ ~UnknownSink(at)
              /\ sinkBins' = [sinkBins EXCEPT ![at] = SinkBinOf(at)]
              /\ graph' = graph \cup InstanceLinks(at)
                      \cup {<<Elem("demuxer"), Entry(at)>>}
    BY Zenon, <1>2 DEF BuildDemuxed, Abandon, vars
  <2>2. Shaped(cfg) /\ DOMAIN sinkBins = Instances /\ at \in Nat /\ cfg.nsrc \in 0 .. MaxSources
    BY Zenon DEF BuildInv, Where, ParserTypes, Counts
  <2>3. at \in Instances /\ MaxSources \in Nat
    BY <2>1, <2>2, ConfigAssumption DEF Instances, Slots
  <2>4. SameInBuild /\ (Tiled' <=> Tiled) /\ \A i : Mine(i)' = Mine(i)
    BY Zenon, <2>1, SameWhenUnchanged, SameViews
  <2>5. Outs = {i \in Slots(at) : Mine(i) # {}}
    BY <2>1 DEF Outs
  <2>6. Outs' = {i \in Slots(at') : Mine(i) # {}}
    <3>1. Outs' = {i \in Slots(at') : Mine(i)' # {}}
      BY Zenon, <2>1, <2>4 DEF Outs, Slots
    <3>. QED
      BY Zenon, <2>4, <3>1
  <2>7. Slots(at') = Slots(at) \cup {at} /\ at \notin Slots(at)
    BY <2>1, <2>2, NextSlot
  <2>8. CASE Mine(at) = {} /\ graph' = graph /\ sinkBins' = sinkBins
    <3>1. Outs' = Outs
      BY Zenon, <2>5, <2>6, <2>7, <2>8
    <3>2. step \in Building /\ step' \in Building /\ step' \notin {"last", "built"}
          /\ step \notin {"last", "built"}
      BY <2>1 DEF Building
    <3>3. ToBrokers' = {} /\ ToBrokers = {}
      BY Zenon, <3>2 DEF ToBrokers
    <3>4. graph' = (graph \cup {}) \cup {} /\ ToBrokers' = ToBrokers \cup {}
      BY <2>8, <3>3
    <3>. QED
      BY Zenon, <2>4, <2>8, <3>1, <3>2, <3>4, BrokersOff, OutputsRest
  <2>9. CASE /\ Mine(at) # {} /\ ~UnknownSink(at)
             /\ sinkBins' = [sinkBins EXCEPT ![at] = SinkBinOf(at)]
             /\ graph' = graph \cup InstanceLinks(at)
                     \cup {<<Elem("demuxer"), Entry(at)>>}
    <3>1. Outs' = Outs \cup {at} /\ at \notin Outs
      <4>1. \A i : i \in Outs' <=> i \in Outs \/ i = at
        BY Zenon, <2>5, <2>6, <2>7, <2>9
      <4>2. at \notin Outs
        BY Zenon, <2>5, <2>7
      <4>. QED
        BY <4>1, <4>2
    <3>2. graph' = ((graph \cup InstanceLinks(at)) \cup {}) \cup {<<Feeder, Entry(at)>>}
      <4>1. Feeder = Elem("demuxer")
        BY <2>1 DEF Feeder
      <4>. QED
        BY <2>9, <4>1
    <3>3. step' \in {"outputs", "example"}
      BY <2>1
    <3>. QED
      BY Zenon, <2>1, <2>2, <2>3, <2>4, <2>9, <3>1, <3>2, <3>3, BrokersOff, OneOutput
  <2>. QED
    BY Zenon, <2>1, <2>8, <2>9
<1>. QED
  BY Zenon, <1>1, <1>2

(* Once the outputs are made, they stay.                                   *)
LEMMA OutsStay ==
  ASSUME SameInBuild, cfg'.nsrc = cfg.nsrc,
         step # "outputs" \/ (~Tiled /\ at = cfg.nsrc), step' # "outputs"
  PROVE  Outs' = Outs
<1>1. (Tiled' <=> Tiled) /\ \A i : Mine(i)' = Mine(i)
  BY Zenon, SameViews
<1>2. CASE Tiled
  BY <1>1, <1>2 DEF Outs
<1>3. CASE ~Tiled
  <2>1. Outs = {i \in Slots(cfg.nsrc) : Mine(i) # {}}
    BY <1>3 DEF Outs
  <2>2. Outs' = {i \in Slots(cfg.nsrc) : Mine(i)' # {}}
    BY Zenon, <1>1, <1>3 DEF Outs, Slots
  <2>. QED
    BY Zenon, <1>1, <2>1, <2>2
<1>. QED
  BY <1>2, <1>3

(* Steps that add links to the spine.                                      *)
LEMMA OutputsSpine ==
  ASSUME OutputsInv, SameInBuild, cfg'.nsrc = cfg.nsrc, sinkBins' = sinkBins,
         step \in Building, step' \in Building \ {"outputs"},
         step # "outputs" \/ (~Tiled /\ at = cfg.nsrc),
         \/ step \in {"last", "built"} /\ step' \in {"last", "built"}
         \/ step \notin {"last", "built"} /\ step' \notin {"last", "built"},
         graph \subseteq graph',
         \A l \in graph' : l \in graph \/ \E n \in 1 .. 12 : l[2] = E(n)
  PROVE  OutputsInv'
<1> DEFINE h == graph' \ graph
<1>1. step' \in Building /\ step' # "outputs"
  OBVIOUS
<1>2. Outs' = Outs
  BY Zenon, <1>1, OutsStay
<1>3. ToBrokers' = ToBrokers
  BY Zenon, SameOutputs DEF ToBrokers
<1>4. Spine(h) = h /\ Spine({}) = {}
  <2>1. \A l \in h : \E n \in 1 .. 12 : l[2] = E(n)
    BY Zenon
  <2> HIDE DEF h
  <2>. QED
    BY Zenon, <2>1, SpineWhole, BrokersOff
<1>5. graph' = (graph \cup h) \cup {} /\ ToBrokers' = ToBrokers \cup {}
  BY <1>3
<1> HIDE DEF h
<1>. QED
  BY Zenon, <1>1, <1>2, <1>4, <1>5, OutputsRest

LEMMA MoreLinks ==
  ASSUME NEW b, \E n \in 1 .. 12 : b = E(n), NEW a,
         graph' = graph \cup {<<a, b>>}
  PROVE  /\ graph \subseteq graph'
         /\ \A l \in graph' : l \in graph \/ \E n \in 1 .. 12 : l[2] = E(n)
<1>1. \A l \in {<<a, b>>} : l[2] = b
  OBVIOUS
<1>. QED
  BY Zenon, <1>1

LEMMA OutputsLater ==
  ASSUME BuildInv, BuildTypes, ChainInv, OutputsInv,
         DemuxDone \/ BuildExample \/ BuildCommon \/ BuildTee \/ LinkSources
  PROVE  OutputsInv'
<1>1. /\ \A n \in 1 .. 12 : E(n) = Elem(Order[n])
      /\ \A a, b : <<a, b>>[2] = b
      /\ E(9) = Elem("dsexample") /\ E(7) = Elem("msg_conv") /\ E(8) = Elem("tee")
      /\ 7 \in 1 .. 12 /\ 8 \in 1 .. 12 /\ 9 \in 1 .. 12
  BY Positions DEF E
<1>2. \A a, b : Part(a, b) \subseteq 1 .. 12
  BY Zenon, PassedAt DEF Part
<1>3. Shaped(cfg)
  BY Zenon DEF BuildInv, Where
<1>4. ASSUME cfg' = cfg PROVE SameInBuild /\ cfg'.nsrc = cfg.nsrc
  BY Zenon, <1>4, SameWhenUnchanged
<1>5. /\ {"outputs", "example", "common", "broker", "last", "built"} = Building
      /\ {"example", "common", "broker", "last", "built"} = Building \ {"outputs"}
  BY DEF Building
<1>6. CASE DemuxDone
  <2>1. /\ step = "outputs" /\ ~Tiled /\ at = cfg.nsrc /\ step' = "example"
        /\ cfg' = cfg /\ graph' = graph /\ sinkBins' = sinkBins
    BY Zenon, <1>6 DEF DemuxDone, GoTo, vars
  <2>2. /\ step \in Building /\ step' \in Building \ {"outputs"}
        /\ step' \notin {"last", "built"} /\ step \notin {"last", "built"}
    BY <1>5, <2>1
  <2>. QED
    BY Zenon, <1>4, <2>1, <2>2, OutputsSpine
<1>7. CASE BuildExample
  <2>1. /\ step = "example" /\ step' = "common" /\ cfg' = cfg /\ sinkBins' = sinkBins
        /\ graph' = graph \/ graph' = graph \cup {<<Elem("dsexample"), ends.last>>}
    BY Zenon, <1>7 DEF BuildExample, GoTo, vars
  <2>2. \E n \in 1 .. 12 : ends.last = E(n)
    BY Zenon, <1>2, <2>1 DEF ChainInv, LinkedAs, Least
  <2>3. /\ graph \subseteq graph'
        /\ \A l \in graph' : l \in graph \/ \E n \in 1 .. 12 : l[2] = E(n)
    BY Zenon, <1>1, <2>1, <2>2, MoreLinks
  <2>4. /\ step \in Building /\ step' \in Building \ {"outputs"} /\ step # "outputs"
        /\ step' \notin {"last", "built"} /\ step \notin {"last", "built"}
    BY <1>5, <2>1
  <2>. QED
    BY Zenon, <1>4, <2>1, <2>3, <2>4, OutputsSpine
<1>8. CASE BuildCommon
  <2>1. /\ step = "common" /\ step' = step /\ sinkBins' = sinkBins
        /\ cfg' = cfg \/ \E e : cfg' = BatchOverridden(e)
        /\ \/ graph' = graph
           \/ \E e : graph' = graph \cup IF ends.sink = None THEN {}
                                         ELSE {<<Elem(e), ends.sink>>}
    BY Zenon, <1>8 DEF BuildCommon
  <2>2. SameInBuild /\ cfg'.nsrc = cfg.nsrc
    BY Zenon, <1>3, <1>4, <2>1, BatchSame
  <2>3. ends.sink # None => \E n \in 1 .. 12 : ends.sink = E(n)
    BY Zenon, <1>2, <2>1 DEF ChainInv, LinkedAs, Least
  <2>4. /\ graph \subseteq graph'
        /\ \A l \in graph' : l \in graph \/ \E n \in 1 .. 12 : l[2] = E(n)
    <3>1. CASE graph' = graph
      BY Zenon, <3>1
    <3>2. CASE graph' # graph
      <4>1. ends.sink # None /\ \E a : graph' = graph \cup {<<a, ends.sink>>}
        BY <2>1, <3>2
      <4>. QED
        BY Zenon, <2>3, <4>1, MoreLinks
    <3>. QED
      BY Zenon, <3>1, <3>2
  <2>5. /\ step \in Building /\ step' \in Building \ {"outputs"} /\ step # "outputs"
        /\ step' \notin {"last", "built"} /\ step \notin {"last", "built"}
    BY <1>5, <2>1
  <2>. QED
    BY Zenon, <2>1, <2>2, <2>4, <2>5, OutputsSpine
<1>9. CASE BuildTee
  <2>1. /\ step = "common" /\ step' = "broker" /\ cfg' = cfg /\ sinkBins' = sinkBins
        /\ graph' = graph \/ graph' = graph \cup TeeLinks
    BY Zenon, <1>9 DEF BuildTee, GoTo, vars
  <2>2. \A l \in TeeLinks : l[2] = E(7) \/ l[2] = E(8)
    <3>1. \A l \in {<<ends.src, Elem("msg_conv")>>, <<Elem("msg_conv"), Elem("tee")>>} :
            l[2] = E(7) \/ l[2] = E(8)
      BY <1>1
    <3>2. \A l \in {<<ends.src, Elem("tee")>>} : l[2] = E(7) \/ l[2] = E(8)
      BY <1>1
    <3>. QED
      BY Zenon, <3>1, <3>2 DEF TeeLinks
  <2>3. /\ graph \subseteq graph'
        /\ \A l \in graph' : l \in graph \/ \E n \in 1 .. 12 : l[2] = E(n)
    BY Zenon, <1>1, <2>1, <2>2
  <2>4. /\ step \in Building /\ step' \in Building \ {"outputs"} /\ step # "outputs"
        /\ step' \notin {"last", "built"} /\ step \notin {"last", "built"}
    BY <1>5, <2>1
  <2>. QED
    BY Zenon, <1>4, <2>1, <2>3, <2>4, OutputsSpine
<1>10. CASE LinkSources
  <2>1. /\ step = "last" /\ step' = "built" /\ cfg' = cfg /\ sinkBins' = sinkBins
        /\ graph' = graph \cup
             IF ends.src = None THEN {<<Elem("source"), ends.last>>}
             ELSE {<<ends.src, ends.last>>, <<Elem("source"), ends.sink>>}
    BY Zenon, <1>10 DEF LinkSources, GoTo, vars
  <2>2. LinkedAs(graph, ends, Part(2, 8), Part(9, 12))
    BY <2>1 DEF ChainInv
  <2>3. \E n \in 1 .. 12 : ends.last = E(n)
    BY Zenon, <1>2, <2>2 DEF LinkedAs, Least
  <2>4. ends.src # None => \E n \in 1 .. 12 : ends.sink = E(n)
    BY Zenon, <1>2, <2>2 DEF LinkedAs, Least
  <2>5. /\ graph \subseteq graph'
        /\ \A l \in graph' : l \in graph \/ \E n \in 1 .. 12 : l[2] = E(n)
    <3>1. \A l \in {<<ends.src, ends.last>>, <<Elem("source"), ends.sink>>} :
            l[2] = ends.last \/ l[2] = ends.sink
      OBVIOUS
    <3>2. CASE ends.src = None
      <4>1. graph' = graph \cup {<<Elem("source"), ends.last>>}
        BY <2>1, <3>2
      <4>. QED
        BY Zenon, <2>3, <4>1, MoreLinks
    <3>3. CASE ends.src # None
      <4>1. graph' = graph \cup {<<ends.src, ends.last>>, <<Elem("source"), ends.sink>>}
        BY <2>1, <3>3
      <4>. QED
        BY Zenon, <2>3, <2>4, <3>1, <3>3, <4>1
    <3>. QED
      BY Zenon, <3>2, <3>3
  <2>6. /\ step \in Building /\ step' \in Building \ {"outputs"} /\ step # "outputs"
        /\ step' \in {"last", "built"} /\ step \in {"last", "built"}
    BY <1>5, <2>1
  <2>. QED
    BY Zenon, <1>4, <2>1, <2>5, <2>6, OutputsSpine
<1>. QED
  BY Zenon, <1>6, <1>7, <1>8, <1>9, <1>10

LEMMA OutputsBroker ==
  ASSUME OutputsInv, LinkBroker
  PROVE  OutputsInv'
<1>1. /\ step = "broker" /\ cfg' = cfg
      /\ \/ step' = "failed"
         \/ /\ step' = "last" /\ sinkBins' = sinkBins
            /\ graph' = graph \cup {<<Elem("tee"), Sub(0, k, "queue")>> : k \in Brokers}
  BY Zenon DEF LinkBroker, GoTo, Abandon, vars
<1>2. CASE step' = "failed"
  BY <1>2 DEF OutputsInv, Building
<1>3. CASE step' # "failed"
  <2>1. /\ step' = "last" /\ sinkBins' = sinkBins /\ graph' = (graph \cup {}) \cup BrokerLinks
    BY <1>1, <1>3 DEF BrokerLinks
  <2>2. /\ step \in Building /\ step' \in Building /\ step # "outputs" /\ step' # "outputs"
        /\ step \notin {"last", "built"} /\ step' \in {"last", "built"}
    BY <1>1, <2>1 DEF Building
  <2>3. SameInBuild /\ cfg'.nsrc = cfg.nsrc
    BY Zenon, <1>1, SameWhenUnchanged
  <2>4. Outs' = Outs
    BY Zenon, <2>2, <2>3, OutsStay
  <2>5. ToBrokers' = BrokerLinks /\ ToBrokers = {}
    BY Zenon, <2>2, <2>3, SameOutputs DEF ToBrokers
  <2>6. ToBrokers' = ToBrokers \cup BrokerLinks
    BY <2>5
  <2>. QED
    BY Zenon, <2>1, <2>2, <2>3, <2>4, <2>6, BrokersOff, OutputsRest
<1>. QED
  BY Zenon, <1>2, <1>3

-----------------------------------------------------------------------------
(* The rows and columns the tiler is given are enough.                     *)
LEMMA RootExists ==
  ASSUME NEW n \in Nat \ {0}
  PROVE  Root(n) \in 1 .. n
<1> DEFINE S == {r \in Nat : n <= r * r + r}
<1>1. n \in S
  <2>1. n * n \in Nat
    OBVIOUS
  <2>. QED
    BY <2>1
<1>2. PICK m \in S : \A r \in S : m <= r
  BY <1>1, LeastNumber
<1>3. m \in Nat /\ n <= m * m + m /\ m <= n
  BY <1>1, <1>2
<1>4. m # 0
  BY <1>3
<1>5. ~(n <= (m - 1) * (m - 1) + (m - 1))
  <2>1. m - 1 \in Nat /\ m - 1 \notin S
    BY <1>2, <1>3, <1>4
  <2>. QED
    BY <2>1
<1>6. (m - 1) * (m - 1) + (m - 1) = m * m - m
  BY <1>3
<1>7. m \in 0 .. n /\ m * m - m < n /\ n <= m * m + m
  BY <1>3, <1>5, <1>6
<1> HIDE DEF S
<1>8. \E r \in 0 .. n : r * r - r < n /\ n <= r * r + r
  BY Zenon, <1>7
<1>9. Root(n) \in 0 .. n /\ n <= Root(n) * Root(n) + Root(n)
  BY Zenon, <1>8 DEF Root
<1>10. Root(n) # 0
  BY <1>9
<1>. QED
  BY <1>9, <1>10

LEMMA RoundedUpEnough ==
  ASSUME NEW n \in Nat, NEW d \in Nat \ {0}
  PROVE  RoundedUp(n, d) \in Nat /\ RoundedUp(n, d) * d >= n
<1>1. ASSUME NEW m \in Int, m >= 0, NEW c \in Int, c > 0
      PROVE  ((m + c - 1) \div c) * c >= m
  BY <1>1
<1>2. ASSUME NEW a \in Int, a >= 0, NEW c \in Int, c > 0
      PROVE  a \div c >= 0 /\ a \div c \in Int
  BY <1>2
<1>3. n \in Int /\ n >= 0 /\ d \in Int /\ d > 0 /\ n + d - 1 \in Int /\ n + d - 1 >= 0
  OBVIOUS
<1>4. ((n + d - 1) \div d) * d >= n
  BY Zenon, <1>1, <1>3
<1>5. (n + d - 1) \div d >= 0 /\ (n + d - 1) \div d \in Int
  BY Zenon, <1>2, <1>3
<1>. QED
  BY <1>4, <1>5 DEF RoundedUp

LEMMA ReadjustedEnough ==
  ASSUME NEW t, DOMAIN t = {"rows", "columns"}, t.rows \in Nat, t.columns \in Nat,
         cfg.nsrc \in Nat
  PROVE  LET u == Readjusted(t) IN
         /\ DOMAIN u = {"rows", "columns"} /\ u.rows \in Nat /\ u.columns \in Nat
         /\ u.rows * u.columns >= cfg.nsrc
<1>1. CASE t.rows * t.columns >= cfg.nsrc
  BY <1>1 DEF Readjusted
<1>2. CASE ~(t.rows * t.columns >= cfg.nsrc)
  <2> DEFINE c == IF t.columns = 0 THEN Root(cfg.nsrc) ELSE t.columns
  <2>1. cfg.nsrc # 0
    <3>1. t.rows * t.columns \in Nat
      OBVIOUS
    <3>. QED
      BY <1>2, <3>1
  <2>2. Root(cfg.nsrc) \in 1 .. cfg.nsrc
    BY <2>1, RootExists
  <2>3. c \in Nat \ {0}
    BY <2>2
  <2>4. Readjusted(t) = [rows |-> RoundedUp(cfg.nsrc, c), columns |-> c]
    BY <1>2 DEF Readjusted
  <2> HIDE DEF c
  <2>5. RoundedUp(cfg.nsrc, c) \in Nat /\ RoundedUp(cfg.nsrc, c) * c >= cfg.nsrc
    BY Zenon, <2>3, RoundedUpEnough
  <2>. QED
    BY <2>3, <2>4, <2>5
<1>. QED
  BY <1>1, <1>2

(* The tiles and the sinks stay as they are, or are readjusted.            *)
Finished == Building \ {"outputs"}
TilesInv ==
  /\ Sane(cfg)
  /\ Tiled /\ step \in Finished => cfg.tiles.rows * cfg.tiles.columns >= cfg.nsrc

LEMMA TilesNext ==
  ASSUME BuildInv, ParserTypes, TilesInv, [BuildNext]_buildVars
  PROVE  TilesInv'
<1>1. /\ Shaped(cfg) /\ Sane(cfg) /\ Counts(cfg) /\ DOMAIN cfg = DOMAIN EmptyConfig
      /\ cfg.nsrc \in Nat
  BY ConfigAssumption DEF BuildInv, Where, TilesInv, ParserTypes, Counts
<1>2. ASSUME cfg' = cfg, step' \in Finished => step \in Finished \/ ~Tiled
      PROVE  TilesInv'
  <2>1. Sane(cfg')
    BY Zenon, <1>1, <1>2
  <2>2. Tiled' <=> Tiled
    BY Zenon, <1>2, SameWhenUnchanged, SameViews
  <2>. QED
    BY Zenon, <1>2, <2>1, <2>2 DEF TilesInv
<1>3. CASE Parse
  <2>1. step = "idle" /\ step' = step
    BY Zenon, <1>3, ParserNotDone DEF Parse, BuildInv, Where, building
  <2>2. step' \notin Finished
    BY <2>1 DEF Finished, Building
  <2>3. Sane(cfg')
    BY Zenon, <1>1, <1>3, SaneParse DEF Parse
  <2>. QED
    BY Zenon, <2>2, <2>3 DEF TilesInv
<1>4. CASE BuildMultiSource
  <2>1. step' = "outputs" /\ cfg' = [cfg EXCEPT
               !.nsrc = IF @ = 0 THEN 1 ELSE @,
               !.mux.batch = IF cfg.mux.parsed THEN cfg.maxBatch ELSE @]
    BY Zenon, <1>4 DEF BuildMultiSource, GoTo
  <2>2. cfg'.nsink = cfg.nsink /\ cfg'.sink = cfg.sink /\ cfg'.tiles = cfg.tiles
    BY <1>1, <2>1, FieldsOfConfig
  <2>3. step' \notin Finished
    BY <2>1 DEF Finished
  <2>. QED
    BY Zenon, <1>1, <2>2, <2>3 DEF TilesInv, Sane
<1>5. CASE BuildTiled
  <2>1. CASE step' \in {"failed", "crashed"}
    <3>1. cfg' = cfg
      <4>1. "example" \notin {"failed", "crashed"}
        OBVIOUS
      <4>. QED
        BY Zenon, <1>5, <2>1, <4>1 DEF BuildTiled, Probe, Abandon, GoTo
    <3>2. step' \notin Finished
      BY <2>1 DEF Finished, Building
    <3>. QED
      BY Zenon, <1>2, <3>1, <3>2
  <2>2. CASE step' \notin {"failed", "crashed"}
    <3>1. "failed" \in {"failed", "crashed"} /\ "crashed" \in {"failed", "crashed"}
      OBVIOUS
    <3>2. cfg' = [cfg EXCEPT !.tiles = Readjusted(@)]
      BY Zenon, <1>5, <2>2, <3>1 DEF BuildTiled, Probe, Abandon
    <3>3. /\ cfg'.nsink = cfg.nsink /\ cfg'.sink = cfg.sink /\ cfg'.nsrc = cfg.nsrc
          /\ cfg'.tiles = Readjusted(cfg.tiles)
      BY <1>1, <3>2, FieldsOfConfig
    <3> DEFINE u == Readjusted(cfg.tiles)
    <3>4. /\ DOMAIN u = {"rows", "columns"} /\ u.rows \in Nat /\ u.columns \in Nat
          /\ u.rows * u.columns >= cfg.nsrc
      BY Zenon, <1>1, ReadjustedEnough DEF Sane
    <3> HIDE DEF u
    <3>. QED
      BY Zenon, <1>1, <3>3, <3>4 DEF TilesInv, Sane, u
  <2>. QED
    BY Zenon, <2>1, <2>2
<1>6. CASE BuildCommon
  <2>1. step = "common" /\ step' = step
        /\ (cfg' = cfg \/ \E e : cfg' = BatchOverridden(e))
    BY Zenon, <1>6 DEF BuildCommon
  <2>2. CASE cfg' = cfg
    BY Zenon, <1>2, <2>1, <2>2
  <2>3. ASSUME NEW e, cfg' = BatchOverridden(e) PROVE TilesInv'
    <3>1. SameInBuild /\ cfg'.nsrc = cfg.nsrc
      BY Zenon, <1>1, <2>3, BatchSame
    <3>2. cfg'.tiles = cfg.tiles
      <4>1. CASE cfg' = cfg
        BY Zenon, <4>1
      <4>2. CASE cfg' = [cfg EXCEPT !.primary.batch = cfg.maxBatch]
        BY <1>1, <4>2, FieldsOfConfig
      <4>3. ASSUME NEW x, cfg' = [cfg EXCEPT !.gie = x] PROVE cfg'.tiles = cfg.tiles
        BY <1>1, <4>3, FieldsOfConfig
      <4>. QED
        BY <2>3, <4>1, <4>2, <4>3 DEF BatchOverridden
    <3>3. Tiled' <=> Tiled
      BY Zenon, <3>1, SameViews
    <3>. QED
      BY Zenon, <1>1, <2>1, <3>1, <3>2, <3>3 DEF TilesInv, Sane, SameInBuild
  <2>. QED
    BY Zenon, <2>1, <2>2, <2>3
<1>7. CASE \/ CreatePipeline \/ ElementFails \/ BuildSources \/ BuildDemuxed \/ DestroyPipeline
           \/ DemuxDone \/ BuildExample \/ BuildTee \/ LinkBroker \/ LinkSources
           \/ UNCHANGED buildVars
  <2>1. /\ cfg' = cfg
        /\ \/ step' \in {"sources", "failed", "outputs", "idle"}
           \/ step' = step
           \/ step = "outputs" /\ ~Tiled
           \/ step \in {"example", "common", "broker", "last"}
    BY Zenon, <1>7 DEF CreatePipeline, ElementFails, BuildSources, BuildDemuxed,
       DestroyPipeline, DemuxDone, BuildExample, BuildTee, LinkBroker, LinkSources, Abandon,
       GoTo, vars, building, buildVars
  <2>2. step' \in Finished => step \in Finished \/ ~Tiled
    BY <2>1 DEF Finished, Building
  <2>. QED
    BY Zenon, <1>2, <2>1, <2>2
<1>. QED
  BY Zenon, <1>3, <1>4, <1>5, <1>6, <1>7 DEF BuildNext

-----------------------------------------------------------------------------
(* The pointers of the first sink bin show sinks of the first instance, or *)
(* the fake one of the tiler.  Brokers are linked when there are analytics *)
(* and a pointer for each of them, and the first pipeline's tiler has a    *)
(* sink to feed.                                                           *)
PointersInv ==
  /\ PointersTyped
  /\ \A k \in Slots(MaxSinks) :
       sinkBins[0].sinks[k] # "none" => builds # 0 /\ (Tiled \/ k \in Mine(0))
BrokersInv ==
  step \in {"last", "built"} =>
    \A k \in Brokers : Analytics /\ sinkBins[0].sinks[k] # "none"
FakeInv == builds = 1 /\ Tiled /\ step \in Finished => Made(0) # {}

LEMMA PointersInit == BuildInit => PointersInv
<1> SUFFICES ASSUME BuildInit PROVE PointersInv
  OBVIOUS
<1>1. sinkBins = [i \in Instances |->
                   [num |-> 0, sinks |-> [k \in Slots(MaxSinks) |-> "none"]]]
  BY Zenon DEF BuildInit
<1>2. 0 \in Instances
  BY ConfigAssumption DEF Instances, Slots
<1> DEFINE f == [k \in Slots(MaxSinks) |-> "none"]
<1>3. DOMAIN f = Slots(MaxSinks) /\ \A k \in Slots(MaxSinks) : f[k] = "none"
  OBVIOUS
<1>4. \A i \in Instances : sinkBins[i] = [num |-> 0, sinks |-> f]
  BY Zenon, <1>1
<1> HIDE DEF f
<1>5. DOMAIN [num |-> 0, sinks |-> f] = {"num", "sinks"} /\ [num |-> 0, sinks |-> f].sinks = f
  OBVIOUS
<1>6. PointersTyped
  BY Zenon, <1>3, <1>4, <1>5 DEF PointersTyped
<1>7. \A k \in Slots(MaxSinks) : sinkBins[0].sinks[k] = "none"
  BY Zenon, <1>2, <1>3, <1>4, <1>5
<1>. QED
  BY Zenon, <1>6, <1>7 DEF PointersInv

LEMMA BinOf ==
  ASSUME NEW i
  PROVE  /\ DOMAIN SinkBinOf(i) = {"num", "sinks"}
         /\ DOMAIN SinkBinOf(i).sinks = Slots(MaxSinks)
         /\ \A k \in Slots(MaxSinks) :
              SinkBinOf(i).sinks[k] = IF k \in SubsMade(i) THEN "made"
                                      ELSE sinkBins[i].sinks[k]
<1> DEFINE f == [k \in Slots(MaxSinks) |->
                   IF k \in SubsMade(i) THEN "made" ELSE sinkBins[i].sinks[k]]
           n == sinkBins[i].num + Cardinality(SubsMade(i))
<1>1. SinkBinOf(i) = [num |-> n, sinks |-> f]
  BY Zenon DEF SinkBinOf
<1>2. DOMAIN f = Slots(MaxSinks)
      /\ \A k \in Slots(MaxSinks) :
           f[k] = IF k \in SubsMade(i) THEN "made" ELSE sinkBins[i].sinks[k]
  BY Zenon
<1> HIDE DEF f, n
<1>3. DOMAIN [num |-> n, sinks |-> f] = {"num", "sinks"} /\ [num |-> n, sinks |-> f].sinks = f
  OBVIOUS
<1>. QED
  BY Zenon, <1>1, <1>2, <1>3

LEMMA PointersNext ==
  ASSUME BuildInv, ParserTypes, PointersInv, [BuildNext]_buildVars
  PROVE  PointersInv'
<1>1. /\ Shaped(cfg) /\ DOMAIN sinkBins = Instances /\ builds \in Nat
      /\ step # "idle" => builds # 0
  BY Zenon DEF BuildInv, Where
<1>2. 0 \in Instances /\ Instances' = Instances
  <2>1. Instances' = Instances
    BY Zenon DEF Instances, Slots
  <2>. QED
    BY <2>1, ConfigAssumption DEF Instances, Slots
<1>3. ASSUME SameInBuild, sinkBins' = sinkBins, builds # 0 => builds' # 0
      PROVE  PointersInv'
  <2>1. (Tiled' <=> Tiled) /\ Mine(0)' = Mine(0) /\ Slots(MaxSinks)' = Slots(MaxSinks)
    BY Zenon, <1>3, SameViews DEF Slots
  <2>2. PointersTyped'
    BY Zenon, <1>2, <1>3 DEF PointersInv, PointersTyped, Slots
  <2>. QED
    BY Zenon, <1>3, <2>1, <2>2 DEF PointersInv, Slots
<1>4. ASSUME NEW i \in Instances, SameInBuild, step # "idle", builds' = builds,
             sinkBins' = [sinkBins EXCEPT ![i] = SinkBinOf(i)],
             Tiled \/ SubsMade(i) = Mine(i)
      PROVE  PointersInv'
  <2>1. (Tiled' <=> Tiled) /\ Mine(0)' = Mine(0) /\ Slots(MaxSinks)' = Slots(MaxSinks)
    BY Zenon, <1>4, SameViews DEF Slots
  <2>2. /\ sinkBins'[i] = SinkBinOf(i)
        /\ \A j \in Instances : j # i => sinkBins'[j] = sinkBins[j]
    BY Zenon, <1>1, <1>4
  <2>3. PointersTyped'
    <3>1. ASSUME NEW j \in Instances
          PROVE  /\ DOMAIN sinkBins'[j] = {"num", "sinks"}
                 /\ DOMAIN sinkBins'[j].sinks = Slots(MaxSinks)
      <4>1. CASE j = i
        BY Zenon, <2>2, <4>1, BinOf
      <4>2. CASE j # i
        BY Zenon, <2>2, <4>2 DEF PointersInv, PointersTyped
      <4>. QED
        BY Zenon, <4>1, <4>2
    <3>. QED
      BY Zenon, <1>2, <2>1, <3>1 DEF PointersTyped
  <2>4. ASSUME NEW k \in Slots(MaxSinks), sinkBins'[0].sinks[k] # "none"
        PROVE  Tiled \/ k \in Mine(0)
    <3>1. CASE i = 0
      <4>1. SinkBinOf(0).sinks[k] # "none"
        BY Zenon, <2>2, <2>4, <3>1
      <4>2. k \in SubsMade(0) \/ sinkBins[0].sinks[k] # "none"
        BY Zenon, <4>1, BinOf
      <4>. QED
        BY Zenon, <1>4, <3>1, <4>2 DEF PointersInv
    <3>2. CASE i # 0
      BY Zenon, <1>2, <2>2, <2>4, <3>2 DEF PointersInv
    <3>. QED
      BY Zenon, <3>1, <3>2
  <2>. QED
    BY Zenon, <1>1, <1>4, <2>1, <2>3, <2>4 DEF PointersInv
<1>5. CASE Parse
  <2>1. sinkBins' = sinkBins /\ ~(builds > 0)
    BY Zenon, <1>5, ParserNotDone DEF Parse, BuildInv, Where, building
  <2>2. \A k \in Slots(MaxSinks) : sinkBins'[0].sinks[k] = "none"
    <3>1. builds = 0
      BY <1>1, <2>1
    <3>. QED
      BY Zenon, <2>1, <3>1 DEF PointersInv
  <2>3. PointersTyped'
    BY Zenon, <1>2, <2>1 DEF PointersInv, PointersTyped, Slots
  <2>. QED
    BY Zenon, <2>2, <2>3 DEF PointersInv, Slots
<1>6. CASE CreatePipeline
  <2>1. cfg' = cfg /\ sinkBins' = sinkBins /\ builds' = builds + 1
    BY Zenon, <1>6 DEF CreatePipeline, vars
  <2>2. builds' # 0
    BY <1>1, <2>1
  <2>. QED
    BY Zenon, <1>3, <2>1, <2>2, SameWhenUnchanged
<1>7. CASE \/ ElementFails \/ BuildSources \/ DemuxDone \/ BuildExample \/ BuildTee
           \/ LinkBroker \/ LinkSources \/ UNCHANGED buildVars
  <2>1. cfg' = cfg /\ sinkBins' = sinkBins /\ builds' = builds
    BY Zenon, <1>7 DEF ElementFails, BuildSources, DemuxDone, BuildExample, BuildTee,
       LinkBroker, LinkSources, Abandon, vars, building, buildVars
  <2>. QED
    BY Zenon, <1>3, <2>1, SameWhenUnchanged
<1>8. CASE BuildMultiSource
  <2>1. SameInBuild /\ sinkBins' = sinkBins /\ builds' = builds
    BY Zenon, <1>1, <1>8, MultiSourceSame DEF BuildMultiSource
  <2>. QED
    BY Zenon, <1>3, <2>1
<1>9. CASE BuildCommon
  <2>1. SameInBuild
    BY Zenon, <1>1, <1>9, SameWhenUnchanged, BatchSame DEF BuildCommon
  <2>2. sinkBins' = sinkBins /\ builds' = builds
    BY Zenon, <1>9 DEF BuildCommon
  <2>. QED
    BY Zenon, <1>3, <2>1, <2>2
<1>10. CASE BuildTiled
  <2>1. step = "outputs" /\ Tiled /\ builds' = builds
        /\ \/ cfg' = cfg /\ sinkBins' = sinkBins
           \/ /\ cfg' = [cfg EXCEPT !.tiles = Readjusted(@)]
              /\ sinkBins' = [sinkBins EXCEPT ![0] = SinkBinOf(0)]
    BY Zenon, <1>10 DEF BuildTiled, Probe, Abandon
  <2>2. CASE cfg' = cfg /\ sinkBins' = sinkBins
    BY Zenon, <1>3, <2>1, <2>2, SameWhenUnchanged
  <2>3. CASE /\ cfg' = [cfg EXCEPT !.tiles = Readjusted(@)]
             /\ sinkBins' = [sinkBins EXCEPT ![0] = SinkBinOf(0)]
    <3>1. SameInBuild /\ step # "idle"
      BY <1>1, <2>1, <2>3, TilesSame
    <3>. QED
      BY Zenon, <1>2, <1>4, <2>1, <2>3, <3>1
  <2>. QED
    BY Zenon, <2>1, <2>2, <2>3
<1>11. CASE BuildDemuxed
  <2>1. /\ step = "outputs" /\ builds' = builds /\ cfg' = cfg
        /\ \/ sinkBins' = sinkBins
           \/ /\ Mine(at) # {}
              /\ sinkBins' = [sinkBins EXCEPT ![at] = SinkBinOf(at)]
    BY Zenon, <1>11 DEF BuildDemuxed, Abandon, vars
  <2>2. CASE sinkBins' = sinkBins
    BY Zenon, <1>3, <2>1, <2>2, SameWhenUnchanged
  <2>3. CASE Mine(at) # {} /\ sinkBins' = [sinkBins EXCEPT ![at] = SinkBinOf(at)]
    <3>1. SubsMade(at) = Mine(at) /\ step # "idle"
      BY <2>1, <2>3 DEF SubsMade
    <3>2. at \in Instances
      <4>1. at \in Nat /\ cfg.nsrc \in 0 .. MaxSources /\ MaxSources \in Nat
        BY ConfigAssumption DEF BuildInv, Where, ParserTypes, Counts
      <4>2. at < cfg.nsrc
        BY Zenon, <1>11 DEF BuildDemuxed
      <4>. QED
        BY <4>1, <4>2 DEF Instances, Slots
    <3>. QED
      BY Zenon, <1>4, <2>1, <2>3, <3>1, <3>2, SameWhenUnchanged
  <2>. QED
    BY Zenon, <2>1, <2>2, <2>3
<1>12. CASE DestroyPipeline
  <2>1. /\ cfg' = cfg /\ builds' = builds
        /\ sinkBins' = [i \in Instances |->
             [sinkBins[i] EXCEPT !.sinks = [k \in Slots(MaxSinks) |->
                IF @[k] = "made" THEN "freed" ELSE @[k]]]]
    BY Zenon, <1>12 DEF DestroyPipeline, vars
  <2>2. ASSUME NEW i \in Instances
        PROVE  /\ DOMAIN sinkBins'[i] = {"num", "sinks"}
               /\ DOMAIN sinkBins'[i].sinks = Slots(MaxSinks)
               /\ \A k \in Slots(MaxSinks) :
                    sinkBins'[i].sinks[k] # "none" => sinkBins[i].sinks[k] # "none"
    <3> DEFINE f == [k \in Slots(MaxSinks) |->
                       IF sinkBins[i].sinks[k] = "made" THEN "freed" ELSE sinkBins[i].sinks[k]]
    <3>1. sinkBins'[i] = [sinkBins[i] EXCEPT !.sinks = f]
      BY Zenon, <2>1
    <3>2. DOMAIN f = Slots(MaxSinks)
          /\ \A k \in Slots(MaxSinks) : f[k] # "none" => sinkBins[i].sinks[k] # "none"
      OBVIOUS
    <3> HIDE DEF f
    <3>3. DOMAIN sinkBins'[i] = {"num", "sinks"} /\ sinkBins'[i].sinks = f
      BY <3>1 DEF PointersInv, PointersTyped
    <3>. QED
      BY Zenon, <3>2, <3>3
  <2>3. (Tiled' <=> Tiled) /\ Mine(0)' = Mine(0) /\ Slots(MaxSinks)' = Slots(MaxSinks)
    BY Zenon, <2>1, SameWhenUnchanged, SameViews DEF Slots
  <2>4. PointersTyped'
    BY Zenon, <1>2, <2>2, <2>3 DEF PointersTyped
  <2>. QED
    BY Zenon, <1>2, <2>1, <2>2, <2>3, <2>4 DEF PointersInv
<1>. QED
  BY Zenon, <1>5, <1>6, <1>7, <1>8, <1>9, <1>10, <1>11, <1>12 DEF BuildNext

LEMMA BrokersNext ==
  ASSUME BuildInv, ChainInv, BrokersInv, [BuildNext]_buildVars
  PROVE  BrokersInv'
<1>1. ASSUME step' \notin {"last", "built"} PROVE BrokersInv'
  BY Zenon, <1>1 DEF BrokersInv
<1>2. ASSUME cfg' = cfg
      PROVE  Brokers' = Brokers /\ (Analytics' <=> Analytics)
  <2>1. SameInBuild
    BY Zenon, <1>2, SameWhenUnchanged
  <2>. QED
    BY Zenon, <2>1, SameViews DEF Analytics
<1>3. ASSUME cfg' = cfg, sinkBins' = sinkBins, step \in {"last", "built"}
      PROVE  BrokersInv'
  BY Zenon, <1>2, <1>3 DEF BrokersInv
<1>4. CASE Parse \/ UNCHANGED buildVars
  <2>1. CASE Parse
    <3>1. step = "idle" /\ step' = step
      BY Zenon, <2>1, ParserNotDone DEF Parse, BuildInv, Where, building
    <3>2. step' \notin {"last", "built"}
      BY <3>1
    <3>. QED
      BY Zenon, <1>1, <3>2
  <2>2. CASE UNCHANGED buildVars
    <3>1. cfg' = cfg /\ sinkBins' = sinkBins /\ step' = step
      BY Zenon, <2>2 DEF buildVars, vars, building
    <3>. QED
      BY Zenon, <1>1, <1>3, <3>1
  <2>. QED
    BY Zenon, <1>4, <2>1, <2>2
<1>5. CASE \/ CreatePipeline \/ ElementFails \/ BuildSources \/ BuildMultiSource
           \/ BuildTiled \/ BuildDemuxed \/ DemuxDone \/ BuildExample \/ BuildCommon
           \/ BuildTee \/ DestroyPipeline
  <2>1. \/ step' \in {"sources", "failed", "crashed", "outputs", "example", "common", "broker",
                      "idle"}
        \/ step \in {"outputs", "common"} /\ step' = step
    BY Zenon, <1>5 DEF CreatePipeline, ElementFails, BuildSources, BuildMultiSource,
       BuildTiled, BuildDemuxed, DemuxDone, BuildExample, BuildCommon, BuildTee,
       DestroyPipeline, Probe, Abandon, GoTo
  <2>2. step' \notin {"last", "built"}
    BY <2>1
  <2>. QED
    BY Zenon, <1>1, <2>2
<1>6. CASE LinkSources
  <2>1. step = "last" /\ cfg' = cfg /\ sinkBins' = sinkBins
    BY Zenon, <1>6 DEF LinkSources, vars
  <2>. QED
    BY <1>3, <2>1
<1>7. CASE LinkBroker
  <2>1. /\ step = "broker" /\ cfg' = cfg
        /\ \/ step' = "failed"
           \/ /\ sinkBins' = sinkBins
              /\ Brokers # {} => /\ ends.src # None
                                 /\ \A k \in Brokers : sinkBins[0].sinks[k] # "none"
    BY Zenon, <1>7 DEF LinkBroker, Abandon, GoTo, vars
  <2>2. CASE step' = "failed"
    BY <1>1, <2>2
  <2>3. CASE /\ sinkBins' = sinkBins
             /\ Brokers # {} => /\ ends.src # None
                                /\ \A k \in Brokers : sinkBins[0].sinks[k] # "none"
    <3>1. ends.src # None => Analytics
      <4>1. LinkedAs(graph, ends, Part(2, 8), Part(9, 12))
        BY <2>1 DEF ChainInv
      <4>2. Part(2, 8) \in SUBSET (1 .. 12)
        BY PassedAt DEF Part
      <4>3. ends.src # None => Part(2, 8) # {}
        BY Zenon, <4>1, <4>2, EndsOpen
      <4>4. /\ Part(7, 8) = IF Part(2, 6) = {} THEN {}
                            ELSE IF cfg.msgconv # 0 THEN {7, 8} ELSE {8}
            /\ Part(2, 8) = Part(2, 6) \cup Part(7, 8)
        BY Zenon, PartsOfPassed
      <4>5. Part(2, 8) # {} => 8 \in Part(7, 8)
        BY <4>4
      <4>. QED
        BY Zenon, <4>3, <4>5, PassedAt DEF Part
    <3>2. \A k \in Brokers : Analytics /\ sinkBins[0].sinks[k] # "none"
      BY Zenon, <2>3, <3>1
    <3>. QED
      BY Zenon, <1>2, <2>1, <2>3, <3>2 DEF BrokersInv
  <2>. QED
    BY Zenon, <2>1, <2>2, <2>3
<1>. QED
  BY Zenon, <1>4, <1>5, <1>6, <1>7 DEF BuildNext

LEMMA FakeNext ==
  ASSUME BuildInv, OutputsInv, FakeInv, [BuildNext]_buildVars
  PROVE  FakeInv'
<1>1. ASSUME step' \notin Finished PROVE FakeInv'
  BY Zenon, <1>1 DEF FakeInv
<1>2. ASSUME SameInBuild, sinkBins' = sinkBins, builds' = builds,
             step \in Finished \/ ~Tiled
      PROVE  FakeInv'
  <2>1. (Tiled' <=> Tiled) /\ Made(0)' = Made(0)
    BY Zenon, <1>2, SameViews, SameOutputs
  <2>. QED
    BY Zenon, <1>2, <2>1 DEF FakeInv
<1>3. /\ Shaped(cfg) /\ builds \in Nat
      /\ builds = 1 /\ step = "outputs" /\ Tiled => sinkBins[0].num = 0
  BY DEF BuildInv, Where, FirstInv, First
<1>4. CASE Parse
  <2>1. step = "idle" /\ step' = step
    BY Zenon, <1>4, ParserNotDone DEF Parse, BuildInv, Where, building
  <2>2. step' \notin Finished
    BY <2>1 DEF Finished, Building
  <2>. QED
    BY Zenon, <1>1, <2>2
<1>5. CASE \/ CreatePipeline \/ ElementFails \/ BuildSources \/ BuildMultiSource
           \/ BuildDemuxed \/ DestroyPipeline
  <2>1. \/ step' \in {"sources", "failed", "outputs", "idle"}
        \/ step = "outputs" /\ step' = step
    BY Zenon, <1>5 DEF CreatePipeline, ElementFails, BuildSources, BuildMultiSource,
       BuildDemuxed, DestroyPipeline, Abandon, GoTo
  <2>2. step' \notin Finished
    BY <2>1 DEF Finished, Building
  <2>. QED
    BY Zenon, <1>1, <2>2
<1>6. CASE \/ DemuxDone \/ BuildExample \/ BuildTee \/ LinkBroker \/ LinkSources
           \/ UNCHANGED buildVars
  <2>1. /\ cfg' = cfg /\ builds' = builds /\ sinkBins' = sinkBins
        /\ \/ step = "outputs" /\ ~Tiled
           \/ step \in {"example", "common", "broker", "last"}
           \/ step' = step
    BY Zenon, <1>6 DEF DemuxDone, BuildExample, BuildTee, LinkBroker, LinkSources, Abandon,
       GoTo, vars, building, buildVars
  <2>2. SameInBuild
    BY Zenon, <2>1, SameWhenUnchanged
  <2>3. step' \in Finished => step \in Finished \/ ~Tiled
    BY <2>1 DEF Finished, Building
  <2>. QED
    BY Zenon, <1>1, <1>2, <2>1, <2>2, <2>3
<1>7. CASE BuildCommon
  <2>1. SameInBuild /\ sinkBins' = sinkBins /\ builds' = builds /\ step = "common"
    BY Zenon, <1>3, <1>7, SameWhenUnchanged, BatchSame DEF BuildCommon
  <2>2. step \in Finished
    BY <2>1 DEF Finished, Building
  <2>. QED
    BY Zenon, <1>2, <2>1, <2>2
<1>8. CASE BuildTiled
  <2>1. /\ step = "outputs" /\ Tiled /\ builds' = builds
        /\ step' \in {"failed", "crashed", "example"}
    BY Zenon, <1>8 DEF BuildTiled, Probe, Abandon, GoTo
  <2>2. CASE step' \in {"failed", "crashed"}
    <3>1. step' \notin Finished
      BY <2>2 DEF Finished, Building
    <3>. QED
      BY Zenon, <1>1, <3>1
  <2>3. CASE step' = "example"
    <3>1. Made(0)' = SubsMade(0)
      BY Zenon, <1>8, <2>3, OutputsTiled
    <3>2. builds = 1 => SubsMade(0) # {}
      <4>1. sinkBins[0].num = 0 => SubsMade(0) # {}
        BY DEF SubsMade
      <4>. QED
        BY Zenon, <1>3, <2>1, <4>1
    <3>. QED
      BY Zenon, <2>1, <3>1, <3>2 DEF FakeInv
  <2>. QED
    BY <2>1, <2>2, <2>3
<1>. QED
  BY Zenon, <1>4, <1>5, <1>6, <1>7, <1>8 DEF BuildNext

-----------------------------------------------------------------------------
(* All that holds while pipelines are built.                               *)
Fed ==
  /\ FilesType /\ NumbersInv /\ BuildInv /\ ParserTypes /\ BuildTypes /\ ChainInv
  /\ OutputsInv /\ PointersInv /\ BrokersInv /\ FakeInv /\ TilesInv

LEMMA FedInit == BuildInit => Fed
<1> SUFFICES ASSUME BuildInit PROVE Fed
  OBVIOUS
<1>1. step = "idle" /\ graph = {} /\ cfg = EmptyConfig
  BY Zenon DEF BuildInit, Init
<1>2. step \notin Building /\ step \notin {"last", "built"} /\ step \notin Finished
  BY <1>1 DEF Building, Finished
<1>3. PointersInv
  BY Zenon, PointersInit
<1>4. \A i \in Instances : Made(i) = {}
  <2>1. sinkBins = [i \in Instances |->
                     [num |-> 0, sinks |-> [k \in Slots(MaxSinks) |-> "none"]]]
    BY Zenon DEF BuildInit
  <2>2. \A i \in Instances : \A k \in Slots(MaxSinks) : sinkBins[i].sinks[k] # "made"
    BY <2>1
  <2>. QED
    BY Zenon, <2>2 DEF Made
<1>5. OutputsInv
  BY Zenon, <1>1, <1>2, <1>4 DEF OutputsInv
<1>6. BrokersInv /\ FakeInv /\ TilesInv
  BY Zenon, <1>1, <1>2, SaneEmpty DEF BrokersInv, FakeInv, TilesInv
<1>. QED
  BY Zenon, <1>3, <1>5, <1>6, BuildInvInit, NumbersInit, TypesInit, ChainInit DEF Fed

LEMMA OutputsNext ==
  ASSUME Fed, [BuildNext]_buildVars
  PROVE  OutputsInv'
<1>1. BuildInv /\ ParserTypes /\ BuildTypes /\ ChainInv /\ OutputsInv /\ PointersTyped
  BY Zenon DEF Fed, PointersInv
<1>2. CASE UNCHANGED buildVars
  <2>1. /\ cfg' = cfg /\ step' = step /\ at' = at /\ graph' = graph /\ sinkBins' = sinkBins
    BY Zenon, <1>2 DEF buildVars, vars, building
  <2>2. SameInBuild
    BY Zenon, <2>1, SameWhenUnchanged
  <2>3. /\ (Tiled' <=> Tiled) /\ Instances' = Instances
        /\ \A i : Mine(i)' = Mine(i) /\ Made(i)' = Made(i) /\ OutLinks(i)' = OutLinks(i)
        /\ \A i : UnknownSink(i)' <=> UnknownSink(i)
        /\ BrokerLinks' = BrokerLinks
    BY Zenon, <2>1, <2>2, SameViews, SameOutputs DEF Instances, Slots
  <2>4. Outs' = Outs /\ ToBrokers' = ToBrokers
    BY Zenon, <2>1, <2>3 DEF Outs, ToBrokers, Slots
  <2>5. OutputsLinked => OutputsLinked'
    BY Zenon, <2>1, <2>3, <2>4 DEF OutputsLinked
  <2>. QED
    BY Zenon, <1>1, <2>1, <2>3, <2>5 DEF OutputsInv
<1>3. CASE BuildTiled
  BY Zenon, <1>1, <1>3, OutputsTiled
<1>4. CASE BuildDemuxed
  BY Zenon, <1>1, <1>4, OutputsDemuxed
<1>5. CASE DemuxDone \/ BuildExample \/ BuildCommon \/ BuildTee \/ LinkSources
  BY Zenon, <1>1, <1>5, OutputsLater
<1>6. CASE LinkBroker
  BY Zenon, <1>1, <1>6, OutputsBroker
<1>7. CASE DestroyPipeline
  BY Zenon, <1>1, <1>7, OutputsEnd
<1>8. CASE Parse \/ CreatePipeline \/ BuildSources \/ BuildMultiSource \/ ElementFails
  BY Zenon, <1>1, <1>8, OutputsBegin
<1>. QED
  BY Zenon, <1>2, <1>3, <1>4, <1>5, <1>6, <1>7, <1>8 DEF BuildNext

LEMMA FedNext == Fed /\ [BuildNext]_buildVars => Fed'
<1> SUFFICES ASSUME Fed, [BuildNext]_buildVars PROVE Fed'
  OBVIOUS
<1>1. /\ FilesType /\ NumbersInv /\ BuildInv /\ ParserTypes /\ BuildTypes /\ ChainInv
      /\ OutputsInv /\ PointersInv /\ BrokersInv /\ FakeInv /\ TilesInv
  BY Zenon DEF Fed
<1>2. (FilesType /\ NumbersInv)'
  BY Zenon, <1>1, NumbersNext
<1>3. BuildInv' /\ ChainInv'
  BY Zenon, <1>1, BuildInvNext, ChainNext
<1>4. ParserTypes' /\ BuildTypes'
  BY Zenon, <1>1, BuildTypesNext
<1>5. OutputsInv' /\ PointersInv'
  BY Zenon, <1>1, OutputsNext, PointersNext
<1>6. BrokersInv' /\ FakeInv' /\ TilesInv'
  BY Zenon, <1>1, BrokersNext, FakeNext, TilesNext
<1>. QED
  BY Zenon, <1>2, <1>3, <1>4, <1>5, <1>6 DEF Fed

-----------------------------------------------------------------------------
(* The links of a pipeline that is built.                                  *)
Inner(l, i) ==
  \E k \in Made(i) : \E n \in 1 .. Len(MadeElements(i, k)) - 1 :
    l = <<Sub(i, k, MadeElements(i, k)[n]), Sub(i, k, MadeElements(i, k)[n + 1])>>
OnTheTee(l, i) ==
  \E k \in Made(i) : /\ k \in Mine(i) => cfg.sink[k].type # Broker
                     /\ l = <<SinkBin(i), Sub(i, k, "queue")>>
OnOsd(l, i) == cfg.part["osd"].enable # 0 /\ l = <<Osd(i), SinkBin(i)>>

LEMMA OutLinkKinds ==
  ASSUME NEW i, NEW l
  PROVE  l \in OutLinks(i) <=>
           Inner(l, i) \/ OnTheTee(l, i) \/ OnOsd(l, i) \/ l = <<Feeder, Entry(i)>>
<1> DEFINE A == UNION {SubLinks(i, k, MadeElements(i, k)) : k \in Made(i)}
           B == {<<SinkBin(i), Sub(i, k, "queue")>> :
                   k \in {j \in Made(i) : j \in Mine(i) => cfg.sink[j].type # Broker}}
           C == IF cfg.part["osd"].enable # 0 THEN {<<Osd(i), SinkBin(i)>>} ELSE {}
           D == {<<Feeder, Entry(i)>>}
<1>1. OutLinks(i) = (A \cup B \cup C) \cup D
  BY Zenon DEF OutLinks, BinLinks
<1>2. l \in A <=> Inner(l, i)
  <2>1. l \in A <=> \E k \in Made(i) : l \in SubLinks(i, k, MadeElements(i, k))
    BY Zenon
  <2>2. \A k : l \in SubLinks(i, k, MadeElements(i, k)) <=>
          \E n \in 1 .. Len(MadeElements(i, k)) - 1 :
            l = <<Sub(i, k, MadeElements(i, k)[n]), Sub(i, k, MadeElements(i, k)[n + 1])>>
    BY Zenon DEF SubLinks
  <2>. QED
    BY Zenon, <2>1, <2>2 DEF Inner
<1>3. l \in B <=> OnTheTee(l, i)
  BY Zenon DEF OnTheTee
<1>4. l \in C <=> OnOsd(l, i)
  BY Zenon DEF OnOsd
<1>5. l \in D <=> l = <<Feeder, Entry(i)>>
  BY Zenon
<1> HIDE DEF A, B, C, D
<1>. QED
  BY Zenon, <1>1, <1>2, <1>3, <1>4, <1>5

LEMMA LinkKinds ==
  ASSUME Fed, step = "built", NEW l
  PROVE  l \in graph <=>
           \/ l \in Links(Passed)
           \/ \E i \in Outs : l \in OutLinks(i)
           \/ \E k \in Brokers : l = <<Elem("tee"), Sub(0, k, "queue")>>
<1>1. step \in Building /\ step \in {"last", "built"}
  BY DEF Building
<1>2. OutputsLinked /\ Spine(graph) = Links(Passed)
  BY Zenon, <1>1 DEF Fed, OutputsInv, ChainInv
<1>3. ToBrokers = BrokerLinks
  BY Zenon, <1>1 DEF ToBrokers
<1>4. l \in BrokerLinks <=> \E k \in Brokers : l = <<Elem("tee"), Sub(0, k, "queue")>>
  BY Zenon DEF BrokerLinks
<1>5. l \in UNION {OutLinks(i) : i \in Outs} <=> \E i \in Outs : l \in OutLinks(i)
  BY Zenon
<1>6. graph = Links(Passed) \cup (UNION {OutLinks(i) : i \in Outs}) \cup BrokerLinks
  BY Zenon, <1>2, <1>3 DEF OutputsLinked
<1>. QED
  BY Zenon, <1>4, <1>5, <1>6

(* The elements of a sink that is known: its queue first, the sink last.   *)
LEMMA SinkElements ==
  ASSUME NEW i, NEW k, ~UnknownSink(i)
  PROVE  LET es == MadeElements(i, k) IN
         /\ Len(es) \in Nat /\ Len(es) >= 1 /\ es[1] = "queue" /\ es[Len(es)] = "sink"
         /\ \A n \in 1 .. Len(es) : es[n] \in OutNames
<1> DEFINE Good(e) == /\ Len(e) \in Nat /\ Len(e) >= 1 /\ e[1] = "queue" /\ e[Len(e)] = "sink"
                      /\ \A n \in 1 .. Len(e) : e[n] \in OutNames
<1>1. ASSUME NEW s, NEW e \in {RenderBin, EncodeFileBin(s), UdpsinkBin(s), MsgConvBrokerBin},
             e # <<>>
      PROVE  Good(e)
  <2>1. ASSUME NEW y \in OutNames, NEW z \in OutNames
        PROVE  Good(<<"queue", "transform", "cap_filter", "encoder", "codecparse", y, "sink">>)
    <3> DEFINE q == <<"queue", "transform", "cap_filter", "encoder", "codecparse", y, "sink">>
    <3>1. Len(q) = 7 /\ q[1] = "queue" /\ q[7] = "sink"
      OBVIOUS
    <3>2. \A n \in 1 .. 7 : q[n] \in OutNames
      <4>1. \A n \in 1 .. 7 : n = 1 \/ n = 2 \/ n = 3 \/ n = 4 \/ n = 5 \/ n = 6 \/ n = 7
        OBVIOUS
      <4>2. /\ q[1] \in OutNames /\ q[2] \in OutNames /\ q[3] \in OutNames
            /\ q[4] \in OutNames /\ q[5] \in OutNames /\ q[6] \in OutNames
            /\ q[7] \in OutNames
        BY DEF OutNames
      <4>. QED
        BY Zenon, <4>1, <4>2
    <3> HIDE DEF q
    <3>3. Good(q)
      BY <3>1, <3>2
    <3> HIDE DEF Good
    <3>. QED
      BY Zenon, <3>3 DEF q
  <2>2. "mux" \in OutNames /\ "rtppay" \in OutNames
    BY DEF OutNames
  <2>3. Good(RenderBin)
    BY DEF RenderBin, OutNames
  <2>4. Good(MsgConvBrokerBin)
    BY DEF MsgConvBrokerBin, OutNames
  <2> HIDE DEF Good
  <2>. QED
    BY <1>1, <2>1, <2>2, <2>3, <2>4 DEF EncodeFileBin, UdpsinkBin
<1> HIDE DEF Good
<1>2. CASE k \in Mine(i)
  <2>1. MadeElements(i, k) = ElementsOf(cfg.sink[k]) /\ ElementsOf(cfg.sink[k]) # <<>>
    BY Zenon, <1>2 DEF MadeElements, UnknownSink
  <2>2. ElementsOf(cfg.sink[k]) \in {RenderBin, EncodeFileBin(cfg.sink[k]),
                                     UdpsinkBin(cfg.sink[k]), MsgConvBrokerBin, <<>>}
    BY DEF ElementsOf
  <2>3. ElementsOf(cfg.sink[k]) \in {RenderBin, EncodeFileBin(cfg.sink[k]),
                                     UdpsinkBin(cfg.sink[k]), MsgConvBrokerBin}
    BY Zenon, <2>1, <2>2
  <2>. QED
    BY Zenon, <1>1, <2>1, <2>3 DEF Good
<1>3. CASE k \notin Mine(i)
  <2>1. MadeElements(i, k) = RenderBin /\ RenderBin # <<>>
    BY <1>3 DEF MadeElements, RenderBin
  <2>. QED
    BY Zenon, <1>1, <2>1 DEF Good
<1>. QED
  BY Zenon, <1>2, <1>3

(* A pipeline is finite: its elements are named, and numbered with an      *)
(* instance and a sink.                                                    *)
Names == OutNames \cup {Order[n] : n \in 1 .. 12}
Elements == {<<x, i, k>> : x \in Names, i \in Instances, k \in Slots(MaxSinks)}

LEMMA FiniteImage ==
  ASSUME NEW n \in Nat, NEW s
  PROVE  IsFiniteSet({s[m] : m \in 1 .. n})
<1> DEFINE T == {s[m] : m \in 1 .. n}
           g == [m \in 1 .. n |-> s[m]]
<1>1. g \in [1 .. n -> T] /\ \A t \in T : \E m \in 1 .. n : g[m] = t
  OBVIOUS
<1>2. IsFiniteSet(1 .. n)
  <2>1. 1 \in Int /\ n \in Int
    OBVIOUS
  <2>. QED
    BY Zenon, <2>1, FS_Interval
<1> HIDE DEF g, T
<1>3. g \in Surjection(1 .. n, T)
  BY Zenon, <1>1, Fun_IsSurj
<1>4. IsFiniteSet(T)
  BY Zenon, <1>2, <1>3, FS_Surjection
<1>. QED
  BY Zenon, <1>4 DEF T

LEMMA ElementsFinite == IsFiniteSet(Elements)
<1> DEFINE P == (Names \X Instances) \X Slots(MaxSinks)
           f == [t \in P |-> <<t[1][1], t[1][2], t[2]>>]
<1>1. IsFiniteSet(Names)
  <2>1. IsFiniteSet(OutNames)
    <3> DEFINE q == <<"osd", "sink_bin", "queue", "transform", "cap_filter", "encoder",
                      "codecparse", "mux", "rtppay", "sink">>
    <3>1. {q[m] : m \in 1 .. 10} = OutNames
      <4>1. \A m \in 1 .. 10 : \/ m = 1 \/ m = 2 \/ m = 3 \/ m = 4 \/ m = 5 \/ m = 6 \/ m = 7
                                \/ m = 8 \/ m = 9 \/ m = 10
        OBVIOUS
      <4>2. /\ q[1] = "osd" /\ q[2] = "sink_bin" /\ q[3] = "queue" /\ q[4] = "transform"
            /\ q[5] = "cap_filter" /\ q[6] = "encoder" /\ q[7] = "codecparse"
            /\ q[8] = "mux" /\ q[9] = "rtppay" /\ q[10] = "sink"
        OBVIOUS
      <4> HIDE DEF q
      <4>. QED
        BY <4>1, <4>2 DEF OutNames
    <3> HIDE DEF q
    <3>2. IsFiniteSet({q[m] : m \in 1 .. 10})
      BY FiniteImage
    <3>. QED
      BY <3>1, <3>2
  <2>2. IsFiniteSet({Order[n] : n \in 1 .. 12})
    BY FiniteImage
  <2>. QED
    BY Zenon, <2>1, <2>2, FS_Union DEF Names
<1>2. IsFiniteSet(Instances) /\ IsFiniteSet(Slots(MaxSinks))
  <2>1. MaxSources - 1 \in Int /\ MaxSinks - 1 \in Int /\ 0 \in Int
    BY ConfigAssumption
  <2>. QED
    BY Zenon, <2>1, FS_Interval DEF Instances, Slots
<1>3. IsFiniteSet(P)
  BY Zenon, <1>1, <1>2, FS_Product
<1>4. f \in Surjection(P, Elements)
  <2>1. ASSUME NEW t \in P PROVE f[t] \in Elements
    <3>1. t[1][1] \in Names /\ t[1][2] \in Instances /\ t[2] \in Slots(MaxSinks)
      OBVIOUS
    <3>2. f[t] = <<t[1][1], t[1][2], t[2]>>
      BY Zenon
    <3> HIDE DEF f, P
    <3>. QED
      BY <3>1, <3>2 DEF Elements
  <2>2. ASSUME NEW e \in Elements PROVE \E t \in P : f[t] = e
    <3>1. PICK x \in Names, i \in Instances, k \in Slots(MaxSinks) : e = <<x, i, k>>
      BY DEF Elements
    <3> DEFINE t == <<<<x, i>>, k>>
    <3>2. t \in P /\ t[1][1] = x /\ t[1][2] = i /\ t[2] = k
      BY <3>1
    <3> HIDE DEF t
    <3>3. f[t] = <<x, i, k>>
      BY Zenon, <3>2
    <3>. QED
      BY Zenon, <3>1, <3>2, <3>3
  <2>3. f \in [P -> Elements]
    <3>1. DOMAIN f = P /\ f = [t \in P |-> f[t]]
      BY Zenon
    <3> HIDE DEF f, P
    <3>. QED
      BY Zenon, <2>1, <3>1
  <2> HIDE DEF f, P
  <2>. QED
    BY Zenon, <2>2, <2>3, Fun_IsSurj
<1>. QED
  BY Zenon, <1>3, <1>4, FS_Surjection

LEMMA GraphFinite ==
  ASSUME Fed, step = "built"
  PROVE  IsFiniteSet(graph)
<1>1. /\ \A n \in 1 .. 12 : Order[n] \in Names
      /\ \A x \in OutNames : x \in Names
      /\ 0 \in Instances /\ 0 \in Slots(MaxSinks)
  <2>1. 0 \in Instances /\ 0 \in Slots(MaxSinks)
    BY ConfigAssumption DEF Instances, Slots
  <2>. QED
    BY Zenon, <2>1 DEF Names
<1>2. \A x \in Names : \A i \in Instances : \A k \in Slots(MaxSinks) : <<x, i, k>> \in Elements
  BY DEF Elements
<1>3. \A n \in 1 .. 12 : E(n) \in Elements
  BY Zenon, <1>1, <1>2 DEF E, Elem
<1>4. ASSUME NEW i \in Instances, NEW x \in OutNames
      PROVE  <<x, i, 0>> \in Elements /\ \A k \in Slots(MaxSinks) : Sub(i, k, x) \in Elements
  BY Zenon, <1>1, <1>2, <1>4 DEF Sub
<1>5. /\ "osd" \in OutNames /\ "sink_bin" \in OutNames /\ "queue" \in OutNames
      /\ \A i, k : k \in Made(i) => k \in Slots(MaxSinks)
      /\ \A a \in Elements : \A b \in Elements : <<a, b>> \in Elements \X Elements
  <2>1. "osd" \in OutNames /\ "sink_bin" \in OutNames /\ "queue" \in OutNames
    BY DEF OutNames
  <2>2. \A a \in Elements : \A b \in Elements : <<a, b>> \in Elements \X Elements
    OBVIOUS
  <2>. QED
    BY Zenon, <2>1, <2>2 DEF Made
<1>6. \A i \in Outs : i \in Instances /\ ~UnknownSink(i)
  <2>1. step \in Building
    BY DEF Building
  <2>. QED
    BY Zenon, <2>1 DEF Fed, OutputsInv, OutputsLinked
<1>7. Elem("tiler") = E(11) /\ Elem("demuxer") = E(12) /\ Elem("tee") = E(8)
      /\ 11 \in 1 .. 12 /\ 12 \in 1 .. 12 /\ 8 \in 1 .. 12
  BY Positions DEF E
<1>8. ASSUME NEW i \in Instances
      PROVE  Osd(i) \in Elements /\ SinkBin(i) \in Elements /\ Entry(i) \in Elements
             /\ Feeder \in Elements
  <2>1. Osd(i) \in Elements /\ SinkBin(i) \in Elements
    BY Zenon, <1>4, <1>5 DEF Osd, SinkBin
  <2>2. Entry(i) \in Elements
    BY Zenon, <2>1 DEF Entry
  <2>3. Feeder \in Elements
    BY Zenon, <1>3, <1>7 DEF Feeder
  <2>. QED
    BY Zenon, <2>1, <2>2, <2>3
<1>9. ASSUME NEW i \in Outs, NEW l \in OutLinks(i) PROVE l \in Elements \X Elements
  <2>1. CASE Inner(l, i)
    <3>0. PICK k \in Made(i) : \E n \in 1 .. Len(MadeElements(i, k)) - 1 :
            l = <<Sub(i, k, MadeElements(i, k)[n]), Sub(i, k, MadeElements(i, k)[n + 1])>>
      BY Zenon, <2>1 DEF Inner
    <3>1. PICK n \in 1 .. Len(MadeElements(i, k)) - 1 :
            l = <<Sub(i, k, MadeElements(i, k)[n]), Sub(i, k, MadeElements(i, k)[n + 1])>>
      BY Zenon, <3>0
    <3>2. /\ Len(MadeElements(i, k)) \in Nat
          /\ \A m \in 1 .. Len(MadeElements(i, k)) : MadeElements(i, k)[m] \in OutNames
      BY Zenon, <1>6, SinkElements
    <3>3. n \in 1 .. Len(MadeElements(i, k)) /\ n + 1 \in 1 .. Len(MadeElements(i, k))
      BY <3>2
    <3>. QED
      BY Zenon, <1>4, <1>5, <1>6, <3>1, <3>2, <3>3
  <2>2. CASE OnTheTee(l, i)
    BY Zenon, <1>4, <1>5, <1>6, <1>8, <2>2 DEF OnTheTee
  <2>3. CASE OnOsd(l, i) \/ l = <<Feeder, Entry(i)>>
    BY Zenon, <1>5, <1>6, <1>8, <2>3 DEF OnOsd
  <2>. QED
    BY Zenon, <2>1, <2>2, <2>3, OutLinkKinds
<1>10. ASSUME NEW l \in Links(Passed) PROVE l \in Elements \X Elements
  <2>1. PICK i \in Passed, j \in Passed : l = <<E(i), E(j)>>
    BY Zenon, LinkOf
  <2>2. i \in 1 .. 12 /\ j \in 1 .. 12
    BY Zenon, PassedAt
  <2>. QED
    BY Zenon, <1>3, <1>5, <2>1, <2>2
<1>11. ASSUME NEW k \in Brokers PROVE Sub(0, k, "queue") \in Elements
  <2>1. k \in Slots(MaxSinks)
    <3>1. cfg.nsink \in 0 .. MaxSinks /\ MaxSinks \in Nat
      BY ConfigAssumption DEF Fed, ParserTypes, Counts
    <3>2. k \in Slots(cfg.nsink)
      BY Zenon DEF Brokers
    <3>. QED
      BY <3>1, <3>2 DEF Slots
  <2>. QED
    BY Zenon, <1>1, <1>4, <1>5, <2>1
<1>12. ASSUME NEW l \in graph PROVE l \in Elements \X Elements
  <2>1. CASE \E k \in Brokers : l = <<Elem("tee"), Sub(0, k, "queue")>>
    <3>1. PICK k \in Brokers : l = <<Elem("tee"), Sub(0, k, "queue")>>
      BY Zenon, <2>1
    <3>2. Elem("tee") \in Elements /\ Sub(0, k, "queue") \in Elements
      BY Zenon, <1>3, <1>7, <1>11
    <3>. QED
      BY Zenon, <1>5, <3>1, <3>2
  <2>. QED
    BY Zenon, <1>9, <1>10, <2>1, LinkKinds
<1>13. graph \in SUBSET (Elements \X Elements)
  BY Zenon, <1>12
<1>14. IsFiniteSet(Elements \X Elements)
  BY Zenon, ElementsFinite, FS_Product
<1>. QED
  BY Zenon, <1>13, <1>14, FS_Subset

(* The spine is reached, from the sources to the tiler or demultiplexer.   *)
LEMMA SpineReached ==
  ASSUME Fed, step = "built"
  PROVE  (\A n \in Passed : E(n) \in Reached) /\ Feeder \in Reached
<1>1. /\ Elem("source") \in Reached
      /\ \A l \in graph : l[1] \in Reached => l[2] \in Reached
  BY Zenon, GraphFinite, ReachedIsClosure
<1>2. Passed \subseteq 1 .. 12 /\ 1 \in Passed /\ E(1) = Elem("source")
  BY PassedAt, Positions DEF E
<1> DEFINE S == {n \in Passed : E(n) \notin Reached}
<1>3. ASSUME S # {} PROVE FALSE
  <2>1. S \in SUBSET Nat
    <3>1. \A n \in Passed : n \in Nat
      BY <1>2
    <3>. QED
      BY Zenon, <3>1
  <2>2. PICK m \in S : \A n \in S : m <= n
    BY <1>3, <2>1, LeastNumber
  <2>3. m \in Passed /\ m # 1 /\ m \in 1 .. 12
    BY <1>1, <1>2, <2>2
  <2> DEFINE D == {d \in Nat : d > 0 /\ m - d \in Passed}
  <2>4. m - 1 \in D
    BY <1>2, <2>3
  <2>5. PICK d \in D : \A c \in D : d <= c
    BY <2>4, LeastNumber
  <2>6. m - d \in Passed /\ m - d < m /\ m - d \in Int
    BY <2>3, <2>5
  <2>7. \A n \in Passed : ~(m - d < n /\ n < m)
    <3>1. ASSUME NEW n \in Passed, m - d < n, n < m PROVE FALSE
      <4>1. m - n \in Nat /\ m - n > 0 /\ m - (m - n) = n
        BY <1>2, <2>3, <3>1
      <4>2. m - n \in D
        BY <3>1, <4>1
      <4>3. d <= m - n
        BY Zenon, <2>5, <4>2
      <4>. QED
        BY <1>2, <2>3, <2>5, <3>1, <4>3
    <3>. QED
      BY Zenon, <3>1
  <2>8. <<m - d, m>> \in Adjacent(Passed)
    BY Zenon, <2>3, <2>6, <2>7, AdjacentPair
  <2>9. <<E(m - d), E(m)>> \in graph
    BY Zenon, <2>8, IsLink, LinkKinds
  <2>10. E(m - d) \in Reached
    <3>1. m - d \notin S
      <4>1. ~(m <= m - d)
        BY <2>3, <2>6
      <4>. QED
        BY Zenon, <2>2, <4>1
    <3>. QED
      BY Zenon, <2>6, <3>1
  <2>11. E(m) \in Reached
    <3>1. <<E(m - d), E(m)>>[1] = E(m - d) /\ <<E(m - d), E(m)>>[2] = E(m)
      OBVIOUS
    <3>. QED
      BY Zenon, <1>1, <2>9, <2>10, <3>1
  <2>. QED
    BY Zenon, <2>2, <2>11
<1>4. \A n \in Passed : E(n) \in Reached
  BY Zenon, <1>3
<1>5. Elem("tiler") = E(11) /\ Elem("demuxer") = E(12)
  BY Positions DEF E
<1>. QED
  BY Zenon, <1>4, <1>5, PassedAt DEF Feeder

(* So are the outputs, with each of the sinks made.                        *)
LEMMA OutputReached ==
  ASSUME Fed, step = "built", NEW i \in Outs
  PROVE  /\ SinkBin(i) \in Reached
         /\ cfg.part["osd"].enable # 0 => Osd(i) \in Reached
         /\ \A k \in Made(i) : \A n \in 1 .. Len(MadeElements(i, k)) :
              Sub(i, k, MadeElements(i, k)[n]) \in Reached
<1>1. ASSUME NEW a, NEW b, <<a, b>> \in graph, a \in Reached PROVE b \in Reached
  <2>1. \A l \in graph : l[1] \in Reached => l[2] \in Reached
    BY Zenon, GraphFinite, ReachedIsClosure
  <2>2. <<a, b>>[1] = a /\ <<a, b>>[2] = b
    OBVIOUS
  <2>. QED
    BY Zenon, <1>1, <2>1, <2>2
<1>2. \A l : l \in OutLinks(i) => l \in graph
  BY Zenon, LinkKinds
<1>3. Entry(i) \in Reached
  <2>1. <<Feeder, Entry(i)>> \in graph
    BY Zenon, <1>2, OutLinkKinds
  <2>. QED
    BY Zenon, <1>1, <2>1, SpineReached
<1>4. SinkBin(i) \in Reached /\ (cfg.part["osd"].enable # 0 => Osd(i) \in Reached)
  <2>1. CASE cfg.part["osd"].enable # 0
    <3>1. <<Osd(i), SinkBin(i)>> \in graph
      BY Zenon, <1>2, <2>1, OutLinkKinds DEF OnOsd
    <3>2. Osd(i) \in Reached
      BY Zenon, <1>3, <2>1 DEF Entry
    <3>. QED
      BY Zenon, <1>1, <3>1, <3>2
  <2>2. CASE ~(cfg.part["osd"].enable # 0)
    BY Zenon, <1>3, <2>2 DEF Entry
  <2>. QED
    BY Zenon, <2>1, <2>2
<1>5. ASSUME NEW k \in Made(i)
      PROVE  \A n \in 1 .. Len(MadeElements(i, k)) :
               Sub(i, k, MadeElements(i, k)[n]) \in Reached
  <2> DEFINE es == MadeElements(i, k)
             S == {n \in 1 .. Len(es) : Sub(i, k, es[n]) \notin Reached}
  <2>0. step \in Building /\ step \in {"last", "built"}
    BY DEF Building
  <2>1. /\ i \in Instances /\ ~UnknownSink(i)
        /\ Made(i) = Mine(i) \/ (Mine(i) = {} /\ Made(i) \subseteq {0})
    BY Zenon, <2>0 DEF Fed, OutputsInv, OutputsLinked
  <2>2. Len(es) \in Nat /\ es[1] = "queue"
    BY Zenon, <2>1, SinkElements
  <2>3. Sub(i, k, "queue") \in Reached
    <3>1. CASE k \in Mine(i) => cfg.sink[k].type # Broker
      <4>1. <<SinkBin(i), Sub(i, k, "queue")>> \in graph
        BY Zenon, <1>2, <1>5, <3>1, OutLinkKinds DEF OnTheTee
      <4>. QED
        BY Zenon, <1>1, <1>4, <4>1
    <3>2. CASE k \in Mine(i) /\ cfg.sink[k].type = Broker
      <4>1. k \in Brokers /\ cfg.sink[k].source = i
        BY Zenon, <3>2 DEF Brokers, Mine
      <4>2. Analytics /\ sinkBins[0].sinks[k] # "none" /\ k \in Slots(MaxSinks)
        BY Zenon, <1>5, <2>0, <4>1 DEF Fed, BrokersInv, Made
      <4>3. Tiled \/ k \in Mine(0)
        BY Zenon, <4>2 DEF Fed, PointersInv
      <4>4. i = 0
        <5>1. CASE Tiled
          BY <5>1 DEF Outs
        <5>2. CASE k \in Mine(0)
          BY Zenon, <4>1, <5>2 DEF Mine
        <5>. QED
          BY Zenon, <4>3, <5>1, <5>2
      <4>5. <<Elem("tee"), Sub(0, k, "queue")>> \in graph
        BY Zenon, <4>1, LinkKinds
      <4>6. Elem("tee") \in Reached
        <5>1. 8 \in Passed /\ E(8) = Elem("tee")
          BY <4>2, PassedAt, Positions DEF E
        <5>. QED
          BY Zenon, <5>1, SpineReached
      <4>. QED
        BY Zenon, <1>1, <4>4, <4>5, <4>6
    <3>. QED
      BY Zenon, <3>1, <3>2
  <2>4. ASSUME S # {} PROVE FALSE
    <3>1. S \in SUBSET Nat
      BY <2>2
    <3>2. PICK m \in S : \A n \in S : m <= n
      BY <2>4, <3>1, LeastNumber
    <3>3. m \in 1 .. Len(es) /\ m # 1
      BY Zenon, <2>2, <2>3, <3>2
    <3>4. m - 1 \in 1 .. Len(es) - 1 /\ m - 1 \in 1 .. Len(es) /\ m - 1 + 1 = m
          /\ ~(m <= m - 1)
      BY <2>2, <3>3
    <3>5. Sub(i, k, es[m - 1]) \in Reached
      BY Zenon, <3>2, <3>4
    <3>6. <<Sub(i, k, es[m - 1]), Sub(i, k, es[m])>> \in graph
      <4>1. Inner(<<Sub(i, k, es[m - 1]), Sub(i, k, es[m - 1 + 1])>>, i)
        BY Zenon, <1>5, <3>4 DEF Inner
      <4>. QED
        BY Zenon, <1>2, <3>4, <4>1, OutLinkKinds
    <3>. QED
      BY Zenon, <1>1, <3>2, <3>5, <3>6
  <2>. QED
    BY Zenon, <2>4
<1>. QED
  BY Zenon, <1>4, <1>5

LEMMA LinksReached ==
  ASSUME Fed, step = "built", NEW l \in graph
  PROVE  l[1] \in Reached
<1>1. \A a, b : <<a, b>>[1] = a
  OBVIOUS
<1>2. CASE l \in Links(Passed)
  <2>1. PICK i \in Passed, j \in Passed : l = <<E(i), E(j)>>
    BY Zenon, <1>2, LinkOf
  <2>2. l[1] = E(i)
    BY Zenon, <1>1, <2>1
  <2>. QED
    BY Zenon, <2>2, SpineReached
<1>3. ASSUME NEW i \in Outs, l \in OutLinks(i) PROVE l[1] \in Reached
  <2>0. /\ ~UnknownSink(i)
    <3>1. step \in Building
      BY DEF Building
    <3>. QED
      BY Zenon, <3>1 DEF Fed, OutputsInv, OutputsLinked
  <2>1. CASE Inner(l, i)
    <3>1. PICK k \in Made(i) : \E n \in 1 .. Len(MadeElements(i, k)) - 1 :
            l = <<Sub(i, k, MadeElements(i, k)[n]), Sub(i, k, MadeElements(i, k)[n + 1])>>
      BY Zenon, <2>1 DEF Inner
    <3>2. PICK n \in 1 .. Len(MadeElements(i, k)) - 1 :
            l = <<Sub(i, k, MadeElements(i, k)[n]), Sub(i, k, MadeElements(i, k)[n + 1])>>
      BY Zenon, <3>1
    <3>3. Len(MadeElements(i, k)) \in Nat
      BY Zenon, <2>0, SinkElements
    <3>4. n \in 1 .. Len(MadeElements(i, k))
      BY <3>3
    <3>. QED
      BY Zenon, <1>1, <3>2, <3>4, OutputReached
  <2>2. CASE OnTheTee(l, i)
    BY Zenon, <1>1, <2>2, OutputReached DEF OnTheTee
  <2>3. CASE OnOsd(l, i)
    BY Zenon, <1>1, <2>3, OutputReached DEF OnOsd
  <2>4. CASE l = <<Feeder, Entry(i)>>
    BY Zenon, <1>1, <2>4, SpineReached
  <2>. QED
    BY Zenon, <1>3, <2>1, <2>2, <2>3, <2>4, OutLinkKinds
<1>4. ASSUME NEW k \in Brokers, l = <<Elem("tee"), Sub(0, k, "queue")>>
      PROVE  l[1] \in Reached
  <2>1. Analytics
    <3>1. step \in {"last", "built"}
      OBVIOUS
    <3>. QED
      BY Zenon, <3>1 DEF Fed, BrokersInv
  <2>2. 8 \in Passed /\ E(8) = Elem("tee")
    BY <2>1, PassedAt, Positions DEF E
  <2>. QED
    BY Zenon, <1>1, <1>4, <2>2, SpineReached
<1>. QED
  BY Zenon, <1>2, <1>3, <1>4, LinkKinds

LEMMA FedIsEnough == Fed => EverySinkIsFed
<1> SUFFICES ASSUME Fed, step = "built" PROVE EverySinkIsFed
  BY Zenon DEF EverySinkIsFed
<1>1. step \in Building /\ step \in Finished
  BY DEF Building, Finished
<1>2. \A i \in Outs :
        /\ i \in Instances /\ ~UnknownSink(i)
        /\ Made(i) = Mine(i) \/ (Mine(i) = {} /\ Made(i) \subseteq {0})
  BY Zenon, <1>1 DEF Fed, OutputsInv, OutputsLinked
<1>3. ASSUME NEW i \in Outs, NEW k \in Made(i)
      PROVE  Sub(i, k, "sink") \in Reached
  <2>1. /\ Len(MadeElements(i, k)) \in Nat /\ Len(MadeElements(i, k)) >= 1
        /\ MadeElements(i, k)[Len(MadeElements(i, k))] = "sink"
    BY Zenon, <1>2, SinkElements
  <2>2. Len(MadeElements(i, k)) \in 1 .. Len(MadeElements(i, k))
    BY <2>1
  <2>3. Sub(i, k, MadeElements(i, k)[Len(MadeElements(i, k))]) \in Reached
    BY Zenon, <2>2, OutputReached
  <2>. QED
    BY Zenon, <2>1, <2>3
<1>4. Outs = IF Tiled THEN {0} ELSE {i \in Slots(cfg.nsrc) : Mine(i) # {}}
  BY DEF Outs
<1> DEFINE instances == IF Tiled THEN {0} ELSE Slots(cfg.nsrc)
<1>5. ASSUME NEW k \in Slots(cfg.nsink), cfg.sink[k].demux = 0,
             cfg.sink[k].source \in instances
      PROVE  Sub(cfg.sink[k].source, k, "sink") \in Reached
  <2> DEFINE i == cfg.sink[k].source
  <2>1. k \in Mine(i)
    <3>1. cfg.sink[k].enable # 0
      BY Zenon DEF Fed, TilesInv, Sane
    <3>. QED
      BY Zenon, <1>5, <3>1 DEF Mine
  <2>2. i \in Outs
    BY <1>4, <1>5, <2>1
  <2>3. k \in Made(i)
    BY Zenon, <1>2, <2>1, <2>2
  <2>. QED
    BY Zenon, <1>3, <2>2, <2>3
<1>6. \A l \in graph : l[1] \in Reached
  BY Zenon, LinksReached
<1>7. ASSUME Tiled
      PROVE  /\ cfg.tiles.rows * cfg.tiles.columns >= cfg.nsrc
             /\ builds = 1 \/ Mine(0) # {} =>
                  \E k \in Slots(MaxSinks) : Sub(0, k, "sink") \in Reached
  <2>1. cfg.tiles.rows * cfg.tiles.columns >= cfg.nsrc
    BY Zenon, <1>1, <1>7 DEF Fed, TilesInv
  <2>2. 0 \in Outs
    BY <1>4, <1>7
  <2>3. builds = 1 => Made(0) # {}
    BY Zenon, <1>1, <1>7 DEF Fed, FakeInv
  <2>4. Mine(0) # {} => Made(0) # {}
    BY Zenon, <1>2, <2>2
  <2>5. Made(0) \subseteq Slots(MaxSinks)
    BY Zenon DEF Made
  <2>6. Made(0) # {} => \E k \in Slots(MaxSinks) : Sub(0, k, "sink") \in Reached
    BY Zenon, <1>3, <2>2, <2>5
  <2>. QED
    BY Zenon, <2>1, <2>3, <2>4, <2>6
<1>. QED
  BY Zenon, <1>5, <1>6, <1>7 DEF EverySinkIsFed

(* Whatever the files say, however creation went and however often the     *)
(* pipeline is recreated, a pipeline that is built feeds every sink of its *)
(* instances, of the brokers the first, from the sources, leaves nothing   *)
(* hanging, and has a tile for every source (create_pipeline,              *)
(* create_sink_bin, add_and_link_broker_sink, create_tiled_display_bin).   *)
THEOREM SinksAreFed == BuildSpec => []EverySinkIsFed
<1>1. Fed => EverySinkIsFed
  BY Zenon, FedIsEnough
<1>. QED
  BY <1>1, FedInit, FedNext, PTL DEF BuildSpec

-----------------------------------------------------------------------------
(* The servers.  Each is mounted for a UDP sink of an output that is made, *)
(* and each such sink has one.                                             *)
UdpSinks(i) == {k \in Mine(i) : cfg.sink[k].type = Udp}
Server == [instance : Instances, mounted : BOOLEAN, sink : Slots(MaxSinks)]
Mounted == {n \in 1 .. Len(servers) : servers[n].mounted}
Serves(n, i, k) == servers[n].instance = i /\ servers[n].sink = k

ServedOnce ==
  /\ \A n \in Mounted : servers[n].instance \in Outs
                        /\ servers[n].sink \in UdpSinks(servers[n].instance)
  /\ \A i \in Outs : \A k \in UdpSinks(i) : \E n \in Mounted : Serves(n, i, k)
  /\ \A m \in Mounted : \A n \in Mounted :
       Serves(m, servers[n].instance, servers[n].sink) => m = n

ServersInv ==
  /\ servers \in Seq(Server)
  /\ step \in {"idle", "sources"} => Mounted = {}
  /\ step \in Building => ServedOnce

(* The elements of a finite set of numbers, in order.                      *)
Below(S, k) == {j \in S : j < k}

LEMMA Ranks ==
  ASSUME NEW S \in SUBSET Nat, IsFiniteSet(S)
  PROVE  /\ Cardinality(S) \in Nat
         /\ \A r \in 0 .. Cardinality(S) - 1 : \E k \in S : Cardinality(Below(S, k)) = r
         /\ \A k \in S : Cardinality(Below(S, k)) \in 0 .. Cardinality(S) - 1
         /\ \A j, k \in S : Cardinality(Below(S, j)) = Cardinality(Below(S, k)) => j = k
         /\ \A j, k \in S : j < k => Cardinality(Below(S, j)) < Cardinality(Below(S, k))
<1> DEFINE c == Cardinality(S)
           rank == [k \in S |-> Cardinality(Below(S, k))]
<1>1. c \in Nat
  BY Zenon, FS_CardinalityType
<1>2. ASSUME NEW k \in S
      PROVE  IsFiniteSet(Below(S, k)) /\ Cardinality(Below(S, k)) \in 0 .. c - 1
  <2>1. Below(S, k) \in SUBSET (S \ {k})
    BY DEF Below
  <2>2. IsFiniteSet(S \ {k}) /\ Cardinality(S \ {k}) = c - 1
    BY FS_RemoveElement
  <2>3. IsFiniteSet(Below(S, k)) /\ Cardinality(Below(S, k)) <= c - 1
    BY <2>1, <2>2, FS_Subset
  <2>4. Cardinality(Below(S, k)) \in Nat
    BY Zenon, <2>3, FS_CardinalityType
  <2>. QED
    BY <1>1, <2>3, <2>4
<1>3. ASSUME NEW j \in S, NEW k \in S, j < k
      PROVE  Cardinality(Below(S, j)) < Cardinality(Below(S, k))
  <2>1. j \notin Below(S, j) /\ (Below(S, j) \cup {j}) \in SUBSET Below(S, k)
    <3>1. ~(j < j) /\ \A x \in S : x < j => x < k
      BY <1>3
    <3>. QED
      BY Zenon, <1>3, <3>1 DEF Below
  <2>2. /\ IsFiniteSet(Below(S, j) \cup {j})
        /\ Cardinality(Below(S, j) \cup {j}) = Cardinality(Below(S, j)) + 1
    BY <1>2, <2>1, FS_AddElement
  <2>3. Cardinality(Below(S, j) \cup {j}) <= Cardinality(Below(S, k))
    BY <1>2, <2>1, FS_Subset
  <2>. QED
    BY <1>1, <1>2, <2>2, <2>3
<1>4. ASSUME NEW j \in S, NEW k \in S, Cardinality(Below(S, j)) = Cardinality(Below(S, k))
      PROVE  j = k
  <2>1. Cardinality(Below(S, j)) \in Nat
    BY <1>1, <1>2
  <2>2. ~(j < k) /\ ~(k < j)
    BY <1>3, <1>4, <2>1
  <2>. QED
    BY <2>2
<1>5. rank \in Injection(S, 0 .. c - 1)
  <2>1. \A k \in S : rank[k] = Cardinality(Below(S, k))
    OBVIOUS
  <2>2. rank \in [S -> 0 .. c - 1]
    BY <1>2
  <2> HIDE DEF rank, c
  <2>3. \A j, k \in S : rank[j] = rank[k] => j = k
    BY Zenon, <1>4, <2>1
  <2>. QED
    BY Zenon, <2>2, <2>3, Fun_IsInj
<1>6. IsFiniteSet(0 .. c - 1) /\ Cardinality(0 .. c - 1) = c
  <2> HIDE DEF c
  <2>1. 0 \in Int /\ c - 1 \in Int /\ (IF 0 > c - 1 THEN 0 ELSE c - 1 - 0 + 1) = c
    BY <1>1
  <2>2. /\ IsFiniteSet(0 .. c - 1)
        /\ Cardinality(0 .. c - 1) = IF 0 > c - 1 THEN 0 ELSE c - 1 - 0 + 1
    BY Zenon, <2>1, FS_Interval
  <2>. QED
    BY <2>1, <2>2
<1>7. rank \in Surjection(S, 0 .. c - 1)
  <2> HIDE DEF rank
  <2>1. Cardinality(S) = Cardinality(0 .. c - 1) <=> rank \in Surjection(S, 0 .. c - 1)
    BY Zenon, <1>5, <1>6, FS_Injection
  <2>. QED
    BY <1>6, <2>1
<1>8. \A r \in 0 .. c - 1 : \E k \in S : rank[k] = r
  <2> HIDE DEF rank, c
  <2>. QED
    BY Zenon, <1>7, Fun_SurjectionProperties
<1>9. \A r \in 0 .. c - 1 : \E k \in S : Cardinality(Below(S, k)) = r
  BY Zenon, <1>8
<1> HIDE DEF rank
<1>. QED
  BY <1>1, <1>2, <1>3, <1>4, <1>9

(* Started has one server for each UDP sink.                               *)
LEMMA StartedFacts ==
  ASSUME Shaped(cfg), NEW i \in Instances
  PROVE  LET s == Started(i) IN
         /\ s \in Seq(Server)
         /\ \A n \in 1 .. Len(s) :
              s[n].instance = i /\ s[n].mounted /\ s[n].sink \in UdpSinks(i)
         /\ \A k \in UdpSinks(i) : \E n \in 1 .. Len(s) : s[n].sink = k
         /\ \A m, n \in 1 .. Len(s) : s[m].sink = s[n].sink => m = n
<1> DEFINE S == UdpSinks(i)
           c == Cardinality(S)
           pick(n) == CHOOSE k \in S : Cardinality(Below(S, k)) = n - 1
           f == [n \in 1 .. c |-> [instance |-> i, mounted |-> TRUE, sink |-> pick(n)]]
<1>1. S \in SUBSET Slots(cfg.nsink) /\ S \in SUBSET Slots(MaxSinks) /\ S \in SUBSET Nat
      /\ IsFiniteSet(S)
  <2>1. cfg.nsink \in 0 .. MaxSinks /\ MaxSinks \in Nat
    BY ConfigAssumption DEF Shaped
  <2>2. S \in SUBSET Slots(cfg.nsink)
    BY Zenon DEF UdpSinks, Mine
  <2> HIDE DEF S
  <2>3. Slots(cfg.nsink) \subseteq Slots(MaxSinks) /\ Slots(cfg.nsink) \subseteq Nat
    BY <2>1 DEF Slots
  <2>4. IsFiniteSet(Slots(cfg.nsink))
    <3>1. 0 \in Int /\ cfg.nsink - 1 \in Int
      BY <2>1
    <3>. QED
      BY Zenon, <3>1, FS_Interval DEF Slots
  <2>. QED
    BY <2>2, <2>3, <2>4, FS_Subset
<1>2. Started(i) = f
  BY Zenon DEF Started, UdpSinks, Below
<1> HIDE DEF S
<1>3. /\ c \in Nat
      /\ \A r \in 0 .. c - 1 : \E k \in S : Cardinality(Below(S, k)) = r
      /\ \A k \in S : Cardinality(Below(S, k)) \in 0 .. c - 1
      /\ \A j, k \in S : Cardinality(Below(S, j)) = Cardinality(Below(S, k)) => j = k
  BY Zenon, <1>1, Ranks
<1> HIDE DEF c
<1>4. ASSUME NEW n \in 1 .. c
      PROVE  pick(n) \in S /\ Cardinality(Below(S, pick(n))) = n - 1
  <2>1. n - 1 \in 0 .. c - 1
    BY <1>3
  <2>2. \E k \in S : Cardinality(Below(S, k)) = n - 1
    BY Zenon, <1>3, <2>1
  <2>. QED
    BY Zenon, <2>2
<1>5. \A m, n \in 1 .. c : pick(m) = pick(n) => m = n
  <2>1. ASSUME NEW m \in 1 .. c, NEW n \in 1 .. c, pick(m) = pick(n) PROVE m - 1 = n - 1
    BY Zenon, <1>4, <2>1
  <2>2. \A m, n \in 1 .. c : m - 1 = n - 1 => m = n
    BY <1>3
  <2>. QED
    BY Zenon, <2>1, <2>2
<1>6. \A k \in S : \E n \in 1 .. c : pick(n) = k
  <2>1. ASSUME NEW k \in S PROVE \E n \in 1 .. c : pick(n) = k
    <3> DEFINE n == Cardinality(Below(S, k)) + 1
    <3>1. n \in 1 .. c /\ n - 1 = Cardinality(Below(S, k))
      BY <1>3
    <3> HIDE DEF n
    <3>2. pick(n) = k
      BY Zenon, <1>3, <1>4, <3>1
    <3>. QED
      BY Zenon, <3>1, <3>2
  <2>. QED
    BY Zenon, <2>1
<1> HIDE DEF pick
<1>7. ASSUME NEW n \in 1 .. c
      PROVE  f[n].instance = i /\ f[n].mounted /\ f[n].sink = pick(n) /\ f[n] \in Server
  <2>1. f[n] = [instance |-> i, mounted |-> TRUE, sink |-> pick(n)]
    OBVIOUS
  <2>2. pick(n) \in Slots(MaxSinks)
    BY Zenon, <1>1, <1>4
  <2> HIDE DEF f
  <2>. QED
    BY <2>1, <2>2 DEF Server
<1>8. f \in Seq(Server) /\ Len(f) = c
  <2>1. DOMAIN f = 1 .. c /\ f \in [1 .. c -> Server]
    BY Zenon, <1>7
  <2> HIDE DEF f
  <2>. QED
    BY <1>3, <2>1
<1> HIDE DEF f
<1>9. /\ f \in Seq(Server)
      /\ \A n \in 1 .. Len(f) : f[n].instance = i /\ f[n].mounted /\ f[n].sink \in S
      /\ \A k \in S : \E n \in 1 .. Len(f) : f[n].sink = k
      /\ \A m, n \in 1 .. Len(f) : f[m].sink = f[n].sink => m = n
  <2>1. /\ \A n \in 1 .. c : f[n].instance = i /\ f[n].mounted /\ f[n].sink \in S
        /\ \A k \in S : \E n \in 1 .. c : f[n].sink = k
        /\ \A m, n \in 1 .. c : f[m].sink = f[n].sink => m = n
    <3>1. \A n \in 1 .. c : f[n].instance = i /\ f[n].mounted /\ f[n].sink \in S
      BY Zenon, <1>4, <1>7
    <3>2. \A k \in S : \E n \in 1 .. c : f[n].sink = k
      BY Zenon, <1>6, <1>7
    <3>3. ASSUME NEW m \in 1 .. c, NEW n \in 1 .. c, f[m].sink = f[n].sink PROVE m = n
      <4>1. f[m].sink = pick(m) /\ f[n].sink = pick(n)
        BY Zenon, <1>7
      <4>2. pick(m) = pick(n)
        BY Zenon, <3>3, <4>1
      <4>. QED
        BY Zenon, <1>5, <4>2
    <3>. QED
      BY Zenon, <3>1, <3>2, <3>3
  <2>2. 1 .. Len(f) = 1 .. c
    BY Zenon, <1>8
  <2>. QED
    BY Zenon, <1>8, <2>1, <2>2
<1>. QED
  BY Zenon, <1>2, <1>9 DEF S

LEMMA SameUdp ==
  ASSUME SameInBuild
  PROVE  \A i : UdpSinks(i)' = UdpSinks(i)
<1>1. cfg'.sink = cfg.sink /\ \A i : Mine(i)' = Mine(i)
  BY Zenon, SameViews DEF SameInBuild
<1>. QED
  BY Zenon, <1>1 DEF UdpSinks

LEMMA SameServer == Server' = Server
BY Zenon DEF Server, Instances, Slots

LEMMA ServersRest ==
  ASSUME ServersInv, servers' = servers,
         \/ step' \notin Building \cup {"idle", "sources"}
         \/ step \in {"idle", "sources"} /\ step' \in {"idle", "sources"}
         \/ step \in Building /\ step' \in Building /\ SameInBuild /\ Outs' = Outs
  PROVE  ServersInv'
<1>1. servers' \in Seq(Server') /\ Mounted' = Mounted
  BY Zenon, SameServer DEF ServersInv, Mounted
<1>2. \A s \in {"idle", "sources"} : s \notin Building
  BY DEF Building
<1>3. CASE step' \notin Building \cup {"idle", "sources"}
  <2>1. step' \notin Building /\ step' \notin {"idle", "sources"}
    BY <1>3
  <2>. QED
    BY Zenon, <1>1, <2>1 DEF ServersInv
<1>4. CASE step \in {"idle", "sources"} /\ step' \in {"idle", "sources"}
  BY Zenon, <1>1, <1>2, <1>4 DEF ServersInv
<1>5. CASE step \in Building /\ step' \in Building /\ SameInBuild /\ Outs' = Outs
  <2>1. ServedOnce
    BY Zenon, <1>5 DEF ServersInv
  <2>2. /\ \A n, i, k : Serves(n, i, k)' <=> Serves(n, i, k)
        /\ \A i : UdpSinks(i)' = UdpSinks(i)
    BY Zenon, <1>5, SameUdp DEF Serves
  <2>3. (\A n \in Mounted : /\ servers[n].instance \in Outs
                           /\ servers[n].sink \in UdpSinks(servers[n].instance))'
    BY Zenon, <1>1, <1>5, <2>1, <2>2 DEF ServedOnce
  <2>4. (\A i \in Outs : \A k \in UdpSinks(i) : \E n \in Mounted : Serves(n, i, k))'
    <3>1. ASSUME NEW i \in Outs, NEW k \in UdpSinks(i)
          PROVE  \E n \in Mounted' : Serves(n, i, k)'
      <4>1. PICK n \in Mounted : Serves(n, i, k)
        BY Zenon, <2>1 DEF ServedOnce
      <4>. QED
        BY Zenon, <1>1, <2>2, <4>1
    <3>. QED
      BY Zenon, <1>5, <2>2, <3>1
  <2>5. (\A m \in Mounted : \A n \in Mounted :
           Serves(m, servers[n].instance, servers[n].sink) => m = n)'
    BY Zenon, <1>1, <2>1 DEF ServedOnce, Serves
  <2>6. ServedOnce'
    BY Zenon, <2>3, <2>4, <2>5 DEF ServedOnce
  <2>. QED
    BY Zenon, <1>1, <1>2, <1>5, <2>6 DEF ServersInv
<1>. QED
  BY Zenon, <1>3, <1>4, <1>5

LEMMA OneServed ==
  ASSUME ServersInv, Shaped(cfg), SameInBuild, NEW i \in Instances, i \notin Outs,
         servers' = servers \o Started(i), step \in Building, step' \in Building,
         Outs' = Outs \cup {i}
  PROVE  ServersInv'
<1> DEFINE s == servers
           t == Started(i)
           a == Len(s)
           b == Len(t)
<1>1. s \in Seq(Server) /\ ServedOnce
  BY Zenon DEF ServersInv
<1>2. /\ t \in Seq(Server)
      /\ \A n \in 1 .. b : t[n].instance = i /\ t[n].mounted /\ t[n].sink \in UdpSinks(i)
      /\ \A k \in UdpSinks(i) : \E n \in 1 .. b : t[n].sink = k
      /\ \A m, n \in 1 .. b : t[m].sink = t[n].sink => m = n
  BY Zenon, StartedFacts
<1>3. s' = s \o t
  BY Zenon
<1> HIDE DEF t
<1>4. a \in Nat /\ b \in Nat /\ s' \in Seq(Server) /\ Len(s') = a + b
      /\ (\A n \in 1 .. a : s'[n] = s[n])
      /\ (\A n \in 1 .. b : s'[a + n] = t[n])
  BY <1>1, <1>2, <1>3
<1> HIDE DEF a, b
<1>5. \A n \in 1 .. a + b : n \in 1 .. a \/ \E m \in 1 .. b : n = a + m
  <2>1. \A n \in 1 .. a + b : n \notin 1 .. a => n - a \in 1 .. b /\ n = a + (n - a)
    BY <1>4
  <2>. QED
    BY Zenon, <2>1
<1>6. /\ \A n \in 1 .. a : n \in 1 .. a + b
      /\ \A n \in 1 .. b : a + n \in 1 .. a + b /\ a + n \notin 1 .. a
  BY <1>4
<1>7. \A i2 : UdpSinks(i2)' = UdpSinks(i2)
  BY Zenon, SameUdp
<1> DEFINE M == {n \in 1 .. a : s[n].mounted}
<1>8. Mounted = M /\ \A n : n \in Mounted' <=> n \in M \/ \E m \in 1 .. b : n = a + m
  <2>1. Mounted = M
    BY Zenon DEF Mounted, a
  <2>2. \A n : n \in Mounted' <=> n \in 1 .. a + b /\ s'[n].mounted
    BY Zenon, <1>4 DEF Mounted
  <2>. QED
    BY Zenon, <1>2, <1>4, <1>5, <1>6, <2>1, <2>2
<1>9. ASSUME NEW n \in M
      PROVE  /\ s'[n] = s[n] /\ s[n].instance \in Outs
             /\ s[n].sink \in UdpSinks(s[n].instance)
  BY Zenon, <1>1, <1>4, <1>8 DEF ServedOnce
<1>10. ASSUME NEW n \in Mounted'
       PROVE  s'[n].instance \in Outs' /\ s'[n].sink \in UdpSinks(s'[n].instance)
  <2>1. CASE n \in M
    BY Zenon, <1>9, <2>1
  <2>2. ASSUME NEW m \in 1 .. b, n = a + m
        PROVE  s'[n].instance \in Outs' /\ s'[n].sink \in UdpSinks(s'[n].instance)
    <3>1. s'[n] = t[m]
      BY Zenon, <1>4, <2>2
    <3>. QED
      BY <1>2, <3>1
  <2>. QED
    BY Zenon, <1>8, <2>1, <2>2
<1>11. ASSUME NEW j \in Outs', NEW k \in UdpSinks(j)
       PROVE  \E n \in Mounted' : s'[n].instance = j /\ s'[n].sink = k
  <2>1. CASE j \in Outs
    <3>1. PICK n \in Mounted : Serves(n, j, k)
      BY Zenon, <1>1, <2>1 DEF ServedOnce
    <3>2. n \in M /\ n \in Mounted' /\ s[n].instance = j /\ s[n].sink = k
      BY Zenon, <1>8, <3>1 DEF Serves
    <3>3. s'[n] = s[n]
      BY Zenon, <1>9, <3>2
    <3>. QED
      BY Zenon, <3>2, <3>3
  <2>2. CASE j = i
    <3>1. PICK n \in 1 .. b : t[n].sink = k
      BY Zenon, <1>2, <2>2
    <3>2. a + n \in Mounted' /\ s'[a + n] = t[n] /\ t[n].instance = j
      BY Zenon, <1>2, <1>4, <1>8, <2>2
    <3>. QED
      BY Zenon, <3>1, <3>2
  <2>. QED
    BY Zenon, <2>1, <2>2
<1>12. ASSUME NEW m \in Mounted', NEW n \in Mounted',
              s'[m].instance = s'[n].instance, s'[m].sink = s'[n].sink
       PROVE  m = n
  <2>1. CASE m \in M /\ n \in M
    <3>1. s[m].instance = s[n].instance /\ s[m].sink = s[n].sink
      BY Zenon, <1>9, <1>12, <2>1
    <3>2. m \in Mounted /\ n \in Mounted
      BY Zenon, <1>8, <2>1
    <3>3. Serves(m, servers[n].instance, servers[n].sink) => m = n
      BY Zenon, <1>1, <3>2 DEF ServedOnce
    <3>. QED
      BY Zenon, <3>1, <3>3 DEF Serves
  <2>2. ASSUME NEW x \in M, NEW y \in 1 .. b, s'[x].instance = s'[a + y].instance
        PROVE  FALSE
    <3>1. s[x].instance \in Outs /\ s'[x] = s[x]
      BY Zenon, <1>9
    <3>2. s'[a + y].instance = i
      <4>1. s'[a + y] = t[y] /\ t[y].instance = i
        BY Zenon, <1>2, <1>4
      <4>. QED
        BY Zenon, <4>1
    <3>. QED
      BY Zenon, <2>2, <3>1, <3>2
  <2>3. ASSUME NEW x \in 1 .. b, NEW y \in 1 .. b, m = a + x, n = a + y
        PROVE  m = n
    <3>1. s'[m] = t[x] /\ s'[n] = t[y]
      BY Zenon, <1>4, <2>3
    <3>2. t[x].sink = t[y].sink
      BY Zenon, <1>12, <3>1
    <3>3. x = y
      BY Zenon, <1>2, <3>2
    <3>. QED
      BY Zenon, <2>3, <3>3
  <2>4. m \in M \/ \E x \in 1 .. b : m = a + x
    BY Zenon, <1>8
  <2>5. n \in M \/ \E y \in 1 .. b : n = a + y
    BY Zenon, <1>8
  <2>. QED
    BY Zenon, <1>12, <2>1, <2>2, <2>3, <2>4, <2>5
<1> HIDE DEF M
<1>13. ServedOnce'
  <2>1. (\A n \in Mounted : /\ servers[n].instance \in Outs
                           /\ servers[n].sink \in UdpSinks(servers[n].instance))'
    BY Zenon, <1>7, <1>10
  <2>2. (\A j \in Outs : \A k \in UdpSinks(j) : \E n \in Mounted : Serves(n, j, k))'
    BY Zenon, <1>7, <1>11 DEF Serves
  <2>3. (\A m \in Mounted : \A n \in Mounted :
           Serves(m, servers[n].instance, servers[n].sink) => m = n)'
    BY Zenon, <1>12 DEF Serves
  <2>. QED
    BY Zenon, <2>1, <2>2, <2>3 DEF ServedOnce
<1>14. step' \notin {"idle", "sources"}
  BY DEF Building
<1>. QED
  BY Zenon, <1>4, <1>13, <1>14, SameServer DEF ServersInv

LEMMA ServersInit == BuildInit => ServersInv
<1> SUFFICES ASSUME BuildInit PROVE ServersInv
  OBVIOUS
<1>1. servers = <<>> /\ step = "idle"
  BY Zenon DEF BuildInit
<1>2. servers \in Seq(Server) /\ Mounted = {}
  BY <1>1 DEF Mounted
<1>3. step \notin Building
  BY <1>1 DEF Building
<1>. QED
  BY Zenon, <1>2, <1>3 DEF ServersInv

(* A pipeline begins with no server mounted.                               *)
LEMMA ServersBegin ==
  ASSUME BuildInv, ServersInv,
         Parse \/ CreatePipeline \/ BuildSources \/ BuildMultiSource \/ ElementFails
  PROVE  ServersInv'
<1>1. ASSUME step' = "failed", servers' = servers PROVE ServersInv'
  <2>1. step' \notin Building \cup {"idle", "sources"}
    BY <1>1 DEF Building
  <2>. QED
    BY Zenon, <1>1, <2>1, ServersRest
<1>2. ASSUME step \in {"idle", "sources"}, step' \in {"idle", "sources"},
             servers' = servers
      PROVE  ServersInv'
  BY Zenon, <1>2, ServersRest
<1>3. ASSUME step = "sources", step' = "outputs", servers' = servers, at' = 0
      PROVE  ServersInv'
  <2>1. step \in {"idle", "sources"} /\ step' \notin {"idle", "sources"}
    BY <1>3
  <2>2. servers' \in Seq(Server') /\ Mounted' = {}
    BY Zenon, <1>3, <2>1, SameServer DEF ServersInv, Mounted
  <2>3. Outs' = {}
    <3>1. Slots(at') = {}
      BY <1>3 DEF Slots
    <3>2. Slots(at)' = {}
      BY <3>1 DEF Slots
    <3>. QED
      BY <1>3, <3>2 DEF Outs
  <2>4. ServedOnce'
    BY Zenon, <2>2, <2>3 DEF ServedOnce
  <2>. QED
    BY Zenon, <2>1, <2>2, <2>4 DEF ServersInv
<1>4. CASE Parse
  <2>1. step = "idle"
    BY Zenon, <1>4, ParserNotDone DEF Parse, BuildInv, Where
  <2>2. servers' = servers /\ step' = step
    BY Zenon, <1>4 DEF Parse, building
  <2>. QED
    BY <1>2, <2>1, <2>2
<1>5. CASE CreatePipeline
  BY <1>2, <1>5 DEF CreatePipeline, GoTo
<1>6. CASE BuildSources
  BY <1>1, <1>3, <1>6 DEF BuildSources, GoTo, Abandon
<1>7. CASE BuildMultiSource
  BY Zenon, <1>3, <1>7 DEF BuildMultiSource, GoTo
<1>8. CASE ElementFails
  BY Zenon, <1>1, <1>8 DEF ElementFails, Abandon
<1>. QED
  BY Zenon, <1>4, <1>5, <1>6, <1>7, <1>8

(* An instance is made with the servers of its sinks.                      *)
LEMMA ServersTiled ==
  ASSUME BuildInv, ServersInv, BuildTiled
  PROVE  ServersInv'
<1>1. CASE step' \in {"failed", "crashed"}
  <2>1. step' \notin Building \cup {"idle", "sources"}
    BY <1>1 DEF Building
  <2>2. step' # "example"
    BY <1>1
  <2>3. servers' = servers
    BY Zenon, <2>2 DEF BuildTiled, Probe, Abandon, GoTo
  <2>. QED
    BY Zenon, <2>1, <2>3, ServersRest
<1>2. CASE step' \notin {"failed", "crashed"}
  <2>1. "failed" \in {"failed", "crashed"} /\ "crashed" \in {"failed", "crashed"}
    OBVIOUS
  <2>2. /\ Tiled /\ step = "outputs" /\ step' = "example"
        /\ cfg' = [cfg EXCEPT !.tiles = Readjusted(@)]
        /\ servers' = servers \o Started(0)
    BY Zenon, <1>2, <2>1 DEF BuildTiled, Probe, Abandon, GoTo
  <2>3. Shaped(cfg)
    BY Zenon DEF BuildInv, Where
  <2>4. SameInBuild
    BY <2>2, <2>3, TilesSame
  <2>5. 0 \in Instances
    BY ConfigAssumption DEF Instances, Slots
  <2>6. Outs' = Outs \cup {0} /\ 0 \notin Outs
    <3>1. Tiled'
      BY Zenon, <2>2, <2>4, SameViews
    <3>. QED
      BY <2>2, <3>1 DEF Outs
  <2>7. step \in Building /\ step' \in Building
    BY <2>2 DEF Building
  <2>. QED
    BY Zenon, <2>2, <2>3, <2>4, <2>5, <2>6, <2>7, OneServed
<1>. QED
  BY Zenon, <1>1, <1>2

LEMMA ServersDemuxed ==
  ASSUME BuildInv, BuildTypes, ParserTypes, ServersInv, BuildDemuxed
  PROVE  ServersInv'
<1>1. CASE step' = "failed"
  <2>1. step' \notin Building \cup {"idle", "sources"} /\ step' # "outputs"
    BY <1>1 DEF Building
  <2>2. servers' = servers
    BY Zenon, <2>1 DEF BuildDemuxed, Abandon
  <2>. QED
    BY Zenon, <2>1, <2>2, ServersRest
<1>2. CASE step' # "failed"
  <2>1. /\ step = "outputs" /\ step' = "outputs" /\ ~Tiled /\ at < cfg.nsrc /\ at' = at + 1
        /\ cfg' = cfg
        /\ \/ Mine(at) = {} /\ servers' = servers
           \/ Mine(at) # {} /\ servers' = servers \o Started(at)
    BY Zenon, <1>2 DEF BuildDemuxed, Abandon, vars
  <2>2. Shaped(cfg) /\ at \in Nat /\ cfg.nsrc \in 0 .. MaxSources
    BY Zenon DEF BuildInv, Where, ParserTypes, Counts, BuildTypes
  <2>3. at \in Instances
    BY <2>1, <2>2, ConfigAssumption DEF Instances, Slots
  <2>4. SameInBuild /\ (Tiled' <=> Tiled) /\ \A i : Mine(i)' = Mine(i)
    BY Zenon, <2>1, SameWhenUnchanged, SameViews
  <2>5. Outs = {i \in Slots(at) : Mine(i) # {}}
    BY <2>1 DEF Outs
  <2>6. Outs' = {i \in Slots(at') : Mine(i) # {}}
    <3>1. Outs' = {i \in Slots(at') : Mine(i)' # {}}
      BY Zenon, <2>1, <2>4 DEF Outs, Slots
    <3>. QED
      BY Zenon, <2>4, <3>1
  <2>7. Slots(at') = Slots(at) \cup {at} /\ at \notin Slots(at)
    BY <2>1, <2>2, NextSlot
  <2>8. step \in Building /\ step' \in Building
    BY <2>1 DEF Building
  <2>9. CASE Mine(at) = {} /\ servers' = servers
    <3>1. Outs' = Outs
      BY Zenon, <2>5, <2>6, <2>7, <2>9
    <3>. QED
      BY Zenon, <2>4, <2>8, <2>9, <3>1, ServersRest
  <2>10. CASE Mine(at) # {} /\ servers' = servers \o Started(at)
    <3>1. \A i : i \in Outs' <=> i \in Outs \/ i = at
      BY Zenon, <2>5, <2>6, <2>7, <2>10
    <3>2. at \notin Outs
      BY Zenon, <2>5, <2>7
    <3>3. Outs' = Outs \cup {at}
      BY <3>1
    <3>. QED
      BY Zenon, <2>2, <2>3, <2>4, <2>8, <2>10, <3>2, <3>3, OneServed
  <2>. QED
    BY Zenon, <2>1, <2>9, <2>10
<1>. QED
  BY Zenon, <1>1, <1>2

LEMMA ServersLater ==
  ASSUME BuildInv, ServersInv,
         DemuxDone \/ BuildExample \/ BuildCommon \/ BuildTee \/ LinkBroker \/ LinkSources
  PROVE  ServersInv'
<1>1. Shaped(cfg)
  BY Zenon DEF BuildInv, Where
<1>2. ASSUME cfg' = cfg PROVE SameInBuild /\ cfg'.nsrc = cfg.nsrc
  BY Zenon, <1>2, SameWhenUnchanged
<1>3. /\ {"outputs", "example", "common", "broker", "last", "built"} = Building
      /\ "failed" \notin Building \cup {"idle", "sources"}
  BY DEF Building
<1>4. ASSUME SameInBuild, cfg'.nsrc = cfg.nsrc, servers' = servers,
             step \in Building, step' \in Building,
             step # "outputs" \/ (~Tiled /\ at = cfg.nsrc), step' # "outputs"
      PROVE  ServersInv'
  <2>1. Outs' = Outs
    BY Zenon, <1>4, OutsStay
  <2>. QED
    BY Zenon, <1>4, <2>1, ServersRest
<1>5. CASE DemuxDone
  <2>1. /\ step = "outputs" /\ ~Tiled /\ at = cfg.nsrc /\ step' = "example"
        /\ cfg' = cfg /\ servers' = servers
    BY Zenon, <1>5 DEF DemuxDone, GoTo, vars
  <2>2. step \in Building /\ step' \in Building /\ step' # "outputs"
    BY <1>3, <2>1
  <2>. QED
    BY Zenon, <1>2, <1>4, <2>1, <2>2
<1>6. CASE BuildExample
  <2>1. step = "example" /\ step' = "common" /\ cfg' = cfg /\ servers' = servers
    BY Zenon, <1>6 DEF BuildExample, GoTo, vars
  <2>2. step \in Building /\ step' \in Building /\ step # "outputs" /\ step' # "outputs"
    BY <1>3, <2>1
  <2>. QED
    BY Zenon, <1>2, <1>4, <2>1, <2>2
<1>7. CASE BuildCommon
  <2>1. /\ step = "common" /\ step' = step /\ servers' = servers
        /\ cfg' = cfg \/ \E e : cfg' = BatchOverridden(e)
    BY Zenon, <1>7 DEF BuildCommon
  <2>2. SameInBuild /\ cfg'.nsrc = cfg.nsrc
    BY Zenon, <1>1, <1>2, <2>1, BatchSame
  <2>3. step \in Building /\ step' \in Building /\ step # "outputs" /\ step' # "outputs"
    BY <1>3, <2>1
  <2>. QED
    BY Zenon, <1>4, <2>1, <2>2, <2>3
<1>8. CASE BuildTee
  <2>1. step = "common" /\ step' = "broker" /\ cfg' = cfg /\ servers' = servers
    BY Zenon, <1>8 DEF BuildTee, GoTo, vars
  <2>2. step \in Building /\ step' \in Building /\ step # "outputs" /\ step' # "outputs"
    BY <1>3, <2>1
  <2>. QED
    BY Zenon, <1>2, <1>4, <2>1, <2>2
<1>9. CASE LinkBroker
  <2>1. /\ step = "broker" /\ step' \in {"failed", "last"} /\ cfg' = cfg
        /\ servers' = servers
    BY <1>9 DEF LinkBroker, Abandon, GoTo, vars
  <2>2. step' = "failed" \/ step' = "last"
    BY <2>1
  <2>3. CASE step' = "failed"
    BY Zenon, <1>3, <2>1, <2>3, ServersRest
  <2>4. CASE step' = "last"
    <3>1. step \in Building /\ step' \in Building /\ step # "outputs" /\ step' # "outputs"
      BY <1>3, <2>1, <2>4
    <3>. QED
      BY Zenon, <1>2, <1>4, <2>1, <3>1
  <2>. QED
    BY Zenon, <2>2, <2>3, <2>4
<1>10. CASE LinkSources
  <2>1. step = "last" /\ step' = "built" /\ cfg' = cfg /\ servers' = servers
    BY Zenon, <1>10 DEF LinkSources, GoTo, vars
  <2>2. step \in Building /\ step' \in Building /\ step # "outputs" /\ step' # "outputs"
    BY <1>3, <2>1
  <2>. QED
    BY Zenon, <1>2, <1>4, <2>1, <2>2
<1>. QED
  BY Zenon, <1>5, <1>6, <1>7, <1>8, <1>9, <1>10

(* destroy_pipeline unmounts them all, forgotten ones of earlier pipelines *)
(* included.                                                               *)
LEMMA ServersEnd ==
  ASSUME ServersInv, DestroyPipeline
  PROVE  ServersInv'
<1>1. step' = "idle" /\ servers' = Unmounted
  BY Zenon DEF DestroyPipeline, GoTo
<1>2. servers \in Seq(Server)
  BY Zenon DEF ServersInv
<1>3. \A n \in 1 .. Len(servers) :
        /\ [servers[n] EXCEPT !.mounted = FALSE] \in Server
        /\ ~[servers[n] EXCEPT !.mounted = FALSE].mounted
  <2>1. \A x \in Server : /\ [x EXCEPT !.mounted = FALSE] \in Server
                          /\ ~[x EXCEPT !.mounted = FALSE].mounted
    BY DEF Server
  <2>2. \A n \in 1 .. Len(servers) : servers[n] \in Server
    BY <1>2
  <2>. QED
    BY Zenon, <2>1, <2>2
<1>4. Len(servers) \in Nat
  BY <1>2
<1> DEFINE l == Len(servers)
           u == [n \in 1 .. l |-> [servers[n] EXCEPT !.mounted = FALSE]]
<1>5. /\ u \in [1 .. l -> Server] /\ DOMAIN u = 1 .. l
      /\ \A n \in 1 .. l : ~u[n].mounted
  BY Zenon, <1>3
<1>6. servers' = u
  BY Zenon, <1>1 DEF Unmounted
<1> HIDE DEF u, l
<1>7. u \in Seq(Server) /\ Len(u) = l
  BY <1>4, <1>5 DEF l
<1>8. servers' \in Seq(Server') /\ Mounted' = {}
  BY Zenon, <1>5, <1>6, <1>7, SameServer DEF Mounted
<1>9. step' \notin Building
  BY <1>1 DEF Building
<1>. QED
  BY Zenon, <1>8, <1>9 DEF ServersInv

LEMMA ServersNext ==
  ASSUME Fed, ServersInv, [BuildNext]_buildVars
  PROVE  ServersInv'
<1>1. BuildInv /\ ParserTypes /\ BuildTypes
  BY Zenon DEF Fed
<1>2. CASE UNCHANGED buildVars
  <2>1. cfg' = cfg /\ step' = step /\ at' = at /\ servers' = servers
    BY Zenon, <1>2 DEF buildVars, vars, building
  <2>2. SameInBuild
    BY Zenon, <2>1, SameWhenUnchanged
  <2>3. (Tiled' <=> Tiled) /\ \A i : Mine(i)' = Mine(i)
    BY Zenon, <2>2, SameViews
  <2>4. Outs' = Outs
    BY Zenon, <2>1, <2>3 DEF Outs, Slots
  <2>5. \/ step' \notin Building \cup {"idle", "sources"}
        \/ step \in {"idle", "sources"} /\ step' \in {"idle", "sources"}
        \/ step \in Building /\ step' \in Building
    BY Zenon, <2>1
  <2>. QED
    BY Zenon, <2>1, <2>2, <2>4, <2>5, ServersRest
<1>3. CASE BuildTiled
  BY Zenon, <1>1, <1>3, ServersTiled
<1>4. CASE BuildDemuxed
  BY Zenon, <1>1, <1>4, ServersDemuxed
<1>5. CASE DemuxDone \/ BuildExample \/ BuildCommon \/ BuildTee \/ LinkBroker \/ LinkSources
  BY Zenon, <1>1, <1>5, ServersLater
<1>6. CASE DestroyPipeline
  BY Zenon, <1>6, ServersEnd
<1>7. CASE Parse \/ CreatePipeline \/ BuildSources \/ BuildMultiSource \/ ElementFails
  BY Zenon, <1>1, <1>7, ServersBegin
<1>. QED
  BY Zenon, <1>2, <1>3, <1>4, <1>5, <1>6, <1>7 DEF BuildNext

(* Only the sink bin of a UDP sink has a payloader.                        *)
LEMMA PayloaderOfUdp ==
  ASSUME NEW i, NEW k
  PROVE  /\ ~UnknownSink(i) /\ k \in UdpSinks(i) =>
              Len(MadeElements(i, k)) = 7 /\ MadeElements(i, k)[6] = "rtppay"
         /\ ~UnknownSink(i) /\ k \notin UdpSinks(i) =>
              \A n \in 1 .. Len(MadeElements(i, k)) : MadeElements(i, k)[n] # "rtppay"
<1>1. /\ RenderBin = <<"queue", "sink">>
      /\ MsgConvBrokerBin = <<"queue", "transform", "sink">>
      /\ \A s : EncodeFileBin(s) = <<>> \/ EncodeFileBin(s) =
           <<"queue", "transform", "cap_filter", "encoder", "codecparse", "mux", "sink">>
      /\ \A s : UdpsinkBin(s) = <<>> \/ UdpsinkBin(s) =
           <<"queue", "transform", "cap_filter", "encoder", "codecparse", "rtppay", "sink">>
  <2>1. \A s : EncodeFileBin(s) = <<>> \/ EncodeFileBin(s) =
           <<"queue", "transform", "cap_filter", "encoder", "codecparse", "mux", "sink">>
    BY Zenon DEF EncodeFileBin
  <2>2. \A s : UdpsinkBin(s) = <<>> \/ UdpsinkBin(s) =
           <<"queue", "transform", "cap_filter", "encoder", "codecparse", "rtppay", "sink">>
    BY Zenon DEF UdpsinkBin
  <2>. QED
    BY Zenon, <2>1, <2>2 DEF RenderBin, MsgConvBrokerBin
<1> DEFINE Plain(e) == \A n \in 1 .. Len(e) : e[n] # "rtppay"
           s == cfg.sink[k]
<1>2. Plain(RenderBin) /\ Plain(MsgConvBrokerBin) /\ Plain(<<>>)
  BY <1>1
<1>3. Plain(<<"queue", "transform", "cap_filter", "encoder", "codecparse", "mux", "sink">>)
  <2> DEFINE q == <<"queue", "transform", "cap_filter", "encoder", "codecparse", "mux", "sink">>
  <2>1. /\ Len(q) = 7 /\ q[1] = "queue" /\ q[2] = "transform" /\ q[3] = "cap_filter"
        /\ q[4] = "encoder" /\ q[5] = "codecparse" /\ q[6] = "mux" /\ q[7] = "sink"
    OBVIOUS
  <2> HIDE DEF q
  <2>2. \A n \in 1 .. 7 : n = 1 \/ n = 2 \/ n = 3 \/ n = 4 \/ n = 5 \/ n = 6 \/ n = 7
    OBVIOUS
  <2>3. Plain(q)
    BY <2>1, <2>2
  <2>. QED
    BY Zenon, <2>3 DEF q
<1>4. <<"queue", "transform", "cap_filter", "encoder", "codecparse", "rtppay", "sink">>[6]
         = "rtppay"
      /\ Len(<<"queue", "transform", "cap_filter", "encoder", "codecparse", "rtppay",
               "sink">>) = 7
  OBVIOUS
<1> HIDE DEF Plain
<1>5. ASSUME ~UnknownSink(i), k \in UdpSinks(i)
      PROVE  Len(MadeElements(i, k)) = 7 /\ MadeElements(i, k)[6] = "rtppay"
  <2>1. k \in Mine(i) /\ s.type = Udp
    BY Zenon, <1>5 DEF UdpSinks
  <2>2. MadeElements(i, k) = ElementsOf(s) /\ ElementsOf(s) # <<>>
    BY Zenon, <1>5, <2>1 DEF MadeElements, UnknownSink
  <2>3. ElementsOf(s) = UdpsinkBin(s)
    <3>1. \A t : t = Udp => t \notin {Fake, 2, 5} /\ t # File
      BY DEF Udp, Fake, File
    <3>2. s.type \notin {Fake, 2, 5} /\ s.type # File /\ s.type = Udp
      BY Zenon, <2>1, <3>1
    <3> HIDE DEF s
    <3>3. ElementsOf(s) = CASE s.type \in {Fake, 2, 5} -> RenderBin
                            [] s.type = File -> EncodeFileBin(s)
                            [] s.type = Udp -> UdpsinkBin(s)
                            [] s.type = Broker -> MsgConvBrokerBin
                            [] OTHER -> <<>>
      BY Zenon DEF ElementsOf
    <3>. QED
      BY <3>2, <3>3 DEF Fake, File, Udp, Broker
  <2>. QED
    BY Zenon, <1>1, <1>4, <2>2, <2>3
<1>6. ASSUME k \notin UdpSinks(i) PROVE Plain(MadeElements(i, k))
  <2>1. CASE k \in Mine(i)
    <3>1. MadeElements(i, k) = ElementsOf(s) /\ s.type # Udp
      BY Zenon, <1>6, <2>1 DEF MadeElements, UdpSinks
    <3>2. ElementsOf(s) \in {RenderBin, EncodeFileBin(s), MsgConvBrokerBin, <<>>}
      BY <3>1 DEF ElementsOf
    <3>. QED
      BY Zenon, <1>1, <1>2, <1>3, <3>1, <3>2
  <2>2. CASE k \notin Mine(i)
    BY Zenon, <1>2, <2>2 DEF MadeElements
  <2>. QED
    BY Zenon, <2>1, <2>2
<1>. QED
  BY Zenon, <1>5, <1>6 DEF Plain

(* The payloaders frames reach are those of the UDP sinks.                 *)
LEMMA PayloadersReached ==
  ASSUME Fed, step = "built"
  PROVE  /\ \A i \in Outs : \A k \in UdpSinks(i) : Sub(i, k, "rtppay") \in Reached
         /\ \A e \in Reached : e[1] = "rtppay" =>
              \E i \in Outs : \E k \in UdpSinks(i) : e = Sub(i, k, "rtppay")
<1>1. step \in Building
  BY DEF Building
<1>2. \A i \in Outs :
        ~UnknownSink(i) /\ (Made(i) = Mine(i) \/ (Mine(i) = {} /\ Made(i) \subseteq {0}))
  BY Zenon, <1>1 DEF Fed, OutputsInv, OutputsLinked
<1>3. \A i \in Outs : \A k \in UdpSinks(i) : k \in Made(i)
  BY Zenon, <1>2 DEF UdpSinks
<1>4. ASSUME NEW i \in Outs, NEW k \in UdpSinks(i) PROVE Sub(i, k, "rtppay") \in Reached
  <2>1. Len(MadeElements(i, k)) = 7 /\ MadeElements(i, k)[6] = "rtppay"
    BY Zenon, <1>2, PayloaderOfUdp
  <2>2. 6 \in 1 .. Len(MadeElements(i, k))
    BY <2>1
  <2>3. Sub(i, k, MadeElements(i, k)[6]) \in Reached
    BY Zenon, <1>3, <2>2, OutputReached
  <2>. QED
    BY Zenon, <2>1, <2>3
<1> DEFINE Good(e) == e[1] = "rtppay" =>
              \E i \in Outs : \E k \in UdpSinks(i) : e = Sub(i, k, "rtppay")
<1>5. /\ \A a, b : <<a, b>>[2] = b
      /\ \A i, k, x : Sub(i, k, x)[1] = x
      /\ \A i : Osd(i)[1] # "rtppay" /\ SinkBin(i)[1] # "rtppay"
      /\ "queue" # "rtppay" /\ Elem("source")[1] # "rtppay"
  BY DEF Sub, Osd, SinkBin, Elem
<1>6. \A n \in Passed : E(n)[1] # "rtppay"
  <2>1. \A n \in 1 .. 12 : Order[n] # "rtppay"
    BY Positions
  <2>2. \A n \in 1 .. 12 : E(n)[1] = Order[n]
    BY DEF E, Elem
  <2>3. Passed \subseteq 1 .. 12
    BY Zenon, Positions DEF Passed
  <2>. QED
    BY Zenon, <2>1, <2>2, <2>3
<1>7. ASSUME NEW l \in graph PROVE Good(l[2])
  <2>1. CASE l \in Links(Passed)
    <3>1. PICK i \in Passed : \E j \in Passed : l = <<E(i), E(j)>>
      BY Zenon, <2>1, LinkOf
    <3>2. PICK j \in Passed : l = <<E(i), E(j)>>
      BY Zenon, <3>1
    <3>3. l[2] = E(j)
      BY Zenon, <1>5, <3>2
    <3>. QED
      BY Zenon, <1>6, <3>3
  <2>2. ASSUME NEW i \in Outs, l \in OutLinks(i) PROVE Good(l[2])
    <3>1. CASE Inner(l, i)
      <4>1. PICK k \in Made(i) : \E n \in 1 .. Len(MadeElements(i, k)) - 1 :
              l = <<Sub(i, k, MadeElements(i, k)[n]), Sub(i, k, MadeElements(i, k)[n + 1])>>
        BY Zenon, <3>1 DEF Inner
      <4>2. PICK n \in 1 .. Len(MadeElements(i, k)) - 1 :
              l = <<Sub(i, k, MadeElements(i, k)[n]), Sub(i, k, MadeElements(i, k)[n + 1])>>
        BY Zenon, <4>1
      <4>3. Len(MadeElements(i, k)) \in Nat
        BY Zenon, <1>2, SinkElements
      <4>4. n + 1 \in 1 .. Len(MadeElements(i, k))
        BY <4>3
      <4>5. l[2] = Sub(i, k, MadeElements(i, k)[n + 1])
        BY Zenon, <1>5, <4>2
      <4>6. MadeElements(i, k)[n + 1] = "rtppay" => k \in UdpSinks(i)
        BY Zenon, <1>2, <4>4, PayloaderOfUdp
      <4>7. l[2][1] = MadeElements(i, k)[n + 1]
        BY <4>5 DEF Sub
      <4>. QED
        BY Zenon, <4>5, <4>6, <4>7
    <3>2. CASE OnTheTee(l, i)
      <4>1. PICK k \in Made(i) : l = <<SinkBin(i), Sub(i, k, "queue")>>
        BY Zenon, <3>2 DEF OnTheTee
      <4>2. l[2] = Sub(i, k, "queue")
        BY Zenon, <1>5, <4>1
      <4>3. l[2][1] = "queue"
        BY <4>2 DEF Sub
      <4>. QED
        BY Zenon, <1>5, <4>3
    <3>3. CASE OnOsd(l, i)
      <4>1. l[2] = SinkBin(i)
        BY Zenon, <1>5, <3>3 DEF OnOsd
      <4>. QED
        BY Zenon, <1>5, <4>1
    <3>4. CASE l = <<Feeder, Entry(i)>>
      <4>1. l[2] = Entry(i)
        BY Zenon, <1>5, <3>4
      <4>2. Entry(i) = Osd(i) \/ Entry(i) = SinkBin(i)
        BY Zenon DEF Entry
      <4>3. l[2][1] # "rtppay"
        BY Zenon, <1>5, <4>1, <4>2
      <4>. QED
        BY Zenon, <4>3
    <3>. QED
      BY Zenon, <2>2, <3>1, <3>2, <3>3, <3>4, OutLinkKinds
  <2>3. ASSUME NEW k \in Brokers, l = <<Elem("tee"), Sub(0, k, "queue")>>
        PROVE  Good(l[2])
    <3>1. l[2] = Sub(0, k, "queue")
      BY Zenon, <1>5, <2>3
    <3>2. l[2][1] = "queue"
      BY <3>1 DEF Sub
    <3>. QED
      BY Zenon, <1>5, <3>2
  <2> HIDE DEF Good
  <2>. QED
    BY Zenon, <2>1, <2>2, <2>3, LinkKinds
<1>8. Good(Elem("source"))
  BY Zenon, <1>5
<1> HIDE DEF Good
<1> DEFINE S == {Elem("source")} \cup {l[2] : l \in graph}
<1>9. Reached \subseteq S
  <2>1. Elem("source") \in S /\ \A l \in graph : l[2] \in S
    BY Zenon
  <2> HIDE DEF S
  <2>. QED
    BY Zenon, <2>1, GraphFinite, ReachedIsClosure
<1>10. \A e \in S : Good(e)
  BY Zenon, <1>7, <1>8
<1>11. \A e \in Reached : Good(e)
  BY Zenon, <1>9, <1>10
<1>. QED
  BY Zenon, <1>4, <1>11 DEF Good

(* The servers mounted and the payloaders reached are in bijection.        *)
LEMMA ServedIsEnough == Fed /\ ServersInv => ServedIsFed
<1> SUFFICES ASSUME Fed, ServersInv, step = "built" PROVE ServedIsFed
  BY Zenon DEF ServedIsFed
<1> DEFINE P == {e \in Reached : e[1] = "rtppay"}
           fed == {n \in Mounted :
                     Sub(servers[n].instance, servers[n].sink, "rtppay") \in Reached}
           f == [n \in Mounted |-> Sub(servers[n].instance, servers[n].sink, "rtppay")]
<1>1. ServedOnce /\ servers \in Seq(Server)
  <2>1. step \in Building
    BY DEF Building
  <2>. QED
    BY Zenon, <2>1 DEF ServersInv
<1>2. /\ \A i \in Outs : \A k \in UdpSinks(i) : Sub(i, k, "rtppay") \in Reached
      /\ \A e \in Reached : e[1] = "rtppay" =>
           \E i \in Outs : \E k \in UdpSinks(i) : e = Sub(i, k, "rtppay")
  BY Zenon, PayloadersReached
<1>3. ASSUME NEW n \in Mounted
      PROVE  /\ Sub(servers[n].instance, servers[n].sink, "rtppay") \in Reached
             /\ f[n] = Sub(servers[n].instance, servers[n].sink, "rtppay")
             /\ f[n] \in P
  <2>1. /\ servers[n].instance \in Outs
        /\ servers[n].sink \in UdpSinks(servers[n].instance)
    BY Zenon, <1>1 DEF ServedOnce
  <2>2. Sub(servers[n].instance, servers[n].sink, "rtppay") \in Reached
    BY Zenon, <1>2, <2>1
  <2>3. f[n] = Sub(servers[n].instance, servers[n].sink, "rtppay")
    BY Zenon
  <2>4. f[n][1] = "rtppay"
    BY <2>3 DEF Sub
  <2>. QED
    BY Zenon, <2>2, <2>3, <2>4
<1>4. Mounted = fed
  BY Zenon, <1>3
<1>5. f \in [Mounted -> P]
  <2>1. \A n \in Mounted : Sub(servers[n].instance, servers[n].sink, "rtppay") \in P
    BY Zenon, <1>3
  <2>. QED
    BY Zenon, <2>1
<1>6. ASSUME NEW m \in Mounted, NEW n \in Mounted, f[m] = f[n] PROVE m = n
  <2>1. Serves(m, servers[n].instance, servers[n].sink)
    <3>1. Sub(servers[m].instance, servers[m].sink, "rtppay")
            = Sub(servers[n].instance, servers[n].sink, "rtppay")
      BY Zenon, <1>3, <1>6
    <3>2. /\ servers[m].instance = servers[n].instance
          /\ servers[m].sink = servers[n].sink
      BY <3>1 DEF Sub
    <3>. QED
      BY Zenon, <3>2 DEF Serves
  <2>. QED
    BY Zenon, <1>1, <2>1 DEF ServedOnce
<1>7. ASSUME NEW e \in P PROVE \E n \in Mounted : f[n] = e
  <2>1. PICK i \in Outs : \E k \in UdpSinks(i) : e = Sub(i, k, "rtppay")
    BY Zenon, <1>2
  <2>2. PICK k \in UdpSinks(i) : e = Sub(i, k, "rtppay")
    BY Zenon, <2>1
  <2>3. PICK n \in Mounted : Serves(n, i, k)
    BY Zenon, <1>1 DEF ServedOnce
  <2>4. servers[n].instance = i /\ servers[n].sink = k
    BY Zenon, <2>3 DEF Serves
  <2>5. f[n] = e
    BY Zenon, <1>3, <2>2, <2>4
  <2>. QED
    BY Zenon, <2>5
<1>8. IsFiniteSet(Mounted)
  <2>1. 1 \in Int /\ Len(servers) \in Int
    BY <1>1
  <2>2. IsFiniteSet(1 .. Len(servers))
    BY Zenon, <2>1, FS_Interval
  <2>3. Mounted \subseteq 1 .. Len(servers)
    BY Zenon DEF Mounted
  <2>. QED
    BY Zenon, <2>2, <2>3, FS_Subset
<1>9. Cardinality(Mounted) = Cardinality(P)
  <2> HIDE DEF f, P
  <2>1. f \in Bijection(Mounted, P)
    BY Zenon, <1>5, <1>6, <1>7, Fun_IsBij
  <2>2. ExistsBijection(Mounted, P)
    BY Zenon, <2>1 DEF ExistsBijection
  <2>3. Cardinality(P) = Cardinality(Mounted)
    BY Zenon, <1>8, <2>2, FS_Bijection
  <2>. QED
    BY <2>3
<1> HIDE DEF P, f
<1>10. Mounted = {n \in 1 .. Len(servers) : servers[n].mounted}
  BY Zenon DEF Mounted
<1>. QED
  BY Zenon, <1>4, <1>9, <1>10 DEF ServedIsFed, P

(* Whatever the files say and however often the pipeline is recreated, the *)
(* servers mounted when a pipeline is built are those of the UDP sinks its *)
(* frames reach, one for each (create_udpsink_bin, start_rtsp_streaming,   *)
(* destroy_sink_bin).                                                      *)
THEOREM ServersAreFed == BuildSpec => []ServedIsFed
<1>1. Fed /\ ServersInv /\ [BuildNext]_buildVars => (Fed /\ ServersInv)'
  BY Zenon, FedNext, ServersNext
<1>. QED
  BY <1>1, FedInit, ServersInit, ServedIsEnough, PTL DEF BuildSpec

=============================================================================
