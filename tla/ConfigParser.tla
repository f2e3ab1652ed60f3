------------------------------ MODULE ConfigParser ------------------------------
(***************************************************************************)
(* The configuration parser: parse_config_file of the application          *)
(* (deepstream_proximity_config_parser.c) and the group parsers it calls   *)
(* (apps-common/src/deepstream_config_file_parser.c), for the              *)
(* configuration files of one command line, in turn.                       *)
(*                                                                         *)
(* A file is revealed group by group, in any order.  A group is its kind,  *)
(* the number after its name (-1: none) and a function from the keys       *)
(* present to their values; Bad stands for a value GKeyFile cannot read or *)
(* the group parser refuses.  Array slots the C code fills before it knows *)
(* whether the group is enabled keep what was written to them.             *)
(***************************************************************************)
EXTENDS Integers, Sequences, FiniteSets

CONSTANTS
  MaxSources,    (* MAX_SOURCE_BINS                                          *)
  MaxGies,       (* MAX_SECONDARY_GIE_BINS                                   *)
  MaxPreprocess, (* MAX_SECONDARY_PREPROCESS_BINS                            *)
  MaxSinks,      (* MAX_SINK_BINS                                            *)
  GuintRange,    (* the numbers of a guint: 2^32                             *)
  Bad,           (* an unreadable value                                      *)
  Families       (* the files tried: records of the possible [application]   *)
                 (* groups apps, [source-list]s lists, [source-attr-all]s    *)
                 (* attrs and other groups, the order of their names (<<>>:  *)
                 (* any), and the bounds files, maxGroups and builds         *)

ASSUME ConfigAssumption ==
  /\ {MaxSources, MaxGies, MaxPreprocess, MaxSinks} \subseteq Nat \ {0}
  /\ GuintRange \in Nat \ {0}
  /\ Bad \notin Int

(* Groups whose names carry a number; any other name is in a file once.    *)
Numbered == {"source", "secondary-gie", "secondary-pre-process", "sink"}

ASSUME FamiliesAssumption ==
  \A f \in Families :
    /\ f.files \in Nat \ {0} /\ f.builds \in Nat
    /\ \A i, j \in DOMAIN f.order : i < j => f.order[i] # f.order[j]
    /\ \A g \in f.groups : g.index \in Nat \cup {-1}
    /\ \A g, h \in f.groups :
         g.kind = h.kind /\ g.kind \notin Numbered => g.index = h.index

VARIABLES
  family,    (* the family the files of this run are taken from              *)
  stage,     (* what parse_config_file does next                             *)
  cfg,       (* the NvDsConfig being filled                                  *)
  read,      (* history: the groups of this file read so far                 *)
  next,      (* index of the loop over the sources                           *)
  cameraIds, (* camera_id_list, static in parse_source                       *)
  parsed     (* history: the files accepted, with their configuration        *)

vars == <<family, stage, cfg, read, next, cameraIds, parsed>>

SourceMultiple == 3   \* NV_DS_SOURCE_URI_MULTIPLE
SourceUri == 2        \* NV_DS_SOURCE_URI
Schemes == [file |-> 2, rtsp |-> 4, csi |-> 5, usb |-> 1]

Slots(n) == 0 .. n - 1

NoSource ==
  [enable |-> 0, type |-> 0, id |-> 0, gpu |-> 0, num |-> 0, attempts |-> 0,
   latency |-> 0, uri |-> <<>>, device |-> 0]
NoGie == [enable |-> 0, uid |-> 0, gpu |-> 0, gpuSet |-> FALSE, batch |-> 0]
NoPreprocess == [enable |-> 0, target |-> -1]
NoSink ==
  [enable |-> 0, type |-> 0, source |-> 0, gpu |-> 0, demux |-> 0,
   codec |-> 0, container |-> 0]
NoPart == [enable |-> 0, gpu |-> 0]

(* The components that are just switched on and given a GPU.               *)
Parts == {"osd", "tracker", "tiled-display", "ds-example", "img-save"}

(* g_malloc0 in main, and the first assignments of parse_config_file.      *)
EmptyConfig ==
  [global |-> -1, listed |-> FALSE, total |-> 0, uris |-> <<>>,
   multi |-> 0, maxBatch |-> 0, sgieBatch |-> 0, attrAll |-> NoSource,
   nsrc |-> 0, src |-> [i \in Slots(MaxSources) |-> NoSource],
   ngie |-> 0, gie |-> [i \in Slots(MaxGies) |-> NoGie], primary |-> NoGie,
   npre |-> 0, pre |-> [i \in Slots(MaxPreprocess) |-> NoPreprocess],
   preprocess |-> NoPreprocess,
   nsink |-> 0, sink |-> [i \in Slots(MaxSinks) |-> NoSink],
   mux |-> [gpu |-> 0, batch |-> 0, parsed |-> FALSE],
   part |-> [p \in Parts |-> NoPart], tiles |-> [rows |-> 0, columns |-> 0],
   msgconv |-> 0]

NothingRead == [app |-> <<>>, list |-> <<>>, attr |-> <<>>, groups |-> <<>>]

Stages == {"app", "list", "attr", "groups", "expand", "done", "failed"}

TypeOK ==
  /\ family \in Families
  /\ stage \in Stages
  /\ next \in 0 .. MaxSources
  /\ cfg.nsrc \in 0 .. MaxSources /\ DOMAIN cfg.src = Slots(MaxSources)
  /\ cfg.ngie \in 0 .. MaxGies /\ DOMAIN cfg.gie = Slots(MaxGies)
  /\ cfg.npre \in 0 .. MaxPreprocess /\ DOMAIN cfg.pre = Slots(MaxPreprocess)
  /\ cfg.nsink \in 0 .. MaxSinks /\ DOMAIN cfg.sink = Slots(MaxSinks)
  /\ cameraIds \subseteq Nat
  /\ Len(parsed) \in 0 .. family.files

Init ==
  /\ family \in Families
  /\ stage = "app" /\ cfg = EmptyConfig /\ read = NothingRead /\ next = 0
  /\ cameraIds = {} /\ parsed = <<>>

-----------------------------------------------------------------------------
(* Keys of a group.                                                        *)
Get(g, key, default) ==
  IF key \in DOMAIN g.keys THEN g.keys[key] ELSE default
Unreadable(g) == \E key \in DOMAIN g.keys : g.keys[key] = Bad

(* The early return of parse_source, parse_gie and parse_sink.             *)
Off(g) == Get(g, "enable", 0) \in {0, Bad}

(* The GPU of the [application] group, written before the group is parsed. *)
GlobalOr(gpu) == IF cfg.global # -1 THEN cfg.global ELSE gpu

Fail == stage' = "failed" /\ UNCHANGED <<cfg, next, cameraIds, parsed>>

(* The group ends the file, or the configuration becomes c.                *)
Outcome(fails, c) ==
  \/ fails /\ Fail
  \/ ~fails /\ cfg' = c /\ UNCHANGED <<stage, next, cameraIds, parsed>>

-----------------------------------------------------------------------------
(* parse_app                                                               *)
ParseApp(g) ==
  /\ stage = "app"
  /\ read' = [read EXCEPT !.app = <<g>>]
  /\ \/ Unreadable(g) /\ Fail
     \/ /\ ~Unreadable(g)
        /\ cfg' = [cfg EXCEPT !.global = Get(g, "gpu", -1)]
        /\ stage' = "list"
        /\ UNCHANGED <<next, cameraIds, parsed>>
  /\ UNCHANGED family

(* parse_source_list                                                       *)
ListTooLong(l) ==
  \/ Len(Get(l, "uri-list", <<>>)) > MaxSources
  \/ Get(l, "sensor-id-list", 0) > MaxSources
  \/ Get(l, "sensor-name-list", 0) > MaxSources

ListMismatch(l) ==
  /\ {"uri-list", "num-source-bins"} \subseteq DOMAIN l.keys
  /\ \/ Len(l.keys["uri-list"]) # l.keys["num-source-bins"]
     \/ Get(l, "sensor-id-list", 0) # l.keys["num-source-bins"]
     \/ Get(l, "sensor-name-list", 0) # l.keys["num-source-bins"]

ListTotal(l) ==
  Get(l, "num-source-bins", Len(Get(l, "uri-list", <<>>)))

(* The number of uris of a source is a number, if it can be read.          *)
ASSUME NumSourcesAssumption ==
  \A f \in Families : \A g \in f.groups \cup f.attrs :
    Get(g, "num-sources", 0) \in Int \cup {Bad}

(* A list whose values can be read has uris, and a number of sources that  *)
(* nothing compares with MAX_SOURCE_BINS when there is no uri-list: it is  *)
(* taken to respect it.                                                    *)
ASSUME ListsAssumption ==
  \A f \in Families : \A l \in f.lists : ~Unreadable(l) =>
    LET uris == Get(l, "uri-list", <<>>) IN
    /\ Get(l, "num-source-bins", 0) \in 0 .. MaxSources
    /\ uris \in Seq({uris[i] : i \in 1 .. Len(uris)})

(* The rows and columns of the tiler are unsigned, if they can be read.     *)
ASSUME TilesAssumption ==
  \A f \in Families : \A g \in f.groups :
    {Get(g, "rows", 0), Get(g, "columns", 0)} \subseteq Nat \cup {Bad}

ParseSourceList(l) ==
  /\ stage = "list"
  /\ read' = [read EXCEPT !.list = <<l>>]
  /\ LET refused == Unreadable(l) \/ ListTooLong(l) \/ ListMismatch(l) IN
     \/ refused /\ Fail
     \/ /\ ~refused
        /\ cfg' = [cfg EXCEPT !.listed = TRUE, !.total = ListTotal(l),
                              !.nsrc = ListTotal(l),
                              !.uris = Get(l, "uri-list", <<>>),
                              !.multi = Get(l, "use-nvmultiurisrcbin", 0),
                              !.maxBatch = Get(l, "max-batch-size", 0),
                              !.sgieBatch = Get(l, "sgie-batch-size", 0)]
        /\ stage' = "attr"
        /\ UNCHANGED <<next, cameraIds, parsed>>
  /\ UNCHANGED family

NoSourceList ==
  /\ stage = "list" /\ stage' = "attr"
  /\ UNCHANGED <<family, cfg, read, next, cameraIds, parsed>>

-----------------------------------------------------------------------------
(* num_sources is a guint: a negative number is read as a large one, which *)
(* the test < 1 lets pass and the expansion refuses.                       *)
NumSources(n) == IF n % GuintRange < 1 THEN 1 ELSE n % GuintRange

(* The keys of a source group, over the defaults parse_source sets first.  *)
SourceKeys(c, g) ==
  [c EXCEPT !.enable = Get(g, "enable", c.enable),
            !.type = Get(g, "type", c.type),
            !.id = Get(g, "camera-id", c.id),
            !.gpu = Get(g, "gpu-id", c.gpu),
            !.num = IF "num-sources" \in DOMAIN g.keys
                    THEN NumSources(g.keys["num-sources"]) ELSE @,
            !.attempts = Get(g, "rtsp-reconnect-attempts", c.attempts),
            !.latency = Get(g, "latency", 100),
            !.uri = IF "uri" \in DOMAIN g.keys THEN <<g.keys.uri>> ELSE c.uri]

(* extract-sei-type5-data is looked up in a group [source], which no       *)
(* accepted file has.                                                      *)
SourceKeysRefused(g) ==
  Unreadable(g) \/ "extract-sei-type5-data" \in DOMAIN g.keys

(* parse_source of a numbered group.                                       *)
ParsedSource(c, g) ==
  IF Off(g) THEN c
  ELSE SourceKeys([c EXCEPT !.id = g.index, !.attempts = -1], g)

SourceRefusedNoDuplicate(g) ==   \* mutated: camera_id_list is not searched
  ~Off(g) /\ SourceKeysRefused(g)

SourceRefused(g) ==
  ~Off(g) /\ (g.index \in cameraIds \/ SourceKeysRefused(g))

(* set_source_all_configs for the i-th source.                             *)
ListedSourceShifted(attr, uris, i) ==   \* mutated: the uris are one off
  LET u == uris[IF i = 0 THEN Len(uris) ELSE i] IN
  IF uris = <<>> THEN [attr EXCEPT !.id = i]
  ELSE [attr EXCEPT !.id = i, !.type = Schemes[u.scheme], !.uri = <<u.name>>]

ListedSource(attr, uris, i) ==
  LET u == uris[i + 1]
      s == [attr EXCEPT !.id = i] IN
  IF uris = <<>> THEN s
  ELSE IF u.scheme \in {"file", "rtsp"}
       THEN [s EXCEPT !.type = Schemes[u.scheme], !.uri = <<u.name>>]
       ELSE [s EXCEPT !.type = Schemes[u.scheme], !.device = u.name]

ParseAttrAll(g) ==
  /\ stage = "attr"
  /\ read' = [read EXCEPT !.attr = <<g>>]
  /\ LET attr == SourceKeys([NoSource EXCEPT !.gpu = GlobalOr(0)], g)
         refused == \/ SourceKeysRefused(g)
                    \/ \E i \in 1 .. Len(cfg.uris) :
                         cfg.uris[i].scheme \notin DOMAIN Schemes
     IN \/ refused /\ Fail
        \/ /\ ~refused
           /\ cfg' = [cfg EXCEPT
                !.attrAll = attr,
                !.src = [i \in Slots(MaxSources) |->
                           IF i < cfg.total
                           THEN ListedSource(attr, cfg.uris, i) ELSE @[i]]]
           /\ stage' = "groups"
           /\ UNCHANGED <<next, cameraIds, parsed>>
  /\ UNCHANGED family

(* Without [source-attr-all] a source list is refused.                     *)
NoAttrAll ==
  /\ stage = "attr"
  /\ \/ cfg.listed /\ Fail
     \/ /\ ~cfg.listed /\ stage' = "groups"
        /\ UNCHANGED <<cfg, next, cameraIds, parsed>>
  /\ UNCHANGED <<family, read>>

-----------------------------------------------------------------------------
(* The loop over the other groups, one kind an action.  A name appears     *)
(* once in a file: GKeyFile merges groups of the same name.                *)
Before(h, g) ==
  LET first == <<h.kind, h.index>>
      then == <<g.kind, g.index>>
  IN IF family.order = <<>> THEN first # then
     ELSE \E i, j \in DOMAIN family.order :
            i < j /\ family.order[i] = first /\ family.order[j] = then

Reading(g, kind) ==
  /\ stage = "groups" /\ g.kind = kind
  /\ Len(read.groups) < family.maxGroups
  /\ \A i \in 1 .. Len(read.groups) : Before(read.groups[i], g)
  /\ read' = [read EXCEPT !.groups = Append(@, g)]
  /\ UNCHANGED family

SourceSlot(g) == IF cfg.listed THEN g.index ELSE cfg.nsrc

SourceLimitEarly == cfg.nsrc >= MaxSources - 1   \* mutated: one too few
SourceLimit == cfg.nsrc = MaxSources

ParseSourceGroup(g) ==
  /\ Reading(g, "source")
  /\ \/ /\ \/ SourceLimit
           \/ g.index = -1
           \/ cfg.listed /\ g.index >= cfg.total
        /\ Fail
     \/ /\ ~SourceLimit /\ g.index # -1
        /\ cfg.listed => g.index < cfg.total
        /\ LET slot == SourceSlot(g)
               s == ParsedSource([cfg.src[slot] EXCEPT !.gpu = GlobalOr(@)], g)
               refused == \/ cfg.listed /\ s.type = SourceMultiple
                          \/ SourceRefused(g)
           IN \/ refused /\ Fail
              \/ /\ ~refused
                 /\ cfg' = [cfg EXCEPT
                      !.src[slot] = s,
                      !.nsrc = IF s.enable # 0 /\ ~cfg.listed THEN @ + 1 ELSE @]
                 /\ cameraIds' = IF Off(g) THEN cameraIds
                                 ELSE cameraIds \cup {g.index}
                 /\ UNCHANGED <<stage, next, parsed>>

(* parse_gie: the group needs a config file, its label file must parse.    *)
ParsedGie(c, g) ==
  IF Off(g) THEN c
  ELSE [c EXCEPT !.enable = g.keys.enable,
                 !.uid = Get(g, "gie-unique-id", c.uid),
                 !.gpu = Get(g, "gpu-id", c.gpu),
                 !.gpuSet = c.gpuSet \/ "gpu-id" \in DOMAIN g.keys,
                 !.batch = Get(g, "batch-size", c.batch)]

GieRefused(g) ==
  ~Off(g) /\ (Unreadable(g) \/ "config-file" \notin DOMAIN g.keys)

GlobalGie(c) ==
  [c EXCEPT !.gpu = GlobalOr(@), !.gpuSet = @ \/ cfg.global # -1]

ParsePrimaryGie(g) ==
  /\ Reading(g, "primary-gie")
  /\ Outcome(GieRefused(g),
             [cfg EXCEPT !.primary = ParsedGie(GlobalGie(@), g)])

SecondaryGieGlobalLast(g) ==   \* mutated: the global GPU wins
  GlobalGie(ParsedGie(cfg.gie[cfg.ngie], g))

SecondaryGie(g) == ParsedGie(GlobalGie(cfg.gie[cfg.ngie]), g)

ParseSecondaryGie(g) ==
  /\ Reading(g, "secondary-gie")
  /\ \/ cfg.ngie = MaxGies /\ Fail
     \/ /\ cfg.ngie < MaxGies
        /\ LET c == SecondaryGie(g) IN
           Outcome(GieRefused(g),
                   [cfg EXCEPT !.gie[cfg.ngie] = c,
                               !.ngie = IF c.enable # 0 THEN @ + 1 ELSE @])

(* parse_preprocess has no early return: a disabled group leaves its keys. *)
ParsedPreprocess(c, g) ==
  [c EXCEPT !.enable = Get(g, "enable", c.enable),
            !.target = Get(g, "operate-on-gie-id", c.target)]

ParsePreprocess(g) ==
  /\ Reading(g, "pre-process")
  /\ Outcome(Unreadable(g),
             [cfg EXCEPT !.preprocess = ParsedPreprocess(@, g)])

ParseSecondaryPreprocess(g) ==
  /\ Reading(g, "secondary-pre-process")
  /\ \/ cfg.npre = MaxPreprocess /\ Fail
     \/ /\ cfg.npre < MaxPreprocess
        /\ LET c == ParsedPreprocess(cfg.pre[cfg.npre], g) IN
           Outcome(Unreadable(g),
                   [cfg EXCEPT !.pre[cfg.npre] = c,
                               !.npre = IF c.enable # 0 THEN @ + 1 ELSE @])

(* parse_sink sets some defaults before its early return.                  *)
ParsedSink(c, g) ==
  LET d == [c EXCEPT !.demux = 0, !.codec = 1, !.container = 1] IN
  IF Off(g) THEN d
  ELSE [d EXCEPT !.enable = g.keys.enable,
                 !.type = Get(g, "type", @),
                 !.source = Get(g, "source-id", @),
                 !.gpu = Get(g, "gpu-id", @),
                 !.demux = Get(g, "link-to-demux", @),
                 !.codec = Get(g, "codec", @),
                 !.container = Get(g, "container", @)]

(* The global GPU is for sinks whose enable is 1.                          *)
GlobalSink(c, g) ==
  IF Get(g, "enable", 0) = 1 THEN [c EXCEPT !.gpu = GlobalOr(@)] ELSE c

ParseSink(g) ==
  /\ Reading(g, "sink")
  /\ \/ cfg.nsink = MaxSinks /\ Fail
     \/ /\ cfg.nsink < MaxSinks
        /\ LET c == ParsedSink(GlobalSink(cfg.sink[cfg.nsink], g), g) IN
           Outcome(~Off(g) /\ Unreadable(g),
                   [cfg EXCEPT !.sink[cfg.nsink] = c,
                               !.nsink = IF c.enable # 0 THEN @ + 1 ELSE @])

ParseStreammux(g) ==
  /\ Reading(g, "streammux")
  /\ Outcome(Unreadable(g),
             [cfg EXCEPT !.mux = [gpu |-> Get(g, "gpu-id", GlobalOr(@.gpu)),
                                  batch |-> Get(g, "batch-size", @.batch),
                                  parsed |-> TRUE]])

(* The components of which only enable and gpu-id matter here.             *)
WithPart(g, kind) ==
  [cfg EXCEPT !.part[kind] = [enable |-> Get(g, "enable", @.enable),
                              gpu |-> Get(g, "gpu-id", GlobalOr(@.gpu))]]
ParsePart(g, kind) ==
  Reading(g, kind) /\ Outcome(Unreadable(g), WithPart(g, kind))
ParseOsd(g) == ParsePart(g, "osd")
ParseTracker(g) == ParsePart(g, "tracker")
ParseDsExample(g) == ParsePart(g, "ds-example")

ParseTiledDisplay(g) ==
  /\ Reading(g, "tiled-display")
  /\ Outcome(Unreadable(g),
             [WithPart(g, "tiled-display") EXCEPT
                !.tiles = [rows |-> Get(g, "rows", @.rows),
                           columns |-> Get(g, "columns", @.columns)]])

(* parse_image_save, which first sets gpu_id to 0.                         *)
ParseImageSave(g) ==
  /\ Reading(g, "img-save")
  /\ Outcome(Unreadable(g),
             [cfg EXCEPT !.part["img-save"] =
                [enable |-> Get(g, "enable", 0), gpu |-> Get(g, "gpu-id", 0)]])

ParseMsgconv(g) ==
  /\ Reading(g, "message-converter")
  /\ Outcome(Unreadable(g), [cfg EXCEPT !.msgconv = Get(g, "enable", @)])

(* A group of values nothing here depends on.                              *)
ParseTests(g) ==
  Reading(g, "tests") /\ Outcome(Unreadable(g), cfg)

-----------------------------------------------------------------------------
(* After the groups: the batch sizes of a source list.                     *)
Batched ==
  IF ~cfg.listed THEN cfg
  ELSE [cfg EXCEPT
          !.mux.batch = cfg.nsrc,
          !.primary.batch = cfg.nsrc,
          !.gie = [i \in Slots(MaxGies) |->
                     IF i < cfg.ngie /\ cfg.sgieBatch # 0
                     THEN [@[i] EXCEPT !.batch = cfg.sgieBatch] ELSE @[i]]]

SharedGieIds ==
  \/ \E i \in Slots(cfg.ngie) : cfg.gie[i].uid = cfg.primary.uid
  \/ \E i, j \in Slots(cfg.ngie) : i < j /\ cfg.gie[i].uid = cfg.gie[j].uid

EndOfGroups ==
  /\ stage = "groups"
  /\ \/ SharedGieIds /\ Fail
     \/ /\ ~SharedGieIds
        /\ cfg' = Batched /\ stage' = "expand" /\ next' = 0
        /\ UNCHANGED <<cameraIds, parsed>>
  /\ UNCHANGED <<family, read>>

(* One turn of the loop that expands NV_DS_SOURCE_URI_MULTIPLE: the source *)
(* becomes a URI source and its further uris sources of their own.         *)
CopiesFromZero(s) ==   \* mutated: the loop starts at 0
  IF s.type = SourceMultiple /\ s.num > 1 THEN s.num ELSE 0
Copies(s) == IF s.type = SourceMultiple /\ s.num > 1 THEN s.num - 1 ELSE 0

TooManyCopiesUnchecked(s) == FALSE   \* mutated: no limit
TooManyCopies(s) == cfg.nsrc + Copies(s) > MaxSources

ExpandSource ==
  /\ stage = "expand" /\ next < cfg.nsrc
  /\ LET s == cfg.src[next]
         of(j) == [s EXCEPT !.type = SourceUri, !.uri = Append(@, j)]
     IN \/ TooManyCopies(s) /\ Fail
        \/ /\ ~TooManyCopies(s)
           /\ cfg' = IF s.type # SourceMultiple THEN cfg
                     ELSE [cfg EXCEPT
                       !.nsrc = @ + Copies(s),
                       !.src = [i \in Slots(MaxSources) |->
                         IF i = next THEN [of(0) EXCEPT
                                             !.num = IF @ < 1 THEN 1 ELSE @]
                         ELSE IF i \in cfg.nsrc .. cfg.nsrc + Copies(s) - 1
                              THEN of(i - cfg.nsrc + 1) ELSE @[i]]]
           /\ next' = next + 1
           /\ UNCHANGED <<stage, cameraIds, parsed>>
  /\ UNCHANGED <<family, read>>

(* The file is accepted; main goes on with the next one.                   *)
AcceptFile ==
  /\ stage = "expand" /\ next = cfg.nsrc
  /\ parsed' = Append(parsed, [read |-> read, cfg |-> cfg])
  /\ IF Len(parsed) + 1 < family.files
     THEN stage' = "app" /\ cfg' = EmptyConfig /\ read' = NothingRead
     ELSE stage' = "done" /\ UNCHANGED <<cfg, read>>
  /\ next' = 0
  /\ UNCHANGED <<family, cameraIds>>

ParseGroup ==
  \E g \in family.groups :
    \/ ParseSourceGroup(g) \/ ParsePrimaryGie(g) \/ ParseSecondaryGie(g)
    \/ ParsePreprocess(g) \/ ParseSecondaryPreprocess(g)
    \/ ParseSink(g) \/ ParseStreammux(g)
    \/ ParseOsd(g) \/ ParseTracker(g) \/ ParseTiledDisplay(g)
    \/ ParseDsExample(g) \/ ParseImageSave(g) \/ ParseMsgconv(g)
    \/ ParseTests(g)

Next ==
  \/ \E g \in family.apps : ParseApp(g)
  \/ NoSourceList \/ \E l \in family.lists : ParseSourceList(l)
  \/ NoAttrAll \/ \E g \in family.attrs : ParseAttrAll(g)
  \/ ParseGroup
  \/ EndOfGroups \/ ExpandSource \/ AcceptFile

Spec == Init /\ [][Next]_vars

-----------------------------------------------------------------------------
(* What a file says, computed from its groups alone.                       *)
TurnedOn(groups, kind) ==
  {n \in 1 .. Len(groups) : groups[n].kind = kind /\ ~Off(groups[n])}
SourcesOn(groups) == TurnedOn(groups, "source")
SlotOf(groups, n) ==
  Cardinality({m \in TurnedOn(groups, groups[n].kind) : m < n})
GpuOf(global, g) == Get(g, "gpu-id", IF global # -1 THEN global ELSE 0)
UrisOf(g) ==
  IF Get(g, "type", 0) = SourceMultiple /\ "num-sources" \in DOMAIN g.keys
  THEN NumSources(g.keys["num-sources"]) ELSE 1

(* The sources the groups ask for: <<n, j>> is uri j of the n-th group.    *)
(* Those of uris 0 come first, then the further uris, group by group.      *)
SourcesAsked(groups) ==
  UNION {{<<n, j>> : j \in Slots(UrisOf(groups[n]))} : n \in SourcesOn(groups)}
FurtherBefore(groups, w) ==
  {v \in SourcesAsked(groups) :
     v[2] > 0 /\ (v[1] < w[1] \/ (v[1] = w[1] /\ v[2] < w[2]))}
PlaceOf(groups, w) ==
  IF w[2] = 0 THEN SlotOf(groups, w[1])
  ELSE Cardinality(SourcesOn(groups)) + Cardinality(FurtherBefore(groups, w))
Accepted == {parsed[i] : i \in 1 .. Len(parsed)}

(* Without a source list the sources are those the enabled [source] groups *)
(* ask for and no others, in their order, each with the keys of its group, *)
(* whatever disabled groups wrote to the same slot; a further uri differs  *)
(* from the first of its group in the uri alone.                           *)
SourcesAsDescribed ==
  \A f \in Accepted : f.read.list = <<>> =>
    LET groups == f.read.groups  c == f.cfg IN
    /\ c.nsrc = Cardinality(SourcesAsked(groups))
    /\ \A w \in SourcesAsked(groups) :
         LET g == groups[w[1]]
             s == c.src[PlaceOf(groups, w)]
             multiple == Get(g, "type", 0) = SourceMultiple
             uri == IF "uri" \in DOMAIN g.keys THEN <<g.keys.uri>> ELSE <<>>
         IN /\ s.type = IF multiple THEN SourceUri ELSE Get(g, "type", 0)
            /\ s.id = Get(g, "camera-id", g.index)
            /\ s.attempts = Get(g, "rtsp-reconnect-attempts", -1)
            /\ s.latency = Get(g, "latency", 100)
            /\ s.uri = IF multiple THEN Append(uri, w[2]) ELSE uri
            /\ w[2] > 0 => s = [c.src[SlotOf(groups, w[1])] EXCEPT !.uri = s.uri]

(* gpu-id: a component's own value, else the one of [application], else 0; *)
(* the comments at parse_config_file:266-268 and beside each group.  An    *)
(* enabled group is found in the slot that follows those of its kind.      *)
GpuPrecedence ==
  \A f \in Accepted : \A n \in 1 .. Len(f.read.groups) :
    LET groups == f.read.groups
        g == groups[n]
        on(kind) == n \in TurnedOn(groups, kind)
        slot == SlotOf(groups, n)
        c == f.cfg
    IN /\ on("source") /\ f.read.list = <<>> => c.src[slot].gpu = GpuOf(c.global, g)
       /\ on("secondary-gie") => c.gie[slot].gpu = GpuOf(c.global, g)
       /\ on("sink") /\ g.keys.enable = 1 => c.sink[slot].gpu = GpuOf(c.global, g)
       /\ g.kind = "streammux" => c.mux.gpu = GpuOf(c.global, g)
       /\ g.kind \in Parts \ {"img-save"} => c.part[g.kind].gpu = GpuOf(c.global, g)

(* parse_source refuses a number already parsed: over all the files of a   *)
(* command line, enabled source groups carry distinct numbers.             *)
OneSourcePerNumber ==
  \A a, b \in 1 .. Len(parsed) :
    LET x == parsed[a].read.groups  y == parsed[b].read.groups IN
    \A i \in SourcesOn(x), j \in SourcesOn(y) :
      x[i].index = y[j].index => a = b /\ i = j

(* With a source list whose sources are single uris, the muxer and the     *)
(* primary engine get the number of sources as batch size, and source i    *)
(* plays the i-th uri unless its own group says otherwise.                 *)
ListedSourcesFillBatch ==
  \A f \in Accepted : f.read.list # <<>> =>
    LET uris == Get(f.read.list[1], "uri-list", <<>>)
        attr == f.read.attr[1]
        c == f.cfg
        own(i) == \E g \in {f.read.groups[k] : k \in 1 .. Len(f.read.groups)} :
                    g.kind = "source" /\ g.index = i /\ ~Off(g)
    IN (uris # <<>> \/ Get(attr, "type", 0) # SourceMultiple) =>
         /\ c.mux.batch = c.nsrc /\ c.primary.batch = c.nsrc
         /\ \A i \in 1 .. Len(uris) : ~own(i - 1) =>
              /\ c.src[i - 1].type = Schemes[uris[i].scheme]
              /\ uris[i].scheme \in {"file", "rtsp"} =>
                   c.src[i - 1].uri = <<uris[i].name>>

(* A first file without a source list is refused for a reason in it: a     *)
(* value, a missing number, more sources than MAX_SOURCE_BINS or exactly   *)
(* as many when another group follows, too many of another kind, or two    *)
(* engines of one id, 0 being the id of a primary one that is not there.   *)
RefusedForCause ==
  stage = "failed" /\ parsed = <<>> /\ read.list = <<>> =>
    LET groups == read.groups
        gs == {groups[n] : n \in 1 .. Len(groups)}
        some(kind) == {n \in 1 .. Len(groups) : groups[n].kind = kind}
        primary == TurnedOn(groups, "primary-gie")
        gies == TurnedOn(groups, "secondary-gie") \cup primary
        uid(n) == Get(groups[n], "gie-unique-id", 0)
    IN \/ \E g \in gs : Unreadable(g)
       \/ Unreadable(read.app[1])
       \/ read.attr # <<>> /\ SourceKeysRefused(read.attr[1])
       \/ \E n \in some("source") : groups[n].index = -1
       \/ \E n \in SourcesOn(groups) : SourceKeysRefused(groups[n])
       \/ \E n \in gies : "config-file" \notin DOMAIN groups[n].keys
       \/ Cardinality(SourcesAsked(groups)) > MaxSources
       \/ Cardinality(SourcesOn(groups)) = MaxSources
            /\ Cardinality(some("source")) > MaxSources
       \/ Cardinality(some("secondary-gie")) > MaxGies
       \/ Cardinality(some("secondary-pre-process")) > MaxPreprocess
       \/ Cardinality(some("sink")) > MaxSinks
       \/ \E n, m \in gies : n # m /\ uid(n) = uid(m)
       \/ primary = {} /\ \E n \in gies : uid(n) = 0
=============================================================================
