----------------------------- MODULE PipelineBuild -----------------------------
(***************************************************************************)
(* create_pipeline and destroy_pipeline (deepstream_proximity.c) for a     *)
(* configuration the parser accepted: what is created, how it is linked,   *)
(* when creation gives up, and what survives a recreation.                 *)
(*                                                                         *)
(* The pipeline is a set of links between elements, built from the sinks   *)
(* up to the sources.  The bins inside (decoding, the trees of engines,    *)
(* encoding) are one element each.  The structures the elements are kept   *)
(* in are not emptied when a pipeline is destroyed: the number of sinks of *)
(* an instance stays, and its pointers then show freed elements.           *)
(***************************************************************************)
EXTENDS ConfigParser

VARIABLES
  step,     (* where create_pipeline is                                      *)
  at,       (* index of its loop over common elements or sources             *)
  graph,    (* the links of the pipeline                                     *)
  ends,     (* sink_elem, src_elem and last_elem                             *)
  sinkBins, (* the sink_bin of each processing instance                      *)
  servers,  (* server[]: the RTSP servers started, for which sink of which   *)
            (* instance, and whether it is still mounted                     *)
  builds,   (* history: the pipelines started                                *)
  lost      (* history: an element could not be created                      *)

building == <<step, at, graph, ends, sinkBins, servers, builds, lost>>
buildVars == <<vars, building>>

(* Elements, and those of the processing instance i and its sink k.        *)
Elem(name) == <<name, 0, 0>>
Osd(i) == <<"osd", i, 0>>
SinkBin(i) == <<"sink_bin", i, 0>>
Sub(i, k, name) == <<name, i, k>>
None == Elem("none")

Fake == 1      \* NV_DS_SINK_FAKE, and so on
File == 3
Udp == 4
Broker == 6
BuiltSources == {1, 2, 4, 5, 6, 7, 8}  \* the cases of create_multi_source_bin

(* The order of create_common_elements.                                    *)
Common == <<"sgie", "secondary_preprocess", "tracker", "pgie", "preprocess">>

Wanted(e) ==
  CASE e = "sgie" -> cfg.primary.enable # 0 /\ cfg.ngie > 0
    [] e = "secondary_preprocess" -> cfg.primary.enable # 0 /\ cfg.npre > 0
    [] e = "tracker" -> cfg.part["tracker"].enable # 0
    [] e = "pgie" -> cfg.primary.enable # 0
    [] e = "preprocess" -> cfg.preprocess.enable # 0

Tiled == cfg.part["tiled-display"].enable # 0
Instances == Slots(MaxSources)

Steps ==
  {"idle", "sources", "outputs", "example", "common", "broker", "last",
   "built", "failed", "crashed"}

BuildTypeOK ==
  /\ TypeOK
  /\ step \in Steps /\ at \in 0 .. MaxSources + Len(Common)
  /\ DOMAIN sinkBins = Instances
  /\ builds \in 0 .. family.builds /\ lost \in BOOLEAN

BuildInit ==
  /\ Init
  /\ step = "idle" /\ at = 0 /\ graph = {} /\ builds = 0
  /\ ends = [sink |-> None, src |-> None, last |-> None]
  /\ sinkBins = [i \in Instances |->
                   [num |-> 0, sinks |-> [k \in Slots(MaxSinks) |-> "none"]]]
  /\ servers = <<>> /\ lost = FALSE

Parse ==
  /\ Next /\ UNCHANGED building

GoTo(s) == step' = s
Abandon == step' = "failed" /\ UNCHANGED <<at, graph, ends, sinkBins, servers>>

-----------------------------------------------------------------------------
CreatePipeline ==
  /\ stage = "done" /\ step = "idle" /\ builds < family.builds
  /\ GoTo("sources") /\ builds' = builds + 1
  /\ UNCHANGED <<vars, at, graph, ends, sinkBins, servers, lost>>

(* A plugin is missing, or an element refuses: every creation checks.      *)
ElementFails ==
  /\ step \in {"sources", "outputs", "example", "common", "broker"}
  /\ lost' = TRUE /\ Abandon
  /\ UNCHANGED <<vars, builds>>

EnabledSources == {i \in Slots(cfg.nsrc) : cfg.src[i].enable # 0}

(* create_multi_source_bin, and the muxer.                                 *)
BuildSources ==
  /\ step = "sources" /\ cfg.multi = 0
  /\ \/ /\ \E i \in EnabledSources : cfg.src[i].type \notin BuiltSources
        /\ Abandon
     \/ /\ \A i \in EnabledSources : cfg.src[i].type \in BuiltSources
        /\ GoTo("outputs") /\ at' = 0
        /\ UNCHANGED <<graph, ends, sinkBins, servers>>
  /\ UNCHANGED <<vars, builds, lost>>

(* create_nvmultiurisrcbin_bin: one bin for all sources.  When it starts   *)
(* empty it takes [source-attr-all], which the parser has made sure of,    *)
(* and counts as one source.                                               *)
BuildMultiSource ==
  /\ step = "sources" /\ cfg.multi # 0
  /\ cfg' = [cfg EXCEPT
               !.nsrc = IF @ = 0 THEN 1 ELSE @,
               !.mux.batch = IF cfg.mux.parsed THEN cfg.maxBatch ELSE @]
  /\ GoTo("outputs") /\ at' = 0
  /\ UNCHANGED <<family, stage, read, next, cameraIds, parsed>>
  /\ UNCHANGED <<graph, ends, sinkBins, servers, builds, lost>>

-----------------------------------------------------------------------------
(* create_sink_bin of instance i: its sinks hang on a tee, but for the     *)
(* broker's; a fake sink is made when there has been none.                 *)
Mine(i) ==
  {k \in Slots(cfg.nsink) :
     /\ cfg.sink[k].enable # 0 /\ cfg.sink[k].demux = 0
     /\ cfg.sink[k].source = i}

(* The elements of a sink bin in the order frames pass them, as            *)
(* create_render_bin, create_encode_file_bin, create_udpsink_bin and       *)
(* create_msg_conv_broker_bin link them; nothing is made for an unknown    *)
(* type, codec or container.  MPEG4 (3) is for files.                      *)
RenderBin == <<"queue", "sink">>
EncodeFileBin(s) ==
  IF s.codec \notin 1 .. 3 \/ s.container \notin 1 .. 2 THEN <<>>
  ELSE <<"queue", "transform", "cap_filter", "encoder", "codecparse", "mux",
         "sink">>
UdpsinkBin(s) ==
  IF s.codec \notin 1 .. 2 THEN <<>>
  ELSE <<"queue", "transform", "cap_filter", "encoder", "codecparse", "rtppay",
         "sink">>
MsgConvBrokerBin == <<"queue", "transform", "sink">>

ElementsOf(s) ==
  CASE s.type \in {Fake, 2, 5} -> RenderBin
    [] s.type = File -> EncodeFileBin(s)
    [] s.type = Udp -> UdpsinkBin(s)
    [] s.type = Broker -> MsgConvBrokerBin
    [] OTHER -> <<>>

UnknownSink(i) == \E k \in Mine(i) : ElementsOf(cfg.sink[k]) = <<>>

SubsMadeNoFake(i) == Mine(i)   \* mutated: no fake sink
SubsMade(i) ==
  IF sinkBins[i].num = 0 /\ Mine(i) = {} THEN {0} ELSE Mine(i)

SinkBinOf(i) ==
  [num |-> sinkBins[i].num + Cardinality(SubsMade(i)),
   sinks |-> [k \in Slots(MaxSinks) |->
                IF k \in SubsMade(i) THEN "made" ELSE sinkBins[i].sinks[k]]]

(* The first element of create_processing_instance, and its links.         *)
Entry(i) == IF cfg.part["osd"].enable # 0 THEN Osd(i) ELSE SinkBin(i)
SubLinks(i, k, elements) ==
  {<<Sub(i, k, elements[n]), Sub(i, k, elements[n + 1])>> :
     n \in 1 .. Len(elements) - 1}
MadeElements(i, k) == IF k \in Mine(i) THEN ElementsOf(cfg.sink[k]) ELSE RenderBin
OnTee(i) == {k \in SubsMade(i) : k \in Mine(i) => cfg.sink[k].type # Broker}
InstanceLinks(i) ==
  (UNION {SubLinks(i, k, MadeElements(i, k)) : k \in SubsMade(i)})
  \cup {<<SinkBin(i), Sub(i, k, "queue")>> : k \in OnTee(i)}
  \cup (IF cfg.part["osd"].enable # 0 THEN {<<Osd(i), SinkBin(i)>>} ELSE {})

(* start_rtsp_streaming for each UDP sink: another server, mounted.        *)
Started(i) ==
  LET udp == {k \in Mine(i) : cfg.sink[k].type = Udp} IN
  [n \in 1 .. Cardinality(udp) |->
     [instance |-> i, mounted |-> TRUE,
      sink |-> CHOOSE k \in udp : Cardinality({j \in udp : j < k}) = n - 1]]

(* The probe that measures latency goes to the sink a pointer shows: on a  *)
(* freed element it may find no pad, find one, or end the process.         *)
Probe(pointer, goOn) ==
  \/ pointer # "none" /\ goOn
  \/ pointer # "made" /\ Abandon /\ UNCHANGED cfg
  \/ /\ pointer = "freed" /\ step' = "crashed"
     /\ UNCHANGED <<cfg, at, graph, ends, sinkBins, servers>>

(* The rows and columns of the tiler are readjusted when they are too few. *)
Root(n) == CHOOSE r \in 0 .. n : r * r - r < n /\ n <= r * r + r
RoundedUp(n, d) == (n + d - 1) \div d
Readjusted(t) ==
  IF t.rows * t.columns >= cfg.nsrc THEN t
  ELSE LET c == IF t.columns = 0 THEN Root(cfg.nsrc) ELSE t.columns IN
       [rows |-> RoundedUp(cfg.nsrc, c), columns |-> c]

BuildTiled ==
  /\ step = "outputs" /\ Tiled
  /\ \/ UnknownSink(0) /\ Abandon /\ UNCHANGED cfg
     \/ /\ ~UnknownSink(0)
        /\ Probe(SinkBinOf(0).sinks[0],
             /\ cfg' = [cfg EXCEPT !.tiles = Readjusted(@)]
             /\ sinkBins' = [sinkBins EXCEPT ![0] = SinkBinOf(0)]
             /\ servers' = servers \o Started(0)
             /\ graph' = graph \cup InstanceLinks(0)
                  \cup {<<Elem("tiler_tee"), Elem("tiler")>>,
                        <<Elem("tiler"), Entry(0)>>}
             /\ ends' = [ends EXCEPT !.last = Elem("tiler_tee")]
             /\ GoTo("example") /\ UNCHANGED at)
  /\ UNCHANGED <<family, stage, read, next, cameraIds, parsed>>
  /\ UNCHANGED <<builds, lost>>

(* One turn of the loop over the sources: the ones without a sink of their *)
(* own get no instance.                                                    *)
BuildDemuxed ==
  /\ step = "outputs" /\ ~Tiled /\ at < cfg.nsrc
  /\ \/ /\ Mine(at) = {} /\ at' = at + 1
        /\ UNCHANGED <<step, graph, ends, sinkBins, servers>>
     \/ Mine(at) # {} /\ UnknownSink(at) /\ Abandon
     \/ /\ Mine(at) # {} /\ ~UnknownSink(at)
        /\ at' = at + 1
        /\ sinkBins' = [sinkBins EXCEPT ![at] = SinkBinOf(at)]
        /\ servers' = servers \o Started(at)
        /\ graph' = graph \cup InstanceLinks(at)
                      \cup {<<Elem("demuxer"), Entry(at)>>}
        /\ UNCHANGED <<step, ends>>
  /\ UNCHANGED <<vars, builds, lost>>

DemuxDone ==
  /\ step = "outputs" /\ ~Tiled /\ at = cfg.nsrc
  /\ ends' = [ends EXCEPT !.last = Elem("demuxer")]
  /\ GoTo("example")
  /\ UNCHANGED <<vars, at, graph, sinkBins, servers, builds, lost>>

-----------------------------------------------------------------------------
BuildExample ==
  /\ step = "example"
  /\ IF cfg.part["ds-example"].enable = 0 THEN UNCHANGED <<graph, ends>>
     ELSE /\ graph' = graph \cup {<<Elem("dsexample"), ends.last>>}
          /\ ends' = [ends EXCEPT !.last = Elem("dsexample")]
  /\ GoTo("common") /\ at' = 0
  /\ UNCHANGED <<vars, sinkBins, servers, builds, lost>>

(* One block of create_common_elements: the element goes before sink_elem; *)
(* the first one made is src_elem.                                         *)
WithCommonLast(e) ==   \* mutated: every element becomes src_elem
  [ends EXCEPT !.sink = Elem(e), !.src = Elem(e)]
WithCommon(e) ==
  [ends EXCEPT !.sink = Elem(e), !.src = IF @ = None THEN Elem(e) ELSE @]

(* nvmultiurisrcbin decides the batch sizes of the engines.                *)
BatchOverridden(e) ==
  IF cfg.multi = 0 THEN cfg
  ELSE IF e = "pgie" THEN [cfg EXCEPT !.primary.batch = cfg.maxBatch]
  ELSE IF e = "sgie"
       THEN [cfg EXCEPT !.gie = [i \in Slots(MaxGies) |->
               IF i < cfg.ngie THEN [@[i] EXCEPT !.batch = cfg.sgieBatch]
               ELSE @[i]]]
  ELSE cfg

BuildCommon ==
  /\ step = "common" /\ at < Len(Common)
  /\ LET e == Common[at + 1] IN
     \/ ~Wanted(e) /\ UNCHANGED <<cfg, graph, ends>>
     \/ /\ Wanted(e)
        /\ cfg' = BatchOverridden(e)
        /\ graph' = graph \cup IF ends.sink = None THEN {}
                               ELSE {<<Elem(e), ends.sink>>}
        /\ ends' = WithCommon(e)
  /\ at' = at + 1
  /\ UNCHANGED <<family, stage, read, next, cameraIds, parsed>>
  /\ UNCHANGED <<step, sinkBins, servers, builds, lost>>

(* The message converter, if enabled, and the tee, if there are analytics. *)
TeeLinks ==
  IF cfg.msgconv # 0
  THEN {<<ends.src, Elem("msg_conv")>>, <<Elem("msg_conv"), Elem("tee")>>}
  ELSE {<<ends.src, Elem("tee")>>}

BuildTee ==
  /\ step = "common" /\ at = Len(Common)
  /\ \/ ends.src = None /\ UNCHANGED <<graph, ends>>
     \/ /\ ends.src # None
        /\ graph' = graph \cup TeeLinks
        /\ ends' = [ends EXCEPT !.src = Elem("tee")]
  /\ GoTo("broker")
  /\ UNCHANGED <<vars, at, sinkBins, servers, builds, lost>>

(* add_and_link_broker_sink: every broker sink, whatever its source, is    *)
(* taken from the first instance.                                          *)
LaterBrokers ==   \* mutated: the loop begins with the second sink
  {k \in Slots(cfg.nsink) \ {0} : cfg.sink[k].type = Broker}
Brokers == {k \in Slots(cfg.nsink) : cfg.sink[k].type = Broker}

LinkBroker ==
  /\ step = "broker"
  /\ LET fails ==
           /\ Brokers # {}
           /\ \/ ends.src = None
              \/ \E k \in Brokers : sinkBins[0].sinks[k] = "none"
     IN \/ fails /\ Abandon
        \/ /\ ~fails
           /\ graph' = graph \cup
                {<<Elem("tee"), Sub(0, k, "queue")>> : k \in Brokers}
           /\ GoTo("last") /\ UNCHANGED <<at, ends, sinkBins, servers>>
  /\ UNCHANGED <<vars, builds, lost>>

LinkSources ==
  /\ step = "last"
  /\ graph' = graph \cup
       IF ends.src = None THEN {<<Elem("source"), ends.last>>}
       ELSE {<<ends.src, ends.last>>, <<Elem("source"), ends.sink>>}
  /\ GoTo("built")
  /\ UNCHANGED <<vars, at, ends, sinkBins, servers, builds, lost>>

(* destroy_sink_bin unmounts every server there has been; none is stopped  *)
(* or forgotten.                                                           *)
UnmountedButLast ==   \* mutated: the loop ends one early
  [n \in 1 .. Len(servers) |->
     [servers[n] EXCEPT !.mounted = @ /\ n = Len(servers)]]
Unmounted ==
  [n \in 1 .. Len(servers) |-> [servers[n] EXCEPT !.mounted = FALSE]]

(* destroy_pipeline of a recreation: the elements are freed, the pointers  *)
(* and counts of the sink bins stay.                                       *)
DestroyPipeline ==
  /\ step = "built" /\ builds < family.builds
  /\ GoTo("idle") /\ graph' = {}
  /\ ends' = [sink |-> None, src |-> None, last |-> None]
  /\ sinkBins' = [i \in Instances |->
       [sinkBins[i] EXCEPT !.sinks = [k \in Slots(MaxSinks) |->
          IF @[k] = "made" THEN "freed" ELSE @[k]]]]
  /\ servers' = Unmounted
  /\ UNCHANGED <<vars, at, builds, lost>>

BuildNext ==
  \/ Parse
  \/ CreatePipeline \/ ElementFails \/ BuildSources \/ BuildMultiSource
  \/ BuildTiled \/ BuildDemuxed \/ DemuxDone
  \/ BuildExample \/ BuildCommon \/ BuildTee \/ LinkBroker \/ LinkSources
  \/ DestroyPipeline

BuildSpec == BuildInit /\ [][BuildNext]_buildVars

-----------------------------------------------------------------------------
(* What frames reach from the sources.                                     *)
Reached ==
  LET within[n \in 0 .. Cardinality(graph)] ==
        IF n = 0 THEN {Elem("source")}
        ELSE LET near == within[n - 1]
             IN near \cup {l[2] : l \in {m \in graph : m[1] \in near}}
  IN within[Cardinality(graph)]

(* The elements frames may pass, from the sources on, and the positions of *)
(* those the configuration asks for.                                       *)
Order ==
  <<"source", "preprocess", "pgie", "tracker", "secondary_preprocess", "sgie",
    "msg_conv", "tee", "dsexample", "tiler_tee", "tiler", "demuxer">>
Analytics == \E e \in {Common[n] : n \in 1 .. Len(Common)} : Wanted(e)
Described(n) ==
  LET e == Order[n] IN
  CASE e = "source" -> TRUE
    [] e = "msg_conv" -> Analytics /\ cfg.msgconv # 0
    [] e = "tee" -> Analytics
    [] e = "dsexample" -> cfg.part["ds-example"].enable # 0
    [] e \in {"tiler_tee", "tiler"} -> Tiled
    [] e = "demuxer" -> ~Tiled
    [] OTHER -> Wanted(e)
Passed == {n \in 1 .. Len(Order) : Described(n)}

(* The pairs of numbers of a set between which there is none of it.        *)
Adjacent(S) == {p \in S \X S : p[1] < p[2] /\ \A n \in S : ~(p[1] < n /\ n < p[2])}

(* In the first pipeline and in recreated ones, frames pass every enabled  *)
(* component once, in the order preprocessing, primary engine, tracker,    *)
(* secondary preprocessing and engines, converter, tee, example, and then  *)
(* the tiler or the demuxer (create_pipeline, create_common_elements).     *)
OneChain ==
  step = "built" =>
    {l \in graph : \E n \in 1 .. Len(Order) : l[2] = Elem(Order[n])} =
      {<<Elem(Order[p[1]]), Elem(Order[p[2]])>> : p \in Adjacent(Passed)}

(* "If Multiple broker sinks are configured [...], only the first in the   *)
(* order of appearance will be considered and others shall be ignored"     *)
(* (deepstream_proximity.c:1030-1034).                                     *)
Considered(k) ==
  cfg.sink[k].type = Broker => \A j \in Slots(k) : cfg.sink[j].type # Broker

(* Frames of the sources reach every sink of a processing instance that    *)
(* exists, of the brokers the first, recreated or not, nothing is left     *)
(* hanging that they do not reach, and the tiler has a tile for every      *)
(* source and a sink to feed.  The fake sink of an instance without one is *)
(* promised for the first pipeline only.                                   *)
EverySinkIsFed ==
  step = "built" =>
    LET instances == IF Tiled THEN {0} ELSE Slots(cfg.nsrc) IN
    /\ \A k \in Slots(cfg.nsink) :
         /\ Considered(k) /\ cfg.sink[k].demux = 0
         /\ cfg.sink[k].source \in instances
         => Sub(cfg.sink[k].source, k, "sink") \in Reached
    /\ \A l \in graph : l[1] \in Reached
    /\ Tiled => /\ cfg.tiles.rows * cfg.tiles.columns >= cfg.nsrc
                /\ builds = 1 \/ Mine(0) # {} =>
                     \E k \in Slots(MaxSinks) : Sub(0, k, "sink") \in Reached

(* The servers mounted at /ds-test are those of the UDP sinks frames       *)
(* reach, one each, whatever pipelines there were before.                  *)
ServedIsFed ==
  step = "built" =>
    LET mounted == {n \in 1 .. Len(servers) : servers[n].mounted}
        fed == {n \in mounted :
                  Sub(servers[n].instance, servers[n].sink, "rtppay") \in Reached}
        payloaders == {e \in Reached : e[1] = "rtppay"}
    IN mounted = fed /\ Cardinality(mounted) = Cardinality(payloaders)

(* Creation gives up only when an element cannot be created, for a source, *)
(* sink, codec or container it does not know, for a broker without         *)
(* analytics or outside the first instance, or because the first sink      *)
(* group is not the tiler's; the first pipeline never ends the process.    *)
BuildFailsForCause ==
  /\ step = "failed" =>
       \/ lost
       \/ \E i \in EnabledSources : cfg.src[i].type \notin BuiltSources
       \/ \E k \in Slots(cfg.nsink) :
            \/ cfg.sink[k].type \notin 1 .. 6
            \/ cfg.sink[k].type \in {File, Udp} /\ cfg.sink[k].codec \notin 1 .. 3
            \/ cfg.sink[k].type = Udp /\ cfg.sink[k].codec = 3
            \/ cfg.sink[k].type = File /\ cfg.sink[k].container \notin 1 .. 2
       \/ Brokers # {} /\ (Analytics => ~Tiled /\ cfg.nsrc = 0)
       \/ \E k \in Brokers : k \notin Mine(0)
       \/ Tiled /\ 0 \notin Mine(0) /\ (builds = 1 => Mine(0) # {})
  /\ step = "crashed" => builds > 1 /\ Tiled /\ 0 \notin Mine(0)
=============================================================================
