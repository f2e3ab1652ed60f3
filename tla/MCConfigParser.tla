---------------------------- MODULE MCConfigParser ----------------------------
(* Families of configuration files for TLC: each varies the groups that    *)
(* interact, and fails in each way a group can fail.  The pipelines of     *)
(* BuiltFamilies are built twice.                                          *)
EXTENDS PipelineBuild, TLC

Group(kind, index, keys) == [kind |-> kind, index |-> index, keys |-> keys]
On == [enable |-> 1]
Empty == [k \in {} |-> 0]
Key(key, value) == key :> value
Gpu == Key("gpu-id", 2)

AppKeys(keys) == Group("application", 0, keys)
App == {AppKeys(Empty), AppKeys(Key("gpu", 1))}
PlainApp == {AppKeys(Empty)}

SourceGroups ==
  {Group("source", 0, On @@ [type |-> 2, uri |-> "a"] @@ Gpu),
   Group("source", 0, On @@ [type |-> 3, uri |-> "m"] @@ Key("num-sources", 2)),
   Group("source", 1, [enable |-> 0, type |-> 3] @@ Gpu),
   Group("source", 1, On @@ [type |-> 3, uri |-> "n"] @@ Key("num-sources", 3)),
   Group("source", 1, On @@ [type |-> 4, uri |-> "r", latency |-> 50]
                        @@ Key("rtsp-reconnect-attempts", 2)),
   Group("source", 2, [enable |-> 2, type |-> 3, uri |-> "o"]
                        @@ Key("num-sources", 0) @@ Key("camera-id", 7)),
   Group("source", 2, On @@ [type |-> Bad]),
   Group("source", 2, [enable |-> Bad]),
   Group("source", 3, On @@ [type |-> 4, uri |-> "p"]),
   Group("source", 4, On @@ [type |-> 2, uri |-> "q"]),
   Group("source", 5, On @@ Key("extract-sei-type5-data", 1)),
   Group("source", 5, On @@ [type |-> 3, uri |-> "s"] @@ Key("num-sources", -1)),
   Group("source", -1, On)}

Uri(s, n) == [scheme |-> s, name |-> n]
SourceLists ==
  {Group("source-list", 0, keys) : keys \in
    {Empty, Key("num-source-bins", 2),
     Key("uri-list", <<Uri("file", "a"), Uri("rtsp", "b")>>),
     Key("uri-list", <<Uri("csi", 0), Uri("usb", 1)>>) @@ Key("sgie-batch-size", 4),
     Key("uri-list", <<Uri("other", "a")>>),
     Key("uri-list", <<Uri("file", "a"), Uri("file", "a"), Uri("file", "a"),
                       Uri("file", "a"), Uri("file", "a")>>),
     Key("uri-list", <<Uri("rtsp", "a"), Uri("rtsp", "b")>>)
       @@ Key("num-source-bins", 2) @@ Key("sensor-id-list", 2)
       @@ Key("sensor-name-list", 2),
     Key("uri-list", <<Uri("rtsp", "a")>>) @@ Key("num-source-bins", 2),
     Key("num-source-bins", Bad)}}
AttrAlls ==
  {Group("source-attr-all", 0, keys) : keys \in
    {On @@ [type |-> 2], On @@ [type |-> 4, latency |-> 200] @@ Gpu,
     On @@ [type |-> 3, uri |-> "m"] @@ Key("num-sources", 2), [enable |-> Bad],
     Key("extract-sei-type5-data", 1)}}

GieKeys(uid) == On @@ Key("gie-unique-id", uid) @@ Key("config-file", "c")
GieGroups ==
  {Group("primary-gie", 0, GieKeys(1)),
   Group("primary-gie", 0, [enable |-> 0]),
   Group("primary-gie", 0, On @@ Key("gie-unique-id", 2)),
   Group("secondary-gie", 0, GieKeys(1) @@ Gpu),
   Group("secondary-gie", 0, GieKeys(2) @@ Gpu),
   Group("secondary-gie", 1, [enable |-> 0] @@ Key("gie-unique-id", 3) @@ Gpu),
   Group("secondary-gie", 1, GieKeys(2)),
   Group("secondary-gie", 2, GieKeys(3) @@ Key("batch-size", 2)),
   Group("secondary-gie", 2, On @@ Key("config-file", "c")),
   Group("secondary-gie", 3, GieKeys(Bad))}

PartGroups ==
  {Group("sink", 0, On @@ [type |-> 2] @@ Gpu),
   Group("sink", 0, [enable |-> 0] @@ Gpu),
   Group("sink", 1, On @@ [type |-> 3] @@ Key("link-to-demux", 1)),
   Group("sink", 2, [enable |-> 2]),
   Group("sink", 3, On @@ [type |-> Bad]),
   Group("secondary-pre-process", 0, [enable |-> 0] @@ Key("operate-on-gie-id", 2)),
   Group("secondary-pre-process", 1, On),
   Group("secondary-pre-process", 2, On @@ Key("operate-on-gie-id", 1)),
   Group("pre-process", 0, On), Group("pre-process", 0, [enable |-> Bad]),
   Group("streammux", 0, Key("batch-size", 1)),
   Group("streammux", 0, Gpu),
   Group("osd", 0, On), Group("osd", 0, On @@ Gpu),
   Group("img-save", 0, On), Group("img-save", 0, On @@ Gpu),
   Group("secondary-pre-process", 3, On @@ Key("operate-on-gie-id", Bad)),
   Group("streammux", 0, Key("batch-size", Bad)),
   Group("osd", 0, On @@ Key("gpu-id", Bad)),
   Group("img-save", 0, On @@ Key("gpu-id", Bad)),
   Group("tests", 0, Empty), Group("tests", 0, Key("file-loop", Bad)),
   Group("message-converter", 0, On),
   Group("message-converter", 0, [enable |-> Bad])}
(* The components that differ in their name only. *)
SameAsOsd ==
  UNION {{Group(kind, 0, On), Group(kind, 0, [enable |-> 0] @@ Gpu),
          Group(kind, 0, [enable |-> Bad])} :
         kind \in {"tracker", "tiled-display", "ds-example"}}

Family(apps, lists, attrs, groups, files, maxGroups) ==
  [apps |-> apps, lists |-> lists, attrs |-> attrs, groups |-> groups,
   order |-> <<>>, files |-> files, maxGroups |-> maxGroups, builds |-> 0]

(* Every choice of components, with a sink and a broker.                   *)
Name(g) == <<g.kind, g.index>>
UriSource(i, type) == Group("source", i, On @@ [type |-> type, uri |-> "a"])
Sink(i, type, source) ==
  Group("sink", i, On @@ [type |-> type] @@ Key("source-id", source))
Tiles(rows, columns) ==
  Group("tiled-display", 0, On @@ [rows |-> rows, columns |-> columns])
Components ==
  <<UriSource(0, 2), Group("primary-gie", 0, GieKeys(1)),
    Group("secondary-gie", 0, GieKeys(2)),
    Group("pre-process", 0, On), Group("secondary-pre-process", 0, On),
    Group("tracker", 0, On), Group("ds-example", 0, On), Group("osd", 0, On),
    Group("message-converter", 0, On), Tiles(1, 1),
    Sink(0, 1, 0), Sink(1, 6, 0)>>

(* Sources and sinks of every kind, with and without tiler and analytics.  *)
Outputs ==
  {UriSource(0, 2), UriSource(0, 9), UriSource(1, 4), UriSource(2, 2),
   Group("primary-gie", 0, GieKeys(1)), Tiles(0, 0), Tiles(1, 2),
   Sink(0, 1, 0), Sink(0, 2, 1), Sink(0, 6, 0), Sink(0, 6, 1), Sink(0, 9, 0),
   Group("sink", 0, On @@ [type |-> 3] @@ Key("link-to-demux", 1)),
   Group("sink", 0, On @@ [type |-> 3, codec |-> 3]), Sink(0, 4, 1),
   Group("sink", 1, On @@ [type |-> 3, container |-> 3]),
   Group("sink", 1, On @@ [type |-> 4, codec |-> 3]),
   Sink(1, 4, 0), Sink(1, 5, 1), Sink(1, 6, 0), Group("streammux", 0, Gpu)}
OutputOrder ==
  <<<<"source", 0>>, <<"source", 1>>, <<"source", 2>>, <<"primary-gie", 0>>,
    <<"tiled-display", 0>>, <<"streammux", 0>>, <<"sink", 0>>, <<"sink", 1>>>>

MultiKeys == Key("use-nvmultiurisrcbin", 1) @@ Key("max-batch-size", 4)
MultiLists ==
  {Group("source-list", 0, MultiKeys @@ keys) : keys \in
    {Key("num-source-bins", 0) @@ Key("sgie-batch-size", 3),
     Key("uri-list", <<Uri("rtsp", "a"), Uri("rtsp", "b")>>)}}

Built(lists, attrs, groups, order) ==
  [apps |-> PlainApp, lists |-> lists, attrs |-> attrs, groups |-> groups,
   order |-> order, files |-> 1, maxGroups |-> Len(order), builds |-> 2]

BuiltFamilies ==
  {Built({}, {}, {Components[i] : i \in DOMAIN Components},
         [i \in DOMAIN Components |-> Name(Components[i])]),
   Built({}, {}, Outputs, OutputOrder),
   Built(MultiLists, {Group("source-attr-all", 0, On @@ [type |-> 2])},
         Outputs \cup {Group("secondary-gie", 0, GieKeys(2))},
         SubSeq(OutputOrder, 4, 8) \o <<<<"secondary-gie", 0>>>>)}

AllFamilies ==
  BuiltFamilies \cup
  {Family(App \cup {AppKeys(Key("gpu", Bad))}, {}, {}, SourceGroups, 1, 4),
   Family(PlainApp, {}, {}, SourceGroups, 2, 2),
   Family(App, SourceLists, AttrAlls, SourceGroups, 1, 2),
   Family(App, {}, {}, GieGroups, 1, 3),
   Family(PlainApp, SourceLists, AttrAlls, GieGroups, 1, 2),
   Family(App, {}, {}, PartGroups, 1, 3),
   Family(App, {}, {}, SameAsOsd, 1, 3)}
=============================================================================
