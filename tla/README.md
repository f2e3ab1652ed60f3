# TLA+ models of jetson-bsp

The repository is a board support package for NVIDIA Jetson boards: scripts that
patch, build and deploy a kernel and its modules, a camera driver patch, a few
small programs, and one large one, the DeepStream application
`deepstream-proximity-record-app` with the library of bins it is built from
(`deepstream/apps/apps-common`). The application carries the logic of the
repository and is what these modules model: threads, timers and messages that
meet in a pipeline of cameras, and a parser that turns configuration files into
it. Line numbers below are those of these files:

| short | file |
|---|---|
| SB  | `deepstream/apps/apps-common/src/deepstream_source_bin.c` |
| PERF | `deepstream/apps/apps-common/src/deepstream_perf.c` |
| CFP | `deepstream/apps/apps-common/src/deepstream_config_file_parser.c` |
| PX  | `deepstream/apps/deepstream-proximity-record-app/src/deepstream_proximity.c` |
| MN  | `.../src/deepstream_proximity_main.c` |
| PCP | `.../src/deepstream_proximity_config_parser.c` |
| UDS | `.../src/uds/uds_client.c` |
| SK | `deepstream/apps/apps-common/src/deepstream_sink_bin.c` |
| SG | `deepstream/apps/apps-common/src/deepstream_secondary_gie_bin.c` |
| SP | `deepstream/apps/apps-common/src/deepstream_secondary_preprocess.c` |

`PROJECT.json` maps every definition to the lines it models, lists the hazards
of the code at the line where they bite, and names for each run and each theorem
what it says.

## Running

    tlc -workers 2 -config RtspOne.cfg MCRtspSource.tla
    tlapm RtspSource_proofs.tla

and so on for the other `*_proofs` modules. Each `X.cfg` belongs to the MC module of its
component: `Rtsp*` to `MCRtspSource`, `Perf*` to `MCPerfMeasure`, `Life*` to `MCAppLifecycle`,
`Record*` to `MCSmartRecord`, `Config*` to `MCConfigParser`, `Stream*` and
`Secondary*` to `MCStreamPath`, `View*` to `MCDisplayControl`. A run takes from
a few seconds to a few minutes; a proof module takes seconds, `StreamPath_proofs` about three
minutes, `ConfigParser_proofs` and `PipelineBuild_proofs` up to ten minutes each.

## 1. The system

Everything the application does happens on one of these threads:

- the **main loop** of GLib, which runs one callback at a time: bus watches
  (`bus_callback`), the 40 ms poll of keyboard and end (`event_thread_func`),
  the 400 ms poll of SIGINT (`check_for_interrupt`), the one second watchdog of
  each RTSP source (`watch_source_status`), the 20 ms watch of its state change,
  queued resets, the performance sample, the generator of record events, the
  poll of the server socket, and the periodic recreation of a pipeline;
- the **streaming threads** of GStreamer, which run pad probes;
- the **X thread** (`nvds_x_event_thread`), which may pause, resume, stop or
  zoom;
- the **signal handler**.

They share the `AppCtx` of each instance, mostly without locks.

### Components

**RTSP reconnection** (SB 586-966 and 1492-1538, PX `bus_callback`) - modelled.
State per source: `reconfiguring`, `num_rtsp_reconnects`, `have_eos`,
`async_state_watch_running`, the ages of `last_buffer_time` and
`last_reconnect_time`; shared: `last_reset_time_global`, the probe behind the
mux. Operations: the watchdog (retry or stop), the reset of a source bin, the
watch of its state change, the decision to stop everything, the two pad probes,
and the handling of errors of a source. Hard: four actors on one bin, timers
that outlive what started them, a shared spacing between resets, an EOS that must
be dropped while somebody is still reconnecting. Correct when a live stream is
left alone, a lost one is retried as often as configured and then stopped,
and the application ends when, and only when, nothing is left to retry.

**Frame rate measurement** (PERF; its callers at PX 1609-1622 and 1708-1777, MN 367-371 and 496-501) - modelled
but for dynamic sources. State: per instance counters and stamps, `stop`, the
timer id. Operations: probe, sample, pause, resume, enable. Hard: an unlocked
test of `stop` by the streaming thread, two threads that pause and resume, stamps that
survive a pause. Correct when rates are finite, frames are counted once, and a
playing pipeline is measured.

**Application life cycle** (MN `main` and callbacks, PX `destroy_pipeline`) -
modelled but for windows and terminal. State: stage of `main`, pipelines, buses,
the quit flags and exit codes per instance and for all, the timers. Hard:
three ways to stop that set different flags, an exit code gathered from several
places, failures of any step of the start, recreation of a pipeline while others
run. Correct when the application ends if and only if it should, and says so.

**Server link and recording** (UDS, SB 523-584 and 926-956, MN
`all_bbox_generated` 68-132 and 572-618) - modelled but for the recording library itself. State:
the socket in both directions, the packet each thread is filling, `recordOn`, the timers
of the event generator. Hard: byte streams without framing, partial sends,
commands compared with whatever one `recv` returned, a reused packet, a socket
shared without a lock. Correct when packets arrive whole and describe
their own frame, and commands do to the recording what they say.

**Configuration parser** (PCP, CFP) - modelled but for keys that are only
copied. State: the `NvDsConfig` being filled, the static `camera_id_list`.
Operations: one per group of the file, the engine id checks, the batch sizes,
the expansion of multi-uri sources. Hard: array slots written before a group
turns out to be disabled, a value that may come from three groups, limits at
which a counter reaches the end of an array, state that survives a file.

**Pipeline construction, sink bins, source bins** (PX 1019-1729, SK, SB
1302-1405) - modelled element by element, with the inside of decoding and analysing bins
as one element each. State: the pipeline, three pointers to its open ends, and what
outlives a pipeline: `num_bins` and the pointers of each `sink_bin`, the RTSP
servers. Operations: one loop step of `create_common_elements`, one processing
instance, the broker links, destruction. Hard: the pipeline is linked backwards
and any component may be missing; bins made in one function are linked in another; the
structures are not cleared between two pipelines. Correct when frames pass every
component the configuration enables, reach every sink, and creation gives up only
for a cause.

**File loop** (SB 297-357, 411-422) - modelled. State: two accumulated bases, the
position in the file, timers that wait to seek. Hard: the streaming thread drops
the end of the file and leaves the restart to the main loop, whose timers outlive the
pipeline. Correct when the stamps behind the probe grow and the file goes on.

**Secondary inference and preprocessing** (SG, SP) - modelled but for the dump of
tensors. State: which engines exist, their parents and numbers of children, the queues,
the frame each thread holds, `stop`. Hard: the exit queue waits until nobody
else holds a reference to its buffer, polling; a tee blocks on full queues; the
recursion that decides who exists also counts children. Correct when the tree is the one
the ids describe, frames leave in order and complete, and none gets stuck.

**Dynamic sources** (PX 259-372) - modelled. State: types and flags per slot, the number
of sources, the two tables of sensors. Operations: stream added, removed, attempts
exceeded, end of stream, forced end. Hard: the messages come in any order and a
slot keeps what an earlier stream left in it. Correct when the end is not missed.

**Tiler selection and keyboard** (MN 299-416 and 418-530) - modelled. State: what is shown,
kept in three places; the row, the mode and the configuration being chosen; `disp_lock`.
Hard: keyboard and mouse are two threads that write the three places in opposite orders
without a lock; main takes windows away under a lock the other thread holds while it waits.
Correct when the three places agree and main comes to its end.

**Not modelled**

| component | why |
|---|---|
| metadata and dump files (PX 385-1017) | formatting of metadata into files and text; the packets to the server are in SmartRecord |
| element bins (OSD, muxer, tiler, tracker, engines, example) | a few elements built from their keys, no state afterwards; one element each in PipelineBuild |
| thermal monitor (`src/thermal/main.c`) | one thread, one loop over a netlink socket, nothing kept between events |
| GStreamer pipeline manager (`src/gst/app/main.cpp`), samples | one pipeline built once, ended by the first EOS or error; no state that outlives a callback |
| IMX708 driver patch | register tables and a power sequence whose order and locking are those of the kernel's tegracam framework, not in the repository |
| `scripts/build/apply-patches.sh` | stops at the first conflict, skips what git calls applied; its only state is the tree, and what a patch does to it is git's |
| other scripts, packaging | input and output only |

### How they interact

`main` parses one file per instance (ConfigParser), connects to the server
(SmartRecord), creates and starts the pipelines (AppLifecycle) and enables the
measurement (PerfMeasure). RTSP sources report through the bus (RtspSource); a
final error or EOS sets the quit flag of its instance, which AppLifecycle turns
into the end of the loop. What a pipeline consists of is PipelineBuild's, from
the configuration ConfigParser accepted; how frames get through its bins StreamPath's; who
chooses what is shown, and how streams come and go, DisplayControl's. A recreation
destroys and creates a pipeline: it pauses and
enables the measurement, resets the recording context and leaves timers of
the old sources behind. Pauses by keyboard or X thread reach PerfMeasure and
RtspSource. Where one module needs another, it keeps the small part it needs as
an action of its environment: `Post` in AppLifecycle stands for the final
messages of RtspSource or DynamicSources, `Reconfigure` in SmartRecord for a reconnection,
`Pause`/`Resume` in RtspSource for the users of PerfMeasure.

## 2. Plan

The modules, by composition:

| family | modules | state |
|---|---|---|
| reconnection | **RtspSource** implements **RetryPolicy**; **RtspSource_proofs** | three passing runs, one violation, six theorems |
| measurement | **PerfMeasure**; **PerfMeasure_proofs** | one run, four theorems |
| life cycle | **AppLifecycle**; **AppLifecycle_proofs** | one run, one violation, four theorems |
| recording | **SmartRecord**; **SmartRecord_proofs** | one run, four theorems |
| configuration and construction | **ConfigParser**, extended by **PipelineBuild**; **PipelineBuild_proofs**, extended by **ConfigParser_proofs** | one run over both, ten theorems |
| stream path | **FileLoop**, **SecondaryPreprocess** and **SecondaryGie** (both implement **InferenceStage**), composed by **StreamPath**; **StreamPath_proofs** | one run, one violation, five theorems |
| view | **DynamicSources** and **TilerSelection**, composed by **DisplayControl**; **DisplayControl_proofs** | one run, two theorems |

Every safety invariant, action property and refinement that the passing runs check is proved,
two of them with a condition on the constants (`LiveStreamNotReset`, `BinsAreStages`); what is
left to TLC alone is liveness (section 5).

Worth composing: RtspSource with AppLifecycle (the final error of the last source of
one instance ends the application only with the other instances).

## 3. The modules

### RtspSource, RetryPolicy

State is that of section 1, with stamps kept as ages that saturate at `MaxAge`,
and an environment: `up` (the camera answers), `bin` (state of the source bin as
GStreamer reports it, `failed` for a state change that failed), `broken` (an
element posted an error), `eos`, `paused`. One action per callback:

| action | code |
|---|---|
| `Buffer`, `EndOfStream` | `rtspsrc_monitor_probe_func` |
| `MuxEos` | `nvstreammux_eosmonitor_probe_func` |
| `WatchRetry`, `WatchStop` | `watch_source_status`, its two branches |
| `CheckAndSendEos` | `check_rtsp_reconnection_attempts` and the EOS sent after it |
| `ResetSource`, `QueuedReset` | `reset_source_pipeline`, by call or from the timeout of 0 |
| `WatchAsync` | `watch_source_async_state_change` |
| `BusCallback` | the ERROR and EOS cases of `bus_callback` |
| `Lose`, `Recover`, `PostError`, `PostFatal`, `AsyncDone`, `Pause`, `Resume`, `Tick` | camera, elements, GStreamer, user, clock |

The 20 ms watch does nothing while a change goes on, so only the call that finds it
over is an action. `Pause` and `Resume` set the state of the whole pipeline (PX 1746, 1770),
which asks every source bin, also one whose last change of state failed; `revived` remembers
such a bin, whose `reconfiguring` is still TRUE although no watch is left.
`bus_callback` treats an error as one of an RTSP source if the *first* source of the
configuration is one; with all sources RTSP, as here, the test is always true. A model ends at `quit`: the loop ends at its next poll
(AppLifecycle models what follows), hence `CHECK_DEADLOCK FALSE`.

RetryPolicy is what a user of the configuration keys expects: a counter per source
that grows to its limit, one step that gives a source up, a connection that
resets it, and an end that is allowed only when no source with a limit is watched.

### PerfMeasure

`ProbeTestsStop` and `ProbeCounts` are the two halves of `sink_bin_buf_probe`
around taking the lock. A batch holds up to `FramesPerBatch` frames of each source, as a muxer
batch larger than the number of sources does, counted one by one in one tick: the first after a
reset only starts the clock (PERF 41-46), those behind it count at once. `timely` and
`lapsed` are histories: frames counted while the measurement ran, and whether a sample was due
while it was paused, which ends the timer for good (PERF 200).
`perf_measurement_callback`, `PausePerf`, `ResumePerf` and `StartMeasuring` are the functions
of PERF, each under `struct_lock` and so one step. `Pause(u)` and `Paused(u)` are the two halves of `pause_pipeline`, for
the keyboard (on the main loop, which it blocks) and for the X thread;
`Destroy`/`Create` a recreation. Without a pipeline `gst_element_get_state`
leaves the variable the function then tests uninitialised: any branch is possible.

### AppLifecycle

`pc` and `at` follow `main` stage by stage over its instances; each stage fails
as the code fails (with or without an exit code, with or without tear-down). The
callbacks of the loop are `BusCallback`, `CheckForInterrupt`, `EventAllQuit`,
`EventKeyQuit`, `RecreateDestroy` and `RecreateCreate`; `XQuit` and `XQuitLoop`
are two statements of the X thread with everything in between. A creation that fails may have
made the pipeline and its bus watch, which come first (`HalfCreated`, PX 1373-1380); a change of
state that fails leaves a `failed` pipeline that may still post (`HalfSet`).
`DestroyPipeline` empties the bus up to the first EOS, its own if that
arrives within its second. `crashed` is the null `AppCtx` the closing loop
meets when a file other than the last could not be parsed.

### SmartRecord

Both directions of the socket are sequences of pieces. A command is two pieces
and a `recv` returns at most `RecvSize` of them, whatever they belong to;
`send` takes any number of pieces there is room for. Every instance has a streaming thread
that calls `all_bbox_generated` with a packet on its own stack (`frames`, `packet`, `sent` per
sender), and all of them send on the one static `uds_fd` without a lock (UDS 10, 44-58), so a
sender may come in amid the packet of another; `mixed` remembers it. `Fill` is the packet of
one frame, with the slots that an earlier, larger frame left behind.
`EventGenerator` is a local event, at any time: every creation of the pipeline installs a timer
for it and none is removed, so their intervals are left open. `RecordEnds` is the end of
the duration that every start is given (MN 583-586, SB 566-580): the library ends the recording,
at a time the model leaves open, and a START that found it on has not made it longer.

### ConfigParser

A file is revealed group by group, in any order, from a family of candidate groups;
each step is one group parser, with its early return for a disabled group, its
refusals, and the slot it writes. `EndOfGroups` does what `parse_config_file`
does after its loop, `ExpandSource` one turn of the loop that appends the
further uris of a source, `AcceptFile` hands over to the next file of the command
line, which keeps only `camera_id_list`. `num-sources` is kept
as the guint it is stored in (`NumSources`): a negative number is huge, passes the test for
less than 1 (CFP 468) and is refused by the expansion. `AllFamilies` holds ten families,
each with the groups that interact: three that are built as well, and sources
alone, two files, source lists, engines, engines with lists, parts, and parts
that differ in name only.

### PipelineBuild

Goes on where ConfigParser ends (`stage = "done"`). The pipeline is a set of links.
`BuildCommon` is one turn of the chain of blocks in `create_common_elements`;
`BuildTiled` and `BuildDemuxed` make the processing instances, whose sinks `SinkBinOf`
gives; `LinkBroker` is `add_and_link_broker_sink`. `sink_elem`, `src_elem` and
`last_elem` are `ends`. `ElementFails` is any creation that fails: the code tests every
one and jumps to its end. `DestroyPipeline` drops the links and keeps what the code
keeps: `sinkBins` and `servers`. `crashed` is the probe on the freed tee or sink of
the pipeline before (PX 1519), undefined behaviour in C.

### FileLoop, SecondaryPreprocess, SecondaryGie, InferenceStage, StreamPath

FileLoop is the probe behind the demuxer. `pts` is what has left the probe; `seeks` counts
timers, since the id of `seek_decode` is kept nowhere; a seek may fail, which the code only logs
(SB 309), and is then not tried again (`seekFailed`). SecondaryGie asks
`ShouldCreate` group by group (the recursion as a walk along `Chain`) and builds the tree;
then each thread (the tee in front, one per engine) is in one of its calls: `Arrive`,
`PushBranch`, `Take`, `Infer`, and `Leave` for the exit queue, which goes on only when
nobody else holds the frame (`Held`, the reference count of SG 43) or `stop` is set.
SecondaryPreprocess is the flat form of the same. InferenceStage says what both
promise: order, completeness, nothing before its results; both are mapped to it by
`engines`, `inside` and `up`. StreamPath joins them: a push
into the next bin is one step with leaving the one before; `SendEos`, `Destroy` and
`Create` are the recreation. The elements between the bins are taken as forwarding in order.

### DynamicSources, TilerSelection, DisplayControl

DynamicSources has one action per message type and one for EOS; `Served` is what the
library may announce. In TilerSelection a handler puts its assignments in `todo` and
`Write` performs one at a time, so the two threads interleave between them; the keys are
`KeyTiled`, `KeyConfig`, `KeyRow` and `KeyColumn`, the mouse `LeftClick`, `RightClick` and
`Gone` (a click on a window main has taken away). `XWake`, `XSleep` are the two ends of the
50 ms sleep outside `disp_lock`, `XPause`/`XPaused` a pause under it. `mixed` remembers that
the last two handlers of an instance overlapped, `addedLate` that a stream was added after the
end. DisplayControl runs the bus and the keyboard in turns on the main loop and gives
`get_source_id_from_coordinates` the number of sources DynamicSources counts.

## 4. What the runs check

| run | bounds | what it shows |
|---|---|---|
| `RtspOne` | one camera, one attempt, bus of 3, two queued resets, all error kinds, pauses, main loop arbitrarily late | `RetryBudget`, `OneAsyncWatch`; under fairness a camera lost for good ends the application (`AllLostEndsApplication`) |
| `RtspTwo` | two cameras, limits 1 and 0, pauses | `QuitOnlyWhenRetriesSpent`, `NoResetOfLiveStream`, `ImplementsRetryPolicy` |
| `RtspFair` | two cameras, one without limit, interval 3 above spacing 1 | neither starves the other: `LostSourceIsStopped`, `LostSourceIsReset` |
| `RtspStopped` | one camera, one attempt | violated: "stopping source" (SB 643), then it plays again without a watchdog |
| `PerfUsers` | keyboard and X thread, batches of up to two frames, 4 calls, 4 ticks, interval 2 | `FiniteRate`, `OnlyTimelyFramesSampled`, `PlayingIsMeasured` |
| `LifeAll` | two instances, one with a window, one recreated, all messages, any step of start or recreation may fail | `LoopWaitsForOthers`, `FailedStartIsReported`, `QuitHasCause`, `AllDoneEnds`, `InterruptEndsLoop` |
| `LifeRecreate` | two instances, one recreated | violated: a recreated instance counts as finished while it plays |
| `RecordAll` | two senders, batches of up to two frames with 0 to 3 objects, room for 2, three pieces per packet, a socket of six; both commands, local events, the duration, reconnections and recreations beside one sender (`RecordingOrSenders`) | `StreamIsWholePackets`, `PacketIsOfItsFrame`, `LastCommandObeyed` |
| `ConfigAll` | ten families, 4 sources, 2 of the others; three families built twice | `BuildTypeOK`, `SourcesAsDescribed`, `GpuPrecedence`, `OneSourcePerNumber`, `ListedSourcesFillBatch`, `RefusedForCause`; `OneChain`, `EverySinkIsFed`, `ServedIsFed`, `BuildFailsForCause` |
| `StreamAll` | a looped or an ending file, 3 frames, two units of preprocessing, three engines, two pipelines | `TreeIsReachable` for every choice of groups and ids; `FrameTimesGoForward`, `ImplementsStages`; under fairness `EveryFrameLeaves`, and `LoopGoesOn` while no seek fails |
| `SecondaryRecreate` | a live source, one engine, two pipelines | violated: a frame waits for all engines (SG 25-31); the `stop` of the first pipeline still holds in the second |
| `ViewAll` | one instance whose streams come and go, with and without a user; two attended instances; one row of two tiles | `DisplayAgrees`, `EndNotMissed`; under fairness `TeardownEnds` |

`RtspOne` and `ConfigAll` check the type invariants of their modules too. Those of RtspSource,
PerfMeasure, AppLifecycle, SmartRecord and PipelineBuild are proved; in the other modules `TypeOK`
documents the variables, and the parts of it that a proof needs are in its invariant. For every
property `PROJECT.json` names a plausible mistake in the code (a dropped guard, an
off-by-one, a missing reset) that makes the same run violate it.

### Bounds, and why they are enough

- *Cameras.* What cameras share is pairwise: the reset spacing, the mux probe, the
  decision over all sources. Two show every interference. The main loop is
  late without bound only in RtspOne; with two cameras the `Prompt` runs let it
  serve a due watchdog within its second, which the liveness run needs anyway.
- *Ages* saturate above every threshold they are compared with
  (`ConstantsAssumption` says so), so the bound loses nothing. The shipped values
  60 s and 3 s become 3 and 1, and their order is kept. Two reset intervals
  against one spacing leave room for both cameras; more than twenty cameras with
  the shipped values, or an interval not above the spacing, would starve.
- *Bus and queued resets.* The final error and EOS come in one step, so
  `MaxBus` is never below 2; a third message lets an error wait in front of them.
  A full bus disables the posting, as a late post.
- *Time and calls* in PerfMeasure: two samples, and a pause longer than one, fit
  in four ticks; a pause and a resume by each user is four calls. `Epoch` is far
  from 0 so that a stamp that was never set (0) is told apart.
- *Instances.* The life cycle needs one instance with and one without what
  matters; two are enough for "all", "one" and "the one before".
- *Pieces.* Two pieces per command and three per packet give every split; the
  buffer holds two commands and a half, so that a cut inside a command happens. Two
  senders are enough for one to come in amid the packet of the other. Commands and packets meet
  only in the end of the socket and in a recreation, so `RecordingOrSenders` explores both senders
  beside a recording at rest, and the recording beside one sender of packets without objects.
- *Frames per batch.* Two frames of one source in a batch are the case that differs from one: the
  first starts the clock, the second counts in the same tick.
- *Configuration.* Arrays of 4, 2, 2 and 2 slots with up to four groups per file
  reach each limit and pass it by one. `GuintRange` is 20 in place of 2^32: above every count of
  sources there is room for, so that a negative number is refused as in the code. The families that are built fix the order of the
  groups (the parser's runs vary it) and take every subset of the components, of sinks and
  of sources; the second pipeline of each is the one that meets what the first left.
- *Engines.* Three give every shape of tree that decides something (a chain, a fork, two
  roots, a group without a parent), and all choices of enabled groups and ids are
  built, but for the endless ones (`Terminates`). Frames flow through one tree with a tee
  inside and one with a direct link. A queue of one is full at once; three frames put
  one in the exit queue, one in an engine's and one in front. A file of two frames is
  looped twice by the third frame. A segment stop is the duration of the file.
  A file that does not loop is not recreated in StreamAll, since that is what
  SecondaryRecreate refutes.
- *View.* Two slots let a stream take the slot of another, two tiles tell a click on a source
  from one on an empty tile, the digits 0 and 1 a valid row from one out of range. With a
  user one message of the bus is enough to change the number of sources under a click; without
  one they are not bounded.

### Fairness

RtspSource: GLib dispatches every timer and source that stays due, so each
callback is weakly fair, as are GStreamer finishing a state change and a stream that
delivers buffers. Cameras, users and failures owe nothing. Time passes unless
everything has settled or the application has ended: no infinite burst of events fits
into one second. AppLifecycle: `main` and the X thread are weakly fair; the
callbacks of the loop and leaving it are strongly fair, because a recreation, which
takes turns with them, comes seconds apart and in between the loop serves whatever is
due and returns at the end of the pass in which it was told to. StreamPath: each
streaming thread and the timers of the main loop are weakly fair, recreations owe
nothing. DisplayControl: the two threads go on with what they have begun and a pipeline ends
its change of state (weak fairness); the X thread sleeps 50 ms again and again because its
queue runs empty, and main, which takes the lock only then, is strongly fair with it.

## 5. What is proved

`RtspSource_proofs` proves, for any set of sources, any intervals, attempts and
bounds that satisfy `ConstantsAssumption` (types, and ages that can exceed what
they are compared with):

| theorem | statement | argument |
|---|---|---|
| `TypeCorrect` | `Spec => []TypeOK` | one step per action; `CheckAndSendEosType` and `ResetSourceType` are the shared parts |
| `AsyncWatchUnique` | `[]OneAsyncWatch` | inductive as it stands: only `StartAsyncWatch` and the end of the watch touch flag and timer |
| `RetryBudgetKept` | `[]RetryBudget` | inductive with `TypeOK`: the counter grows only in `WatchRetry`, which has an attempt left, and in `WatchStop`, which removes the watchdog |
| `QuitOnlyAfterRetries` | `[]QuitOnlyWhenRetriesSpent` | see below |
| `PolicyImplemented` | `Spec => ImplementsRetryPolicy` | the initial states map, and each action is a step of the policy or leaves its variables alone |
| `LiveStreamNotReset` | no interval is 1 `=>` `NoResetOfLiveStream` | a source that is `reconfiguring` has a watch or a queued reset pending, or is down, or is `revived`: any other delivering one is judged by the age of its last buffer alone |

`QuitOnlyWhenRetriesSpent` alone is not inductive: an EOS may reach the mux
long after the decision, and what makes it safe is that the probe which drops it is
still there. The invariant is `QuitInv == (GivingUp \/ ~muxProbe) => Spent`: the
probe goes only when every source with a limit has spent it, and from then on nothing
brings a watchdog back (`SpentStable`). That the decision implies `Spent` rests on
`RetryBudget`: a source still watched has `tries <= Attempts`, so it would
have blocked the stop (`StopMeansSpent`). If no source has reconnection on, the
probe is not installed, and `Spent` holds with nothing to show.

The restriction of `LiveStreamNotReset` is real: with an interval of one second,
stamps in whole seconds make a live stream look a second old.

The other families are proved in the same way: an invariant of named parts, one lemma
for the initial state, one for each group of actions, and a temporal step that
combines them.

**`PerfMeasure_proofs`** (any sources, users, interval, clock):

| theorem | statement | invariant it rests on |
|---|---|---|
| `TypeCorrect` | `[]TypeOK` | `StampsInOrder`: first frame, last sample and last frame follow each other |
| `TimelyFramesSampled` | `[]OnlyTimelyFramesSampled` | inductive with the types: a batch that is late counts in `cnt` while `stop` is set, and whatever clears `stop` clears `cnt` |
| `RateIsFinite` | `[]FiniteRate` | `RateInv`: a running count of a batch or more has a window longer than zero, and a batch in the probe will be later than the last one or find its clock cleared |
| `PlayingMeasured` | `[]PlayingIsMeasured` | `NoOverlapInv`: without an overlap at most one user is inside a pause, and the pipeline is in the state that user left it in; the timer ends only in a sample that was due |

**`AppLifecycle_proofs`** (any number of instances, any of them with windows or
recreated): `TypeCorrect`; `QuitIsCaused` and `OthersAreAwaited` from `FinishedInv`,
which says that every message waiting on a bus belongs to an instance that is done, that
a recreated instance has no message between its two pipelines, and that what has been
marked as finished stays so; `FailureIsReported` from `StartInv`, which follows the stages
of `main`: a failure has either set the exit code already or left it in the instance that
could not be parsed, and the closing loop meets that instance before the missing one.

**`SmartRecord_proofs`** (any number of senders, any sizes of commands, packets and socket;
`RecvSize` at least one command, as the 63 bytes of `uds_poll` are): `TypeCorrect`;
`StreamIsWhole` from `StreamInv`, which ties the piece the server expects, and the sender it
reads, to the one sender that is midway, through the pieces in between; `PacketOfItsFrame`,
inductive with the types; `CommandObeyed` from `CommandInv` (an undisturbed command is either
whole in the socket or obeyed).

**`StreamPath_proofs`** (any number of frames, units, rounds and pipelines):

- `TimesGoForward`: `FrameTimesGoForward` from `FileInv`: the stamps are sorted, all of them
  lie below the base of the next round, and within a round below the next frame.
- `PreIsAStage`: the units of secondary preprocessing implement InferenceStage. `PreCover`
  is the core: a frame that has not left was seen by every unit or is at the tee, in a queue
  or in the hands of the units that did not see it. A frame without references elsewhere
  has therefore been seen by all.

For the bin of secondary inference (engines are numbered `1..n`, as the slots of the C
array are) the same module has:

- `TreeIsBuilt`: `[]TreeIsReachable` for any number of groups and any ids that
  `Terminates` admits. The recursion of `should_create_secondary_gie` is a chain of ids in
  the model; that the chain exists, never meets an engine twice and ends at one that was
  created or hangs under the primary engine is proved by taking the least number with a
  property (`LeastNumber`). `TreeInv` says of every state in between: created engines hang
  where their ids say, children are counted right, and no set of engines hangs only under
  each other. `TreeAsked` adds that whoever was asked about and is reached exists.
- `BinsAreStages`: `ImplementsStages`, both bins at once. `GieDue` weakens the cover of
  the preprocessing to a tree: an engine that did not see a frame has it coming, or the engine
  it hangs under did not see it either; that the latter cannot go on for ever is
  `TreeRooted`.
- `FramesWait`: `FrameWaitsForEveryEngine`, the property that run `SecondaryRecreate`
  refutes.

`PreIsAStage`, `BinsAreStages` and `FramesWait` assume `~RecreateWithoutLoop`: a file that
does not loop is not recreated. The run `SecondaryRecreate` shows that they are false
without it; a looped file may be recreated any number of times.

**`DisplayControl_proofs`** (any grid, any number of instances and slots): `EndIsNotMissed`,
inductive as it stands; `PlacesAgree` from `AgreeInv`: of an instance whose last handlers did
not overlap, at most one thread has writes to come, and those lead tiler, overlay and
labels to one and the same source.

**`PipelineBuild_proofs`** (any family of files, any sizes of the arrays):

- `NumbersUsedOnce`: `OneSourcePerNumber`. `NumbersInv` keeps apart the numbers of the files
  accepted and those of the file being read, and `camera_id_list` holds both.
- `GivesUpForCause`: `BuildFailsForCause`. `BuildInv` says how far construction is and what
  it made: before the first pipeline there is no pointer to freed sinks (`FirstInv`), the
  sinks of the first instance exist once its bin was built (`SinksInv`), and the analytics
  have an open end once one of them was wanted (`AnalyticsInv`).
- `FramesPassOneChain`: `OneChain`. The pipeline is linked backwards, so the invariant
  `ChainInv` gives for each step the set of positions in the order of components that are
  linked already: the outputs and the example on one side, the common elements built so
  far on the other, each with its open ends. Adding an element, and closing the gap, are
  both instances of one lemma: linking the last of `S` to the first of `T`, all of `S`
  before all of `T`, links their union (`LinksJoin`). What is inside an output is off
  the chain (`InsideIsOff`).
- `ListFillsBatch`: `ListedSourcesFillBatch`. `ListInv` says that a list keeps one source
  per uri, none of several uris, from `[source-attr-all]` to the expansion, which therefore
  leaves them alone: a group of its own changes at most the source of its number, and of a
  disabled one neither type nor uri (`ListedSlots`). It rests on `ListsAssumption`: a
  `num-source-bins` without a `uri-list` is compared with nothing in the code, and is
  taken to be at most `MaxSources` (section 7).
- `TypeCorrect`: `BuildTypeOK`. What has to be shown is that the counts of a configuration
  never exceed the arrays they count (`Counts`): the sources fill from two sides, by groups
  and by the further uris of multi-uri groups, each of which tests the limit before it
  writes (`SourceCounts`, `ExpandCounts`). `ParserTypes` and `BuildTypes` add that the loops
  stay in the configuration and construction in the pipelines asked for.
- `SinksAreFed`: `EverySinkIsFed`, every sink of an instance and the first broker. `ChainInv` says what is linked along the chain;
  `OutputsInv` says of everything off it which links there are: for each output made so far
  (`Outs`) those inside its sinks, those from its bin to them and the one from the
  tiler or demuxer, and in the end those of the brokers. `PointersInv`, `BrokersInv` and
  `FakeInv` say which sinks a bin has pointers to: those of its instance, or the fake one
  that only the first pipeline makes. `TilesInv` says that rows and columns that were too few were
  readjusted. `Reached` counts steps from the sources, as many as there are links; that this
  gives a set closed under links, and the least one (`ReachedIsClosure`), holds because a
  step that reaches something new uses a link that no earlier step used. The chain is then
  reached from its head (`SpineReached`), each output from the chain (`OutputReached`).
- `ServersAreFed`: `ServedIsFed`. `ServersInv`: the servers mounted are those of the UDP sinks
  of the outputs made, one each (`ServedOnce`); `destroy_pipeline` leaves none mounted,
  those of earlier pipelines included (`ServersEnd`). Only a UDP sink has a payloader
  (`PayloaderOfUdp`), so servers and payloaders reached are in bijection.

**`ConfigParser_proofs`** extends it with what the parser stores and refuses. Its theorems are about
`BuildSpec` too, whose steps include those of the parser:

- `GpuAsAsked`: `GpuPrecedence`. A group of a numbered kind goes to the slot that follows
  those taken, and inherits what the slot holds. `GpuInv` says of every such array (`Taken`)
  that the enabled groups read so far lie in its first slots, in the order of the file
  and with the GPU they asked for, and that no slot behind them has a GPU other than
  that of `[application]`, although disabled groups were parsed into it. A
  component that is described by one group is read once (`OneDescription`, from the names
  of a file being distinct), and neither the end of the file nor the expansion of multi-uri
  sources changes a GPU that was asked for (`GpuEnd`, `GpuExpand`).
- `SourcesAreDescribed`: `SourcesAsDescribed`. While groups are read, each enabled one lies
  in its slot as it was written and no free slot holds anything but a GPU (`Ready`). The
  loop over the sources keeps `Expanded`: the sources counted so far are the groups and the
  further uris of the slots passed, each further uri at the place that the number of those
  before it gives (`Further`, `FurtherGrows`), the groups to come still unspread. What a
  turn appends lies behind all groups, is no multi-uri source, and so is passed unchanged.
- `RefusedWithCause`: `RefusedForCause`. `RefusedInv` keeps, for the first file, what each
  refusal tests next to the groups it was computed from (`Kept`): `camera_id_list` holds
  numbers of groups read only, so that it never refuses a number that is in the file once
  (`NumberIsNew`); counts and engine ids are those of the groups. `GroupFails` goes through
  the refusals of the group parsers, `RefusedEnd` through the engine ids, and `NoRoom` shows
  that the expansion stops only where all sources asked for do not fit.

The assumptions on the files are those of a key file: `FamiliesAssumption` (a group's
name is in a file once, the number in it is not negative, -1 stands for an unreadable one),
`NumSourcesAssumption` (`num-sources` is a number or cannot be read), `TilesAssumption` (rows and
columns are unsigned) and `ListsAssumption`. TLC evaluates them for the ten families of the run.

Sizes of sets of groups, links and sources are sums over data of any length. The induction
they need is on numbers and needs no theorem with an operator as parameter: a set of
numbers that is not empty has a least one (`LeastNumber`, from the well-foundedness of
`<`), so one that holds 0 and the successor of each of its own is `Nat` (`AllNumbers`). It is
applied to the set of the numbers for which a statement holds. `Ranks` is the lemma behind
all places: counting the smaller members numbers a finite set from 0 without gaps.

Only model-checked is liveness, which the prover does not do: `AllLostEndsApplication`,
`LostSourceIsStopped`, `LostSourceIsReset`, `AllDoneEnds`, `InterruptEndsLoop`,
`EveryFrameLeaves`, `LoopGoesOn`, `TeardownEnds`. No module that is proved about uses a RECURSIVE
operator.

## 6. What the checks found

Three runs end in a violation of what a comment or a message of the code says:

- `RtspStopped`: the watch of a state change, or a queued reset, that outlives the
  watchdog starts a stopped source again (SB 751).
- `LifeRecreate`: a recreation does not clear `appCtx->quit` (MN 539).
- `SecondaryRecreate`: the EOS that `destroy_pipeline` sends sets `bin->stop` (SG 66)
  and nothing clears it; in the next pipeline no frame waits for the engines.

Other places where the code does not do what a comment or a message says were met while
modelling. A property names each of them as its exception, or they are outside what it says:

- A reconnection that fails leaves `reconfiguring` TRUE and no watch (SB 738). A pause and a
  resume set every source bin again (PX 1746, 1770) and bring the stream back; the watchdog then
  resets a source that delivers, although SB 639 says "source is still not up".
  `NoResetOfLiveStream` excepts it (`revived`).
- A source without reconnection that has ended counts as one that is still trying (SB 592), so
  the application does not end when every source is finished, although the message at SB 613
  says "exceeded for all sources or EOS received". The runs have sources with reconnection only.
- Each creation of the pipeline installs a timer of the event generator and nothing removes it
  (SB 954), so after a recreation two timers per interval undo each other, although SB 559 says
  "called at regular interval to start and stop video recording". No property on the interval
  is stated.
- Every broker sink is linked and gets frames (PX 1043), where the comment says that only the
  first is considered and the others are ignored (PX 1030-1034). `EverySinkIsFed` asks for the
  first only (`Considered`).

Properties are stated so as to hold where the code decides something on purpose, and
what limits them is worth knowing:

- With two cameras a lost one does not always end the application: a stopped source that
  was started again sets its counter to 0 and has no watchdog, so it blocks the end
  for ever. `AllLostEndsApplication` is therefore checked for one camera, and not
  while error 500 keeps resetting the source (those resets keep
  `last_reconnect_time` fresh).
- A source that was down from the start and posts no error is never retried
  (`KnownLost`).
- When the first batch after a reset has several frames of one source, all but the first are
  counted within one tick. If a sample comes before the next batch the rate has an empty window
  and is infinite (PERF 119); `FiniteRate` excepts counts smaller than a batch.
- Overlapping pauses and resumes of keyboard and X thread can leave a playing pipeline
  unmeasured; `PlayingIsMeasured` excludes them.
- A second pause before the next frame adds a time since 1970 to the total (stamps
  were cleared): no property on `total` is stated.
- A failed recreation leaves a pipeline that does not play, if any, and an application that
  ends only if that pipeline posts an error; `AllDoneEnds` excludes it. A quit from the X thread before the loop runs is lost.
- Two commands read by one poll match neither; a server that closes kills the
  application by SIGPIPE at the next packet. A recording ends by itself after its duration, and a
  START read while it is on does not make it longer. `LastCommandObeyed` says when a command is
  obeyed.
- The streaming threads of several instances send on one socket without a lock: when a `send`
  takes a part of a packet, another thread may send its own in between, and the server loses the
  packets' borders for good. `StreamIsWholePackets` holds until then.
- The image-save group ignores the GPU of `[application]` (CFP 1607 resets it), so
  `GpuPrecedence` leaves it out; the same `[sourceN]` in a second file is refused.
- `-1` (no limit) loses the comparison `num_rtsp_reconnects <= rtsp_reconnect_attempts`
  (SB 598), so a source without limit never holds up "exceeded for all sources" (SB 613).
- The performance sample ends its timer when it finds the measurement paused (PERF 200); its
  id is never cleared, so after a pause longer than the interval no numbers are printed again,
  recreations included. `PlayingIsMeasured` says that this is the only way to lose the timer.
- With `[source-attr-all]` of type 3 (multi-uri) the batch is set (PCP 572-574) before the
  list is expanded (PCP 601-622): `ListedSourcesFillBatch` speaks of the others.
  `rtsp-reconnect-attempts` is -1 by default in a `[source]` group and 0 in
  `[source-attr-all]` (CFP 392).
- In the EOS case of dynamic sources the last camera of the loop alone decides `app_quit`
  (PX 268-277); a removed camera's type and flag stay in the slot and may hold up the end
  for ever, as may a stream added afterwards (`addedLate`).
- "Don't allow clicks on empty tiles" (MN 437) is kept only while ids are smaller than the
  number of sources: not after a removal. Cancelling with `z` leaves `rrowsel` set, so the
  next digit is a column of the old row. `c` blocks the main loop until a digit comes.
  Keyboard and mouse overlapping can leave tiler and overlay on different
  sources (`mixed`), until the next selection.
- The X thread is never joined: a click after the windows are gone indexes the instances out
  of range (`crashed` in TilerSelection).
- A seek of a looped file that fails is only logged (SB 309): the timer is gone, no further end
  of stream comes, and the file stays stopped. `LoopGoesOn` excepts it.
- A disabled `[secondary-pre-process]` group leaves its `operate-on-gie-id` in the slot, where
  the next group without the key finds it (CFP 916-936).
- The links of the tees in SG are not tested. `segment->stop` is
  `GST_CLOCK_TIME_NONE` for a file of unknown duration and the accumulated base then goes
  back by one each round; `seek_decode` starts a source again in a paused pipeline. An
  engine that operates on itself, or on a cycle, makes `should_create_secondary_gie`
  recurse without end.
- With the tiler a sink of `source-id` other than 0 is silently not built, and creation fails if it
  is the first group, where PX 1323-1334 only says that the key is valid without the tiler.
- An instance without a sink of its own gets a fake one made from an uninitialised
  configuration (SK 751), in the first pipeline only: `num_bins` is not reset, so the
  recreated one has no sink there and its probe goes to a freed element (PX 1519).
- A pipeline started empty counts one source from then on (PX 1424), and so loses
  `[source-attr-all]` when recreated. `NV_DS_SOURCE_IPC` is parsed but not built.
- RTSP servers are never stopped and `server_count` never reset (SK 473-497): the port stays
  taken after a recreation, so the address printed for the new one is not its own.
  `latency_info` is freed under the inverted condition (PX 1695).
- `create_demux_pipeline` and `create_demux_sink_bin` are never called.

## 7. Left out of the modelled components

- RtspSource: construction of the source bin, statistics, the text of messages; sources
  of other kinds beside RTSP ones; destroying the pipeline (AppLifecycle).
- PerfMeasure: printing, and the names of dynamic sensors.
- AppLifecycle: version flags, window geometry, terminal mode, and what the X thread
  does to an `AppCtx` already freed.
- SmartRecord: the recording library (starting and stopping take effect at once, the length of
  a recording is left open), the intervals of the local events, the log of its callback.
- ConfigParser: copied keys, `parse_labels_file`, the order of keys inside a group,
  and a `num-source-bins` above the maximum without a `uri-list`.
- PipelineBuild: properties of elements, the inside of decoding and analysing bins, latency
  records, the sockets of the RTSP server library (whether a second server can listen).
- FileLoop, SecondaryGie, SecondaryPreprocess: flush events other than that the probe drops
  them, the dump of tensors, drops and QoS in the elements between.
- DynamicSources: the names and addresses of sensors. TilerSelection: the arithmetic of
  windows larger than their tiles, the keys that only print.
