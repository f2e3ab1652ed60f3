----------------------------- MODULE SecondaryGie -----------------------------
(***************************************************************************)
(* The bin of secondary inference engines                                  *)
(* (apps-common/src/deepstream_secondary_gie_bin.c): which engines it      *)
(* creates and how it links them into a tree, and how a frame goes through *)
(* them while it also waits in the queue that leads out of the bin.        *)
(*                                                                         *)
(* Threads: the upstream streaming thread (Upstream), which pushes into    *)
(* the tee at the entry; one per engine queue; the one of the exit queue,  *)
(* whose probe waits until nobody else holds the frame.                    *)
(***************************************************************************)
EXTENDS Integers, Sequences, FiniteSets, FiniteSetsExt

CONSTANTS
  Engines,    (* indices of the [secondary-gie] groups: 1 .. n             *)
  PrimaryId,  (* unique id of the primary engine                           *)
  Configs,    (* configurations: [enable, uid, on]                         *)
  QueueSize,  (* max-size-buffers of the queues                            *)
  MaxFrames   (* bound: frames                                             *)

None == 0        \* no engine
Root == -1       \* parent_index of an engine on the primary's output
Upstream == 0    \* the thread that enters the bin
Eos == 0         \* the end-of-stream event in a queue

Threads == Engines \cup {Upstream}
Frames == 1..MaxFrames
Idle == [frame |-> 0, at |-> None, todo |-> {}]

\* config_array[i] of the first group whose unique-id is what e operates on.
Target(c, e) ==
  LET hits == {i \in Engines : c.uid[i] = c.on[e]}
  IN  IF hits = {} THEN None ELSE Min(hits)

\* The engines met from e when every one asks for its target.
Chain(c, e) ==
  LET hop[k \in 0..Cardinality(Engines)] ==
        IF k = 0 THEN e
        ELSE IF hop[k - 1] = None THEN None ELSE Target(c, hop[k - 1])
  IN  hop

\* The recursion of should_create_secondary_gie ends at a disabled engine or
\* at one that operates on the primary.
EndsAt(c, e, k) ==
  LET i == Chain(c, e)[k] IN i = None \/ ~c.enable[i] \/ c.on[i] = PrimaryId
Terminates(c) ==
  \A e \in Engines : \E k \in 0..Cardinality(Engines) : EndsAt(c, e, k)

\* Assumed by StreamPath.
GieAssumption ==
  /\ IsFiniteSet(Engines) /\ Engines = 1..Cardinality(Engines)
  /\ QueueSize \in Nat \ {0} /\ MaxFrames \in Nat
  /\ \A c \in Configs : Terminates(c)

VARIABLES
  config,
  asked,    (* should_create_secondary_gie was called for the engines below *)
  created,  (* sub_bins[i].create                                           *)
  parent,   (* sub_bins[i].parent_index                                     *)
  children, (* sub_bins[i].num_children                                     *)
  running,  (* the bin is created and linked                                *)
  stop,     (* bin->stop                                                    *)
  exitQueue,(* bin->queue                                                   *)
  queue,    (* sub_bins[i].queue                                            *)
  thread,   (* what each thread holds: a frame, the engine it is in, the    *)
            (* branches of a tee it has still to push to                    *)
  results,  (* the engines each frame has been through                      *)
  arrived,  (* frames that entered                                          *)
  ended     (* history: the end of this pipeline's stream entered           *)

tree == <<asked, created, parent, children>>
flow == <<exitQueue, queue, thread, results, arrived>>
vars == <<config, tree, running, stop, flow, ended>>

TypeOK ==
  /\ config \in [enable : [Engines -> BOOLEAN], uid : [Engines -> Nat],
                 on : [Engines -> Int]]
  /\ asked \in 0..Cardinality(Engines)
  /\ created \subseteq Engines
  /\ parent \in [Engines -> Engines \cup {Root, None}]
  /\ children \in [Engines -> 0..Cardinality(Engines)]
  /\ running \in BOOLEAN /\ stop \in BOOLEAN /\ ended \in BOOLEAN
  /\ exitQueue \in Seq(Frames \cup {Eos}) /\ Len(exitQueue) <= QueueSize + 1
  /\ queue \in [Engines -> Seq(Frames)]
  /\ \A e \in Engines : Len(queue[e]) <= QueueSize
  /\ thread \in [Threads -> [frame : Frames \cup {0}, at : Engines \cup {None},
                             todo : SUBSET Engines]]
  /\ results \in [Frames -> SUBSET Engines]
  /\ arrived \in 0..MaxFrames

Init ==
  /\ config \in Configs
  /\ asked = 0 /\ created = {}
  /\ parent = [e \in Engines |-> None] /\ children = [e \in Engines |-> 0]
  /\ running = FALSE /\ stop = FALSE /\ ended = FALSE
  /\ exitQueue = << >> /\ queue = [e \in Engines |-> << >>]
  /\ thread = [t \in Threads |-> Idle]
  /\ results = [f \in Frames |-> {}] /\ arrived = 0

-----------------------------------------------------------------------------
(* Creation, on the main thread                                            *)

\* The calls of the recursion that return without a further call.
\* Mutant: without the test of create, so that a parent is counted twice.
ReturnsAtRecounting(e, k) == EndsAt(config, e, k)
ReturnsAt(e, k) == Chain(config, e)[k] \in created \/ EndsAt(config, e, k)

\* should_create_secondary_gie for e: the recursion climbs the chain of
\* targets until it meets an engine that is disabled, created or on the
\* primary; in the last two cases every engine of the chain is created.
ShouldCreate(e) ==
  LET hop  == Chain(config, e)
      ends == {k \in DOMAIN hop : ReturnsAt(e, k)}
      last == Min(ends)
      top  == hop[last]
      Below(i) == {j \in 0..(last - 1) : hop[j] = i}
  IN  IF top # None /\ config.enable[top]
      THEN /\ created' = created \cup {hop[j] : j \in 0..last}
           /\ parent' = [i \in Engines |->
                IF Below(i) # {} THEN hop[Min(Below(i)) + 1]
                ELSE IF i = top /\ top \notin created THEN Root ELSE parent[i]]
           /\ children' = [i \in Engines |->
                children[i] + Cardinality({j \in 1..last : hop[j] = i})]
      ELSE UNCHANGED <<created, parent, children>>

Ask ==
  /\ ~running
  /\ asked < Cardinality(Engines)
  /\ ShouldCreate(asked + 1)
  /\ asked' = asked + 1
  /\ UNCHANGED <<config, running, stop, flow, ended>>

\* create_secondary_gie: the elements beside the engine itself.
SubBin(e) == [
  queue |-> parent[e] = Root \/ children[parent[e]] > 1,
  sink  |-> children[e] = 0,
  tee   |-> children[e] > 1]
\* The linking loop of create_secondary_gie_bin.
Branches(p) == {e \in created : parent[e] = p}
\* A branch without a queue is not linked: link_element_to_tee_src_pad fails
\* on it, and its result is not looked at.
TeeBranches(p) == {e \in Branches(p) : SubBin(e).queue}

Create ==
  /\ ~running
  /\ asked = Cardinality(Engines)
  /\ running' = TRUE
  /\ UNCHANGED <<config, tree, stop, flow, ended>>

-----------------------------------------------------------------------------
(* Streaming                                                               *)

InThread(t) == thread[t].frame # 0
\* Mutant: the reference that the tee keeps while it pushes is forgotten.
HeldByEngines(f) ==
  \/ \E e \in Engines : thread[e].frame = f
  \/ \E e \in Engines : \E i \in 1..Len(queue[e]) : queue[e][i] = f
\* GST_OBJECT_REFCOUNT_VALUE > 1: somebody else than the exit thread holds f.
Held(f) ==
  \/ \E t \in Threads : thread[t].frame = f
  \/ \E e \in Engines : \E i \in 1..Len(queue[e]) : queue[e][i] = f

\* A frame enters: the tee pushes it into the exit queue, its first branch,
\* and holds it until the roots of the tree have it too.
Arrive ==
  /\ running /\ ~ended /\ ~InThread(Upstream)
  /\ arrived < MaxFrames
  /\ Len(exitQueue) <= QueueSize
  /\ arrived' = arrived + 1
  /\ exitQueue' = Append(exitQueue, arrived + 1)
  /\ thread' = [thread EXCEPT ![Upstream] =
       IF TeeBranches(Root) = {} THEN Idle
       ELSE [frame |-> arrived + 1, at |-> None, todo |-> TeeBranches(Root)]]
  /\ UNCHANGED <<config, tree, running, stop, queue, results, ended>>

\* The probe at the entry sees the event before the tee forwards it; nobody
\* takes bin->wait_lock here.
EosArrives ==
  /\ running /\ ~ended /\ ~InThread(Upstream)
  /\ Len(exitQueue) <= QueueSize
  /\ stop' = TRUE /\ ended' = TRUE
  /\ exitQueue' = Append(exitQueue, Eos)
  /\ UNCHANGED <<config, tree, running, queue, thread, results, arrived>>

\* A tee pushes to its next branch, and blocks while its queue is full.
PushBranch(t) ==
  LET e == Min(thread[t].todo)
      rest == thread[t].todo \ {e}
  IN  /\ thread[t].todo # {}
      /\ Len(queue[e]) < QueueSize
      /\ queue' = [queue EXCEPT ![e] = Append(@, thread[t].frame)]
      /\ thread' = [thread EXCEPT ![t] =
           IF rest = {} THEN Idle ELSE [@ EXCEPT !.todo = rest]]
      /\ UNCHANGED <<config, tree, running, stop, exitQueue, results, arrived, ended>>

Take(e) ==
  /\ ~InThread(e) /\ queue[e] # << >>
  /\ thread' = [thread EXCEPT ![e] =
       [frame |-> Head(queue[e]), at |-> e, todo |-> {}]]
  /\ queue' = [queue EXCEPT ![e] = Tail(@)]
  /\ UNCHANGED <<config, tree, running, stop, exitQueue, results, arrived, ended>>

\* The engine attaches its result and pushes on: to its fakesink, which lets
\* the frame go; to an only child, linked without a queue, on this thread; or
\* to its tee.
Infer(t) ==
  LET e == thread[t].at
      f == thread[t].frame
  IN  /\ e # None
      /\ results' = [results EXCEPT ![f] = @ \cup {e}]
      /\ thread' = [thread EXCEPT ![t] =
           IF SubBin(e).sink THEN Idle
           ELSE IF SubBin(e).tee THEN [@ EXCEPT !.at = None, !.todo = TeeBranches(e)]
           ELSE [@ EXCEPT !.at = Min(Branches(e))]]
      /\ UNCHANGED <<config, tree, running, stop, exitQueue, queue, arrived, ended>>

\* Mutant: the reference of the thread itself is counted among the others.
WaitQueueBufProbeOwnRef(f) == f = Eos \/ stop
\* wait_queue_buf_probe: the loop polls the reference count, stop and flush
\* (which nothing sets) every millisecond.
WaitQueueBufProbe(f) == f = Eos \/ ~Held(f) \/ stop

Leave ==
  /\ exitQueue # << >>
  /\ WaitQueueBufProbe(Head(exitQueue))
  /\ exitQueue' = Tail(exitQueue)
  /\ UNCHANGED <<config, tree, running, stop, queue, thread, results, arrived, ended>>

\* destroy_pipeline sets the pipeline to NULL: the frames inside are freed.
\* The bin's structure stays as it is for the next create_pipeline.
Teardown ==
  /\ running
  /\ running' = FALSE /\ ended' = FALSE
  /\ asked' = 0
  /\ exitQueue' = << >> /\ queue' = [e \in Engines |-> << >>]
  /\ thread' = [t \in Threads |-> Idle]
  /\ UNCHANGED <<config, created, parent, children, stop, results, arrived>>

Stream ==
  \/ \E t \in Threads : PushBranch(t) \/ Infer(t)
  \/ \E e \in Engines : Take(e)
Next == Ask \/ Create \/ Arrive \/ EosArrives \/ Stream \/ Leave \/ Teardown

Spec == Init /\ [][Next]_vars

-----------------------------------------------------------------------------
(* Properties                                                              *)

\* Reference definition: the least set that has the enabled engines on the
\* primary and the enabled engines on one of its members.
Closed(S) == \A e \in Engines :
  (config.enable[e] /\ (config.on[e] = PrimaryId \/ Target(config, e) \in S)) => e \in S
Reached == {e \in Engines : \A S \in SUBSET Engines : Closed(S) => e \in S}

(* Once every engine was asked, the created engines are exactly the enabled *)
(* ones whose chain of operate-on ids leads to the primary, in whatever     *)
(* order the groups are listed and however often the pipeline is recreated; *)
(* each hangs under the engine it operates on, and the number of children   *)
(* that decides between sink, direct link and tee is the real one.          *)
TreeIsReachable ==
  asked = Cardinality(Engines) =>
    /\ created = Reached
    /\ \A e \in created :
         /\ parent[e] = IF config.on[e] = PrimaryId THEN Root ELSE Target(config, e)
         /\ children[e] = Cardinality(Branches(e))

(* Comment of deepstream_secondary_gie_bin.c:25-31: a frame is sent         *)
(* downstream only once all secondary engines have processed it, the end of *)
(* its own pipeline's stream excepted.                                      *)
FrameWaitsForEveryEngine ==
  [][(exitQueue # << >> /\ exitQueue' = Tail(exitQueue) /\ running') =>
       LET f == Head(exitQueue) IN f = Eos \/ ended \/ results[f] = created]_vars

\* The frames of an exit queue: the event can only be its last entry.
FramesOf(q) == IF q # << >> /\ q[Len(q)] = Eos THEN SubSeq(q, 1, Len(q) - 1) ELSE q

(* The bin implements the promise of InferenceStage.                       *)
Stage == INSTANCE InferenceStage WITH
  engines <- IF running THEN created ELSE {}, inside <- FramesOf(exitQueue),
  up <- running
ImplementsInference == Stage!Spec
=============================================================================
