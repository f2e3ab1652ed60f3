----------------------------- MODULE SmartRecord -----------------------------
(***************************************************************************)
(* The link to the detection server: the Unix socket client                *)
(* (uds/uds_client.c), the packets that all_bbox_generated sends over it   *)
(* from the streaming threads, the commands that uds_poll reads from it on *)
(* the main loop, and the recording they start and stop together with the  *)
(* local generator of deepstream_source_bin.c.                             *)
(*                                                                         *)
(* Both directions are byte streams.  A command is two pieces long and a   *)
(* packet Pieces long; one recv returns at most RecvSize pieces, whatever  *)
(* they belong to.  All senders share the one static uds_fd, without a     *)
(* lock; each has a packet of its own on its stack.                        *)
(***************************************************************************)
EXTENDS Integers, Sequences, SequencesExt

CONSTANTS
  Senders,     (* streaming threads that call all_bbox_generated             *)
  Recreated,   (* those of appCtx[0], the one polled and recreated           *)
  Commands,    (* what the server sends: a subset of {"START", "STOP"}       *)
  Generated,   (* smart-record=2 with an interval: local events as well      *)
  Batches,     (* the batches inferred: sequences of numbers of objects      *)
  MAX_OBJECTS, (* objects a packet has room for                              *)
  RecvSize,    (* sizeof(buf) - 1 in pieces of commands                      *)
  Pieces,      (* sizeof(DetectionPacket) in pieces                          *)
  SocketRoom   (* bound: pieces a socket buffers                             *)

ASSUME SmartRecordAssumption ==
  /\ Recreated \subseteq Senders
  /\ Commands \subseteq {"START", "STOP"}
  /\ Generated \in BOOLEAN
  /\ Batches \subseteq Seq(Nat)
  /\ {MAX_OBJECTS, Pieces, SocketRoom} \subseteq Nat \ {0}
  /\ RecvSize \in Nat /\ RecvSize >= 2   (* a command fits the 63 bytes *)

VARIABLES
  alive,         (* the application has not been killed                      *)
  connected,     (* the server holds its end open                            *)
  toApp,         (* pieces of commands on their way                          *)
  toServer,      (* pieces of packets on their way                           *)
  lastCommand,   (* history: the last command sent                           *)
  disturbed,     (* history: something else has happened to the recording    *)
                 (* since it was sent, or it followed another too closely    *)
  frames,        (* frames of a sender's batch that have no packet yet       *)
  packet,        (* the packet of its all_bbox_generated                     *)
  sent,          (* pieces of it sent, Pieces when there is none             *)
  expected,      (* history: the piece of a packet the server reads next     *)
  reading,       (* history: the sender of the piece it read last            *)
  mixed,         (* history: one sender has sent amid the packet of another  *)
  recordOn,      (* ctx->recordOn                                            *)
  reconfiguring  (* of source 0                                              *)

serverVars == <<toApp, lastCommand>>
packetVars == <<frames, packet, sent>>
readVars == <<expected, reading>>
vars == <<alive, connected, serverVars, toServer, packetVars, readVars,
          mixed, recordOn, reconfiguring, disturbed>>

Text(c) == <<<<c, 1>>, <<c, 2>>>>
Piece == Commands \X {1, 2}
Object == [frame : Nat, object : Nat]
Packet == {p \in [object_count : 0 .. MAX_OBJECTS, objects : Seq(Object)] :
             Len(p.objects) <= MAX_OBJECTS}
NoPacket == [object_count |-> 0, objects |-> <<>>]

TypeOK ==
  /\ {alive, connected, recordOn, reconfiguring} \subseteq BOOLEAN
  /\ {disturbed, mixed} \subseteq BOOLEAN
  /\ toApp \in Seq(Piece) /\ lastCommand \in Commands \cup {""}
  /\ toServer \in Seq(Senders \X (1 .. Pieces))
  /\ frames \in [Senders -> Seq(Nat)]
  /\ packet \in [Senders -> Packet]
  /\ sent \in [Senders -> 0 .. Pieces]
  /\ expected \in 1 .. Pieces /\ reading \in Senders

Init ==
  /\ alive = TRUE /\ connected = TRUE
  /\ toApp = <<>> /\ lastCommand = "" /\ toServer = <<>>
  /\ frames = [a \in Senders |-> <<>>]
  /\ packet = [a \in Senders |-> NoPacket]
  /\ sent = [a \in Senders |-> Pieces]
  /\ expected = 1 /\ reading \in Senders /\ mixed = FALSE
  /\ recordOn = FALSE /\ reconfiguring = FALSE
  /\ disturbed = FALSE

-----------------------------------------------------------------------------
(* The server.                                                             *)

ServerCommand(c) ==
  /\ connected /\ Len(toApp) + 2 <= SocketRoom
  /\ toApp' = toApp \o Text(c)
  /\ lastCommand' = c
  /\ disturbed' = (toApp # <<>> \/ reconfiguring)
  /\ UNCHANGED <<alive, connected, toServer, packetVars, readVars, mixed>>
  /\ UNCHANGED <<recordOn, reconfiguring>>

ServerReads ==
  /\ connected /\ toServer # <<>>
  /\ toServer' = Tail(toServer)
  /\ reading' = Head(toServer)[1] /\ expected' = (expected % Pieces) + 1
  /\ UNCHANGED <<alive, connected, serverVars, packetVars, mixed, recordOn>>
  /\ UNCHANGED <<reconfiguring, disturbed>>

ServerCloses ==
  /\ connected
  /\ connected' = FALSE /\ toServer' = <<>>
  /\ UNCHANGED <<alive, serverVars, packetVars, readVars, mixed, recordOn>>
  /\ UNCHANGED <<reconfiguring, disturbed>>

-----------------------------------------------------------------------------
(* The streaming threads.                                                  *)

Idle(a) == frames[a] = <<>> /\ sent[a] = Pieces

(* all_bbox_generated is called with a batch and clears its packet.        *)
BatchArrives(a, b) ==
  /\ alive /\ Idle(a)
  /\ frames' = [frames EXCEPT ![a] = b]
  /\ packet' = [packet EXCEPT ![a] = NoPacket]
  /\ UNCHANGED <<alive, connected, serverVars, toServer, sent, readVars>>
  /\ UNCHANGED <<mixed, recordOn, reconfiguring, disturbed>>

FillKeepsCount(p, f, n) ==   \* mutated: object_count is not reset per frame
  LET count == IF p.object_count + n < MAX_OBJECTS
               THEN p.object_count + n ELSE MAX_OBJECTS
  IN  [object_count |-> count,
       objects |-> [k \in 1 .. count |->
                      IF k <= p.object_count THEN p.objects[k]
                      ELSE [frame |-> f, object |-> k - p.object_count]]]

(* The packet of frame f with n objects: the objects beyond MAX_OBJECTS    *)
(* are left out, and the slots of a larger frame before it stay behind.    *)
Fill(p, f, n) ==
  LET count == IF n < MAX_OBJECTS THEN n ELSE MAX_OBJECTS
      slots == IF Len(p.objects) > count THEN Len(p.objects) ELSE count
  IN  [object_count |-> count,
       objects |-> [k \in 1 .. slots |->
                      IF k <= count THEN [frame |-> f, object |-> k]
                      ELSE p.objects[k]]]

FillPacket(a) ==
  /\ alive /\ frames[a] # <<>> /\ sent[a] = Pieces
  /\ packet' = [packet EXCEPT
                  ![a] = Fill(@, Len(frames[a]), Head(frames[a]))]
  /\ frames' = [frames EXCEPT ![a] = Tail(@)]
  /\ sent' = [sent EXCEPT ![a] = 0]
  /\ UNCHANGED <<alive, connected, serverVars, toServer, readVars, mixed>>
  /\ UNCHANGED <<recordOn, reconfiguring, disturbed>>

SentForgets(done, n) == n          \* mutated: sent = n

SentAfter(done, n) == done + n

Midway(a) == sent[a] \in 1 .. Pieces - 1

(* uds_client_send_packet: one call of send takes what the socket has room *)
(* for and blocks while it has none; other senders may come in between.    *)
SendPieces(a, n) ==
  /\ alive /\ connected /\ sent[a] < Pieces
  /\ n \in 1 .. Pieces - sent[a] /\ Len(toServer) + n <= SocketRoom
  /\ toServer' = toServer \o [k \in 1 .. n |-> <<a, sent[a] + k>>]
  /\ sent' = [sent EXCEPT ![a] = SentAfter(@, n)]
  /\ mixed' = (mixed \/ \E b \in Senders \ {a} : Midway(b))
  /\ UNCHANGED <<alive, connected, serverVars, frames, packet, readVars>>
  /\ UNCHANGED <<recordOn, reconfiguring, disturbed>>

(* Nothing handles SIGPIPE and the call does not suppress it.              *)
SendToClosed(a) ==
  /\ alive /\ ~connected /\ sent[a] < Pieces
  /\ alive' = FALSE
  /\ UNCHANGED <<connected, serverVars, toServer, packetVars, readVars, mixed>>
  /\ UNCHANGED <<recordOn, reconfiguring, disturbed>>

-----------------------------------------------------------------------------
(* The main loop.                                                          *)

SmartRecordStart ==
  recordOn' = IF reconfiguring THEN recordOn ELSE TRUE

SmartRecordStop == recordOn' = FALSE

ReceivedHalf == 1           \* mutated: the buffer holds half a command

Received == RecvSize

(* uds_poll compares everything that has arrived with one command.         *)
UdsPoll ==
  /\ alive /\ toApp # <<>>
  /\ LET n == IF Len(toApp) < Received THEN Len(toApp) ELSE Received
         buf == SubSeq(toApp, 1, n)
     IN  /\ toApp' = SubSeq(toApp, n + 1, Len(toApp))
         /\ IF buf = Text("START") THEN SmartRecordStart
            ELSE IF buf = Text("STOP") THEN SmartRecordStop
            ELSE recordOn' = recordOn
  /\ UNCHANGED <<alive, connected, lastCommand, toServer, packetVars>>
  /\ UNCHANGED <<readVars, mixed, reconfiguring, disturbed>>

(* NvDsSRStart was given a duration: the library ends the recording then,  *)
(* and a START read while it was on has not made it longer.                *)
RecordEnds ==
  /\ alive /\ recordOn
  /\ recordOn' = FALSE
  /\ disturbed' = (disturbed \/ toApp = <<>>)
  /\ UNCHANGED <<alive, connected, serverVars, toServer, packetVars, readVars>>
  /\ UNCHANGED <<mixed, reconfiguring>>

(* smart_record_event_generator, called by the timers that every creation  *)
(* of the pipeline adds and none removes.                                  *)
EventGenerator ==
  /\ alive /\ Generated
  /\ recordOn' = IF reconfiguring THEN recordOn ELSE ~recordOn
  /\ disturbed' = TRUE
  /\ UNCHANGED <<alive, connected, serverVars, toServer, packetVars, readVars>>
  /\ UNCHANGED <<mixed, reconfiguring>>

(* The pipeline is recreated: the recording context is a new one.          *)
Recreate ==
  /\ alive /\ \A a \in Recreated : Idle(a)
  /\ recordOn' = FALSE
  /\ disturbed' = TRUE
  /\ UNCHANGED <<alive, connected, serverVars, toServer, packetVars, readVars>>
  /\ UNCHANGED <<mixed, reconfiguring>>

Reconfigure ==
  /\ reconfiguring' = ~reconfiguring
  /\ disturbed' = TRUE
  /\ UNCHANGED <<alive, connected, serverVars, toServer, packetVars, readVars>>
  /\ UNCHANGED <<mixed, recordOn>>

Next ==
  \/ \E c \in Commands : ServerCommand(c)
  \/ ServerReads \/ ServerCloses
  \/ \E a \in Senders : \/ \E b \in Batches : BatchArrives(a, b)
                        \/ FillPacket(a) \/ SendToClosed(a)
                        \/ \E n \in 1 .. Pieces : SendPieces(a, n)
  \/ UdsPoll \/ RecordEnds
  \/ EventGenerator \/ Recreate \/ Reconfigure

Spec == Init /\ [][Next]_vars

-----------------------------------------------------------------------------
(* Whatever the sizes of the pieces send accepts, and however the senders  *)
(* take turns between packets, the server reads whole packets one after    *)
(* the other, each from one sender.  Nothing in uds_client_send_packet     *)
(* keeps a sender out while another is in the middle of a packet, and the  *)
(* stream is lost for good when that happens: mixed.                       *)
StreamIsWholePackets ==
  ~mixed =>
    \A k \in DOMAIN toServer :
      /\ toServer[k][2] = ((expected + k - 2) % Pieces) + 1
      /\ toServer[k][2] > 1 =>
           toServer[k][1] = IF k = 1 THEN reading ELSE toServer[k - 1][1]

(* A packet lists objects of its own frame only, the first ones, none      *)
(* twice, however the frames of the batch before it were filled.           *)
PacketIsOfItsFrame ==
  \A a \in Senders : sent[a] < Pieces =>
    \A k \in 1 .. packet[a].object_count :
      packet[a].objects[k] = [frame |-> Len(frames[a]) + 1, object |-> k]

(* A command sent on a quiet link has been obeyed once it has been read,   *)
(* until a reconnection, a recreation, a local event or the end of the     *)
(* recording's duration: there are start and stop events "received from    *)
(* the server" (deepstream_source_bin.c:950-951).                          *)
LastCommandObeyed ==
  alive /\ toApp = <<>> /\ lastCommand # "" /\ ~disturbed
    => recordOn = (lastCommand = "START")
=============================================================================
