-------------------------- MODULE SmartRecord_proofs --------------------------
(* Proofs about SmartRecord, for any number of senders, for every size of a *)
(* packet, of the socket and of the buffer that holds a command, and for    *)
(* every sequence of batches.                                               *)
EXTENDS SmartRecord, TLAPS

-----------------------------------------------------------------------------
(* Remainders.                                                             *)

LEMMA ModRange ==
  ASSUME NEW P \in Nat \ {0}, NEW a \in Int
  PROVE  a % P \in 0 .. P - 1
OBVIOUS

LEMMA ModDiv ==
  ASSUME NEW P \in Nat \ {0}, NEW a \in Int
  PROVE  a \div P \in Int /\ a = P * (a \div P) + (a % P)
OBVIOUS

LEMMA TimesGrows ==
  ASSUME NEW P \in Nat \ {0}, NEW q \in Int, NEW r \in Int, q < r
  PROVE  P * q + P <= P * r
<1>1. r - q >= 1 /\ r - q \in Nat
  OBVIOUS
<1>2. P * (r - q) >= P
  BY <1>1
<1>. QED
  BY <1>2

LEMMA ModUnique ==
  ASSUME NEW P \in Nat \ {0}, NEW q \in Int, NEW r \in 0 .. P - 1
  PROVE  (P * q + r) % P = r
<1> DEFINE a == P * q + r
           d == a \div P
           m == a % P
<1>1. a \in Int /\ P * q \in Int
  OBVIOUS
<1>2. d \in Int /\ a = P * d + m /\ m \in 0 .. P - 1
  BY <1>1, ModDiv, ModRange
<1>3. a = P * q + r
  OBVIOUS
<1> HIDE DEF a, d, m
<1>4. P * d \in Int
  BY <1>2
<1>5. ~(d < q) /\ ~(q < d)
  BY <1>1, <1>2, <1>3, <1>4, TimesGrows
<1>6. d = q
  BY <1>2, <1>5
<1>7. m = r
  BY <1>1, <1>2, <1>3, <1>6
<1>. QED
  BY <1>7 DEF m, a

LEMMA ModAdd ==
  ASSUME NEW P \in Nat \ {0}, NEW a \in Int, NEW b \in Int
  PROVE  ((a % P) + b) % P = (a + b) % P
<1> DEFINE d == a \div P
           m == a % P
           e == (m + b) \div P
           n == (m + b) % P
<1>1. d \in Int /\ a = P * d + m /\ m \in 0 .. P - 1
  BY ModDiv, ModRange
<1>2. m + b \in Int
  BY <1>1
<1>3. e \in Int /\ m + b = P * e + n /\ n \in 0 .. P - 1
  BY <1>2, ModDiv, ModRange
<1> HIDE DEF d, m, e, n
<1>4. a + b = P * (d + e) + n /\ d + e \in Int
  BY <1>1, <1>3
<1>5. (P * (d + e) + n) % P = n
  BY <1>3, <1>4, ModUnique
<1>. QED
  BY <1>4, <1>5 DEF n, m

LEMMA ModSmall ==
  ASSUME NEW P \in Nat \ {0}, NEW r \in 0 .. P - 1
  PROVE  r % P = r /\ P % P = 0
<1>1. (P * 0 + r) % P = r /\ (P * 1 + 0) % P = 0
  BY ModUnique
<1>. QED
  BY <1>1

(* Adding the same on both sides keeps remainders equal.                   *)
LEMMA ModSame ==
  ASSUME NEW P \in Nat \ {0}, NEW a \in Int, NEW b \in Int, NEW n \in Int,
         a % P = b % P
  PROVE  (a + n) % P = (b + n) % P
<1>1. ((a % P) + n) % P = (a + n) % P
  BY ModAdd
<1>2. ((b % P) + n) % P = (b + n) % P
  BY ModAdd
<1>. QED
  BY <1>1, <1>2

-----------------------------------------------------------------------------
(* Types.                                                                  *)

LEMMA ConstantTypes ==
  /\ MAX_OBJECTS \in Nat \ {0}
  /\ Pieces \in Nat \ {0}
  /\ SocketRoom \in Nat \ {0}
  /\ RecvSize \in Nat /\ RecvSize >= 2
  /\ Batches \subseteq Seq(Nat)
  /\ Commands \subseteq {"START", "STOP"}
BY SmartRecordAssumption

(* The types, grouped as the actions change them.                          *)
RecordType ==
  /\ recordOn \in BOOLEAN /\ reconfiguring \in BOOLEAN
CommandType ==
  toApp \in Seq(Piece) /\ lastCommand \in Commands \cup {""} /\ disturbed \in BOOLEAN
PacketType ==
  /\ frames \in [Senders -> Seq(Nat)]
  /\ packet \in [Senders -> Packet]
  /\ sent \in [Senders -> 0 .. Pieces]
StreamType ==
  /\ alive \in BOOLEAN /\ connected \in BOOLEAN /\ mixed \in BOOLEAN
  /\ toServer \in Seq(Senders \X (1 .. Pieces))
  /\ expected \in 1 .. Pieces /\ reading \in Senders

LEMMA TypeParts ==
  TypeOK <=> RecordType /\ CommandType /\ PacketType /\ StreamType
BY DEF TypeOK, RecordType, CommandType, PacketType, StreamType

LEMMA TextIsPieces ==
  ASSUME NEW c \in Commands
  PROVE  Text(c) \in Seq(Piece) /\ Len(Text(c)) = 2
<1>1. <<c, 1>> \in Piece /\ <<c, 2>> \in Piece
  BY DEF Piece
<1>. QED
  BY <1>1 DEF Text

(* A filled packet has room for its objects, whatever it held before.      *)
LEMMA FillType ==
  ASSUME NEW p \in Packet, NEW f \in Nat, NEW n \in Nat
  PROVE  LET q == Fill(p, f, n)
         IN  /\ q \in Packet
             /\ \A k \in 1 .. q.object_count : q.objects[k] = [frame |-> f, object |-> k]
<1> DEFINE old   == p.objects
           count == IF n < MAX_OBJECTS THEN n ELSE MAX_OBJECTS
           slots == IF Len(old) > count THEN Len(old) ELSE count
           At(k) == IF k <= count THEN [frame |-> f, object |-> k] ELSE old[k]
           q     == Fill(p, f, n)
<1>1. q = [object_count |-> count, objects |-> [k \in 1 .. slots |-> At(k)]]
  BY DEF Fill
<1>2. old \in Seq(Object) /\ Len(old) \in Nat /\ Len(old) <= MAX_OBJECTS
  BY DEF Packet
<1>3. count \in 0 .. MAX_OBJECTS
  BY ConstantTypes
<1>4. /\ slots \in Nat /\ slots <= MAX_OBJECTS
      /\ count <= slots
      /\ \A k \in 1 .. slots : k <= count \/ k \in 1 .. Len(old)
  BY <1>2, <1>3, ConstantTypes
<1> HIDE DEF old, count, slots, q
<1>5. ASSUME NEW k \in 1 .. slots PROVE At(k) \in Object
  <2>1. CASE k <= count
    BY <2>1 DEF Object
  <2>2. CASE ~(k <= count)
    BY <1>2, <1>4, <2>2
  <2>. QED
    BY <2>1, <2>2
<1>6. q.objects \in Seq(Object) /\ Len(q.objects) = slots
  BY <1>1, <1>4, <1>5
<1>7. \A k \in 1 .. count : q.objects[k] = [frame |-> f, object |-> k]
  BY <1>1, <1>3, <1>4
<1>8. q \in Packet
  BY <1>1, <1>3, <1>4, <1>6 DEF Packet
<1>. QED
  BY <1>1, <1>7, <1>8 DEF q

LEMMA TypeInit == Init => TypeOK
<1> SUFFICES ASSUME Init PROVE TypeOK
  OBVIOUS
<1>1. RecordType
  BY Zenon DEF Init, RecordType
<1>2. CommandType
  <2>1. disturbed \in BOOLEAN
    BY Zenon DEF Init
  <2>2. toApp = <<>>
    BY Zenon DEF Init
  <2>3. toApp \in Seq(Piece)
    BY <2>2
  <2>4. lastCommand \in Commands \cup {""}
    BY Zenon DEF Init
  <2>. QED
    BY Zenon, <2>1, <2>3, <2>4 DEF CommandType
<1>3. PacketType
  <2>1. /\ frames = [a \in Senders |-> <<>>]
        /\ packet = [a \in Senders |-> NoPacket]
        /\ sent = [a \in Senders |-> Pieces]
    BY Zenon DEF Init
  <2>2. NoPacket \in Packet /\ <<>> \in Seq(Nat) /\ Pieces \in 0 .. Pieces
    BY ConstantTypes DEF NoPacket, Packet
  <2>. QED
    BY Zenon, <2>1, <2>2 DEF PacketType
<1>4. StreamType
  <2>1. alive \in BOOLEAN /\ connected \in BOOLEAN /\ mixed \in BOOLEAN
    BY Zenon DEF Init
  <2>2. toServer = <<>> /\ expected = 1 /\ reading \in Senders
    BY Zenon DEF Init
  <2>. QED
    BY <2>1, <2>2, ConstantTypes DEF StreamType
<1>. QED
  BY <1>1, <1>2, <1>3, <1>4, TypeParts

LEMMA TypeNext == TypeOK /\ [Next]_vars => TypeOK'
<1> SUFFICES ASSUME RecordType, CommandType, PacketType, StreamType, [Next]_vars
             PROVE  RecordType' /\ CommandType' /\ PacketType' /\ StreamType'
  BY TypeParts DEF TypeOK, RecordType, CommandType, PacketType, StreamType
<1>1. UNCHANGED <<recordOn, reconfiguring>> => RecordType'
  BY Zenon DEF RecordType
<1>2. UNCHANGED <<serverVars, disturbed>> => CommandType'
  BY Zenon DEF serverVars, CommandType
<1>3. UNCHANGED packetVars => PacketType'
  BY Zenon DEF packetVars, PacketType
<1>4. UNCHANGED <<alive, connected, toServer, readVars, mixed>> => StreamType'
  BY Zenon DEF StreamType, readVars
<1>5. ASSUME NEW c \in Commands, ServerCommand(c)
      PROVE  RecordType' /\ CommandType' /\ PacketType' /\ StreamType'
  <2>1. toApp' \in Seq(Piece)
    <3>1. toApp' = toApp \o Text(c)
      BY Zenon, <1>5 DEF ServerCommand
    <3>2. toApp \in Seq(Piece)
      BY Zenon DEF CommandType
    <3>. QED
      BY <3>1, <3>2, TextIsPieces
  <2>2. disturbed' \in BOOLEAN /\ lastCommand' \in Commands \cup {""}
    BY Zenon, <1>5 DEF ServerCommand
  <2>. QED
    BY Zenon, <1>1, <1>3, <1>4, <1>5, <2>1, <2>2 DEF ServerCommand, CommandType
<1>6. CASE ServerReads
  <2>1. toServer' \in Seq(Senders \X (1 .. Pieces)) /\ reading' \in Senders
    <3>1. toServer # <<>> /\ toServer' = Tail(toServer) /\ reading' = Head(toServer)[1]
      BY Zenon, <1>6 DEF ServerReads
    <3>2. toServer \in Seq(Senders \X (1 .. Pieces))
      BY Zenon DEF StreamType
    <3>. QED
      BY <3>1, <3>2
  <2>2. expected' \in 1 .. Pieces
    <3>1. expected \in Int /\ Pieces \in Nat \ {0}
      BY ConstantTypes DEF StreamType
    <3>2. expected % Pieces \in 0 .. Pieces - 1
      BY <3>1, ModRange
    <3>. QED
      BY <1>6, <3>1, <3>2 DEF ServerReads
  <2>. QED
    BY Zenon, <1>1, <1>2, <1>3, <1>6, <2>1, <2>2 DEF ServerReads, StreamType
<1>7. CASE ServerCloses
  <2>1. toServer' \in Seq(Senders \X (1 .. Pieces))
    BY <1>7 DEF ServerCloses
  <2>. QED
    BY Zenon, <1>1, <1>2, <1>3, <1>7, <2>1 DEF ServerCloses, StreamType, readVars
<1>8. ASSUME NEW a \in Senders, NEW b \in Batches, BatchArrives(a, b)
      PROVE  RecordType' /\ CommandType' /\ PacketType' /\ StreamType'
  <2>1. PacketType'
    <3>1. b \in Seq(Nat) /\ NoPacket \in Packet
      BY ConstantTypes DEF NoPacket, Packet
    <3>2. /\ frames' = [frames EXCEPT ![a] = b] /\ sent' = sent
          /\ packet' = [packet EXCEPT ![a] = NoPacket]
      BY Zenon, <1>8 DEF BatchArrives
    <3>. QED
      BY Zenon, <3>1, <3>2 DEF PacketType
  <2>. QED
    BY Zenon, <1>1, <1>2, <1>4, <1>8, <2>1 DEF BatchArrives
<1>9. ASSUME NEW a \in Senders, FillPacket(a)
      PROVE  RecordType' /\ CommandType' /\ PacketType' /\ StreamType'
  <2>1. PacketType'
    <3>1. /\ frames' = [frames EXCEPT ![a] = Tail(frames[a])]
          /\ packet' = [packet EXCEPT
                ![a] = Fill(packet[a], Len(frames[a]), Head(frames[a]))]
          /\ sent' = [sent EXCEPT ![a] = 0]
          /\ frames[a] # <<>>
      BY Zenon, <1>9 DEF FillPacket
    <3>2. frames[a] \in Seq(Nat) /\ packet[a] \in Packet
      BY Zenon DEF PacketType
    <3>3. Head(frames[a]) \in Nat /\ Len(frames[a]) \in Nat /\ Tail(frames[a]) \in Seq(Nat)
      BY <3>1, <3>2
    <3>4. Fill(packet[a], Len(frames[a]), Head(frames[a])) \in Packet
      BY Zenon, <3>2, <3>3, FillType
    <3>5. 0 \in 0 .. Pieces
      BY ConstantTypes
    <3>. QED
      BY Zenon, <3>1, <3>3, <3>4, <3>5 DEF PacketType
  <2>. QED
    BY Zenon, <1>1, <1>2, <1>4, <1>9, <2>1 DEF FillPacket
<1>10. ASSUME NEW a \in Senders, NEW n \in 1 .. Pieces, SendPieces(a, n)
       PROVE  RecordType' /\ CommandType' /\ PacketType' /\ StreamType'
  <2>1. sent[a] \in Nat /\ sent[a] + n <= Pieces
    BY <1>10, ConstantTypes DEF SendPieces, PacketType
  <2>2. [k \in 1 .. n |-> <<a, sent[a] + k>>] \in Seq(Senders \X (1 .. Pieces))
    BY <2>1, ConstantTypes
  <2>3. toServer' \in Seq(Senders \X (1 .. Pieces))
    BY <1>10, <2>2 DEF SendPieces, StreamType
  <2>4. sent' \in [Senders -> 0 .. Pieces]
    <3>1. sent' = [sent EXCEPT ![a] = sent[a] + n]
      BY Zenon, <1>10 DEF SendPieces, SentAfter
    <3>2. sent[a] + n \in 0 .. Pieces
      BY <2>1, ConstantTypes
    <3>. QED
      BY Zenon, <3>1, <3>2 DEF PacketType
  <2>5. PacketType'
    BY Zenon, <1>10, <2>4 DEF SendPieces, PacketType
  <2>6. mixed' \in BOOLEAN
    BY Zenon, <1>10 DEF SendPieces, StreamType
  <2>. QED
    BY Zenon, <1>1, <1>2, <1>10, <2>3, <2>5, <2>6 DEF SendPieces, StreamType, readVars
<1>11. ASSUME NEW a \in Senders, SendToClosed(a)
       PROVE  RecordType' /\ CommandType' /\ PacketType' /\ StreamType'
  BY Zenon, <1>1, <1>2, <1>3, <1>11 DEF SendToClosed, StreamType, readVars
<1>12. CASE UdsPoll
  <2>1. /\ toApp' \in Seq(Piece)
        /\ lastCommand' = lastCommand
    <3>. DEFINE n == IF Len(toApp) < Received THEN Len(toApp) ELSE Received
    <3>1. toApp' = SubSeq(toApp, n + 1, Len(toApp)) /\ lastCommand' = lastCommand
      BY <1>12 DEF UdsPoll
    <3>2. toApp \in Seq(Piece)
      BY Zenon DEF CommandType
    <3>3. n \in Nat
      BY <3>2, ConstantTypes DEF Received
    <3>. QED
      BY <3>1, <3>2, <3>3
  <2>2. recordOn' \in BOOLEAN
    BY Zenon, <1>12 DEF UdsPoll, SmartRecordStart, SmartRecordStop, RecordType
  <2>3. CommandType'
    BY Zenon, <1>12, <2>1 DEF UdsPoll, CommandType
  <2>4. RecordType'
    BY Zenon, <1>12, <2>2 DEF UdsPoll, RecordType
  <2>. QED
    BY Zenon, <1>3, <1>4, <1>12, <2>3, <2>4 DEF UdsPoll
<1>13. CASE EventGenerator
  <2>1. recordOn' \in BOOLEAN /\ disturbed' \in BOOLEAN
    BY Zenon, <1>13 DEF EventGenerator, RecordType
  <2>2. RecordType'
    BY Zenon, <1>13, <2>1 DEF EventGenerator, RecordType
  <2>3. CommandType'
    BY Zenon, <1>13, <2>1 DEF EventGenerator, CommandType, serverVars
  <2>. QED
    BY Zenon, <1>3, <1>4, <1>13, <2>2, <2>3 DEF EventGenerator
<1>14. CASE Recreate
  <2>1. recordOn' \in BOOLEAN /\ disturbed' \in BOOLEAN
    BY Zenon, <1>14 DEF Recreate
  <2>2. RecordType'
    BY Zenon, <1>14, <2>1 DEF Recreate, RecordType
  <2>3. CommandType'
    BY Zenon, <1>14, <2>1 DEF Recreate, CommandType, serverVars
  <2>. QED
    BY Zenon, <1>3, <1>4, <1>14, <2>2, <2>3 DEF Recreate
<1>15. CASE Reconfigure
  <2>1. reconfiguring' \in BOOLEAN /\ disturbed' \in BOOLEAN
    BY Zenon, <1>15 DEF Reconfigure, RecordType
  <2>2. RecordType'
    BY Zenon, <1>15, <2>1 DEF Reconfigure, RecordType
  <2>3. CommandType'
    BY Zenon, <1>15, <2>1 DEF Reconfigure, CommandType, serverVars
  <2>. QED
    BY Zenon, <1>3, <1>4, <1>15, <2>2, <2>3 DEF Reconfigure
<1>16. CASE RecordEnds
  <2>1. recordOn' \in BOOLEAN /\ disturbed' \in BOOLEAN
    BY Zenon, <1>16 DEF RecordEnds, CommandType
  <2>2. RecordType'
    BY Zenon, <1>16, <2>1 DEF RecordEnds, RecordType
  <2>3. CommandType'
    BY Zenon, <1>16, <2>1 DEF RecordEnds, CommandType, serverVars
  <2>. QED
    BY Zenon, <1>3, <1>4, <1>16, <2>2, <2>3 DEF RecordEnds
<1>17. CASE UNCHANGED vars
  BY Zenon, <1>1, <1>2, <1>3, <1>4, <1>17 DEF vars
<1>. QED
  BY <1>5, <1>6, <1>7, <1>8, <1>9, <1>10, <1>11, <1>12, <1>13, <1>14, <1>15, <1>16, <1>17
  DEF Next

(* The link, the packet and the recording keep their types: no packet holds *)
(* more objects than it has room for, however large the frame was.         *)
THEOREM TypeCorrect == Spec => []TypeOK
<1>1. TypeOK /\ [Next]_vars => TypeOK'
  BY TypeNext
<1>. QED
  BY <1>1, TypeInit, PTL DEF Spec

-----------------------------------------------------------------------------
(* While no packet has been mixed with another: what the socket holds leads *)
(* on, piece by piece, from the last piece read; and where it ends is where *)
(* the sender in the middle of a packet stands, or the end of a packet.     *)
LastSender == IF toServer = <<>> THEN reading ELSE toServer[Len(toServer)][1]

TailInv ==
  connected /\ ~mixed =>
    /\ \A a \in Senders : Midway(a) =>
         /\ (expected + Len(toServer) - 1) % Pieces = sent[a]
         /\ LastSender = a
    /\ (\A a \in Senders : ~Midway(a)) =>
         (expected + Len(toServer) - 1) % Pieces = 0

StreamInv == StreamIsWholePackets /\ TailInv

LEMMA StreamInit == Init => StreamInv
<1> SUFFICES ASSUME Init PROVE StreamInv
  OBVIOUS
<1>0. toServer = <<>> /\ expected = 1 /\ sent = [a \in Senders |-> Pieces]
  BY Zenon DEF Init
<1>1. toServer = <<>> /\ expected = 1 /\ \A a \in Senders : ~Midway(a)
  BY <1>0, ConstantTypes DEF Midway
<1>2. (expected + Len(toServer) - 1) % Pieces = 0
  <2>1. 0 % Pieces = 0
    BY ModSmall, ConstantTypes
  <2>2. expected + Len(toServer) - 1 = 0
    BY <1>1
  <2>. QED
    BY <2>1, <2>2
<1>3. TailInv
  BY Zenon, <1>1, <1>2 DEF TailInv
<1>4. StreamIsWholePackets
  BY <1>1 DEF StreamIsWholePackets
<1>. QED
  BY <1>3, <1>4 DEF StreamInv

(* The server reads a piece: the rest leads on from that one.               *)
LEMMA ReadStep == TypeOK /\ StreamInv /\ ServerReads => StreamInv'
<1>a. ServerReads => mixed' = mixed
  BY Zenon DEF ServerReads
<1>b. mixed' => StreamInv'
  BY Zenon DEF StreamInv, StreamIsWholePackets, TailInv
<1> SUFFICES ASSUME TypeOK, StreamInv, ServerReads, ~mixed PROVE StreamInv'
  BY Zenon, <1>a, <1>b
<1> DEFINE L == Len(toServer)
<1>0. /\ toServer \in Seq(Senders \X (1 .. Pieces)) /\ L \in Nat
      /\ expected \in 1 .. Pieces /\ expected \in Int /\ Pieces \in Nat \ {0}
  <2>1. toServer \in Seq(Senders \X (1 .. Pieces)) /\ expected \in 1 .. Pieces
    BY Zenon, TypeParts DEF StreamType
  <2>. QED
    BY <2>1, ConstantTypes
<1>1. /\ toServer # <<>> /\ toServer' = Tail(toServer)
      /\ reading' = Head(toServer)[1]
      /\ UNCHANGED <<sent, mixed>> /\ connected /\ connected'
      /\ expected' = (expected % Pieces) + 1
  BY Zenon, <1>0 DEF ServerReads, packetVars
<1>2. /\ Len(toServer') = L - 1 /\ L >= 1 /\ Head(toServer) = toServer[1]
      /\ \A k \in 1 .. L - 1 : toServer'[k] = toServer[k + 1]
      /\ DOMAIN toServer' = 1 .. L - 1 /\ DOMAIN toServer = 1 .. L
  BY <1>0, <1>1
<1>3. ASSUME NEW n \in Int
      PROVE  (expected' + n - 1) % Pieces = (expected + n) % Pieces
  <2>1. ((expected % Pieces) + n) % Pieces = (expected + n) % Pieces
    BY <1>0, ModAdd
  <2>2. expected % Pieces \in Int
    BY <1>0
  <2>3. expected' + n - 1 = (expected % Pieces) + n
    BY <1>1, <2>2
  <2>. QED
    BY <2>1, <2>3
<1>4. ASSUME NEW k \in 1 .. L
      PROVE  /\ toServer[k][2] = ((expected + k - 2) % Pieces) + 1
             /\ toServer[k][2] > 1 =>
                  toServer[k][1] = IF k = 1 THEN reading ELSE toServer[k - 1][1]
  BY Zenon, <1>2 DEF StreamInv, StreamIsWholePackets
<1>5. ASSUME NEW k \in 1 .. L - 1
      PROVE  /\ toServer'[k][2] = ((expected' + k - 2) % Pieces) + 1
             /\ toServer'[k][2] > 1 =>
                  toServer'[k][1] = IF k = 1 THEN reading' ELSE toServer'[k - 1][1]
  <2>1. k + 1 \in 1 .. L /\ toServer'[k] = toServer[k + 1]
    BY <1>0, <1>2
  <2>2. (expected' + (k - 1) - 1) % Pieces = (expected + (k - 1)) % Pieces
    BY <1>3
  <2>3. /\ expected + (k + 1) - 2 = expected + (k - 1)
        /\ expected' + k - 2 = expected' + (k - 1) - 1
    BY <1>0, <1>1
  <2>4. toServer[k + 1][2] = ((expected' + k - 2) % Pieces) + 1
    BY <1>4, <2>1, <2>2, <2>3
  <2>5. ASSUME toServer[k + 1][2] > 1
        PROVE  toServer[k + 1][1] = IF k = 1 THEN reading' ELSE toServer'[k - 1][1]
    <3>1. toServer[k + 1][1] = toServer[k][1]
      <4>1. /\ k + 1 # 1 /\ (k + 1) - 1 = k
        OBVIOUS
      <4>. QED
        BY <1>4, <2>1, <2>5, <4>1
    <3>2. CASE k = 1
      BY <1>1, <1>2, <3>1, <3>2
    <3>3. CASE k # 1
      <4>1. k - 1 \in 1 .. L - 1 /\ (k - 1) + 1 = k
        BY <1>0, <3>3
      <4>. QED
        BY <1>2, <3>1, <3>3, <4>1
    <3>. QED
      BY Zenon, <3>2, <3>3
  <2>. QED
    BY Zenon, <2>1, <2>4, <2>5
<1>6. (expected' + Len(toServer') - 1) % Pieces = (expected + L - 1) % Pieces
  <2>1. L - 1 \in Int /\ expected + (L - 1) = expected + L - 1
    BY <1>0
  <2>2. (expected' + (L - 1) - 1) % Pieces = (expected + (L - 1)) % Pieces
    BY Zenon, <1>3, <2>1
  <2>. QED
    BY Zenon, <1>2, <2>1, <2>2
<1>7. LastSender' = LastSender
  <2>1. CASE L = 1
    <3>1. toServer' = <<>> /\ Len(toServer) = 1
      BY <1>0, <1>1, <2>1
    <3>. QED
      BY Zenon, <1>1, <1>2, <3>1 DEF LastSender
  <2>2. CASE L # 1
    <3>1. /\ L - 1 \in 1 .. L - 1 /\ (L - 1) + 1 = L
      BY <1>0, <1>2, <2>2
    <3>2. toServer'[L - 1] = toServer[L]
      BY Zenon, <1>2, <3>1
    <3>3. toServer' # <<>> /\ toServer # <<>>
      BY <1>2, <3>1
    <3>. QED
      BY Zenon, <1>2, <3>2, <3>3 DEF LastSender
  <2>. QED
    BY Zenon, <2>1, <2>2
<1>8. StreamIsWholePackets'
  BY Zenon, <1>2, <1>5 DEF StreamIsWholePackets
<1>9. TailInv'
  <2>1. \A a \in Senders : Midway(a)' <=> Midway(a)
    BY Zenon, <1>1 DEF Midway
  <2>. QED
    BY Zenon, <1>1, <1>6, <1>7, <2>1 DEF StreamInv, TailInv
<1>. QED
  BY Zenon, <1>8, <1>9 DEF StreamInv

(* A sender adds pieces while no other is in the middle of a packet.        *)
LEMMA SendStep ==
  ASSUME TypeOK, StreamInv, NEW a \in Senders, NEW n \in 1 .. Pieces, SendPieces(a, n)
  PROVE  StreamInv'
<1> SUFFICES ASSUME ~mixed' PROVE StreamInv'
  BY Zenon DEF StreamInv, StreamIsWholePackets, TailInv
<1> DEFINE L     == Len(toServer)
           done  == sent[a]
           piece == [k \in 1 .. n |-> <<a, done + k>>]
           end   == expected + L - 1
<1>0. /\ toServer \in Seq(Senders \X (1 .. Pieces)) /\ L \in Nat
      /\ expected \in 1 .. Pieces /\ expected \in Int /\ Pieces \in Nat \ {0}
      /\ done \in 0 .. Pieces - 1 /\ n \in 1 .. Pieces - done
      /\ end \in Int
  <2>1. /\ toServer \in Seq(Senders \X (1 .. Pieces)) /\ expected \in 1 .. Pieces
        /\ sent[a] \in 0 .. Pieces
    BY Zenon, TypeParts DEF StreamType, PacketType
  <2>2. sent[a] < Pieces /\ n \in 1 .. Pieces - sent[a]
    BY Zenon DEF SendPieces
  <2>. QED
    BY <2>1, <2>2, ConstantTypes
<1>1. /\ toServer' = toServer \o piece
      /\ sent' = [sent EXCEPT ![a] = done + n]
      /\ ~mixed /\ (\A b \in Senders \ {a} : ~Midway(b))
      /\ UNCHANGED <<connected, expected, reading>> /\ connected
  BY Zenon DEF SendPieces, SentAfter, readVars
<1>2. piece \in Seq(Senders \X (1 .. Pieces)) /\ Len(piece) = n
  BY <1>0
<1>3. /\ Len(toServer') = L + n
      /\ DOMAIN toServer' = 1 .. L + n /\ DOMAIN toServer = 1 .. L
      /\ \A k \in 1 .. L : toServer'[k] = toServer[k]
      /\ \A k \in 1 .. n : toServer'[L + k] = <<a, done + k>>
  BY <1>0, <1>1, <1>2
<1>4. end % Pieces = done /\ (done > 0 => LastSender = a)
  <2>1. CASE Midway(a)
    BY Zenon, <1>1, <2>1 DEF StreamInv, TailInv
  <2>2. CASE ~Midway(a)
    <3>1. done = 0
      BY <1>0, <2>2 DEF Midway
    <3>2. \A b \in Senders : ~Midway(b)
      BY Zenon, <1>1, <2>2
    <3>3. end % Pieces = 0
      BY Zenon, <1>1, <3>2 DEF StreamInv, TailInv
    <3>. QED
      BY <3>1, <3>3
  <2>. QED
    BY Zenon, <2>1, <2>2
<1> HIDE DEF done
<1>5. ASSUME NEW j \in 0 .. n
      PROVE  (end + j) % Pieces = (done + j) % Pieces
  <2>1. done % Pieces = done
    BY Zenon, <1>0, ModSmall
  <2>2. end % Pieces = done % Pieces /\ j \in Int /\ done \in Int
    BY <1>0, <1>4, <2>1
  <2>. QED
    BY Zenon, <1>0, <2>2, ModSame
<1>6. ASSUME NEW k \in 1 .. L
      PROVE  /\ toServer'[k][2] = ((expected' + k - 2) % Pieces) + 1
             /\ toServer'[k][2] > 1 =>
                  toServer'[k][1] = IF k = 1 THEN reading' ELSE toServer'[k - 1][1]
  <2>1. /\ toServer[k][2] = ((expected + k - 2) % Pieces) + 1
        /\ toServer[k][2] > 1 =>
             toServer[k][1] = IF k = 1 THEN reading ELSE toServer[k - 1][1]
    BY Zenon, <1>1, <1>3 DEF StreamInv, StreamIsWholePackets
  <2>2. k # 1 => k - 1 \in 1 .. L
    BY <1>0
  <2>3. /\ toServer'[k] = toServer[k]
        /\ k # 1 => toServer'[k - 1] = toServer[k - 1]
        /\ expected' = expected /\ reading' = reading
    BY Zenon, <1>1, <1>3, <2>2
  <2>. QED
    BY Zenon, <2>1, <2>3
<1>7. ASSUME NEW j \in 1 .. n
      PROVE  /\ toServer'[L + j][2] = ((expected' + (L + j) - 2) % Pieces) + 1
             /\ toServer'[L + j][2] > 1 =>
                  toServer'[L + j][1] =
                    IF L + j = 1 THEN reading' ELSE toServer'[(L + j) - 1][1]
  <2>1. toServer'[L + j] = <<a, done + j>> /\ expected' = expected /\ reading' = reading
    BY <1>1, <1>3
  <2>2. (expected + (L + j) - 2) % Pieces = done + (j - 1)
    <3>1. /\ expected + (L + j) - 2 = end + (j - 1) /\ j - 1 \in 0 .. n
          /\ done + (j - 1) \in 0 .. Pieces - 1
      BY <1>0
    <3>2. (end + (j - 1)) % Pieces = (done + (j - 1)) % Pieces
      BY Zenon, <1>5, <3>1
    <3>3. (done + (j - 1)) % Pieces = done + (j - 1)
      BY Zenon, <1>0, <3>1, ModSmall
    <3>. QED
      BY Zenon, <3>1, <3>2, <3>3
  <2>3. done + j = done + (j - 1) + 1
    BY <1>0
  <2>4. ASSUME done + j > 1
        PROVE  a = IF L + j = 1 THEN reading ELSE toServer'[(L + j) - 1][1]
    <3>1. CASE j > 1
      <4>1. /\ j - 1 \in 1 .. n /\ (L + j) - 1 = L + (j - 1) /\ L + j # 1
        BY <1>0, <3>1
      <4>2. toServer'[L + (j - 1)] = <<a, done + (j - 1)>>
        BY Zenon, <1>3, <4>1
      <4>. QED
        BY <4>1, <4>2
    <3>2. CASE j = 1
      <4>1. LastSender = a /\ L + j = L + 1 /\ (L + j) - 1 = L
        BY <1>0, <1>4, <2>4, <3>2
      <4>2. CASE toServer = <<>>
        <5>1. L + j = 1
          BY <3>2, <4>2
        <5>. QED
          BY Zenon, <4>1, <4>2, <5>1 DEF LastSender
      <4>3. CASE toServer # <<>>
        <5>1. L \in 1 .. L /\ L + j # 1
          BY <1>0, <3>2, <4>3
        <5>2. toServer'[L] = toServer[L]
          BY Zenon, <1>3, <5>1
        <5>. QED
          BY Zenon, <4>1, <4>3, <5>1, <5>2 DEF LastSender
      <4>. QED
        BY Zenon, <4>2, <4>3
    <3>. QED
      BY <3>1, <3>2
  <2>. QED
    BY <2>1, <2>2, <2>3, <2>4
<1>8. StreamIsWholePackets'
  <2>1. ASSUME NEW k \in 1 .. L + n
        PROVE  k \in 1 .. L \/ \E j \in 1 .. n : k = L + j
    <3>1. CASE k <= L
      BY <1>0, <3>1
    <3>2. CASE k > L
      <4>1. k - L \in 1 .. n /\ k = L + (k - L)
        BY <1>0, <3>2
      <4>. QED
        BY Zenon, <4>1
    <3>. QED
      BY <1>0, <3>1, <3>2
  <2>2. ASSUME NEW k \in 1 .. L + n
        PROVE  /\ toServer'[k][2] = ((expected' + k - 2) % Pieces) + 1
               /\ toServer'[k][2] > 1 =>
                    toServer'[k][1] = IF k = 1 THEN reading' ELSE toServer'[k - 1][1]
    <3>1. CASE k \in 1 .. L
      BY Zenon, <1>6, <3>1
    <3>2. ASSUME NEW j \in 1 .. n, k = L + j
          PROVE  /\ toServer'[k][2] = ((expected' + k - 2) % Pieces) + 1
                 /\ toServer'[k][2] > 1 =>
                      toServer'[k][1] = IF k = 1 THEN reading' ELSE toServer'[k - 1][1]
      BY <1>7, <3>2
    <3>. QED
      BY Zenon, <2>1, <3>1, <3>2
  <2>. QED
    BY Zenon, <1>3, <2>2 DEF StreamIsWholePackets
<1>9. (expected' + Len(toServer') - 1) % Pieces = (done + n) % Pieces
  <2>1. expected' + Len(toServer') - 1 = end + n /\ n \in 0 .. n
    BY <1>0, <1>1, <1>3
  <2>. QED
    BY <1>5, <2>1
<1>10. LastSender' = a
  <2>0. n \in 1 .. n /\ L + n # 0
    BY <1>0
  <2>1. n \in 1 .. n /\ toServer' # <<>> /\ Len(toServer') = L + n
    BY <1>3, <2>0
  <2>2. toServer'[L + n] = <<a, done + n>>
    BY Zenon, <1>3, <2>1
  <2>3. toServer'[Len(toServer')][1] = a
    BY <2>1, <2>2
  <2>. QED
    BY Zenon, <2>1, <2>3 DEF LastSender
<1>11. sent'[a] = done + n /\ \A b \in Senders \ {a} : sent'[b] = sent[b]
  BY Zenon, <1>1, TypeParts DEF PacketType
<1>12. \A b \in Senders \ {a} : ~Midway(b)'
  BY Zenon, <1>1, <1>11 DEF Midway
<1>13. CASE done + n = Pieces
  <2>1. ~Midway(a)'
    BY <1>0, <1>11, <1>13 DEF Midway
  <2>2. (expected' + Len(toServer') - 1) % Pieces = 0
    BY Zenon, <1>0, <1>9, <1>13, ModSmall
  <2>3. TailInv'
    BY Zenon, <1>12, <2>1, <2>2 DEF TailInv
  <2>. QED
    BY Zenon, <1>8, <2>3 DEF StreamInv
<1>14. CASE done + n # Pieces
  <2>1. done + n \in 0 .. Pieces - 1 /\ done + n \in 1 .. Pieces - 1
    BY <1>0, <1>14
  <2>2. (expected' + Len(toServer') - 1) % Pieces = sent'[a]
    BY Zenon, <1>0, <1>9, <1>11, <2>1, ModSmall
  <2>3. Midway(a)'
    BY Zenon, <1>11, <2>1 DEF Midway
  <2>4. TailInv'
    BY Zenon, <1>10, <1>12, <2>2, <2>3 DEF TailInv
  <2>. QED
    BY Zenon, <1>8, <2>4 DEF StreamInv
<1>. QED
  BY Zenon, <1>13, <1>14

LEMMA StreamNext == TypeOK /\ StreamInv /\ [Next]_vars => StreamInv'
<1> SUFFICES ASSUME TypeOK, PacketType, StreamInv, [Next]_vars
             PROVE  StreamInv'
  BY TypeParts
<1>1. ASSUME UNCHANGED <<toServer, expected, reading, mixed>>, connected' => connected,
             \A a \in Senders : Midway(a)' <=> Midway(a),
             \A a \in Senders : Midway(a) => sent'[a] = sent[a]
      PROVE  StreamInv'
  <2>1. StreamIsWholePackets' /\ LastSender' = LastSender
    BY Zenon, <1>1 DEF StreamInv, StreamIsWholePackets, LastSender
  <2>. QED
    BY Zenon, <1>1, <2>1 DEF StreamInv, TailInv
<1>2. ASSUME UNCHANGED <<connected, toServer, readVars, mixed, sent>>
      PROVE  StreamInv'
  BY Zenon, <1>1, <1>2 DEF readVars, Midway
<1>3. CASE ServerReads
  BY Zenon, <1>3, ReadStep
<1>4. CASE ServerCloses
  <2>1. toServer' = <<>> /\ ~connected'
    BY Zenon, <1>4 DEF ServerCloses
  <2>2. StreamIsWholePackets'
    BY <2>1 DEF StreamIsWholePackets
  <2>. QED
    BY Zenon, <2>1, <2>2 DEF StreamInv, TailInv
<1>5. ASSUME NEW a \in Senders, FillPacket(a) PROVE StreamInv'
  <2>1. /\ sent[a] = Pieces /\ sent' = [sent EXCEPT ![a] = 0]
        /\ UNCHANGED <<connected, toServer, expected, reading, mixed>>
    BY Zenon, <1>5 DEF FillPacket, readVars
  <2>2. sent'[a] = 0 /\ \A b \in Senders \ {a} : sent'[b] = sent[b]
    BY Zenon, <2>1 DEF PacketType
  <2>3. ~Midway(a) /\ ~Midway(a)'
    BY <2>1, <2>2, ConstantTypes DEF Midway
  <2>4. ASSUME NEW b \in Senders
        PROVE  (Midway(b)' <=> Midway(b)) /\ (Midway(b) => sent'[b] = sent[b])
    BY Zenon, <2>2, <2>3 DEF Midway
  <2>. QED
    BY Zenon, <1>1, <2>1, <2>4
<1>6. ASSUME NEW a \in Senders, NEW n \in 1 .. Pieces, SendPieces(a, n)
      PROVE  StreamInv'
  BY Zenon, <1>6, SendStep
<1>7. ASSUME NEW c \in Commands, ServerCommand(c) PROVE StreamInv'
  BY Zenon, <1>2, <1>7 DEF ServerCommand, packetVars
<1>8. ASSUME NEW a \in Senders, NEW b \in Batches, BatchArrives(a, b)
      PROVE  StreamInv'
  BY Zenon, <1>2, <1>8 DEF BatchArrives
<1>9. ASSUME NEW a \in Senders, SendToClosed(a) PROVE StreamInv'
  BY Zenon, <1>2, <1>9 DEF SendToClosed, packetVars
<1>10. ASSUME UdsPoll \/ RecordEnds \/ EventGenerator \/ Recreate \/ Reconfigure
       PROVE  StreamInv'
  BY Zenon, <1>2, <1>10 DEF UdsPoll, RecordEnds, EventGenerator, Recreate,
     Reconfigure, packetVars
<1>11. CASE UNCHANGED vars
  BY Zenon, <1>2, <1>11 DEF vars, packetVars
<1>. QED
  BY <1>3, <1>4, <1>5, <1>6, <1>7, <1>8, <1>9, <1>10, <1>11 DEF Next

(* Whatever part of a packet each send accepts, wherever the server has got *)
(* to and however many senders share the socket, as long as none has sent   *)
(* in the middle of another's packet the server reads whole packets, each   *)
(* of one sender (uds_client_send_packet, uds_client.c:36).                 *)
THEOREM StreamIsWhole == Spec => []StreamIsWholePackets
<1>1. TypeOK /\ StreamInv /\ [Next]_vars => StreamInv'
  BY StreamNext
<1>2. StreamInv => StreamIsWholePackets
  BY DEF StreamInv
<1>. QED
  BY <1>1, <1>2, StreamInit, TypeCorrect, PTL DEF Spec

-----------------------------------------------------------------------------
LEMMA PacketNext == TypeOK /\ PacketIsOfItsFrame /\ [Next]_vars => PacketIsOfItsFrame'
<1> SUFFICES ASSUME PacketType, PacketIsOfItsFrame, [Next]_vars
             PROVE  PacketIsOfItsFrame'
  BY TypeParts
<1>1. ASSUME UNCHANGED packetVars PROVE PacketIsOfItsFrame'
  BY Zenon, <1>1 DEF packetVars, PacketIsOfItsFrame
<1>2. ASSUME NEW a \in Senders, NEW b \in Batches, BatchArrives(a, b)
      PROVE  PacketIsOfItsFrame'
  <2>1. /\ frames' = [frames EXCEPT ![a] = b] /\ sent' = sent /\ sent[a] = Pieces
        /\ packet' = [packet EXCEPT ![a] = NoPacket]
    BY Zenon, <1>2 DEF BatchArrives, Idle
  <2>2. ~(sent[a] < Pieces)
    BY <2>1, ConstantTypes
  <2>3. ASSUME NEW c \in Senders, sent'[c] < Pieces
        PROVE  frames'[c] = frames[c] /\ packet'[c] = packet[c] /\ sent[c] < Pieces
    BY Zenon, <2>1, <2>2, <2>3 DEF PacketType
  <2>. QED
    BY Zenon, <2>3 DEF PacketIsOfItsFrame
<1>3. ASSUME NEW a \in Senders, FillPacket(a) PROVE PacketIsOfItsFrame'
  <2>1. /\ frames' = [frames EXCEPT ![a] = Tail(frames[a])]
        /\ packet' = [packet EXCEPT
              ![a] = Fill(packet[a], Len(frames[a]), Head(frames[a]))]
        /\ sent' = [sent EXCEPT ![a] = 0]
        /\ frames[a] # <<>>
    BY Zenon, <1>3 DEF FillPacket
  <2>2. frames[a] \in Seq(Nat) /\ packet[a] \in Packet
    BY Zenon DEF PacketType
  <2>3. /\ Head(frames[a]) \in Nat /\ Len(frames[a]) \in Nat
        /\ Len(Tail(frames[a])) + 1 = Len(frames[a])
    BY <2>1, <2>2
  <2>4. /\ frames'[a] = Tail(frames[a])
        /\ packet'[a] = Fill(packet[a], Len(frames[a]), Head(frames[a]))
    BY Zenon, <2>1 DEF PacketType
  <2>5. \A k \in 1 .. packet'[a].object_count :
           packet'[a].objects[k] = [frame |-> Len(frames[a]), object |-> k]
    <3> DEFINE f == Len(frames[a])
               n == Head(frames[a])
    <3>1. f \in Nat /\ n \in Nat /\ packet[a] \in Packet /\ packet'[a] = Fill(packet[a], f, n)
      BY Zenon, <2>2, <2>3, <2>4
    <3> HIDE DEF f, n
    <3>2. \A k \in 1 .. Fill(packet[a], f, n).object_count :
             Fill(packet[a], f, n).objects[k] = [frame |-> f, object |-> k]
      BY Zenon, <3>1, FillType
    <3>. QED
      BY Zenon, <3>1, <3>2 DEF f
  <2>6. \A k \in 1 .. packet'[a].object_count :
           packet'[a].objects[k] = [frame |-> Len(frames'[a]) + 1, object |-> k]
    BY Zenon, <2>3, <2>4, <2>5
  <2>7. ASSUME NEW c \in Senders, c # a
        PROVE  frames'[c] = frames[c] /\ packet'[c] = packet[c] /\ sent'[c] = sent[c]
    BY Zenon, <2>1, <2>7 DEF PacketType
  <2>8. ASSUME NEW c \in Senders, sent'[c] < Pieces
        PROVE  \A k \in 1 .. packet'[c].object_count :
                 packet'[c].objects[k] = [frame |-> Len(frames'[c]) + 1, object |-> k]
    <3>1. CASE c = a
      BY Zenon, <2>6, <3>1
    <3>2. CASE c # a
      BY <2>7, <2>8, <3>2 DEF PacketIsOfItsFrame
    <3>. QED
      BY Zenon, <3>1, <3>2
  <2>. QED
    BY Zenon, <2>8 DEF PacketIsOfItsFrame
<1>4. ASSUME NEW a \in Senders, NEW n \in 1 .. Pieces, SendPieces(a, n)
      PROVE  PacketIsOfItsFrame'
  <2>1. /\ sent[a] < Pieces /\ UNCHANGED <<packet, frames>>
        /\ sent' = [sent EXCEPT ![a] = SentAfter(sent[a], n)]
    BY Zenon, <1>4 DEF SendPieces
  <2>2. ASSUME NEW c \in Senders, sent'[c] < Pieces PROVE sent[c] < Pieces
    BY Zenon, <2>1, <2>2 DEF PacketType
  <2>. QED
    BY Zenon, <2>1, <2>2 DEF PacketIsOfItsFrame
<1>5. ASSUME NEW c \in Commands, ServerCommand(c) PROVE PacketIsOfItsFrame'
  BY Zenon, <1>1, <1>5 DEF ServerCommand
<1>6. ASSUME NEW a \in Senders, SendToClosed(a) PROVE PacketIsOfItsFrame'
  BY Zenon, <1>1, <1>6 DEF SendToClosed
<1>7. ASSUME \/ ServerReads \/ ServerCloses \/ UdsPoll \/ RecordEnds
             \/ EventGenerator \/ Recreate \/ Reconfigure
      PROVE  PacketIsOfItsFrame'
  BY Zenon, <1>1, <1>7 DEF ServerReads, ServerCloses, UdsPoll, RecordEnds,
     EventGenerator, Recreate, Reconfigure
<1>8. CASE UNCHANGED vars
  BY Zenon, <1>1, <1>8 DEF vars
<1>. QED
  BY <1>2, <1>3, <1>4, <1>5, <1>6, <1>7, <1>8 DEF Next

(* The packet under way lists objects of its own frame only, the first ones, *)
(* none twice: all_bbox_generated reuses one packet for all frames of a      *)
(* batch, and what a larger frame left in it lies beyond object_count.      *)
THEOREM PacketOfItsFrame == Spec => []PacketIsOfItsFrame
<1>1. Init => PacketIsOfItsFrame
  <2> SUFFICES ASSUME Init PROVE PacketIsOfItsFrame
    OBVIOUS
  <2>0. sent = [a \in Senders |-> Pieces]
    BY Zenon DEF Init
  <2>1. \A a \in Senders : ~(sent[a] < Pieces)
    BY <2>0, ConstantTypes
  <2>. QED
    BY Zenon, <2>1 DEF PacketIsOfItsFrame
<1>2. TypeOK /\ PacketIsOfItsFrame /\ [Next]_vars => PacketIsOfItsFrame'
  BY PacketNext
<1>. QED
  BY <1>1, <1>2, TypeCorrect, PTL DEF Spec

-----------------------------------------------------------------------------
(* An undisturbed command is either still in the socket, alone and with     *)
(* source 0 at rest, or has been read and obeyed.                          *)
CommandInv ==
  lastCommand # "" /\ ~disturbed =>
    \/ toApp = Text(lastCommand) /\ ~reconfiguring
    \/ toApp = <<>> /\ (alive => (recordOn <=> lastCommand = "START"))

(* What uds_poll makes of a command alone in the socket.                    *)
LEMMA PollReadsCommand ==
  ASSUME RecordType, UdsPoll, lastCommand \in Commands, ~reconfiguring,
         toApp = Text(lastCommand)
  PROVE  toApp' = <<>> /\ (recordOn' <=> lastCommand = "START")
<1> DEFINE n   == IF Len(toApp) < Received THEN Len(toApp) ELSE Received
           buf == SubSeq(toApp, 1, n)
<1>1. /\ toApp' = SubSeq(toApp, n + 1, Len(toApp))
      /\ IF buf = Text("START") THEN SmartRecordStart
         ELSE IF buf = Text("STOP") THEN SmartRecordStop
         ELSE recordOn' = recordOn
  BY Zenon DEF UdsPoll
<1>2. Len(toApp) = 2 /\ toApp \in Seq(Piece)
  BY TextIsPieces
<1>3. n = 2
  BY <1>2, ConstantTypes DEF Received
<1>4. buf = toApp /\ toApp' = <<>>
  BY <1>1, <1>2, <1>3
<1>5. lastCommand \in {"START", "STOP"}
  BY ConstantTypes
<1> HIDE DEF n, buf
<1>6. Text("STOP") # Text("START")
  <2>1. Text("STOP")[1] = <<"STOP", 1>> /\ Text("START")[1] = <<"START", 1>>
    BY DEF Text
  <2>. QED
    BY <2>1
<1>7. CASE lastCommand = "START"
  <2>1. recordOn' = TRUE
    BY Zenon, <1>1, <1>4, <1>7 DEF SmartRecordStart
  <2>. QED
    BY Zenon, <1>4, <1>7, <2>1
<1>8. CASE lastCommand = "STOP"
  <2>1. recordOn' = FALSE
    BY Zenon, <1>1, <1>4, <1>6, <1>8 DEF SmartRecordStop
  <2>. QED
    BY <1>4, <1>8, <2>1
<1>. QED
  BY <1>5, <1>7, <1>8

LEMMA CommandNext == TypeOK /\ CommandInv /\ [Next]_vars => CommandInv'
<1> SUFFICES ASSUME RecordType, CommandType, CommandInv, [Next]_vars
             PROVE  CommandInv'
  BY TypeParts
<1>1. ASSUME UNCHANGED <<toApp, lastCommand, disturbed, reconfiguring, recordOn>>,
             alive' => alive
      PROVE  CommandInv'
  BY Zenon, <1>1 DEF CommandInv
<1>2. ASSUME disturbed' PROVE CommandInv'
  BY Zenon, <1>2 DEF CommandInv
<1>3. ASSUME NEW c \in Commands, ServerCommand(c) PROVE CommandInv'
  <2> SUFFICES ASSUME ~disturbed' PROVE CommandInv'
    BY Zenon, <1>2
  <2>1. /\ toApp = <<>> /\ ~reconfiguring /\ ~reconfiguring'
        /\ toApp' = toApp \o Text(c) /\ lastCommand' = c
    BY Zenon, <1>3 DEF ServerCommand, CommandType
  <2>2. Text(c) \in Seq(Piece)
    BY TextIsPieces
  <2>3. toApp' = Text(lastCommand')
    BY <2>1, <2>2
  <2>. QED
    BY Zenon, <2>1, <2>3 DEF CommandInv
<1>4. CASE UdsPoll
  <2>1. /\ toApp # <<>>
        /\ UNCHANGED <<alive, lastCommand, disturbed, reconfiguring>>
    BY Zenon, <1>4 DEF UdsPoll
  <2> SUFFICES ASSUME lastCommand # "", ~disturbed
               PROVE  toApp' = <<>> /\ (recordOn' <=> lastCommand = "START")
    BY Zenon, <2>1 DEF CommandInv
  <2>2. toApp = Text(lastCommand) /\ ~reconfiguring /\ lastCommand \in Commands
    BY Zenon, <2>1 DEF CommandInv, CommandType
  <2>. QED
    BY Zenon, <1>4, <2>2, PollReadsCommand
<1>5. CASE EventGenerator
  BY Zenon, <1>2, <1>5 DEF EventGenerator
<1>6. CASE Recreate
  BY Zenon, <1>2, <1>6 DEF Recreate
<1>7. CASE Reconfigure
  BY Zenon, <1>2, <1>7 DEF Reconfigure
<1>8. ASSUME NEW a \in Senders, NEW b \in Batches, BatchArrives(a, b)
      PROVE  CommandInv'
  BY Zenon, <1>1, <1>8 DEF BatchArrives, serverVars
<1>9. ASSUME NEW a \in Senders, NEW n \in 1 .. Pieces, SendPieces(a, n)
      PROVE  CommandInv'
  BY Zenon, <1>1, <1>9 DEF SendPieces, serverVars
<1>10. ASSUME NEW a \in Senders, FillPacket(a) \/ SendToClosed(a)
       PROVE  CommandInv'
  BY Zenon, <1>1, <1>10 DEF FillPacket, SendToClosed, serverVars
<1>11. ASSUME ServerReads \/ ServerCloses PROVE CommandInv'
  BY Zenon, <1>1, <1>11 DEF ServerReads, ServerCloses, serverVars
<1>12. CASE RecordEnds
  <2>1. /\ UNCHANGED <<alive, toApp, lastCommand, reconfiguring>>
        /\ disturbed' = (disturbed \/ toApp = <<>>)
    BY Zenon, <1>12 DEF RecordEnds, serverVars
  <2> SUFFICES ASSUME lastCommand # "", ~disturbed, toApp # <<>>
               PROVE  toApp = Text(lastCommand) /\ ~reconfiguring
    BY Zenon, <2>1 DEF CommandInv
  <2>. QED
    BY Zenon DEF CommandInv
<1>13. CASE UNCHANGED vars
  BY Zenon, <1>1, <1>13 DEF vars, serverVars
<1>. QED
  BY <1>3, <1>4, <1>5, <1>6, <1>7, <1>8, <1>9, <1>10, <1>11, <1>12, <1>13 DEF Next

(* A command sent on a quiet link has been obeyed once it has been read,    *)
(* until a reconnection, a recreation, a local event or the end of the      *)
(* recording's duration, at whatever moment uds_poll looks and however      *)
(* large its buffer is.                                                     *)
THEOREM CommandObeyed == Spec => []LastCommandObeyed
<1>1. Init => CommandInv
  BY Zenon DEF Init, CommandInv
<1>2. TypeOK /\ CommandInv /\ [Next]_vars => CommandInv'
  BY CommandNext
<1>3. TypeOK /\ CommandInv => LastCommandObeyed
  <2> SUFFICES ASSUME TypeOK, CommandInv, alive, toApp = <<>>, lastCommand # "",
                      ~disturbed
               PROVE  recordOn = (lastCommand = "START")
    BY Zenon DEF LastCommandObeyed
  <2>1. lastCommand \in Commands /\ recordOn \in BOOLEAN
    BY Zenon, TypeParts DEF CommandType, RecordType
  <2>2. Text(lastCommand) # <<>>
    BY DEF Text
  <2>3. recordOn <=> lastCommand = "START"
    BY Zenon, <2>2 DEF CommandInv
  <2>. QED
    BY Zenon, <2>1, <2>3
<1>. QED
  BY <1>1, <1>2, <1>3, TypeCorrect, PTL DEF Spec
=============================================================================
