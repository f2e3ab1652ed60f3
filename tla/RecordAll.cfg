\* Two senders on one socket beside a recording at rest; commands, local events, reconnections,
\* recreations and the duration of a recording beside one sender.
SPECIFICATION Spec
CONSTANTS
  Senders = {0, 1}
  Recreated = {0}
  Commands = {"START", "STOP"}
  Generated = TRUE
  Batches <- SomeBatches
  MAX_OBJECTS = 2
  RecvSize = 5
  Pieces = 3
  SocketRoom = 6
INVARIANTS StreamIsWholePackets PacketIsOfItsFrame LastCommandObeyed
CONSTRAINT RecordingOrSenders
CHECK_DEADLOCK FALSE
