CONSTANTS
  SeqSize = 4
  ByteSize = 4
  NoPkt = NoPkt
  WinSize = 1
  Mrws = 1
  MaxClients = 1
  MaxTransfers = 1
  MaxChunks = 1
  Capacity = 4
  MaxLoss = 2
SPECIFICATION Spec
INVARIANTS ClosedMeansReleased
CHECK_DEADLOCK FALSE
