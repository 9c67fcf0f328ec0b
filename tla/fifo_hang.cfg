CONSTANTS
  SeqSize = 6
  ByteSize = 4
  NoPkt = NoPkt
  WinSize = 2
  Mrws = 2
  MaxClients = 1
  MaxTransfers = 1
  MaxChunks = 2
  Capacity = 4
  MaxLoss = 1
SPECIFICATION LiveSpec
PROPERTIES FinishEnds
CHECK_DEADLOCK FALSE
