CONSTANTS
  SeqSize = 6
  ByteSize = 4
  NoPkt = NoPkt
  WinSize = 2
  Mrws = 2
  MaxClients = 1
  MaxTransfers = 1
  MaxChunks = 3
  Capacity = 4
  MaxLoss = 1
SPECIFICATION LiveSpec
INVARIANTS TypeOK UnackedCounts WindowRespected StartIsUnacked
PROPERTIES TransferEnds DisconnectEnds
CHECK_DEADLOCK FALSE
