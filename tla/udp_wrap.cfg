CONSTANTS
  SeqSize = 3
  ByteSize = 3
  NoPkt = NoPkt
  WinSize = 2
  Mrws = 2
  MaxClients = 1
  MaxTransfers = 1
  MaxChunks = 3
  MaxDrift = 0
SPECIFICATION Spec
INVARIANTS TypeOK OutIsPrefix StartInBounds
PROPERTIES SequenceNeverReused
