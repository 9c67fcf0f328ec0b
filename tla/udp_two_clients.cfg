CONSTANTS
  SeqSize = 6
  ByteSize = 4
  NoPkt = NoPkt
  WinSize = 1
  Mrws = 1
  MaxClients = 2
  MaxTransfers = 2
  MaxChunks = 2
  MaxDrift = 0
SPECIFICATION Spec
INVARIANTS OutIsPrefix Downloaded ResendsAreOld
PROPERTIES ImplementsFileEcho
