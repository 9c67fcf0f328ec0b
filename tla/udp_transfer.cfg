CONSTANTS
  SeqSize = 5
  ByteSize = 4
  NoPkt = NoPkt
  WinSize = 2
  Mrws = 2
  MaxClients = 1
  MaxTransfers = 1
  MaxChunks = 2
  MaxDrift = 0
SPECIFICATION Spec
INVARIANTS OutIsPrefix ServerNeverAhead AnnouncesFreeBuffer AnnouncesRoom
