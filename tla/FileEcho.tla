------------------------------ MODULE FileEcho ------------------------------
(***************************************************************************)
(* What RelDat promises the user of the client: transform copies a file,   *)
(* upper-cased, packet by packet and in order, into the received file, and *)
(* says that the file is downloaded only when all of it is.  The process   *)
(* may end at any time; what it wrote stays.                               *)
(***************************************************************************)
EXTENDS RelDatPacket, Sequences

CONSTANTS MaxTransfers, MaxChunks

VARIABLES
  phase,    \* "idle", "copying" or "done" (downloaded, not yet released)
  xfer,     \* the transfer
  fileLen,  \* packets in its file
  out       \* the received file

vars == <<phase, xfer, fileLen, out>>

Init == phase = "idle" /\ xfer = 0 /\ fileLen = 0 /\ out = <<>>

Begin(L) ==
  /\ phase = "idle" /\ xfer < MaxTransfers
  /\ phase' = "copying" /\ xfer' = xfer + 1 /\ fileLen' = L /\ out' = <<>>

\* The next k packets of the file.
Copy(k) ==
  /\ phase = "copying" /\ Len(out) + k <= fileLen
  /\ out' = out \o [j \in 1 .. k |-> ToUpperCase(Chunk(xfer, Len(out) + j))]
  /\ UNCHANGED <<phase, xfer, fileLen>>

Complete ==
  /\ phase = "copying" /\ Len(out) = fileLen
  /\ phase' = "done"
  /\ UNCHANGED <<xfer, fileLen, out>>

Release == phase' = "idle" /\ UNCHANGED <<xfer, fileLen, out>>

Next ==
  \/ \E L \in 0 .. MaxChunks : Begin(L)
  \/ \E k \in 1 .. MaxChunks : Copy(k)
  \/ Complete
  \/ Release

Spec == Init /\ [][Next]_vars
=============================================================================
