----------------------------- MODULE CrpPacket -----------------------------
(***************************************************************************)
(* Datagrams of CRP (CRPHeader.py) and the segments a file is cut into     *)
(* (split_into_segments).  A file is a record: the command it belongs to   *)
(* and the length of its stream, that is, of length prefix, status and     *)
(* content together.  Data is which segment of which file it is.           *)
(***************************************************************************)
EXTENDS Integers

CONSTANTS
  MaxData,      \* MAX_DATA_SIZE, the bytes of a segment
  Lengths,      \* lengths of the streams sent
  MaxCommands,  \* bound: get and post commands the user gives
  ClientWindow, ServerWindow  \* the windows the two users have set

End == {"client", "server"}
Peer(e) == IF e = "client" THEN "server" ELSE "client"

ASSUME CrpAssumption ==
  /\ MaxData \in Nat \ {0}
  /\ Lengths \subseteq Nat \ {0}
  /\ MaxCommands \in Nat
  /\ ClientWindow \in Nat \ {0} /\ ServerWindow \in Nat \ {0}

File == [id : 0 .. MaxCommands, len : Lengths]

\* split_into_segments: how many segments, and the size of segment k.
Packets(f) == (f.len + MaxData - 1) \div MaxData

Size(f, k) == IF (k + 1) * MaxData <= f.len THEN MaxData ELSE f.len - k * MaxData

-----------------------------------------------------------------------------

Job == [kind : {"get", "post"}, file : File]

Message ==
  [type : {"request"}, to : End, seq : Nat, ack : Nat, window : Nat, job : Job]
    \cup [type : {"ack"}, to : End, seq : Nat, ack : Nat, window : Nat]
    \cup [type : {"data"}, to : End, seq : Nat, ack : Nat, file : File, k : Nat]

Request(job, s, a) ==
  [type |-> "request", to |-> "server", seq |-> s, ack |-> a,
   window |-> ClientWindow, job |-> job]

Ack(e, s, a) ==
  [type |-> "ack", to |-> Peer(e), seq |-> s, ack |-> a,
   window |-> IF e = "client" THEN ClientWindow ELSE ServerWindow]

Data(e, f, k, s, a) ==
  [type |-> "data", to |-> Peer(e), seq |-> s, ack |-> a, file |-> f, k |-> k]

\* What the receiver may read as the length of the stream in a packet taken
\* for the first: the length, or, past packet 0, four bytes of content.
Announced(m) == IF m.k = 0 THEN {m.file.len} ELSE Lengths
=============================================================================
