---------------------------- MODULE RelDatPacket ----------------------------
(***************************************************************************)
(* The datagrams of the RelDat protocol, as both ends build and read them: *)
(* the 12-byte header "!HHHH???B" followed by the data (class Packet in    *)
(* client/reldataSender.py, PacketProcessor in server/PacketProcessor.java *)
(* and createReplyPacket in server/reldataServer.java).                    *)
(*                                                                         *)
(* Data is abstracted to what the protocol can tell apart: which chunk of  *)
(* which transfer it is and whether the server has upper-cased it.  A      *)
(* datagram also carries the client process it comes from or goes to (the  *)
(* UDP address), numbered 1, 2, ... in the order the processes start.      *)
(***************************************************************************)
EXTENDS Integers

CONSTANTS
  SeqSize,   \* sequence numbers are 0 .. SeqSize-1 (2^16 in the code)
  ByteSize,  \* values of the one-byte window field (2^8 in the code)
  NoPkt      \* an empty slot of a packet array (False / null)

Seqs  == 0 .. SeqSize - 1
Bytes == 0 .. ByteSize - 1

Payload == [xfer : Nat, chunk : Nat, upper : BOOLEAN]

Packet == [cli : Nat, seq : Seqs, ack : Seqs,
           flags : SUBSET {"ACK", "SYN", "FIN"}, rcvw : Bytes, data : Payload]

ASSUME PacketAssumption ==
  /\ SeqSize \in Nat /\ SeqSize > 1
  /\ ByteSize \in Nat /\ ByteSize > 1 /\ ByteSize <= SeqSize
  /\ NoPkt \notin Packet \cup Payload

\* Chunk i of the file of transfer x, as the client read it from disk.
Chunk(x, i) == [xfer |-> x, chunk |-> i, upper |-> FALSE]

\* String.toUpperCase on the server.
ToUpperCase(d) == [d EXCEPT !.upper = TRUE]

\* The fixed text of a control packet ("Hello", "Bye", "ack", ...).
Greeting == [xfer |-> 0, chunk |-> 0, upper |-> FALSE]

\* Data damaged on the way: whatever it says, it is no chunk of any file.
Garbled == [xfer |-> 0, chunk |-> 1, upper |-> FALSE]

Damage(m) == [m EXCEPT !.data = Garbled]

\* Slip: the checksum is not looked at.
ChecksumIgnored(m) == TRUE

\* makechecksum covers the data and not the header; the additive sum is
\* taken to notice every damage.
ChecksumOk(m) == m.data # Garbled

\* A packet as pack() lays it out.
Datagram(c, seq, ack, flags, rcvw, data) ==
  [cli |-> c, seq |-> seq, ack |-> ack, flags |-> flags, rcvw |-> rcvw,
   data |-> data]

\* intToByte(num, 1): the low byte of the two's complement representation.
WindowByte(num) == num % ByteSize

\* findState: what the server takes a packet for, from its three flags.  The
\* client never sends an empty payload, so the length test is always true.
FindState(m) ==
  CASE m.flags = {"SYN"}               -> "ConnRequest"
    [] m.flags = {"ACK"}               -> "AckRecvd"
    [] m.flags = {"FIN"}               -> "Disconnect"
    [] m.flags = {}                    -> "TransferData"
    [] m.flags = {"ACK", "SYN", "FIN"} -> "FinishOneTransfer"
    [] OTHER                           -> "wtf"
=============================================================================
