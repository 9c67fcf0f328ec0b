---------------------------- MODULE RelDatClient ----------------------------
(***************************************************************************)
(* The client of RelDat (client/reldataSender.py): class Window, the loop  *)
(* of transfer() and the commands of clientStart().  It sends a file in    *)
(* packets, takes each upper-cased echo as the acknowledgement of the      *)
(* packet, acknowledges the echo in turn and writes the echoes, in order,  *)
(* to the received file.                                                   *)
(*                                                                         *)
(* The network is left to the modules that extend this one: an action here *)
(* takes the datagram it reads as a parameter, and SynPkt, DataPkt,        *)
(* AckPkt, FintPkt, FinPkt and Overdue say what the code sends.  Lengths   *)
(* (transferred, received, the file) count packets where the code counts   *)
(* bytes.  Time appears as what may time out.                              *)
(***************************************************************************)
EXTENDS RelDatPacket, Sequences

CONSTANTS
  Mrws,          \* the window size of the client's command line
  MaxClients,    \* bound: processes started in one behaviour
  MaxTransfers,  \* bound: transform commands in one behaviour
  MaxChunks      \* bound: packets in one file

ASSUME ClientAssumption ==
  /\ Mrws \in 1 .. ByteSize - 1
  /\ MaxClients \in Nat /\ MaxTransfers \in Nat /\ MaxChunks \in Nat

VARIABLES
  cli,            \* the process: 0 before the first one starts
  pc,             \* where it is: see ClientTypeOK
  tries,          \* SYNs sent by cliConnect
  head, end,      \* the window of echoes still to be written
  lastSequence,   \* the next sequence number to use
  sendArray,      \* per sequence number: its echo has arrived
  pktArray,       \* the packets sent, for resending
  rcvBuffer,      \* the echoes that have arrived, or NoPkt
  rcvWindowSize,  \* the free window this client announces
  serverRcvSize,  \* the free window the server announced last
  xfer,           \* the transfer (over all processes): names its file
  fileLen,        \* packets in the file
  transferred,    \* packets sent
  received,       \* packets acknowledged
  out             \* what has been written to the received file

arrayVars  == <<sendArray, pktArray, rcvBuffer>>
fileVars   == <<xfer, fileLen, transferred, received, out>>
windowVars == <<head, end, lastSequence>>
sizeVars   == <<rcvWindowSize, serverRcvSize>>
clientVars == <<cli, pc, tries, windowVars, arrayVars, sizeVars, fileVars>>

\* The process has not started or has ended: by itself or killed, by an
\* exception, after "successfully end connection".
Ended == {"down", "crashed", "closed"}

Empty == [n \in Seqs |-> NoPkt]
Unset == [n \in Seqs |-> FALSE]

ClientTypeOK ==
  /\ cli \in 0 .. MaxClients
  /\ pc \in Ended \cup {"synwait", "command", "send", "recv", "finwait",
                       "diswait"}
  /\ tries \in 0 .. 3
  /\ head \in Seqs /\ end \in Seqs /\ lastSequence \in Seqs
  /\ sendArray \in [Seqs -> BOOLEAN]
  /\ pktArray \in [Seqs -> Packet \cup {NoPkt}]
  /\ rcvBuffer \in [Seqs -> Payload \cup {NoPkt}]
  /\ rcvWindowSize \in Int /\ serverRcvSize \in Bytes
  /\ xfer \in 0 .. MaxTransfers
  /\ fileLen \in 0 .. MaxChunks
  /\ transferred \in 0 .. MaxChunks /\ received \in Nat
  /\ out \in Seq(Payload)

ClientInit ==
  /\ cli = 0 /\ pc = "down" /\ tries = 0
  /\ head = 0 /\ end = 0 /\ lastSequence = 0
  /\ sendArray = Unset /\ pktArray = Empty /\ rcvBuffer = Empty
  /\ rcvWindowSize = Mrws /\ serverRcvSize = 0
  /\ xfer = 0 /\ fileLen = 0 /\ transferred = 0 /\ received = 0
  /\ out = <<>>

-----------------------------------------------------------------------------
(* What the client sends. *)

SynPkt  == Datagram(cli, 0, 0, {"SYN"}, Mrws, Greeting)
FinPkt  == Datagram(cli, 0, 0, {"FIN"}, rcvWindowSize, Greeting)
FintPkt == Datagram(cli, lastSequence - 1, lastSequence - 1,
                    {"ACK", "SYN", "FIN"}, Mrws, Greeting)
\* The first FINT of a transfer: pack() refuses a number below zero.
FintPkts == IF lastSequence = 0 THEN {} ELSE {FintPkt}

DataPkt == Datagram(cli, lastSequence, 0, {}, rcvWindowSize,
                    Chunk(xfer, transferred + 1))

\* pack() takes the window for a byte.
Fits == rcvWindowSize \in Bytes

\* The acknowledgement of an echo; pack() refuses a window that is no byte,
\* which rcvMsg swallows.
AckPkts(n) ==
  IF Fits
  THEN {Datagram(cli, 0, n, {"ACK"}, rcvWindowSize, Greeting)}
  ELSE {}

\* Slip: the oldest packet is left out.
OverdueButHead ==
  {n \in head + 1 .. lastSequence - 1 : ~sendArray[n] /\ pktArray[n] # NoPkt}

\* checkTimeout: the packets it sends again once they are two seconds old.
Overdue ==
  {n \in IF head < lastSequence
         THEN head .. lastSequence - 1
         ELSE (head .. SeqSize - 1) \cup (0 .. lastSequence) :
     ~sendArray[n] /\ pktArray[n] # NoPkt}

-----------------------------------------------------------------------------
(* connect *)

\* A process starts: a new Window, and the first SYN of cliConnect.
ClientStart ==
  /\ pc \in Ended /\ cli < MaxClients
  /\ cli' = cli + 1 /\ pc' = "synwait" /\ tries' = 1
  /\ head' = 0 /\ end' = 0 /\ lastSequence' = 0
  /\ sendArray' = Unset /\ pktArray' = Empty /\ rcvBuffer' = Empty
  /\ rcvWindowSize' = Mrws /\ serverRcvSize' = 0
  /\ UNCHANGED fileVars

IsConnectReply(m) == m.ack = 0 /\ {"ACK", "SYN"} \subseteq m.flags

ConnectReply(m) ==
  /\ pc = "synwait" /\ IsConnectReply(m)
  /\ pc' = "command"
  /\ serverRcvSize' = m.rcvw /\ end' = m.rcvw
  /\ UNCHANGED <<cli, tries, head, lastSequence, arrayVars, rcvWindowSize,
                 fileVars>>

\* Slip: one retry too many.
ConnectRetryMore ==
  /\ pc = "synwait" /\ tries <= 3
  /\ tries' = tries + 1
  /\ UNCHANGED <<cli, pc, windowVars, arrayVars, sizeVars, fileVars>>

\* No answer within two seconds, or another datagram: the next of three SYNs.
ConnectRetry ==
  /\ pc = "synwait" /\ tries < 3
  /\ tries' = tries + 1
  /\ UNCHANGED <<cli, pc, windowVars, arrayVars, sizeVars, fileVars>>

ConnectFail ==
  /\ pc = "synwait" /\ tries = 3
  /\ pc' = "down"
  /\ UNCHANGED <<cli, tries, windowVars, arrayVars, sizeVars, fileVars>>

-----------------------------------------------------------------------------
(* transfer *)

\* Slip: the received file is opened for appending.
TransformAppending(L) ==
  /\ pc = "command" /\ xfer < MaxTransfers
  /\ pc' = "send" /\ xfer' = xfer + 1 /\ fileLen' = L
  /\ transferred' = 0 /\ received' = 0
  /\ UNCHANGED <<cli, tries, windowVars, arrayVars, sizeVars, out>>

\* The command "transform": open the file, of L packets, and the received
\* file.  The windows stay as the last transfer left them.
Transform(L) ==
  /\ pc = "command" /\ xfer < MaxTransfers
  /\ pc' = "send" /\ xfer' = xfer + 1 /\ fileLen' = L
  /\ transferred' = 0 /\ received' = 0 /\ out' = <<>>
  /\ UNCHANGED <<cli, tries, windowVars, arrayVars, sizeVars>>

HasData == transferred < fileLen
\* Slip: room is counted modulo the sequence size.
WindowFreeModular == lastSequence # end
WindowFree == lastSequence < end
MaySend == HasData /\ WindowFree /\ serverRcvSize > 0

\* list.insert: what is at n and above moves up one place.
Insert(f, n, x) ==
  [i \in Seqs |-> IF i < n THEN f[i] ELSE IF i = n THEN x ELSE f[i - 1]]

\* sendPkt.  With a window that is no byte pack() raises, nothing catches it
\* and the process ends.
SendPkt ==
  /\ pc = "send" /\ MaySend
  /\ IF Fits
     THEN /\ pc' = "recv"
          /\ pktArray' = Insert(pktArray, lastSequence, DataPkt)
          /\ lastSequence' = (lastSequence + 1) % SeqSize
          /\ transferred' = transferred + 1
     ELSE /\ pc' = "crashed"
          /\ UNCHANGED <<pktArray, lastSequence, transferred>>
  /\ UNCHANGED <<cli, tries, head, end, sendArray, rcvBuffer, sizeVars, xfer,
                 fileLen, received, out>>

\* Slip: finished with one packet still to come.
FinishTransferEarly ==
  /\ pc = "send" /\ ~MaySend /\ transferred <= received + 1
  /\ pc' = IF lastSequence = 0 THEN "crashed" ELSE "finwait"
  /\ sendArray' = Unset /\ pktArray' = Empty /\ rcvBuffer' = Empty
  /\ rcvWindowSize' = Mrws
  /\ UNCHANGED <<cli, tries, windowVars, serverRcvSize, fileVars>>

\* finishTransfer up to its loop.  With lastSequence 0 pack() is given -1
\* and nothing catches the exception.
FinishTransfer ==
  /\ pc = "send" /\ ~MaySend /\ transferred <= received
  /\ pc' = IF lastSequence = 0 THEN "crashed" ELSE "finwait"
  /\ sendArray' = Unset /\ pktArray' = Empty /\ rcvBuffer' = Empty
  /\ rcvWindowSize' = Mrws
  /\ UNCHANGED <<cli, tries, windowVars, serverRcvSize, fileVars>>

SkipSend ==
  /\ pc = "send" /\ ~MaySend /\ received < transferred
  /\ pc' = "recv"
  /\ UNCHANGED <<cli, tries, windowVars, arrayVars, sizeVars, fileVars>>

\* rcvMsg takes m for an echo, and for the echo of a packet it has sent.
IsEcho(m) == m.flags = {"ACK"} /\ ChecksumOk(m)
Answers(m) == IsEcho(m) /\ pktArray[m.ack] # NoPkt

\* rcvMsg on anything else: at most the server's window is noted.
RcvStray(m) ==
  /\ pc = "recv" /\ ~Answers(m)
  /\ pc' = "send"
  /\ serverRcvSize' = IF IsEcho(m) THEN m.rcvw ELSE serverRcvSize
  /\ UNCHANGED <<cli, tries, windowVars, arrayVars, rcvWindowSize, fileVars>>

\* rcvMsg on an echo that was there already: it is only acknowledged.
RcvDuplicate(m) ==
  /\ pc = "recv" /\ Answers(m) /\ sendArray[pktArray[m.ack].seq]
  /\ pc' = "send"
  /\ serverRcvSize' = m.rcvw
  /\ UNCHANGED <<cli, tries, windowVars, arrayVars, rcvWindowSize, fileVars>>

\* Slip: the mark at the new head is cleared, not the one at the new end.
ClearedAtHead(k) == {(head + j) % SeqSize : j \in 1 .. k}

\* moveToNext, with the marks "arrived", runs its loop exactly k times.  Each
\* turn clears the mark at the end the window then has.
Cleared(k) == {(end + j) % SeqSize : j \in 1 .. k}
Moves(arrived, k) ==
  LET Ready(j) == LET n == (head + j) % SeqSize
                  IN  arrived[n] /\ n \notin Cleared(j)
  IN  (\A j \in 0 .. k - 1 : Ready(j)) /\ ~Ready(k)

\* rcvMsg on a new echo: note it, write what is in order, acknowledge it.
RcvNew(m, k) ==
  LET n       == pktArray[m.ack].seq
      arrived == [sendArray EXCEPT ![n] = TRUE]
  IN  /\ pc = "recv" /\ Answers(m) /\ ~sendArray[n] /\ Moves(arrived, k)
      /\ pc' = "send"
      /\ sendArray' = [i \in Seqs |-> arrived[i] /\ i \notin Cleared(k)]
      /\ rcvBuffer' = [rcvBuffer EXCEPT ![n] = m.data]
      /\ head' = (head + k) % SeqSize
      /\ end' = (end + k) % SeqSize
      /\ rcvWindowSize' = rcvWindowSize - 1 + k
      /\ out' = out \o [j \in 1 .. k |-> rcvBuffer'[(head + j - 1) % SeqSize]]
      /\ received' = received + 1
      /\ serverRcvSize' = m.rcvw
      /\ UNCHANGED <<cli, tries, lastSequence, pktArray, xfer, fileLen,
                     transferred>>

\* Nothing to read within ten milliseconds.
RecvTimeout ==
  /\ pc = "recv"
  /\ pc' = "send"
  /\ UNCHANGED <<cli, tries, windowVars, arrayVars, sizeVars, fileVars>>

\* Nothing read for 15 seconds: "Server crashed", and the process exits.
GiveUp ==
  /\ pc = "recv"
  /\ pc' = "down"
  /\ UNCHANGED <<cli, tries, windowVars, arrayVars, sizeVars, fileVars>>

-----------------------------------------------------------------------------
(* finishTransfer's loop, and disconnect *)

IsFinishReply(m) == m.flags = {"ACK", "SYN", "FIN"}

FinishReply(m) ==
  /\ pc = "finwait" /\ IsFinishReply(m)
  /\ pc' = "command"
  /\ UNCHANGED <<cli, tries, windowVars, arrayVars, sizeVars, fileVars>>

\* Two seconds without an answer, or another datagram: FINT goes out again.
FinishRetry ==
  /\ pc = "finwait"
  /\ UNCHANGED clientVars

\* The command "disconnect".
Disconnect ==
  /\ pc = "command"
  /\ pc' = "diswait"
  /\ UNCHANGED <<cli, tries, windowVars, arrayVars, sizeVars, fileVars>>

IsDisconnectReply(m) == m.ack = 0 /\ {"ACK", "FIN"} \subseteq m.flags

\* "successfully end connection", and the process exits.
DisconnectReply(m) ==
  /\ pc = "diswait" /\ IsDisconnectReply(m)
  /\ pc' = "closed"
  /\ UNCHANGED <<cli, tries, windowVars, arrayVars, sizeVars, fileVars>>

DisconnectRetry ==
  /\ pc = "diswait"
  /\ UNCHANGED clientVars

\* The process is killed, or exits on a file name it does not like.
Die ==
  /\ pc \notin Ended
  /\ pc' = "down"
  /\ UNCHANGED <<cli, tries, windowVars, arrayVars, sizeVars, fileVars>>
=============================================================================
