------------------------------- MODULE RelDat -------------------------------
(***************************************************************************)
(* RelDat over UDP: the client and the server, and a network that may      *)
(* lose, duplicate, delay and reorder datagrams and damage their data.     *)
(*                                                                         *)
(* toServer and toClient hold every datagram ever sent.  One that is lost  *)
(* is never received; one received stays, to come again or late.           *)
(***************************************************************************)
EXTENDS RelDatClient, RelDatServer, FiniteSets

CONSTANT MaxDrift  \* bound: how far below zero the unacked counter may go

ASSUME RelDatAssumption == MaxDrift \in Nat

VARIABLES
  toServer,  \* datagrams sent by clients
  toClient   \* datagrams sent by the server

vars == <<clientVars, serverVars, toServer, toClient>>

TypeOK ==
  /\ ClientTypeOK
  /\ ServerTypeOK
  /\ toServer \subseteq Packet
  /\ toClient \subseteq Packet

Init ==
  /\ ClientInit /\ ServerInit
  /\ toServer = {} /\ toClient = {}

\* What may come out of a channel that holds the datagrams ms, whole or
\* damaged; UDP delivers to the address a datagram is for.
Deliverable(ms)  == ms \cup {Damage(m) : m \in ms}
ClientInbox      == Deliverable({m \in toClient : m.cli = cli})
ServerInbox      == Deliverable(toServer)

SendToServer(ms) == toServer' = toServer \cup ms
SendToClient(ms) == toClient' = toClient \cup ms

-----------------------------------------------------------------------------
(* The client. *)

\* checkTimeout, at the end of each turn of transfer()'s loop.
ResendOverdue == {pktArray[n] : n \in Overdue}

Connecting ==
  \/ ClientStart /\ SendToServer({SynPkt'})
  \/ ConnectRetry /\ SendToServer({SynPkt})
  \/ ConnectFail /\ SendToServer({})
  \/ \E m \in ClientInbox : ConnectReply(m) /\ SendToServer({})

Sending ==
  \/ \E L \in 0 .. MaxChunks : Transform(L) /\ SendToServer({})
  \/ SendPkt /\ SendToServer(IF Fits THEN {DataPkt} ELSE {})
  \/ SkipSend /\ SendToServer({})

Receiving ==
  \/ \E m \in ClientInbox :
       \/ RcvStray(m) /\ SendToServer(ResendOverdue')
       \/ RcvDuplicate(m) /\ SendToServer(AckPkts(m.ack) \cup ResendOverdue')
       \/ \E k \in 0 .. SeqSize :
            RcvNew(m, k) /\ SendToServer(AckPkts(m.ack)' \cup ResendOverdue')
  \/ RecvTimeout /\ SendToServer(ResendOverdue)
  \/ GiveUp /\ SendToServer({})

Finishing ==
  \/ FinishTransfer /\ SendToServer(FintPkts)
  \/ FinishRetry /\ SendToServer({FintPkt})
  \/ \E m \in ClientInbox : FinishReply(m) /\ SendToServer({})

Closing ==
  \/ Disconnect /\ SendToServer({FinPkt})
  \/ DisconnectRetry /\ SendToServer({FinPkt})
  \/ \E m \in ClientInbox : DisconnectReply(m) /\ SendToServer({})
  \/ Die /\ SendToServer({})

ClientNext ==
  /\ Connecting \/ Sending \/ Receiving \/ Finishing \/ Closing
  /\ UNCHANGED <<serverVars, toClient>>

-----------------------------------------------------------------------------
(* The server. *)

Handle(m) ==
  \/ ConnRequest(m)
  \/ TransferData(m)
  \/ AckRecvd(m)
  \/ FinishOneTransfer(m)
  \/ ServerDisconnect(m)
  \/ Ignore(m)

ServerTurn(m) ==
  /\ Handle(m)
  /\ win'.unacked >= -MaxDrift
  /\ SendToClient(Reply(m) \cup (IF ChecksTimeout(m) THEN Resent(win') ELSE {}))

ServerTimeout(gap) ==
  /\ SocketTimeout(gap)
  /\ SendToClient(IF connected' THEN Resent(win) ELSE {})

ServerNext ==
  /\ \/ \E m \in ServerInbox : ServerTurn(m)
     \/ \E gap \in Silence : ServerTimeout(gap)
     \/ ServerRestart /\ SendToClient({})
  /\ UNCHANGED <<clientVars, toServer>>

Next == ClientNext \/ ServerNext

Spec == Init /\ [][Next]_vars

-----------------------------------------------------------------------------

(* What the composition guarantees.  NoWrap holds of the constants when no *)
(* behaviour comes near the last sequence number and no free window, even  *)
(* one counted too large, overflows its byte: what the code relies on and  *)
(* does not check.                                                         *)

NoWrap ==
  /\ MaxTransfers * MaxChunks + WinSize + MaxDrift < SeqSize
  /\ WinSize + MaxDrift < ByteSize

\* The received file is a prefix of the upper-cased file of the current
\* transfer, whatever the network did: transfer() and moveToNext never write
\* a packet of another transfer, out of order, twice or damaged.
OutIsPrefix ==
  /\ Len(out) <= fileLen
  /\ \A j \in 1 .. Len(out) : out[j] = ToUpperCase(Chunk(xfer, j))

\* "file ... is downloaded" is true when finishTransfer prints it: all of the
\* file has been sent, echoed and written.
Downloaded == pc = "finwait" => Len(out) = fileLen

\* One connection never uses a sequence number twice, in all its transfers:
\* windowFree is what keeps lastSequence from wrapping.
SequenceNeverReused ==
  [][cli' = cli => lastSequence' \in {lastSequence, lastSequence + 1}]_vars

\* The server's window starts inside its arrays, even though
\* prepareNextTransfer does not reduce it modulo their length.
StartInBounds == win.start < SeqSize

\* What the server holds for resending it has sent before: a retransmission
\* tells a client nothing new, of whatever age it is.
ResendsAreOld == \A n \in Seqs : win.pkt[n] # NoPkt => win.pkt[n] \in toClient

\* The server gives up its copy of an echo, by moving its window over it,
\* only when the client has written that echo (one client, NoWrap).
ServerNeverAhead == win.start <= head

\* The window the client announces is the one of its command line less the
\* echoes it holds back because an earlier one is missing.
AnnouncesFreeBuffer ==
  pc \in {"send", "recv"} =>
    rcvWindowSize = Mrws - Cardinality({n \in head .. SeqSize - 1 : sendArray[n]})

\* Every answer of the server announces room, because it is worked out before
\* the packet is counted and a full window answers nothing: sendPkt's test of
\* the server's window never holds a packet back (NoWrap).
AnnouncesRoom == \A m \in toClient : m.rcvw > 0

\* RelDat implements FileEcho (NoWrap).
Echoes == INSTANCE FileEcho WITH
  phase <- CASE pc \in {"send", "recv"} -> "copying"
             [] pc = "finwait"          -> "done"
             [] OTHER                   -> "idle"

ImplementsFileEcho == Echoes!Spec
=============================================================================
