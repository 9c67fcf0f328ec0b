----------------------------- MODULE RelDatFifo -----------------------------
(***************************************************************************)
(* One connection of RelDat over a network that keeps the order of         *)
(* datagrams and loses a few: a single path without duplication.  Here     *)
(* flow control, retransmission and progress can be judged; RelDat has the *)
(* network at its worst, and the processes that die.                       *)
(*                                                                         *)
(* The user types the next command within 40 seconds.  A sender            *)
(* retransmits only when none of its datagrams is on the way.              *)
(***************************************************************************)
EXTENDS RelDatClient, RelDatServer, SequencesExt

CONSTANTS
  Capacity,  \* bound: datagrams on the way in one direction
  MaxLoss    \* bound: datagrams lost in one behaviour

ASSUME FifoAssumption == Capacity \in Nat /\ MaxLoss \in Nat

VARIABLES
  toServer, toClient,  \* datagrams on the way, oldest first
  lost                 \* how many have been lost

vars == <<clientVars, serverVars, toServer, toClient, lost>>

TypeOK ==
  /\ ClientTypeOK
  /\ ServerTypeOK
  /\ toServer \in Seq(Packet) /\ Len(toServer) <= Capacity
  /\ toClient \in Seq(Packet) /\ Len(toClient) <= Capacity
  /\ lost \in 0 .. MaxLoss

Init ==
  /\ ClientInit /\ ServerInit
  /\ toServer = <<>> /\ toClient = <<>> /\ lost = 0

\* The order in which a scan of the ring from slot n visits two slots.
VisitedBefore(s, t, n) == IF s >= n <=> t >= n THEN s < t ELSE s >= n

\* The packets of f at the slots S, in the order a scan from slot n visits.
Scan(f, S, n) ==
  LET Place(s) == Cardinality({t \in S : t = s \/ VisitedBefore(t, s, n)})
  IN  [i \in 1 .. Cardinality(S) |-> f[CHOOSE s \in S : Place(s) = i]]

-----------------------------------------------------------------------------
(* The client. *)

ToServer(q) ==
  /\ Len(q) <= Capacity
  /\ toServer' = q

AwaitsNothing == UNCHANGED toClient

\* The end of a turn of transfer()'s loop: s, and what checkTimeout resends.
EndTurn(s) ==
  LET overdue == Scan(pktArray', Overdue', head')
  IN  \/ ToServer(toServer \o s)
      \/ toServer = <<>> /\ overdue # <<>> /\ ToServer(s \o overdue)

Connecting ==
  \/ ClientStart /\ AwaitsNothing /\ ToServer(<<SynPkt'>>)
  \/ toServer = <<>> /\ ConnectRetry /\ AwaitsNothing /\ ToServer(<<SynPkt>>)
  \/ toServer = <<>> /\ ConnectFail /\ AwaitsNothing /\ ToServer(<<>>)

ConnectReading(m) ==
  \/ ConnectReply(m) /\ ToServer(toServer)
  \/ ~IsConnectReply(m) /\ ConnectRetry /\ ToServer(Append(toServer, SynPkt))

Sending ==
  /\ \/ SendPkt /\ ToServer(IF Fits THEN Append(toServer, DataPkt) ELSE toServer)
     \/ SkipSend /\ ToServer(toServer)
     \/ FinishTransfer /\ ToServer(toServer \o SetToSeq(FintPkts))
  /\ AwaitsNothing

Receiving(m) ==
  \/ RcvStray(m) /\ EndTurn(<<>>)
  \/ RcvDuplicate(m) /\ EndTurn(SetToSeq(AckPkts(m.ack)))
  \/ \E k \in 0 .. SeqSize : RcvNew(m, k) /\ EndTurn(SetToSeq(AckPkts(m.ack)'))

\* The socket is empty.
NothingRead == RecvTimeout /\ EndTurn(<<>>) /\ AwaitsNothing

FinishReading(m) ==
  \/ FinishReply(m) /\ ToServer(toServer)
  \/ ~IsFinishReply(m) /\ FinishRetry /\ ToServer(Append(toServer, FintPkt))

CloseReading(m) ==
  \/ DisconnectReply(m) /\ ToServer(toServer)
  \/ ~IsDisconnectReply(m) /\ DisconnectRetry /\ ToServer(Append(toServer, FinPkt))

\* Two seconds without an answer to FINT or FIN.
Retrying ==
  /\ toServer = <<>>
  /\ \/ FinishRetry /\ ToServer(<<FintPkt>>)
     \/ DisconnectRetry /\ ToServer(<<FinPkt>>)
  /\ AwaitsNothing

Commands ==
  /\ \/ \E L \in 0 .. MaxChunks : Transform(L) /\ ToServer(toServer)
     \/ Disconnect /\ ToServer(Append(toServer, FinPkt))
  /\ AwaitsNothing

Reading ==
  /\ toClient # <<>> /\ toClient' = Tail(toClient)
  /\ \E m \in {Head(toClient)} :
       \/ ConnectReading(m) \/ Receiving(m)
       \/ FinishReading(m)  \/ CloseReading(m)

Idle == UNCHANGED <<serverVars, lost>>

-----------------------------------------------------------------------------
(* The server. *)

ToClient(q) ==
  /\ Len(q) <= Capacity
  /\ toClient' = q

\* The end of a turn with checktimeout: s, and what it resends.
EndServerTurn(s) ==
  LET due == Scan(win'.pkt, Resendable(win'), win'.start)
  IN  \/ ToClient(toClient \o s)
      \/ toClient = <<>> /\ due # <<>> /\ ToClient(s \o due)

Handle(m) ==
  \/ ConnRequest(m) \/ TransferData(m) \/ AckRecvd(m)
  \/ FinishOneTransfer(m) \/ ServerDisconnect(m) \/ Ignore(m)

ServerRead ==
  /\ toServer # <<>>
  /\ toServer' = Tail(toServer)
  /\ LET m == Head(toServer) IN
       /\ Handle(m)
       /\ IF ChecksTimeout(m) THEN EndServerTurn(SetToSeq(Reply(m)))
          ELSE ToClient(toClient \o SetToSeq(Reply(m)))
  /\ UNCHANGED <<clientVars, lost>>

\* The socket timeout, on which a connected server resends what is due.
ServerResend ==
  /\ connected /\ Resendable(win) # {} /\ toClient = <<>>
  /\ SocketTimeout("short")
  /\ EndServerTurn(<<>>)
  /\ UNCHANGED <<clientVars, toServer, lost>>

\* For 15 seconds nothing has come that the server would take: it is full,
\* and the client has no echo left to acknowledge or will not do so.
ServerGivesUp ==
  /\ IsFull(win) /\ toClient = <<>>
  /\ \A i \in DOMAIN toServer : ~Accepts(toServer[i])
  /\ pc = "finwait" \/ Resendable(win) = {}
  /\ SocketTimeout("long")
  /\ UNCHANGED <<clientVars, toServer, toClient, lost>>

-----------------------------------------------------------------------------

Lose ==
  /\ lost < MaxLoss /\ lost' = lost + 1
  /\ \/ \E i \in DOMAIN toServer : toServer' = RemoveAt(toServer, i) /\ UNCHANGED toClient
     \/ \E i \in DOMAIN toClient : toClient' = RemoveAt(toClient, i) /\ UNCHANGED toServer
  /\ UNCHANGED <<clientVars, serverVars>>

ClientNext == (Connecting \/ Commands \/ Sending \/ Reading \/ NothingRead \/ Retrying) /\ Idle

Next == ClientNext \/ ServerRead \/ ServerResend \/ ServerGivesUp \/ Lose

\* A turn that resends: what is overdue is resent in the end.
ResendTurn == NothingRead /\ toServer = <<>> /\ toServer' # <<>> /\ Idle

\* The user starts the program and the network loses what it likes; the
\* loops run, the sockets are read and the timers expire.
Fairness ==
  /\ WF_vars((Connecting \/ Sending) /\ Idle)
  /\ SF_vars(Reading /\ Idle)
  /\ WF_vars(NothingRead /\ Idle)
  /\ SF_vars(ResendTurn)
  /\ SF_vars(Retrying /\ Idle)
  /\ WF_vars(ServerRead)
  /\ SF_vars(ServerResend)

Spec == Init /\ [][Next]_vars

LiveSpec == Spec /\ Fairness

-----------------------------------------------------------------------------

\* A transfer ends, whatever the file: the loop of transfer() reaches
\* finishTransfer (or the crash on a file without data).
TransferEnds == pc \in {"send", "recv"} ~> pc \in {"finwait", "crashed"}

\* finishTransfer comes back: the server answers FINT in the end.
FinishEnds == pc = "finwait" ~> pc = "command"

\* disConnect comes back.
DisconnectEnds == pc = "diswait" ~> pc = "closed"

\* The counter behind isfull and getfreewindow is the number of echoes from
\* the window's start on that are stored or acknowledged out of order.
UnackedCounts ==
  win.unacked = Cardinality({n \in Seqs : n >= win.start /\ (win.pkt[n] # NoPkt \/ win.ack[n])})

\* The flow control of the server: it never holds more echoes than its
\* window, and an idle connection has the whole window free.
WindowRespected ==
  /\ win.unacked \in 0 .. WinSize
  /\ pc = "command" /\ toServer = <<>> => win.unacked = 0

\* After "successfully end connection" the server has let the client go, or
\* a FIN that makes it do so is on the way.
ClosedMeansReleased ==
  pc = "closed" =>
    ~connected \/ \E i \in DOMAIN toServer : FindState(toServer[i]) = "Disconnect"

\* moveWindow leaves the start at an echo that is not acknowledged.
StartIsUnacked ==
  (win.start < SeqSize /\ win.pkt[win.start] = NoPkt) => ~sendArray[win.start]
=============================================================================
