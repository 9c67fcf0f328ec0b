---------------------------- MODULE RelDatProofs ----------------------------
(***************************************************************************)
(* Theorems about RelDat, for every value of its constants: any window     *)
(* sizes, any number of clients, transfers and packets, with the sequence  *)
(* numbers about to wrap or not, over the network at its worst.            *)
(*                                                                         *)
(* The argument.  In a transfer the client's sequence numbers from base    *)
(* to lastSequence - 1 stand for the packets of the file, one each, and    *)
(* windowFree keeps lastSequence from wrapping.  So whatever datagram of   *)
(* this process is about, its number says which packet of which transfer   *)
(* it carries: one below base is of an earlier transfer and finds no       *)
(* packet in pktArray, one from base on carries that very packet.          *)
(***************************************************************************)
EXTENDS RelDat, RelDatLemmas

\* The packet of the file that sequence number n stands for.
ChunkAt(n) == Chunk(xfer, n - base + 1)

\* What is in the arrays of a transfer.
ArrayInv ==
  /\ transferred <= fileLen
  /\ Copying => transferred <= lastSequence
  /\ Copying => \A n \in Seqs :
       /\ pktArray[n] # NoPkt <=> n \in base .. lastSequence - 1
       /\ pktArray[n] # NoPkt =>
            /\ pktArray[n].cli = cli /\ pktArray[n].flags = {}
            /\ pktArray[n].seq = n /\ pktArray[n].data = ChunkAt(n)
       /\ sendArray[n] =>
            /\ n \in base .. lastSequence - 1
            /\ rcvBuffer[n] = ToUpperCase(ChunkAt(n))

\* What has been written.  The head may have been left behind the base by a
\* transfer that ended early; then nothing is written.
HeadInv ==
  /\ head <= lastSequence
  /\ Copying => Len(out) = IF base <= head THEN head - base ELSE 0

\* What a datagram of the client may say, if it is of this process.
DataOk(m) ==
  /\ m.cli <= cli
  /\ m.cli = cli /\ m.flags = {} =>
       /\ m.seq < lastSequence
       /\ Copying /\ base <= m.seq => m.data = ChunkAt(m.seq)
  /\ m.flags = {"ACK", "SYN", "FIN"} => m.ack + 1 < SeqSize

\* What a datagram of the server may say, if it is for this process.
EchoOk(m) ==
  /\ m.cli <= cli
  /\ m.cli = cli /\ m.flags = {"ACK"} =>
       /\ m.ack < lastSequence
       /\ Copying /\ base <= m.ack => m.data = ToUpperCase(ChunkAt(m.ack))

NetInv ==
  /\ \A m \in toServer : DataOk(m)
  /\ \A m \in toClient : EchoOk(m)

TypeInv == TypeOK /\ PhaseInv

IInv ==
  /\ TypeInv
  /\ ArrayInv /\ HeadInv /\ OutIsPrefix
  /\ NetInv /\ ResendsAreOld /\ StartInBounds

-----------------------------------------------------------------------------
(* Lemmas about the operators. *)

\* What comes out of the network is a packet for the one who reads it, and
\* if its checksum is right it is what was sent.
LEMMA Inboxes ==
  ASSUME TypeOK
  PROVE  /\ \A m \in ClientInbox :
              /\ m \in Packet /\ m.cli = cli
              /\ ChecksumOk(m) => m \in toClient
         /\ \A m \in ServerInbox :
              /\ m \in Packet
              /\ ChecksumOk(m) => m \in toServer
              /\ \E o \in toServer : m.cli = o.cli /\ m.ack = o.ack /\ m.flags = o.flags
<1>1. \A m \in Packet : /\ Damage(m) \in Packet /\ ~ChecksumOk(Damage(m))
                        /\ Damage(m).cli = m.cli /\ Damage(m).ack = m.ack
                        /\ Damage(m).flags = m.flags
  BY DamageType DEF Damage, ChecksumOk, Packet
<1> QED BY <1>1 DEF TypeOK, ClientInbox, ServerInbox, Deliverable

-----------------------------------------------------------------------------
(* Type correctness.  It says more than that variables have their types:   *)
(* every datagram's header fields fit their format, so that no pack() but  *)
(* the two the model guards can raise.                                     *)

\* The program starts with the right types, in the right phase.
LEMMA TypeInit == Init => TypeInv
  BY ClientBegins, NewWindowType
  DEF Init, ServerInit, TypeInv, TypeOK, ClientTypeInv, ServerTypeOK

\* The client's packets are well formed when their numbers are.
LEMMA SentTypes ==
  ASSUME TypeOK
  PROVE  /\ SynPkt \in Packet
         /\ rcvWindowSize = Mrws => FinPkt \in Packet
         /\ lastSequence > 0 => FintPkt \in Packet
         /\ Fits => DataPkt \in Packet
         /\ \A n \in Seqs : AckPkts(n) \subseteq Packet
         /\ ResendOverdue \subseteq Packet
  BY ClientPackets DEF WellFormed, TypeOK, ResendOverdue

\* The server's packets are well formed.
LEMMA ReplyTypes ==
  ASSUME TypeOK, NEW m \in Packet
  PROVE  Reply(m) \subseteq Packet /\ Echo(m) \in Packet
  BY ServerPackets DEF TypeOK, ServerTypeOK

\* The client's steps keep the types, and what they send is well formed.
LEMMA ClientType ==
  ASSUME TypeInv, ClientNext
  PROVE  TypeInv'
<1> USE DEF TypeInv, TypeOK
<1>1. ClientTypeInv /\ ServerTypeOK' /\ toClient' \subseteq Packet
  BY DEF ClientNext, ClientTypeInv, ServerTypeOK, serverVars
<1>2. ClientTypeInv' => TypeInv' \/ ~(toServer' \subseteq Packet)
  BY <1>1 DEF ClientTypeInv
<1>3. \A m \in ClientInbox : m \in Packet /\ m.ack \in Seqs
  BY Inboxes DEF Packet
<1>4. /\ FintPkt \in Packet \/ lastSequence = 0
      /\ pc = "synwait" => SynPkt \in Packet
      /\ pc \in {"command", "diswait"} => FinPkt \in Packet
      /\ Fits => DataPkt \in Packet
      /\ \A n \in Seqs : AckPkts(n) \subseteq Packet
      /\ ResendOverdue \subseteq Packet
  <2>1. lastSequence = 0 \/ lastSequence > 0
    BY <1>1 DEF ClientTypeInv, ClientTypeOK, Seqs
  <2> QED
    BY <1>1, <2>1, ClientPackets DEF WellFormed, ResendOverdue, ClientTypeInv, PhaseInv
<1>10. ClientTypeOK' => /\ SynPkt' \in Packet
                       /\ \A n \in Seqs : AckPkts(n)' \subseteq Packet
                       /\ ResendOverdue' \subseteq Packet
  <2>1. ClientTypeOK' => WellFormed'
    BY ClientPackets, PTL
  <2> QED BY <2>1 DEF WellFormed, ResendOverdue
<1>5. ASSUME NEW ms \in SUBSET Packet, SendToServer(ms) PROVE toServer' \subseteq Packet
  BY <1>5 DEF SendToServer
<1>6. CASE Connecting
  BY <1>1, <1>2, <1>3, <1>4, <1>5, <1>10, <1>6, QuietTypes, ReadTypes
  DEF Connecting, ConnectRetry, ClientTypeInv
<1>7. CASE Sending
  BY <1>1, <1>2, <1>3, <1>4, <1>5, <1>10, <1>7, QuietTypes, SendTypes DEF Sending, ClientTypeInv
<1>8. CASE Receiving
  <2>1. ASSUME NEW m \in ClientInbox, RcvStray(m), SendToServer(ResendOverdue') PROVE TypeInv'
    BY <1>1, <1>2, <1>3, <1>4, <1>5, <1>10, <2>1, ReadTypes DEF ClientTypeInv
  <2>2. ASSUME NEW m \in ClientInbox, RcvDuplicate(m),
               SendToServer(AckPkts(m.ack) \cup ResendOverdue')
        PROVE  TypeInv'
    BY <1>1, <1>2, <1>3, <1>4, <1>5, <1>10, <2>2, ReadTypes DEF ClientTypeInv
  <2>3. ASSUME NEW m \in ClientInbox, NEW k \in 0 .. SeqSize, RcvNew(m, k),
               SendToServer(AckPkts(m.ack)' \cup ResendOverdue')
        PROVE  TypeInv'
    BY <1>1, <1>2, <1>3, <1>4, <1>5, <1>10, <2>3, RcvNewTypes DEF ClientTypeInv
  <2>4. CASE (RecvTimeout /\ SendToServer(ResendOverdue)) \/ (GiveUp /\ SendToServer({}))
    BY <1>1, <1>2, <1>4, <1>5, <1>10, <2>4, QuietTypes DEF ClientTypeInv
  <2> QED BY <1>8, <2>1, <2>2, <2>3, <2>4 DEF Receiving
<1>9. CASE Finishing
  BY <1>1, <1>2, <1>3, <1>4, <1>5, <1>10, <1>9, QuietTypes, ReadTypes
  DEF Finishing, FintPkts, FinishRetry, ClientTypeInv, PhaseInv
<1>11. CASE Closing
  BY <1>1, <1>2, <1>3, <1>4, <1>5, <1>10, <1>11, QuietTypes, ReadTypes
  DEF Closing, Disconnect, DisconnectRetry, ClientTypeInv
<1> QED BY <1>6, <1>7, <1>8, <1>9, <1>11 DEF ClientNext

\* One turn of the server: what becomes of its window.
LEMMA HandleWindow ==
  ASSUME TypeOK, NEW m \in ServerInbox, Handle(m)
  PROVE  /\ win' \in WindowType
         /\ \A i \in Seqs : win'.pkt[i] # NoPkt =>
              \/ win'.pkt[i] = win.pkt[i] /\ win.pkt[i] # NoPkt
              \/ win'.pkt[i] \in Reply(m)
         /\ connected' \in BOOLEAN /\ heard' \in BOOLEAN
<1>1. m \in Packet /\ ServerTypeOK
  BY Inboxes DEF TypeOK
<1> QED BY <1>1, TurnTypes DEF Handle, ServerTypeOK

\* The server's steps keep the types.
LEMMA ServerType ==
  ASSUME TypeInv, ServerNext
  PROVE  TypeInv'
<1>1. TypeOK /\ UNCHANGED <<clientVars, toServer>>
  BY DEF TypeInv, ServerNext
<1>2. ClientTypeOK' /\ PhaseInv' /\ toServer' \subseteq Packet
  BY <1>1
  DEF TypeInv, TypeOK, ClientTypeOK, PhaseInv, clientVars, windowVars, arrayVars,
      sizeVars, fileVars
<1>3. ASSUME NEW m \in ServerInbox, ServerTurn(m) PROVE TypeInv'
  <2>1. ServerTypeOK'
    BY <1>1, <1>3, HandleWindow DEF ServerTurn, ServerTypeOK
  <2>2. Reply(m) \subseteq Packet /\ Resent(win') \subseteq Packet
    BY <1>1, <2>1, Inboxes, ReplyTypes, ResentTypes DEF ServerTypeOK
  <2>3. toClient' \subseteq Packet
    BY <1>1, <1>3, <2>2 DEF ServerTurn, SendToClient, TypeOK
  <2> QED BY <1>2, <2>1, <2>3 DEF TypeInv, TypeOK
<1>4. ASSUME NEW gap \in Silence, ServerTimeout(gap) PROVE TypeInv'
  <2>1. ServerTypeOK'
    BY <1>1, <1>4, NewWindowType
    DEF ServerTimeout, SocketTimeout, ClientGone, TypeOK, ServerTypeOK, serverVars
  <2>2. Resent(win) \subseteq Packet
    BY <1>1, ResentTypes DEF TypeOK, ServerTypeOK
  <2>3. toClient' \subseteq Packet
    BY <1>1, <1>4, <2>2 DEF ServerTimeout, SendToClient, TypeOK
  <2> QED BY <1>2, <2>1, <2>3 DEF TypeInv, TypeOK
<1>5. ASSUME ServerRestart, SendToClient({}) PROVE TypeInv'
  BY <1>1, <1>2, <1>5, NewWindowType
  DEF ServerRestart, ClientGone, SendToClient, TypeInv, TypeOK, ServerTypeOK
<1> QED BY <1>3, <1>4, <1>5 DEF ServerNext

\* Every step keeps the types.
LEMMA TypeStep == TypeInv /\ [Next]_vars => TypeInv'
<1> SUFFICES ASSUME TypeInv, [Next]_vars PROVE TypeInv'
  OBVIOUS
<1>1. CASE ClientNext
  BY <1>1, ClientType
<1>2. CASE ServerNext
  BY <1>2, ServerType
<1>3. CASE UNCHANGED vars
  BY <1>3
  DEF vars, clientVars, serverVars, windowVars, arrayVars, sizeVars, fileVars,
      TypeInv, TypeOK, ClientTypeOK, ServerTypeOK, PhaseInv
<1> QED BY <1>1, <1>2, <1>3 DEF Next

\* Always, every variable has its type and outside a transfer the client's
\* arrays are empty.
THEOREM TypeInvariance == Spec => []TypeInv
BY TypeInit, TypeStep, PTL DEF Spec

\* Every variable keeps its type and every datagram sent is well formed.
THEOREM TypeCorrect == Spec => []TypeOK
<1>1. TypeInv => TypeOK
  BY DEF TypeInv
<1> QED BY <1>1, TypeInvariance, PTL

-----------------------------------------------------------------------------
(* The received file. *)

\* The invariant holds when the program starts.
LEMMA InductiveInit == Init => IInv
<1> SUFFICES ASSUME Init PROVE IInv
  OBVIOUS
<1>1. TypeInv
  BY TypeInit
<1>2. ResendsAreOld /\ StartInBounds
  BY Constants DEF Init, ServerInit, ResendsAreOld, StartInBounds, NewWindow
<1> QED
  BY <1>1, <1>2
  DEF Init, ClientInit, IInv, ArrayInv, HeadInv, OutIsPrefix, NetInv, Copying

\* The server's steps leave the client alone and send it what they should.
LEMMA ServerStep ==
  ASSUME IInv, ServerNext
  PROVE  IInv'
<1>0. TypeInv' /\ TypeOK /\ UNCHANGED <<clientVars, toServer>>
  BY ServerType DEF IInv, TypeInv, ServerNext
<1>1. /\ ArrayInv' /\ HeadInv' /\ OutIsPrefix'
      /\ \A m : DataOk(m)' <=> DataOk(m)
      /\ \A m : EchoOk(m)' <=> EchoOk(m)
  BY <1>0
  DEF IInv, ArrayInv, HeadInv, OutIsPrefix, DataOk, EchoOk, Copying, base, ChunkAt,
      clientVars, windowVars, arrayVars, sizeVars, fileVars
<1> DEFINE Rest == NetInv' /\ ResendsAreOld' /\ StartInBounds'
<1>2. ASSUME NEW m \in ServerInbox, ServerTurn(m) PROVE Rest
  <2>1. \A r \in Reply(m) : EchoOk(r)
    <3>1. PICK o \in toServer : m.cli = o.cli /\ m.ack = o.ack /\ m.flags = o.flags
      BY <1>0, Inboxes
    <3>2. m.cli <= cli
      BY <3>1 DEF IInv, NetInv, DataOk
    <3>3. ASSUME FindState(m) = "TransferData", ChecksumOk(m) PROVE EchoOk(Echo(m))
      <4>1. m \in toServer /\ m.flags = {}
        BY <1>0, <3>3, Inboxes DEF FindState
      <4>2. DataOk(m)
        BY <4>1 DEF IInv, NetInv
      <4>3. Echo(m).cli = m.cli /\ Echo(m).ack = m.seq /\ Echo(m).data = ToUpperCase(m.data)
        BY DEF Echo, Datagram
      <4> QED BY <4>1, <4>2, <4>3 DEF DataOk, EchoOk
    <3>4. \A r \in Reply(m) :
            \/ r.cli = m.cli /\ r.flags # {"ACK"}
            \/ r = Echo(m) /\ FindState(m) = "TransferData" /\ ChecksumOk(m)
      BY DEF Reply, Datagram
    <3> QED BY <3>2, <3>3, <3>4 DEF EchoOk
  <2>2. /\ win' \in WindowType
        /\ \A i \in Seqs : win'.pkt[i] # NoPkt => win'.pkt[i] \in toClient \cup Reply(m)
    BY <1>0, <1>2, HandleWindow DEF ServerTurn, IInv, ResendsAreOld
  <2>3. Resent(win') \subseteq toClient \cup Reply(m)
    <3>1. \A i \in Resendable(win') : i \in Seqs /\ win'.pkt[i] # NoPkt
      BY <2>2, Constants DEF Resendable, WindowType, Seqs
    <3> QED BY <2>2, <3>1 DEF Resent
  <2>4. toClient' = toClient \cup Reply(m)
    BY <1>2, <2>3 DEF ServerTurn, SendToClient
  <2>5. NetInv'
    BY <1>0, <1>1, <2>1, <2>4 DEF IInv, NetInv
  <2>6. StartInBounds'
    <3>0. win \in WindowType /\ win.start \in Seqs /\ m.ack \in Seqs /\ m.seq \in Seqs
      BY <1>0, Inboxes, Constants
      DEF IInv, StartInBounds, TypeOK, ServerTypeOK, WindowType, Packet, Seqs
    <3>1. CASE win' = win \/ win' = NewWindow
      BY <3>0, <3>1, Constants DEF StartInBounds, NewWindow, Seqs
    <3>2. CASE TransferData(m)
      <4>1. Echo(m) \in Packet
        BY <1>0, Inboxes, ReplyTypes
      <4>2. win' = win \/ win'.start = win.start
        BY <3>0, <3>2, <4>1, AddPacketType DEF TransferData
      <4> QED BY <3>0, <3>1, <4>2, Constants DEF StartInBounds, Seqs
    <3>3. CASE AckRecvd(m)
      <4>1. win'.start \in Seqs
        BY <3>0, <3>3, AckPacketType DEF AckRecvd
      <4> QED BY <4>1, Constants DEF StartInBounds, Seqs
    <3>4. CASE FinishOneTransfer(m)
      <4>1. PICK o \in toServer : m.ack = o.ack /\ m.flags = o.flags
        BY <1>0, Inboxes
      <4>2. m.flags = {"ACK", "SYN", "FIN"}
        BY <3>4 DEF FinishOneTransfer, FindState
      <4>3. m.ack + 1 < SeqSize
        BY <4>1, <4>2 DEF IInv, NetInv, DataOk
      <4> QED
        BY <3>0, <3>4, <4>3, PrepareNextTransferType DEF FinishOneTransfer, StartInBounds
    <3> QED
      BY <1>2, <3>1, <3>2, <3>3, <3>4
      DEF ServerTurn, Handle, ConnRequest, ServerDisconnect, ClientGone, Ignore, serverVars
  <2> QED BY <2>2, <2>4, <2>5, <2>6 DEF ResendsAreOld
<1>3. ASSUME win' = win \/ win' = NewWindow, toClient' = toClient PROVE Rest
  <2>1. \A i \in Seqs : NewWindow.pkt[i] = NoPkt
    BY DEF NewWindow
  <2>2. NewWindow.start = 0
    BY DEF NewWindow
  <2> QED
    BY <1>0, <1>1, <1>3, <2>1, <2>2, Constants
    DEF IInv, NetInv, ResendsAreOld, StartInBounds
<1>4. ASSUME NEW gap \in Silence, ServerTimeout(gap) PROVE Rest
  <2>1. win \in WindowType
    BY <1>0 DEF TypeOK, ServerTypeOK
  <2>2. \A i \in Resendable(win) : i \in Seqs /\ win.pkt[i] # NoPkt
    BY <2>1, Constants DEF Resendable, WindowType, Seqs
  <2>3. Resent(win) \subseteq toClient
    BY <2>2 DEF Resent, IInv, ResendsAreOld
  <2> QED
    BY <1>3, <1>4, <2>3
    DEF ServerTimeout, SocketTimeout, ClientGone, SendToClient, serverVars
<1>5. ASSUME ServerRestart, SendToClient({}) PROVE Rest
  BY <1>3, <1>5 DEF ServerRestart, ClientGone, SendToClient
<1> QED BY <1>0, <1>1, <1>2, <1>4, <1>5 DEF ServerNext, IInv

\* What the client keeps for resending is still what its number says.
LEMMA ResendsOk ==
  ASSUME TypeOK, ArrayInv, Copying
  PROVE  /\ \A n \in Seqs : pktArray[n] # NoPkt => DataOk(pktArray[n])
         /\ \A m \in ResendOverdue : DataOk(m)
<1>1. \A n \in Overdue : n \in Seqs /\ pktArray[n] # NoPkt
  BY ScanInSeqs DEF TypeOK, ClientTypeOK, Overdue
<1>2. ASSUME NEW n \in Seqs, pktArray[n] # NoPkt
      PROVE  /\ pktArray[n].cli = cli /\ pktArray[n].flags = {}
             /\ pktArray[n].seq = n /\ pktArray[n].data = ChunkAt(n)
             /\ n < lastSequence
  BY <1>2, Constants DEF ArrayInv, TypeOK, ClientTypeOK, Seqs, base
<1>3. cli <= cli
  BY Constants DEF TypeOK, ClientTypeOK
<1>4. \A n \in Seqs : pktArray[n] # NoPkt => DataOk(pktArray[n])
  BY <1>2, <1>3 DEF DataOk
<1> QED BY <1>1, <1>4 DEF ResendOverdue

\* A step of the client that neither sends a new packet nor reads a new echo
\* keeps the invariant, if what it sends is right.
LEMMA QuietStep ==
  ASSUME IInv, TypeInv', UNCHANGED <<serverVars, toClient>>,
         UNCHANGED <<cli, head, lastSequence, xfer, fileLen, transferred, out>>,
         Copying' => Copying /\ UNCHANGED arrayVars,
         \A m \in toServer' : m \in toServer \/ DataOk(m)
  PROVE  IInv'
<1>1. /\ UNCHANGED base
      /\ \A n : ChunkAt(n)' = ChunkAt(n)
  BY DEF base, ChunkAt
<1>2. ArrayInv'
  BY <1>1 DEF IInv, ArrayInv, arrayVars
<1>3. HeadInv' /\ OutIsPrefix'
  BY <1>1 DEF IInv, HeadInv, OutIsPrefix
<1>4. \A m : DataOk(m) => DataOk(m)'
  BY <1>1 DEF DataOk
<1>5. \A m : EchoOk(m) => EchoOk(m)'
  BY <1>1 DEF EchoOk
<1>6. NetInv'
  BY <1>4, <1>5 DEF IInv, NetInv
<1>7. ResendsAreOld' /\ StartInBounds'
  BY DEF IInv, ResendsAreOld, StartInBounds, serverVars
<1> QED BY <1>2, <1>3, <1>6, <1>7 DEF IInv

\* Control packets are always right.
LEMMA ControlOk ==
  ASSUME TypeOK
  PROVE  /\ DataOk(SynPkt) /\ DataOk(FinPkt)
         /\ DataOk(FintPkt)
         /\ \A n : \A m \in AckPkts(n) : DataOk(m)
<1>1. cli <= cli /\ lastSequence - 1 + 1 < SeqSize
  BY Constants DEF TypeOK, ClientTypeOK, Seqs
<1>2. /\ SynPkt.cli = cli /\ SynPkt.flags = {"SYN"}
      /\ FinPkt.cli = cli /\ FinPkt.flags = {"FIN"}
      /\ FintPkt.cli = cli /\ FintPkt.flags = {"ACK", "SYN", "FIN"}
      /\ FintPkt.ack = lastSequence - 1
      /\ \A n : \A m \in AckPkts(n) : m.cli = cli /\ m.flags = {"ACK"}
  BY DEF SynPkt, FinPkt, FintPkt, AckPkts, Datagram
<1>3. \A m : m.cli = cli /\ m.flags \in {{"SYN"}, {"FIN"}, {"ACK"}} => DataOk(m)
  BY <1>1 DEF DataOk
<1> QED BY <1>1, <1>2, <1>3 DEF DataOk

\* The client's steps outside transfer()'s loop.
LEMMA ControlQuiet ==
  ASSUME IInv, TypeInv', UNCHANGED <<serverVars, toClient>>,
         Connecting \/ Closing \/ Finishing, cli' = cli
  PROVE  IInv'
<1>0. TypeOK /\ DataOk(SynPkt) /\ DataOk(FinPkt) /\ DataOk(FintPkt)
  BY ControlOk DEF IInv, TypeInv
<1>1. ASSUME ConnectRetry, SendToServer({SynPkt}) PROVE IInv'
  BY <1>0, <1>1, QuietStep
  DEF ConnectRetry, SendToServer, Copying, windowVars, fileVars
<1>2. ASSUME ConnectFail \/ Die, SendToServer({}) PROVE IInv'
  BY <1>2, QuietStep
  DEF ConnectFail, Die, SendToServer, Copying, windowVars, fileVars
<1>3. ASSUME NEW m \in ClientInbox, ConnectReply(m), SendToServer({}) PROVE IInv'
  BY <1>3, QuietStep DEF ConnectReply, SendToServer, Copying, fileVars
<1>4. ASSUME FinishTransfer, SendToServer(FintPkts) PROVE IInv'
  <2>1. \A m \in FintPkts : DataOk(m)
    BY <1>0 DEF FintPkts
  <2> QED
    BY <1>4, <2>1, QuietStep
    DEF FinishTransfer, SendToServer, Copying, windowVars, fileVars
<1>5. ASSUME FinishRetry, SendToServer({FintPkt}) PROVE IInv'
  BY <1>0, <1>5, QuietStep
  DEF FinishRetry, SendToServer, Copying, clientVars, windowVars, fileVars
<1>6. ASSUME NEW m \in ClientInbox, FinishReply(m) \/ DisconnectReply(m), SendToServer({})
      PROVE  IInv'
  BY <1>6, QuietStep
  DEF FinishReply, DisconnectReply, SendToServer, Copying, windowVars, fileVars
<1>7. ASSUME Disconnect \/ DisconnectRetry, SendToServer({FinPkt}) PROVE IInv'
  BY <1>0, <1>7, QuietStep
  DEF Disconnect, DisconnectRetry, SendToServer, Copying, clientVars, windowVars, fileVars
<1>8. ~ClientStart
  BY DEF ClientStart, IInv, TypeInv, TypeOK, ClientTypeOK
<1> QED
  BY <1>1, <1>2, <1>3, <1>4, <1>5, <1>6, <1>7, <1>8 DEF Connecting, Closing, Finishing

\* The steps of transfer()'s loop but sendPkt and rcvMsg on a new echo.
LEMMA LoopQuiet ==
  ASSUME IInv, TypeInv', UNCHANGED <<serverVars, toClient>>
  PROVE  /\ SkipSend \/ GiveUp => (SendToServer({}) => IInv')
         /\ SendPkt /\ ~Fits => (SendToServer({}) => IInv')
         /\ RecvTimeout => (SendToServer(ResendOverdue) => IInv')
         /\ \A m \in ClientInbox :
              /\ RcvStray(m) => (SendToServer(ResendOverdue') => IInv')
              /\ RcvDuplicate(m) =>
                   (SendToServer(AckPkts(m.ack) \cup ResendOverdue') => IInv')
<1>0. /\ TypeOK
      /\ Copying => \A m \in ResendOverdue : DataOk(m)
      /\ \A n : \A m \in AckPkts(n) : DataOk(m)
  BY ResendsOk, ControlOk DEF IInv, TypeInv
<1>1. ASSUME SkipSend \/ GiveUp, SendToServer({}) PROVE IInv'
  BY <1>1, QuietStep DEF SkipSend, GiveUp, SendToServer, Copying, windowVars, fileVars
<1>2. ASSUME SendPkt, ~Fits, SendToServer({}) PROVE IInv'
  BY <1>2, QuietStep DEF SendPkt, SendToServer, Copying
<1>3. ASSUME RecvTimeout, SendToServer(ResendOverdue) PROVE IInv'
  BY <1>0, <1>3, QuietStep DEF RecvTimeout, SendToServer, Copying, windowVars, fileVars
<1>4. ASSUME UNCHANGED <<arrayVars, windowVars>> PROVE ResendOverdue' = ResendOverdue
  BY <1>4 DEF arrayVars, windowVars, ResendOverdue, Overdue
<1>5. ASSUME NEW m \in ClientInbox, RcvStray(m), SendToServer(ResendOverdue') PROVE IInv'
  BY <1>0, <1>4, <1>5, QuietStep DEF RcvStray, SendToServer, Copying, windowVars, fileVars
<1>6. ASSUME NEW m \in ClientInbox, RcvDuplicate(m),
             SendToServer(AckPkts(m.ack) \cup ResendOverdue')
      PROVE  IInv'
  BY <1>0, <1>4, <1>6, QuietStep
  DEF RcvDuplicate, SendToServer, Copying, windowVars, fileVars
<1> QED BY <1>1, <1>2, <1>3, <1>5, <1>6

\* A new process: every datagram about is of an earlier one.
LEMMA StartStep ==
  ASSUME IInv, TypeInv', UNCHANGED <<serverVars, toClient>>,
         ClientStart, SendToServer({SynPkt'})
  PROVE  IInv'
<1>1. cli' = cli + 1 /\ cli \in Nat /\ ~Copying' /\ TypeOK'
  BY Constants DEF ClientStart, Copying, IInv, TypeInv, TypeOK, ClientTypeOK
<1>2. ArrayInv' /\ HeadInv' /\ OutIsPrefix'
  BY <1>1 DEF ClientStart, fileVars, IInv, ArrayInv, HeadInv, OutIsPrefix
<1>3. \A m \in toServer : m.cli \in Nat
  BY DEF IInv, TypeInv, TypeOK, Packet
<1>4. \A m \in toServer : DataOk(m)'
  BY <1>1, <1>3 DEF IInv, NetInv, DataOk
<1>5. DataOk(SynPkt)'
  <2>1. SynPkt'.cli = cli' /\ SynPkt'.flags = {"SYN"}
    BY DEF SynPkt, Datagram
  <2> QED BY <1>1, <2>1 DEF DataOk
<1>6. \A m \in toClient : m.cli \in Nat
  BY DEF IInv, TypeInv, TypeOK, Packet
<1>7. \A m \in toClient : EchoOk(m)'
  BY <1>1, <1>6 DEF IInv, NetInv, EchoOk
<1>8. NetInv'
  BY <1>4, <1>5, <1>7 DEF NetInv, SendToServer, ClientStart
<1> QED
  BY <1>2, <1>8 DEF IInv, ResendsAreOld, StartInBounds, serverVars

\* A new transfer: the arrays are empty, and every number used so far is
\* below the new base.
LEMMA TransformStep ==
  ASSUME IInv, TypeInv', UNCHANGED <<serverVars, toClient>>,
         NEW L \in 0 .. MaxChunks, Transform(L), SendToServer({})
  PROVE  IInv'
<1>1. /\ TypeOK /\ pc = "command" /\ Copying' /\ transferred' = 0 /\ out' = <<>>
      /\ UNCHANGED <<cli, head, lastSequence, sendArray, pktArray>>
  BY DEF Transform, Copying, windowVars, arrayVars, IInv, TypeInv
<1>2. base' = lastSequence /\ lastSequence \in Int /\ head \in Int /\ L >= 0
  BY <1>1, Constants DEF base, TypeOK, ClientTypeOK, Seqs
<1>3. ArrayInv'
  <2>1. sendArray' = Unset /\ pktArray' = Empty
    BY <1>1 DEF IInv, TypeInv, PhaseInv
  <2>2. lastSequence >= 0
    BY <1>1, Constants DEF TypeOK, ClientTypeOK, Seqs
  <2>3. \A n \in Seqs : n \notin base' .. lastSequence' - 1
    BY <1>1, <1>2
  <2> QED
    BY <1>1, <1>2, <2>1, <2>2, <2>3 DEF Transform, ArrayInv, Unset, Empty
<1>4. HeadInv'
  BY <1>1, <1>2 DEF IInv, HeadInv
<1>5. OutIsPrefix'
  BY <1>1, <1>2 DEF Transform, OutIsPrefix
<1>6. \A m \in toServer : m.seq \in Int
  BY <1>1, Constants DEF TypeOK, Packet, Seqs
<1>7. \A m \in toServer : DataOk(m)'
  BY <1>1, <1>2, <1>6 DEF IInv, NetInv, DataOk
<1>8. \A m \in toClient : m.ack \in Int
  BY <1>1, Constants DEF TypeOK, Packet, Seqs
<1>9. \A m \in toClient : EchoOk(m)'
  BY <1>1, <1>2, <1>8 DEF IInv, NetInv, EchoOk
<1>10. NetInv'
  BY <1>7, <1>9 DEF NetInv, SendToServer
<1> QED
  BY <1>3, <1>4, <1>5, <1>10 DEF IInv, ResendsAreOld, StartInBounds, serverVars

\* sendPkt: the next packet of the file takes the next sequence number, and
\* windowFree is why that number has not been used before.
LEMMA SendStep ==
  ASSUME IInv, TypeInv', UNCHANGED <<serverVars, toClient>>,
         SendPkt, Fits, SendToServer({DataPkt})
  PROVE  IInv'
<1>1. /\ TypeOK /\ Copying /\ Copying' /\ transferred' = transferred + 1
      /\ transferred < fileLen
      /\ UNCHANGED <<cli, head, xfer, fileLen, out, sendArray, rcvBuffer>>
  BY DEF SendPkt, Copying, MaySend, HasData, IInv, TypeInv
<1>2. /\ cli \in Int /\ head \in Int /\ transferred \in Nat /\ fileLen \in Int
      /\ lastSequence \in Nat /\ lastSequence + 1 \in Seqs /\ lastSequence \in Seqs
  BY Constants DEF SendPkt, MaySend, WindowFree, IInv, TypeInv, TypeOK, ClientTypeOK, Seqs
<1>3. lastSequence' = lastSequence + 1
  BY <1>2, ModSeq DEF SendPkt
<1>4. base' = base /\ base \in Int
  BY <1>1, <1>2, <1>3 DEF base
<1>5. \A n : ChunkAt(n)' = ChunkAt(n)
  BY <1>1, <1>4 DEF ChunkAt
<1>6. /\ DataPkt.cli = cli /\ DataPkt.flags = {} /\ DataPkt.seq = lastSequence
      /\ DataPkt.data = ChunkAt(lastSequence) /\ DataPkt # NoPkt
  <2>1. DataPkt \in Packet
    BY <1>1, SentTypes
  <2>2. lastSequence - base + 1 = transferred + 1
    BY <1>2 DEF base
  <2> QED BY <2>1, <2>2, Constants DEF DataPkt, Datagram, ChunkAt
<1>7. \A n \in Seqs : n >= lastSequence => pktArray[n] = NoPkt
  BY <1>1, <1>2 DEF IInv, ArrayInv, Seqs
<1>8. \A n \in Seqs : pktArray'[n] = IF n = lastSequence THEN DataPkt ELSE pktArray[n]
  <2>1. \A n \in Seqs : pktArray'[n] = IF n < lastSequence THEN pktArray[n]
                                       ELSE IF n = lastSequence THEN DataPkt
                                       ELSE pktArray[n - 1]
    BY DEF SendPkt, Insert
  <2>2. \A n \in Seqs : n > lastSequence => pktArray[n - 1] = NoPkt /\ pktArray[n] = NoPkt
    BY <1>2, <1>7, Constants DEF Seqs
  <2> QED BY <2>1, <2>2, <1>2 DEF Seqs
<1>9. ArrayInv'
  <2>1. transferred' <= fileLen' /\ transferred' <= lastSequence'
    BY <1>1, <1>2, <1>3 DEF IInv, ArrayInv
  <2>2. base <= lastSequence
    BY <1>2 DEF base
  <2>3. \A n \in Seqs : n \in base .. lastSequence <=>
                         n \in base .. lastSequence - 1 \/ n = lastSequence
    BY <1>2, <1>4, <2>2 DEF Seqs
  <2> SUFFICES ASSUME NEW n \in Seqs
               PROVE  /\ pktArray'[n] # NoPkt <=> n \in base .. lastSequence
                      /\ pktArray'[n] # NoPkt =>
                           /\ pktArray'[n].cli = cli /\ pktArray'[n].flags = {}
                           /\ pktArray'[n].seq = n /\ pktArray'[n].data = ChunkAt(n)
                      /\ sendArray[n] =>
                           /\ n \in base .. lastSequence
                           /\ rcvBuffer[n] = ToUpperCase(ChunkAt(n))
    <3>1. base' .. lastSequence' - 1 = base .. lastSequence
      BY <1>2, <1>3, <1>4
    <3> QED BY <1>1, <1>4, <1>5, <2>1, <3>1 DEF ArrayInv
  <2>4. CASE n = lastSequence
    BY <1>1, <1>6, <1>8, <2>3, <2>4 DEF IInv, ArrayInv
  <2>5. CASE n # lastSequence
    BY <1>1, <1>8, <2>3, <2>5 DEF IInv, ArrayInv
  <2> QED BY <2>4, <2>5
<1>10. HeadInv' /\ OutIsPrefix'
  BY <1>1, <1>2, <1>3, <1>4 DEF IInv, HeadInv, OutIsPrefix
<1>11. \A m \in toServer : m.seq \in Int
  BY <1>1, Constants DEF TypeOK, Packet, Seqs
<1>12. \A m \in toServer : DataOk(m)'
  BY <1>1, <1>2, <1>3, <1>4, <1>5, <1>11 DEF IInv, NetInv, DataOk
<1>13. \A m : m = DataPkt => DataOk(m)'
  <2>1. DataPkt.flags # {"ACK", "SYN", "FIN"}
    BY <1>6
  <2>2. \A m : /\ m.cli = cli /\ m.flags = {} /\ m.flags # {"ACK", "SYN", "FIN"}
               /\ m.seq = lastSequence /\ m.data = ChunkAt(lastSequence)
               => DataOk(m)'
    BY <1>1, <1>2, <1>3, <1>5 DEF DataOk
  <2> QED BY <1>6, <2>1, <2>2
<1>14. \A m \in toClient : m.ack \in Int
  BY <1>1, Constants DEF TypeOK, Packet, Seqs
<1>15. \A m \in toClient : EchoOk(m)'
  BY <1>1, <1>2, <1>3, <1>4, <1>5, <1>14 DEF IInv, NetInv, EchoOk
<1>16. NetInv'
  <2>1. toServer' = toServer \cup {DataPkt}
    BY DEF SendToServer
  <2>2. \A m \in toServer' : DataOk(m)'
    BY <1>12, <1>13, <2>1
  <2> QED BY <1>15, <2>2 DEF NetInv
<1> QED
  BY <1>9, <1>10, <1>16 DEF IInv, ResendsAreOld, StartInBounds, serverVars

\* rcvMsg on a new echo writes the next packets of the file.
LEMMA ReceiveStep ==
  ASSUME IInv, TypeInv', UNCHANGED <<serverVars, toClient>>,
         NEW m \in ClientInbox, NEW k \in 0 .. SeqSize, RcvNew(m, k),
         SendToServer(AckPkts(m.ack)' \cup ResendOverdue')
  PROVE  IInv'
<1> DEFINE arrived == [sendArray EXCEPT ![m.ack] = TRUE]
           written == [j \in 1 .. k |-> rcvBuffer'[(head + j - 1) % SeqSize]]
\* The echo is the one of packet m.ack of this transfer.
<1>1. /\ TypeOK /\ Copying /\ Copying' /\ k \in Nat
      /\ UNCHANGED <<cli, lastSequence, pktArray, xfer, fileLen, transferred>>
  BY Constants DEF RcvNew, Copying, IInv, TypeInv
<1>2. /\ head \in Seqs /\ lastSequence \in Seqs /\ base \in Int
      /\ Seqs \subseteq Int /\ transferred \in Int /\ fileLen \in Int
      /\ out \in Seq(Payload)
  BY <1>1, Constants DEF TypeOK, ClientTypeOK, Seqs, base
<1>3. m \in toClient /\ m.cli = cli /\ m.flags = {"ACK"} /\ m.ack \in Seqs
  BY <1>1, Inboxes DEF RcvNew, Answers, IsEcho, Packet
<1>4. m.ack \in base .. lastSequence - 1 /\ pktArray[m.ack].seq = m.ack
  BY <1>1, <1>3 DEF RcvNew, Answers, IInv, ArrayInv
<1>5. m.data = ToUpperCase(ChunkAt(m.ack))
  <2>1. EchoOk(m) /\ base <= m.ack
    BY <1>2, <1>3, <1>4 DEF IInv, NetInv
  <2> QED BY <1>1, <1>3, <2>1 DEF EchoOk
<1>6. /\ sendArray' = [i \in Seqs |-> arrived[i] /\ i \notin Cleared(k)]
      /\ rcvBuffer' = [rcvBuffer EXCEPT ![m.ack] = m.data]
      /\ head' = (head + k) % SeqSize
      /\ out' = out \o written
      /\ Moves(arrived, k) /\ arrived \in [Seqs -> BOOLEAN]
  BY <1>1, <1>3, <1>4 DEF RcvNew, TypeOK, ClientTypeOK
<1> HIDE DEF written
<1>7. \A i \in Seqs : arrived[i] =>
        i \in base .. lastSequence - 1 /\ rcvBuffer'[i] = ToUpperCase(ChunkAt(i))
  <2>1. rcvBuffer \in [Seqs -> Payload \cup {NoPkt}] /\ sendArray \in [Seqs -> BOOLEAN]
    BY <1>1 DEF TypeOK, ClientTypeOK
  <2>2. \A i \in Seqs : sendArray[i] =>
          i \in base .. lastSequence - 1 /\ rcvBuffer[i] = ToUpperCase(ChunkAt(i))
    BY <1>1 DEF IInv, ArrayInv
  <2> QED BY <1>3, <1>4, <1>5, <1>6, <2>1, <2>2
<1>8. \A j \in 0 .. k - 1 : arrived[(head + j) % SeqSize]
  BY <1>6 DEF Moves
<1> HIDE DEF arrived
\* The loop stops at lastSequence at the latest, short of the end of the
\* sequence numbers, and does not start below base.
<1>9. head + k <= lastSequence
  <2> SUFFICES ASSUME ~(head + k <= lastSequence) PROVE FALSE
    OBVIOUS
  <2> DEFINE d == lastSequence - head
  <2>1. d \in 0 .. k - 1 /\ head + d = lastSequence
    BY <1>1, <1>2 DEF IInv, HeadInv
  <2>2. (head + d) % SeqSize = lastSequence
    BY <1>2, <2>1, ModSeq
  <2>3. arrived[lastSequence]
    BY <1>8, <2>1, <2>2
  <2> QED BY <1>2, <1>7, <2>3
<1>10. \A j \in 0 .. k - 1 : (head + j) % SeqSize = head + j /\ head + j \in Seqs
  <2>1. \A j \in 0 .. k - 1 : head + j \in Seqs
    BY <1>1, <1>2, <1>9, Constants DEF Seqs
  <2> QED BY <2>1, ModSeq
<1>11. k > 0 => base <= head
  <2>1. k > 0 => 0 \in 0 .. k - 1 /\ head + 0 = head
    BY <1>1, <1>2
  <2> QED BY <1>2, <1>7, <1>8, <1>10, <2>1
<1>12. head' = head + k
  <2>1. head + k \in Seqs
    BY <1>1, <1>2, <1>9, Constants DEF Seqs
  <2> QED BY <1>6, <2>1, ModSeq
<1>13. \A j \in 1 .. k : written[j] = ToUpperCase(ChunkAt(head + j - 1))
  <2> SUFFICES ASSUME NEW j \in 1 .. k
               PROVE  written[j] = ToUpperCase(ChunkAt(head + j - 1))
    OBVIOUS
  <2>1. j - 1 \in 0 .. k - 1 /\ head + (j - 1) = head + j - 1
    BY <1>1, <1>2
  <2>2. (head + j - 1) % SeqSize = head + j - 1 /\ head + j - 1 \in Seqs
    BY <1>10, <2>1
  <2>3. arrived[head + j - 1]
    BY <1>8, <2>1, <2>2
  <2> QED BY <1>7, <2>2, <2>3 DEF written
<1>14. base' = base /\ \A n : ChunkAt(n)' = ChunkAt(n)
  BY <1>1 DEF base, ChunkAt
<1>15. ArrayInv'
  <2>1. \A i \in Seqs : sendArray'[i] => arrived[i]
    BY <1>6
  <2> QED BY <1>1, <1>7, <1>14, <2>1 DEF IInv, ArrayInv
<1>16. Len(written) = k /\ written \in Seq(Payload)
  <2>1. out' \in Seq(Payload) /\ rcvBuffer' \in [Seqs -> Payload \cup {NoPkt}]
    BY DEF TypeInv, TypeOK, ClientTypeOK
  <2>2. \A j \in 1 .. k : ChunkAt(head + j - 1) \in Payload
    <3> SUFFICES ASSUME NEW j \in 1 .. k PROVE ChunkAt(head + j - 1) \in Payload
      OBVIOUS
    <3> DEFINE c == (head + j - 1) - base + 1
    <3>1. c \in Nat /\ xfer \in Nat
      BY <1>1, <1>2, <1>11, Constants DEF TypeOK, ClientTypeOK
    <3>2. ChunkAt(head + j - 1) = Chunk(xfer, c)
      BY DEF ChunkAt
    <3> HIDE DEF c
    <3> QED BY <3>1, <3>2, PayloadTypes
  <2>3. \A j \in 1 .. k : written[j] \in Payload
    BY <1>13, <2>2, PayloadTypes
  <2>4. written = [j \in 1 .. k |-> written[j]]
    BY DEF written
  <2> QED BY <1>1, <2>3, <2>4
<1>17. /\ Len(out') = Len(out) + k
       /\ \A j \in 1 .. Len(out) : out'[j] = out[j]
       /\ \A j \in 1 .. k : out'[Len(out) + j] = written[j]
  <2>1. ASSUME NEW s \in Seq(Payload), NEW t \in Seq(Payload)
        PROVE  /\ Len(s \o t) = Len(s) + Len(t)
               /\ \A j \in 1 .. Len(s) : (s \o t)[j] = s[j]
               /\ \A j \in 1 .. Len(t) : (s \o t)[Len(s) + j] = t[j]
    OBVIOUS
  <2> QED BY <1>2, <1>6, <1>16, <2>1
<1>18. HeadInv'
  BY <1>1, <1>2, <1>9, <1>11, <1>12, <1>14, <1>17 DEF IInv, HeadInv
<1>19. OutIsPrefix'
  <2>1. Len(out') <= fileLen
    <3>1. transferred <= fileLen /\ lastSequence - base = transferred
          /\ transferred \in Nat
      <4>1. transferred <= fileLen
        BY <1>1 DEF IInv, ArrayInv
      <4>2. transferred \in Nat /\ lastSequence \in Nat
        BY <1>1, Constants DEF IInv, TypeOK, ClientTypeOK
      <4>3. lastSequence - base = transferred
        BY <4>2 DEF base
      <4> QED BY <4>1, <4>2, <4>3
    <3>2. Len(out') = (IF base <= head + k THEN head + k - base ELSE 0)
      <4>1. Len(out') = Len(out) + k /\ Len(out) = IF base <= head THEN head - base ELSE 0
        BY <1>1, <1>17 DEF IInv, HeadInv
      <4>2. k = 0 => head + k = head
        BY <1>2
      <4>3. CASE k = 0
        BY <1>2, <4>1, <4>2, <4>3
      <4>4. CASE k > 0
        BY <1>1, <1>2, <1>11, <4>1, <4>4
      <4> QED BY <1>1, <4>3, <4>4
    <3> QED BY <1>1, <1>2, <1>9, <3>1, <3>2
  <2>2. ASSUME NEW j \in 1 .. Len(out')
        PROVE  out'[j] = ToUpperCase(Chunk(xfer, j))
    <3>0. Len(out) \in Nat /\ j \in Int
      BY <1>2
    <3>1. CASE j <= Len(out)
      BY <1>17, <2>2, <3>0, <3>1 DEF IInv, OutIsPrefix
    <3>2. CASE j > Len(out)
      <4> DEFINE i == j - Len(out)
      <4>1. i \in 1 .. k /\ Len(out) + i = j /\ k > 0
        BY <1>1, <1>17, <3>0, <3>2
      <4>2. out'[j] = ToUpperCase(ChunkAt(head + i - 1))
        BY <1>13, <1>17, <4>1
      <4>3. Len(out) = head - base
        BY <1>1, <1>2, <1>11, <4>1 DEF IInv, HeadInv
      <4>4. (head + i - 1) - base + 1 = j
        BY <1>2, <3>0, <4>3
      <4>5. ChunkAt(head + i - 1) = Chunk(xfer, (head + i - 1) - base + 1)
        BY DEF ChunkAt
      <4> HIDE DEF i
      <4> QED BY <4>2, <4>4, <4>5
    <3> QED BY <3>0, <3>1, <3>2
  <2> QED BY <1>1, <2>1, <2>2 DEF OutIsPrefix
<1>20. NetInv'
  <2>1. \A x : DataOk(x) => DataOk(x)'
    BY <1>1, <1>14 DEF DataOk
  <2>2. \A x : EchoOk(x) => EchoOk(x)'
    BY <1>1, <1>14 DEF EchoOk
  <2>3. \A x \in AckPkts(m.ack)' : DataOk(x)'
    <3>1. \A x \in AckPkts(m.ack)' : x.cli = cli /\ x.flags = {"ACK"}
      BY <1>1 DEF AckPkts, Datagram
    <3>2. cli <= cli
      BY <1>1, Constants DEF TypeOK, ClientTypeOK
    <3> QED BY <1>1, <3>1, <3>2 DEF DataOk
  <2>4. \A x \in ResendOverdue' : DataOk(x)
    <3>1. head' \in Seqs /\ lastSequence' \in Seqs
      BY DEF TypeInv, TypeOK, ClientTypeOK
    <3>2. \A n \in Overdue' : n \in Seqs /\ pktArray'[n] # NoPkt
      BY <3>1, ScanInSeqs DEF Overdue
    <3>3. \A n \in Seqs : pktArray[n] # NoPkt => DataOk(pktArray[n])
      BY <1>1, ResendsOk DEF IInv
    <3> QED BY <1>1, <3>2, <3>3 DEF ResendOverdue
  <2> QED BY <2>1, <2>2, <2>3, <2>4 DEF IInv, NetInv, SendToServer
<1> QED
  BY <1>15, <1>18, <1>19, <1>20 DEF IInv, ResendsAreOld, StartInBounds, serverVars

\* The client's steps keep the invariant.
LEMMA ClientStep ==
  ASSUME IInv, ClientNext
  PROVE  IInv'
<1>1. TypeInv' /\ UNCHANGED <<serverVars, toClient>>
  BY TypeStep DEF IInv, Next, ClientNext
<1>2. CASE Connecting \/ Closing \/ Finishing
  <2>1. CASE ClientStart /\ SendToServer({SynPkt'})
    BY <1>1, <2>1, StartStep
  <2>2. cli' = cli \/ (ClientStart /\ SendToServer({SynPkt'}))
    BY <1>2
    DEF Connecting, Closing, Finishing, ConnectRetry, ConnectFail, ConnectReply, Die,
        FinishTransfer, FinishRetry, FinishReply, Disconnect, DisconnectRetry,
        DisconnectReply, clientVars
  <2> QED BY <1>1, <1>2, <2>1, <2>2, ControlQuiet
<1>3. ASSUME SendPkt, SendToServer(IF Fits THEN {DataPkt} ELSE {}) PROVE IInv'
  <2>1. CASE Fits
    BY <1>1, <1>3, <2>1, SendStep
  <2>2. CASE ~Fits
    BY <1>1, <1>3, <2>2, LoopQuiet
  <2> QED BY <2>1, <2>2
<1>4. CASE Sending
  BY <1>1, <1>3, <1>4, TransformStep, LoopQuiet DEF Sending
<1>5. CASE Receiving
  BY <1>1, <1>5, ReceiveStep, LoopQuiet DEF Receiving
<1> QED BY <1>2, <1>4, <1>5 DEF ClientNext

\* Every step keeps the invariant.
LEMMA InductiveStep == IInv /\ [Next]_vars => IInv'
<1> SUFFICES ASSUME IInv, [Next]_vars PROVE IInv'
  OBVIOUS
<1>1. CASE ClientNext
  BY <1>1, ClientStep
<1>2. CASE ServerNext
  BY <1>2, ServerStep
<1>3. CASE UNCHANGED vars
  <2>1. TypeInv'
    BY TypeStep DEF IInv
  <2> QED
    BY <1>3, <2>1, QuietStep DEF vars, clientVars, windowVars, fileVars, Copying
<1> QED BY <1>1, <1>2, <1>3 DEF Next

\* Always, IInv.
THEOREM Invariance == Spec => []IInv
BY InductiveInit, InductiveStep, PTL DEF Spec

\* However datagrams are lost, doubled, delayed, reordered or damaged, and
\* however often either end is killed and started again, the received file
\* is a prefix of the upper-cased file of the current transfer.
THEOREM Integrity == Spec => []OutIsPrefix
<1>1. IInv => OutIsPrefix
  BY DEF IInv
<1> QED BY <1>1, Invariance, PTL

\* The server's window always starts inside its arrays.
THEOREM WindowInBounds == Spec => []StartInBounds
<1>1. IInv => StartInBounds
  BY DEF IInv
<1> QED BY <1>1, Invariance, PTL

\* A retransmission of the server is a datagram it has sent before.
THEOREM OldResends == Spec => []ResendsAreOld
<1>1. IInv => ResendsAreOld
  BY DEF IInv
<1> QED BY <1>1, Invariance, PTL

\* No process uses a sequence number twice, though sendPkt counts modulo
\* their number.
THEOREM NoReuse == Spec => SequenceNeverReused
<1>1. TypeInv /\ [Next]_vars =>
        [cli' = cli => lastSequence' \in {lastSequence, lastSequence + 1}]_vars
  <2> SUFFICES ASSUME TypeInv, Next, cli' = cli
               PROVE  lastSequence' \in {lastSequence, lastSequence + 1}
    OBVIOUS
  <2>1. CASE SendPkt
    <3>1. lastSequence + 1 \in Seqs
      BY <2>1, Constants
      DEF SendPkt, MaySend, WindowFree, TypeInv, TypeOK, ClientTypeOK, Seqs
    <3>2. (lastSequence + 1) % SeqSize = lastSequence + 1
      BY <3>1, ModSeq
    <3> QED BY <2>1, <3>2 DEF SendPkt
  <2>2. ~ClientStart
    BY DEF ClientStart, TypeInv, TypeOK, ClientTypeOK
  <2>3. CASE ClientNext /\ ~SendPkt
    BY <2>2, <2>3
    DEF ClientNext, Connecting, Sending, Receiving, Finishing, Closing, ConnectRetry,
        ConnectFail, ConnectReply, Transform, SkipSend, RcvStray, RcvDuplicate, RcvNew,
        RecvTimeout, GiveUp, FinishTransfer, FinishRetry, FinishReply, Disconnect,
        DisconnectRetry, DisconnectReply, Die, clientVars, windowVars
  <2>4. CASE ServerNext
    BY <2>4 DEF ServerNext, clientVars, windowVars
  <2> QED BY <2>1, <2>3, <2>4 DEF Next
<1> QED BY <1>1, TypeInvariance, PTL DEF Spec, SequenceNeverReused
=============================================================================
