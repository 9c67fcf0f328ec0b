---------------------------- MODULE RelDatLemmas ----------------------------
(***************************************************************************)
(* Lemmas about the client and the server of RelDat, each by itself:       *)
(* about the operators they are built from, and that the steps of each     *)
(* keep its types, whatever the network.                                   *)
(***************************************************************************)
EXTENDS RelDatClient, RelDatServer, TLAPS

Copying == pc \in {"send", "recv"}

\* The sequence number of the first packet of the current transfer.
base == lastSequence - transferred

\* Outside a transfer the arrays are empty and all of the window is free;
\* FINT is sent only after a packet was.
PhaseInv ==
  /\ pc \in {"synwait", "command", "finwait", "diswait"} =>
       /\ rcvWindowSize = Mrws
       /\ sendArray = Unset /\ pktArray = Empty
  /\ pc = "finwait" => lastSequence > 0
  /\ \A n \in Seqs : sendArray[n] => rcvBuffer[n] # NoPkt

ClientTypeInv == ClientTypeOK /\ PhaseInv

-----------------------------------------------------------------------------
(* The operators. *)

\* What the constants are.
LEMMA Constants ==
  /\ SeqSize \in Nat /\ SeqSize > 1 /\ ByteSize \in Nat /\ ByteSize > 1
  /\ ByteSize <= SeqSize /\ NoPkt \notin Packet /\ NoPkt \notin Payload
  /\ WinSize \in Nat /\ 0 < WinSize /\ WinSize < SeqSize
  /\ Mrws \in 1 .. ByteSize - 1
  /\ MaxClients \in Nat /\ MaxTransfers \in Nat /\ MaxChunks \in Nat
  BY PacketAssumption, WindowAssumption, ClientAssumption
  DEF PacketAssumption, WindowAssumption, ClientAssumption

\* Reduction modulo the sequence size gives a sequence number, and leaves a
\* sequence number as it is.
LEMMA ModSeq ==
  /\ \A a \in Int : a % SeqSize \in Seqs
  /\ \A a \in Seqs : a % SeqSize = a
  BY Constants, SMT DEF Seqs

\* Every value of the window byte is a number like any other: the client uses
\* the window the server announces as the end of its own.
LEMMA ByteIsSeq == Bytes \subseteq Seqs
  BY Constants, SMT DEF Bytes, Seqs

\* intToByte always yields a byte, of whatever integer.
LEMMA WindowByteType == \A a \in Int : WindowByte(a) \in Bytes
  BY Constants, SMT DEF WindowByte, Bytes

\* A packet with fields of the right types is a packet.
LEMMA DatagramType ==
  ASSUME NEW c \in Nat, NEW s \in Seqs, NEW a \in Seqs,
         NEW f \in SUBSET {"ACK", "SYN", "FIN"}, NEW r \in Bytes, NEW d \in Payload
  PROVE  Datagram(c, s, a, f, r, d) \in Packet
  BY DEF Datagram, Packet

\* All data the model speaks of is data.
LEMMA PayloadTypes ==
  /\ Greeting \in Payload /\ Garbled \in Payload
  /\ \A x \in Nat, i \in Nat : Chunk(x, i) \in Payload
  /\ \A d \in Payload : ToUpperCase(d) \in Payload
  BY DEF Greeting, Garbled, Chunk, ToUpperCase, Payload

\* Damage leaves a packet a packet.
LEMMA DamageType == \A m \in Packet : Damage(m) \in Packet
  BY PayloadTypes DEF Damage, Packet

\* list.insert keeps the type of the array.
LEMMA InsertType ==
  ASSUME NEW S, NEW f \in [Seqs -> S], NEW n \in Seqs, NEW x \in S
  PROVE  Insert(f, n, x) \in [Seqs -> S]
  BY Constants, SMT DEF Seqs, Insert

\* The constructor's window is a window.
LEMMA NewWindowType == NewWindow \in WindowType
  BY Constants, SMT DEF NewWindow, WindowType, Seqs

\* addpacket stores the packet, leaves the start alone and keeps the types.
LEMMA AddPacketType ==
  ASSUME NEW w \in WindowType, NEW n \in Seqs, NEW p \in Packet
  PROVE  /\ AddPacket(w, n, p) \in WindowType
         /\ AddPacket(w, n, p).start = w.start
         /\ AddPacket(w, n, p).pkt = [w.pkt EXCEPT ![n] = p]
<1> DEFINE u == w.unacked + (IF InRange(w, n) THEN 1 ELSE 0)
                          - (IF w.pkt[n] # NoPkt THEN 1 ELSE 0)
           x == [w EXCEPT !.unacked = u]
<1>1. u \in Int
  BY DEF WindowType
<1>2. AddPacket(w, n, p) = [x EXCEPT !.ack[n] = FALSE, !.pkt[n] = p]
  BY DEF AddPacket
<1> HIDE DEF u
<1>3. x \in WindowType /\ x.start = w.start /\ x.pkt = w.pkt
  BY <1>1 DEF WindowType
<1> HIDE DEF x
<1>4. /\ [x EXCEPT !.ack[n] = FALSE, !.pkt[n] = p] \in WindowType
      /\ [x EXCEPT !.ack[n] = FALSE, !.pkt[n] = p].start = x.start
      /\ [x EXCEPT !.ack[n] = FALSE, !.pkt[n] = p].pkt = [x.pkt EXCEPT ![n] = p]
  BY <1>3 DEF WindowType
<1> QED BY <1>2, <1>3, <1>4

\* prepareNextTransfer empties the window and starts it after number n.
LEMMA PrepareNextTransferType ==
  ASSUME NEW n \in Seqs
  PROVE  /\ PrepareNextTransfer(n) \in WindowType
         /\ PrepareNextTransfer(n).start = n + 1
         /\ PrepareNextTransfer(n).pkt = Empty
<1>1. n + 1 \in 0 .. SeqSize /\ (n + 1 + WinSize) % SeqSize \in Seqs
  BY Constants, ModSeq DEF Seqs
<1>2. NewWindow.pkt = Empty
  BY DEF NewWindow, Empty
<1> QED BY <1>1, <1>2, NewWindowType DEF PrepareNextTransfer, WindowType

\* Acknowledging a packet stores none, and the window stays in its bounds.
LEMMA AckPacketType ==
  ASSUME NEW w \in WindowType, NEW n \in Seqs, NEW v \in AckPacket(w, n)
  PROVE  /\ v \in WindowType
         /\ w.start \in Seqs => v.start \in Seqs
         /\ \A i \in Seqs : v.pkt[i] # NoPkt => v.pkt[i] = w.pkt[i]
<1> DEFINE u == [w EXCEPT !.ack[n] = TRUE, !.pkt[n] = NoPkt]
<1>1. u \in WindowType /\ u.start = w.start
  BY DEF WindowType
<1>2. \A i \in Seqs : u.pkt[i] # NoPkt => u.pkt[i] = w.pkt[i]
  BY DEF WindowType
<1>3. ASSUME NEW k \in 0 .. SeqSize
      PROVE  /\ Slide(u, k) \in WindowType
             /\ Slide(u, k).start \in Seqs
             /\ Slide(u, k).pkt = u.pkt
  <2> HIDE DEF u
  <2>1. u.start + k \in Int /\ u.end + k \in Int /\ u.unacked - k \in Int
    BY <1>1, Constants DEF WindowType, Seqs
  <2>2. (u.start + k) % SeqSize \in Seqs /\ (u.end + k) % SeqSize \in Seqs
    BY <2>1, ModSeq
  <2>3. Seqs \subseteq 0 .. SeqSize
    BY Constants DEF Seqs
  <2>4. [i \in Seqs |-> u.ack[i] /\ i \notin ResetBySlide(u, k)] \in [Seqs -> BOOLEAN]
    OBVIOUS
  <2> QED BY <1>1, <2>1, <2>2, <2>3, <2>4 DEF Slide, WindowType
<1>4. v = w \/ v = u \/ \E k \in 0 .. SeqSize : v = Slide(u, k)
  BY DEF AckPacket, MoveWindow
<1> QED BY <1>1, <1>2, <1>3, <1>4

\* checkTimeout looks at sequence numbers.
LEMMA ScanInSeqs ==
  ASSUME NEW h \in Seqs, NEW l \in Seqs
  PROVE  (IF h < l THEN h .. l - 1 ELSE (h .. SeqSize - 1) \cup (0 .. l)) \subseteq Seqs
  BY Constants DEF Seqs

\* What checktimeout resends is stored in the window.
LEMMA ResentTypes ==
  ASSUME NEW w \in WindowType
  PROVE  Resent(w) \subseteq {w.pkt[n] : n \in Seqs} /\ Resent(w) \subseteq Packet
<1>1. \A n \in Resendable(w) : n \in Seqs
  BY Constants DEF Resendable, WindowType, Seqs
<1> QED BY <1>1 DEF Resent, Resendable, WindowType

\* moveToNext's loop visits marked slots only.
LEMMA MovesMarked ==
  ASSUME head \in Seqs, NEW a \in [Seqs -> BOOLEAN], NEW k \in 0 .. SeqSize, Moves(a, k)
  PROVE  \A j \in 1 .. k : (head + j - 1) % SeqSize \in Seqs /\ a[(head + j - 1) % SeqSize]
<1> SUFFICES ASSUME NEW j \in 1 .. k
             PROVE  (head + j - 1) % SeqSize \in Seqs /\ a[(head + j - 1) % SeqSize]
  OBVIOUS
<1>1. head \in Int /\ j - 1 \in 0 .. k - 1 /\ head + j - 1 = head + (j - 1)
  BY Constants DEF Seqs
<1>2. a[(head + (j - 1)) % SeqSize]
  BY <1>1 DEF Moves
<1> QED BY <1>1, <1>2, ModSeq

-----------------------------------------------------------------------------
(* What is sent. *)

\* What the client would send is well formed.
WellFormed ==
  /\ SynPkt \in Packet
  /\ rcvWindowSize = Mrws => FinPkt \in Packet
  /\ lastSequence > 0 => FintPkt \in Packet
  /\ Fits => DataPkt \in Packet
  /\ \A n \in Seqs : AckPkts(n) \subseteq Packet
  /\ Overdue \subseteq Seqs /\ \A n \in Overdue : pktArray[n] \in Packet

\* What is overdue was sent and has not come back.
LEMMA OverdueIs == \A n \in Overdue : pktArray[n] # NoPkt /\ ~sendArray[n]
  BY DEF Overdue

\* The client's packets are well formed when their numbers are.
LEMMA ClientPackets == ClientTypeOK => WellFormed
<1> SUFFICES ASSUME ClientTypeOK PROVE WellFormed
  OBVIOUS
<1>1. 0 \in Seqs /\ Mrws \in Bytes /\ cli \in Nat /\ xfer \in Nat /\ transferred + 1 \in Nat
  BY Constants DEF ClientTypeOK, Seqs, Bytes
<1>2. lastSequence > 0 => lastSequence - 1 \in Seqs
  BY Constants DEF ClientTypeOK, Seqs
<1>3. \A n \in Overdue : n \in Seqs
  BY ScanInSeqs DEF ClientTypeOK, Overdue
<1> QED
  BY <1>1, <1>2, <1>3, DatagramType, PayloadTypes
  DEF WellFormed, ClientTypeOK, SynPkt, FinPkt, FintPkt, DataPkt, AckPkts, Fits, Overdue

\* The server's packets are well formed.
LEMMA ServerPackets ==
  ASSUME win \in WindowType, NEW m \in Packet
  PROVE  Reply(m) \subseteq Packet /\ Echo(m) \in Packet
<1>1. 0 \in Seqs /\ FreeByte \in Bytes
  BY Constants, WindowByteType DEF Seqs, FreeByte, GetFreeWindow, WindowType
<1>2. /\ m.cli \in Nat /\ m.seq \in Seqs /\ m.ack \in Seqs
      /\ m.data \in Payload
  BY DEF Packet
<1> QED BY <1>1, <1>2, DatagramType, PayloadTypes DEF Reply, Echo

-----------------------------------------------------------------------------
(* The client's steps. *)

\* The program starts with the right types, in the right phase.
LEMMA ClientBegins == ClientInit => ClientTypeInv
  BY Constants DEF ClientInit, ClientTypeInv, ClientTypeOK, PhaseInv, Ended, Seqs, Bytes, Unset, Empty

\* The steps that read nothing and send no data.
LEMMA QuietTypes ==
  ASSUME ClientTypeInv,
         \/ ClientStart \/ ConnectRetry \/ ConnectFail
         \/ \E L \in 0 .. MaxChunks : Transform(L)
         \/ SkipSend \/ RecvTimeout \/ GiveUp
         \/ FinishTransfer \/ FinishRetry
         \/ Disconnect \/ DisconnectRetry \/ Die
  PROVE  ClientTypeInv'
<1> USE DEF ClientTypeInv, ClientTypeOK, PhaseInv
<1>1. CASE ClientStart
  <2>1. cli' \in 0 .. MaxClients /\ 0 \in Seqs /\ 0 \in Bytes /\ Mrws \in Bytes
    BY <1>1, Constants DEF ClientStart, Seqs, Bytes
  <2> QED BY <1>1, <2>1 DEF ClientStart, fileVars, Ended, Unset, Empty, Bytes
<1>2. CASE ConnectRetry
  BY <1>2 DEF ConnectRetry, windowVars, arrayVars, sizeVars, fileVars
<1>3. CASE ConnectFail \/ Die \/ GiveUp
  BY <1>3 DEF ConnectFail, Die, GiveUp, windowVars, arrayVars, sizeVars, fileVars, Ended
<1>4. CASE \E L \in 0 .. MaxChunks : Transform(L)
  BY <1>4, Constants DEF Transform, windowVars, arrayVars, sizeVars
<1>5. CASE SkipSend \/ RecvTimeout
  BY <1>5 DEF SkipSend, RecvTimeout, windowVars, arrayVars, sizeVars, fileVars
<1>6. CASE FinishTransfer
  <2>1. lastSequence # 0 => lastSequence > 0
    BY DEF Seqs
  <2> QED BY <1>6, <2>1, Constants DEF FinishTransfer, windowVars, fileVars, Ended, Unset, Empty
<1>7. CASE FinishRetry \/ DisconnectRetry
  BY <1>7
  DEF FinishRetry, DisconnectRetry, clientVars, windowVars, arrayVars, sizeVars, fileVars
<1>8. CASE Disconnect
  BY <1>8 DEF Disconnect, windowVars, arrayVars, sizeVars, fileVars
<1> QED BY <1>1, <1>2, <1>3, <1>4, <1>5, <1>6, <1>7, <1>8

\* sendPkt.
LEMMA SendTypes == ASSUME ClientTypeInv, SendPkt PROVE ClientTypeInv'
<1> USE DEF ClientTypeInv
<1>1. CASE Fits
  <2>1. pktArray' \in [Seqs -> Packet \cup {NoPkt}]
    <3>1. /\ pktArray \in [Seqs -> Packet \cup {NoPkt}] /\ lastSequence \in Seqs
          /\ DataPkt \in Packet \cup {NoPkt}
      BY <1>1, ClientPackets DEF WellFormed, ClientTypeOK
    <3>2. Insert(pktArray, lastSequence, DataPkt) \in [Seqs -> Packet \cup {NoPkt}]
      BY <3>1, InsertType
    <3> QED BY <1>1, <3>2 DEF SendPkt
  <2>2. lastSequence' \in Seqs
    <3>1. lastSequence + 1 \in Int
      BY DEF ClientTypeOK, Seqs
    <3> QED BY <1>1, <3>1, ModSeq DEF SendPkt
  <2>3. transferred' \in 0 .. MaxChunks
    BY <1>1, Constants DEF SendPkt, MaySend, HasData, ClientTypeOK
  <2> QED BY <1>1, <2>1, <2>2, <2>3 DEF SendPkt, ClientTypeOK, PhaseInv, sizeVars
<1>2. CASE ~Fits
  BY <1>2 DEF SendPkt, ClientTypeOK, PhaseInv, sizeVars, Ended
<1> QED BY <1>1, <1>2

\* The steps that read a datagram, but for rcvMsg on a new echo.
LEMMA ReadTypes ==
  ASSUME ClientTypeInv, NEW m \in Packet,
         \/ ConnectReply(m) \/ RcvStray(m) \/ RcvDuplicate(m)
         \/ FinishReply(m) \/ DisconnectReply(m)
  PROVE  ClientTypeInv'
<1> USE DEF ClientTypeInv, ClientTypeOK, PhaseInv
<1>1. m.rcvw \in Bytes /\ m.rcvw \in Seqs BY ByteIsSeq DEF Packet
<1>2. CASE ConnectReply(m)
  BY <1>1, <1>2 DEF ConnectReply, arrayVars, fileVars
<1>3. CASE RcvStray(m) \/ RcvDuplicate(m)
  BY <1>1, <1>3 DEF RcvStray, RcvDuplicate, windowVars, arrayVars, fileVars
<1>4. CASE FinishReply(m) \/ DisconnectReply(m)
  BY <1>4
  DEF FinishReply, DisconnectReply, windowVars, arrayVars, sizeVars, fileVars, Ended
<1> QED BY <1>2, <1>3, <1>4

\* rcvMsg on a new echo.
LEMMA RcvNewTypes ==
  ASSUME ClientTypeInv, NEW m \in Packet, NEW k \in 0 .. SeqSize, RcvNew(m, k)
  PROVE  ClientTypeInv'
<1> DEFINE n       == pktArray[m.ack].seq
           arrived == [sendArray EXCEPT ![n] = TRUE]
           written == [j \in 1 .. k |-> rcvBuffer'[(head + j - 1) % SeqSize]]
<1> USE DEF ClientTypeInv
<1>1. m.ack \in Seqs /\ m.data \in Payload /\ m.rcvw \in Bytes
  BY DEF Packet
<1>2. n \in Seqs /\ arrived \in [Seqs -> BOOLEAN] /\ pc = "recv" /\ Moves(arrived, k)
  BY <1>1 DEF RcvNew, Answers, ClientTypeOK, Packet
<1>3. rcvBuffer' \in [Seqs -> Payload \cup {NoPkt}]
  BY <1>1, <1>2 DEF RcvNew, ClientTypeOK
<1>4. \A i \in Seqs : arrived[i] => rcvBuffer'[i] # NoPkt
  BY <1>1, <1>2, Constants DEF RcvNew, ClientTypeOK, PhaseInv
<1>5. out' \in Seq(Payload)
  <2>1. \A j \in 1 .. k : written[j] \in Payload
    BY <1>2, <1>3, <1>4, MovesMarked DEF ClientTypeOK
  <2>2. written \in Seq(Payload)
    BY <2>1
  <2>3. out' = out \o written
    BY DEF RcvNew
  <2> QED BY <2>2, <2>3 DEF ClientTypeOK
<1>6. /\ sendArray' \in [Seqs -> BOOLEAN]
      /\ \A i \in Seqs : sendArray'[i] => arrived[i]
  BY <1>2 DEF RcvNew
<1>7. head' \in Seqs /\ end' \in Seqs /\ rcvWindowSize' \in Int /\ received' \in Nat
  <2>1. head + k \in Int /\ end + k \in Int /\ rcvWindowSize - 1 + k \in Int
    BY Constants DEF ClientTypeOK, Seqs
  <2> QED BY <2>1, ModSeq DEF RcvNew, ClientTypeOK
<1>8. ClientTypeOK'
  BY <1>1, <1>3, <1>5, <1>6, <1>7 DEF RcvNew, ClientTypeOK, Ended
<1>9. PhaseInv'
  BY <1>4, <1>6 DEF RcvNew, PhaseInv
<1> QED BY <1>8, <1>9

-----------------------------------------------------------------------------
(* The server's steps. *)

\* One turn of the server: what becomes of its window.  Every packet it
\* stores was there before or has just been sent.
LEMMA TurnTypes ==
  ASSUME ServerTypeOK, NEW m \in Packet,
         \/ ConnRequest(m) \/ TransferData(m) \/ AckRecvd(m)
         \/ FinishOneTransfer(m) \/ ServerDisconnect(m) \/ Ignore(m)
  PROVE  /\ ServerTypeOK'
         /\ \A i \in Seqs : win'.pkt[i] # NoPkt =>
              \/ win'.pkt[i] = win.pkt[i] /\ win.pkt[i] # NoPkt
              \/ win'.pkt[i] \in Reply(m)
<1> USE DEF ServerTypeOK
<1>0. m \in Packet /\ m.seq \in Seqs /\ m.ack \in Seqs /\ win \in WindowType
      /\ connected \in BOOLEAN /\ heard \in BOOLEAN /\ Echo(m) \in Packet
  BY ServerPackets DEF Packet
<1> DEFINE Old == \A i \in Seqs : win'.pkt[i] # NoPkt =>
                    \/ win'.pkt[i] = win.pkt[i] /\ win.pkt[i] # NoPkt
                    \/ win'.pkt[i] \in Reply(m)
<1>1. CASE win' = win /\ connected' \in BOOLEAN /\ heard' \in BOOLEAN
  BY <1>0, <1>1
<1>2. CASE win' = NewWindow /\ connected' \in BOOLEAN /\ heard' \in BOOLEAN
  <2>1. \A i \in Seqs : NewWindow.pkt[i] = NoPkt
    BY DEF NewWindow
  <2> QED BY <1>2, <2>1, NewWindowType
<1>3. CASE TransferData(m)
  <2>1. CASE ChecksumOk(m)
    <3>1. win' = AddPacket(win, m.seq, Echo(m)) /\ Echo(m) \in Reply(m)
      BY <1>3, <2>1 DEF TransferData, Reply
    <3>2. /\ win' \in WindowType
          /\ win'.pkt = [win.pkt EXCEPT ![m.seq] = Echo(m)]
      BY <1>0, <3>1, AddPacketType
    <3>3. Old
      BY <1>0, <3>1, <3>2 DEF WindowType
    <3> QED BY <1>0, <1>3, <3>2, <3>3 DEF TransferData
  <2>2. CASE ~ChecksumOk(m)
    BY <1>0, <1>1, <1>3, <2>2 DEF TransferData
  <2> QED BY <2>1, <2>2
<1>4. CASE AckRecvd(m)
  <2>1. win' \in AckPacket(win, m.ack) /\ connected' \in BOOLEAN /\ heard' \in BOOLEAN
    BY <1>0, <1>4 DEF AckRecvd
  <2>2. win' \in WindowType /\ Old
    BY <1>0, <2>1, AckPacketType
  <2> QED BY <2>1, <2>2
<1>5. CASE FinishOneTransfer(m)
  <2>1. win' = PrepareNextTransfer(m.ack) /\ connected' \in BOOLEAN /\ heard' \in BOOLEAN
    BY <1>0, <1>5 DEF FinishOneTransfer
  <2>2. win' \in WindowType /\ win'.pkt = Empty
    BY <1>0, <2>1, PrepareNextTransferType
  <2> QED BY <2>1, <2>2 DEF Empty
<1>6. CASE ConnRequest(m) \/ Ignore(m)
  BY <1>0, <1>1, <1>6 DEF ConnRequest, Ignore, serverVars
<1>7. CASE ServerDisconnect(m)
  BY <1>2, <1>7 DEF ServerDisconnect, ClientGone
<1> QED BY <1>3, <1>4, <1>5, <1>6, <1>7

\* The socket timeout and the restart.
LEMMA TimeoutTypes ==
  ASSUME ServerTypeOK, ServerRestart \/ \E gap \in Silence : SocketTimeout(gap)
  PROVE  ServerTypeOK'
  BY NewWindowType DEF ServerRestart, SocketTimeout, ClientGone, ServerTypeOK, serverVars
=============================================================================
