-------------------------- MODULE RelDatEchoProofs --------------------------
(***************************************************************************)
(* What RelDat does when its numbers do not wrap: it implements FileEcho.  *)
(* Theorems for every value of the constants with NoWrap, the last of them *)
(* for one client process.                                                 *)
(*                                                                         *)
(* The argument.  The server announces at least one free slot whenever it  *)
(* answers, so that the client's window is never empty and ends short of   *)
(* the last sequence number.  In a transfer the echoes that have arrived   *)
(* are the packets marked in sendArray, received is how many they are, and *)
(* head is the first one missing; so when received reaches transferred     *)
(* nothing is missing, the window is open, and that nothing more is sent   *)
(* can only mean that all of the file was.                                 *)
(***************************************************************************)
EXTENDS RelDatProofs, FiniteSetTheorems

\* Every answer of the server announces room, and not more than its counter
\* may be out by.
Room == WinSize + MaxDrift

AnnounceInv ==
  /\ win.unacked >= -MaxDrift
  /\ \A m \in toClient : 0 < m.rcvw /\ m.rcvw <= Room

\* The process is connected; it is not in the middle of a transfer.
Connected == pc \in {"command", "send", "recv", "finwait", "diswait"}
Resting   == pc \in {"synwait", "command", "finwait", "diswait"}

\* The sequence numbers of one process are those of its packets: each
\* transfer uses at most MaxChunks.
SpentInv ==
  /\ Resting => lastSequence <= xfer * MaxChunks
  /\ Copying => lastSequence <= (xfer - 1) * MaxChunks + transferred
  /\ Copying => xfer > 0

\* The client's window is open, and not further than the server allows.
OpenInv ==
  Connected =>
    /\ head < end /\ end <= head + Room /\ lastSequence <= end
    /\ serverRcvSize > 0

\* Head is the first packet whose echo has not arrived; between transfers
\* all have.
Got == {n \in Seqs : sendArray[n]}

ReadInv ==
  /\ ~sendArray[head]
  /\ Resting => head = lastSequence
  /\ pc = "synwait" => lastSequence = 0
  /\ Copying =>
       /\ base <= head
       /\ \A n \in Seqs : base <= n /\ n < head => sendArray[n]
       /\ received = Cardinality(Got)
       /\ rcvWindowSize = Mrws - received + (head - base)

ClientInv == SpentInv /\ OpenInv /\ ReadInv /\ Downloaded

\* An acknowledgement is of an echo that has arrived, and so is what the
\* server has marked; FINT is sent when all have.
Arrived(n) == n < head \/ sendArray[n]

BehindInv ==
  /\ cli = 0 => pc = "down" /\ win = NewWindow /\ toServer = {}
  /\ \A m \in toServer : /\ m.flags = {"ACK"} => Arrived(m.ack)
                         /\ m.flags = {"ACK", "SYN", "FIN"} => m.ack < head
  /\ \A n \in Seqs : win.ack[n] => Arrived(n)
  /\ ServerNeverAhead

-----------------------------------------------------------------------------
(* What the server announces. *)

\* What NoWrap says of the constants, with the numbers they are.
LEMMA NoWrapFacts ==
  ASSUME NoWrap
  PROVE  /\ MaxTransfers * MaxChunks \in Nat /\ Room \in Nat /\ 0 < Room
         /\ MaxTransfers * MaxChunks + Room < SeqSize /\ Room < ByteSize
         /\ MaxDrift \in Nat
<1>1. MaxDrift \in Nat BY RelDatAssumption
<1>2. MaxTransfers * MaxChunks \in Nat BY Constants
<1> DEFINE r == MaxTransfers * MaxChunks
<1> HIDE DEF r
<1>3. r \in Nat /\ r + WinSize + MaxDrift < SeqSize /\ WinSize + MaxDrift < ByteSize
  BY <1>2 DEF NoWrap, r
<1>4. Room \in Nat /\ 0 < Room /\ r + Room < SeqSize /\ Room < ByteSize
  BY <1>1, <1>3, Constants DEF Room
<1> QED BY <1>1, <1>2, <1>4 DEF r

\* The server answers only when its window is not full: whatever it answers
\* announces room.
LEMMA ReplyHasRoom ==
  ASSUME NoWrap, TypeOK, win.unacked >= -MaxDrift, NEW m, NEW r \in Reply(m)
  PROVE  0 < r.rcvw /\ r.rcvw <= Room
<1>1. Accepts(m) /\ FindState(m) # "AckRecvd" /\ r.rcvw = FreeByte
  BY DEF Reply, Datagram, Echo
<1>2. win.unacked \in Int /\ win.unacked < WinSize
  BY <1>1, Constants DEF Accepts, IsFull, TypeOK, ServerTypeOK, WindowType
<1>3. GetFreeWindow(win) \in 1 .. Room
  BY <1>2, Constants, NoWrapFacts DEF GetFreeWindow, Room
<1>4. \A a \in 1 .. Room : a % ByteSize = a
  BY Constants, NoWrapFacts
<1>5. FreeByte \in 1 .. Room
  BY <1>3, <1>4 DEF FreeByte, WindowByte
<1> QED BY <1>1, <1>5

\* Every step keeps what the server has announced.
LEMMA AnnounceStep ==
  ASSUME NoWrap, IInv, AnnounceInv, [Next]_vars
  PROVE  AnnounceInv'
<1>0. TypeOK BY DEF IInv, TypeInv
<1>1. ASSUME win' = win \/ win' = NewWindow, toClient' = toClient PROVE AnnounceInv'
  <2>1. NewWindow.unacked = 0 BY DEF NewWindow
  <2> QED BY <1>1, <2>1, NoWrapFacts DEF AnnounceInv
<1>2. ASSUME NEW m \in ServerInbox, ServerTurn(m) PROVE AnnounceInv'
  <2>1. \A r \in Reply(m) : 0 < r.rcvw /\ r.rcvw <= Room
    BY <1>0, ReplyHasRoom DEF AnnounceInv
  <2>2. win' \in WindowType
        /\ \A i \in Seqs : win'.pkt[i] # NoPkt => win'.pkt[i] \in toClient \cup Reply(m)
    BY <1>0, <1>2, HandleWindow DEF ServerTurn, IInv, ResendsAreOld
  <2>3. Resent(win') \subseteq toClient \cup Reply(m)
    <3>1. \A i \in Resendable(win') : i \in Seqs /\ win'.pkt[i] # NoPkt
      BY <2>2, Constants DEF Resendable, WindowType, Seqs
    <3> QED BY <2>2, <3>1 DEF Resent
  <2>4. toClient' = toClient \cup Reply(m)
    BY <1>2, <2>3 DEF ServerTurn, SendToClient
  <2> QED BY <1>2, <2>1, <2>4 DEF AnnounceInv, ServerTurn
<1>3. ASSUME NEW gap \in Silence, ServerTimeout(gap) PROVE AnnounceInv'
  <2>1. win \in WindowType
    BY <1>0 DEF TypeOK, ServerTypeOK
  <2>2. \A i \in Resendable(win) : i \in Seqs /\ win.pkt[i] # NoPkt
    BY <2>1, Constants DEF Resendable, WindowType, Seqs
  <2>3. Resent(win) \subseteq toClient
    BY <2>2 DEF Resent, IInv, ResendsAreOld
  <2> QED
    BY <1>1, <1>3, <2>3
    DEF ServerTimeout, SocketTimeout, ClientGone, SendToClient, serverVars
<1>4. ASSUME ServerRestart, SendToClient({}) PROVE AnnounceInv'
  BY <1>1, <1>4 DEF ServerRestart, ClientGone, SendToClient
<1>5. CASE ServerNext BY <1>2, <1>3, <1>4, <1>5 DEF ServerNext
<1>6. CASE ClientNext BY <1>1, <1>6 DEF ClientNext, serverVars
<1>7. CASE UNCHANGED vars BY <1>1, <1>7 DEF vars, serverVars
<1> QED BY <1>5, <1>6, <1>7 DEF Next

-----------------------------------------------------------------------------
(* The client's numbers. *)

\* What the types say of the client's variables.
LEMMA ClientTypes ==
  ASSUME TypeOK
  PROVE  /\ head \in Seqs /\ end \in Seqs /\ lastSequence \in Seqs
         /\ head \in Nat /\ end \in Nat /\ lastSequence \in Nat
         /\ transferred \in Nat /\ received \in Nat /\ fileLen \in Nat
         /\ fileLen <= MaxChunks /\ rcvWindowSize \in Int /\ serverRcvSize \in Nat
         /\ xfer \in Nat /\ xfer <= MaxTransfers /\ base \in Int
         /\ lastSequence - base = transferred
         /\ sendArray \in [Seqs -> BOOLEAN] /\ out \in Seq(Payload) /\ Len(out) \in Nat
  BY Constants DEF TypeOK, ClientTypeOK, Seqs, Bytes, base

\* Multiplying by the packets of one file.
LEMMA Multiples ==
  ASSUME NEW x \in Nat
  PROVE  /\ x * MaxChunks \in Nat
         /\ (x - 1) * MaxChunks + MaxChunks = x * MaxChunks
         /\ (x - 1) * MaxChunks \in Int
         /\ x <= MaxTransfers => x * MaxChunks <= MaxTransfers * MaxChunks
<1>1. MaxChunks \in Nat /\ MaxTransfers \in Nat BY Constants
<1>2. \A c \in Nat : x * c \in Nat /\ (x - 1) * c + c = x * c /\ (x - 1) * c \in Int
  OBVIOUS
<1>3. ASSUME x <= MaxTransfers PROVE x * MaxChunks <= MaxTransfers * MaxChunks
  <2> DEFINE d == MaxTransfers - x
  <2>1. d \in Nat /\ MaxTransfers = x + d BY <1>1, <1>3
  <2>2. \A c \in Nat : d * c \in Nat /\ (x + d) * c = x * c + d * c BY <2>1
  <2> HIDE DEF d
  <2>3. MaxTransfers * MaxChunks = x * MaxChunks + d * MaxChunks /\ d * MaxChunks \in Nat
    BY <1>1, <2>1, <2>2
  <2> QED BY <1>1, <1>2, <2>3
<1> QED BY <1>1, <1>2, <1>3

\* The sequence numbers used stay short of the last one by the window.
LEMMA InReach ==
  ASSUME NoWrap, IInv, ClientInv, Resting \/ Copying
  PROVE  lastSequence + Room < SeqSize
<1>1. TypeOK /\ transferred <= fileLen BY DEF IInv, TypeInv, ArrayInv
<1> DEFINE a == xfer * MaxChunks
<1> DEFINE b == (xfer - 1) * MaxChunks
<1> DEFINE r == MaxTransfers * MaxChunks
<1>2. a \in Nat /\ b + MaxChunks = a /\ b \in Int /\ a <= r
  BY <1>1, ClientTypes, Multiples
<1>3. r \in Nat /\ Room \in Nat /\ r + Room < SeqSize BY NoWrapFacts
<1>4. lastSequence <= a \/ lastSequence <= b + transferred
  BY DEF ClientInv, SpentInv
<1> HIDE DEF a, b, r
<1>5. lastSequence <= a BY <1>1, <1>2, <1>4, ClientTypes, Constants
<1> QED BY <1>1, <1>2, <1>3, <1>5, ClientTypes, Constants

\* How many echoes have arrived is a number.
LEMMA GotFinite ==
  ASSUME TypeOK
  PROVE  IsFiniteSet(Got) /\ Cardinality(Got) \in Nat
<1>1. IsFiniteSet(Seqs) BY Constants, FS_Interval DEF Seqs
<1>2. Got \in SUBSET Seqs BY DEF Got
<1>3. IsFiniteSet(Got) BY <1>1, <1>2, FS_Subset
<1> QED BY <1>3, FS_CardinalityType

\* With no echo marked, none has arrived.
LEMMA GotNone == sendArray = Unset => Got = {} /\ Cardinality(Got) = 0
<1>1. sendArray = Unset => Got = {} BY DEF Got, Unset
<1> QED BY <1>1, FS_EmptySet

\* When as many echoes have arrived as packets were sent, none is missing.
LEMMA AllArrived ==
  ASSUME IInv, ReadInv, Copying, transferred <= received
  PROVE  head = lastSequence
<1>1. TypeOK /\ head <= lastSequence BY DEF IInv, TypeInv, HeadInv
<1> DEFINE sent == base .. lastSequence - 1
<1>2. IsFiniteSet(sent) /\ Cardinality(sent) = transferred
  <2> DEFINE top == lastSequence - 1
  <2>1. base \in Int /\ top \in Int /\ transferred \in Nat /\ top - base + 1 = transferred
    BY <1>1, ClientTypes
  <2> HIDE DEF top
  <2>2. /\ IsFiniteSet(base .. top)
        /\ Cardinality(base .. top) = IF base > top THEN 0 ELSE top - base + 1
    BY <2>1, FS_Interval
  <2>3. Cardinality(base .. top) = transferred
    BY <2>1, <2>2
  <2> QED BY <2>2, <2>3 DEF top
<1>3. Got \in SUBSET sent BY DEF Got, IInv, ArrayInv
<1> HIDE DEF sent
<1>4. Cardinality(Got) <= Cardinality(sent) BY <1>2, <1>3, FS_Subset
<1>5. Cardinality(Got) = Cardinality(sent)
  BY <1>1, <1>2, <1>4, GotFinite, ClientTypes DEF ReadInv
<1>6. Got = sent BY <1>2, <1>3, <1>5, FS_Subset
<1>7. ~(head < lastSequence)
  <2>1. head \notin Got BY DEF Got, ReadInv
  <2>2. head < lastSequence => head \in base .. lastSequence - 1
    BY <1>1, ClientTypes DEF ReadInv
  <2> QED BY <1>6, <2>1, <2>2 DEF sent
<1> QED BY <1>1, <1>7, ClientTypes

-----------------------------------------------------------------------------
(* The steps of the client. *)

\* What rcvMsg does with a new echo when nothing wraps: the head moves to the
\* first packet still missing, the end with it, and no mark is lost.
LEMMA NewEcho ==
  ASSUME NoWrap, IInv, ClientInv,
         NEW m \in ClientInbox, NEW k \in 0 .. SeqSize, RcvNew(m, k)
  PROVE  /\ m.ack \in Seqs /\ ~sendArray[m.ack] /\ pktArray[m.ack].seq = m.ack
         /\ m.ack \in base .. lastSequence - 1
         /\ head' = head + k /\ head + k <= lastSequence /\ end' = end + k
         /\ sendArray' = [sendArray EXCEPT ![m.ack] = TRUE]
         /\ \A n \in Seqs : head <= n /\ n < head + k => sendArray'[n]
         /\ ~sendArray'[head']
<1> DEFINE arrived == [sendArray EXCEPT ![m.ack] = TRUE]
<1>1. TypeOK /\ Copying /\ k \in Nat /\ head <= lastSequence
  BY Constants DEF RcvNew, Copying, IInv, TypeInv, HeadInv
<1>2. m.ack \in Seqs BY <1>1, Inboxes DEF Packet
<1>3. m.ack \in base .. lastSequence - 1 /\ pktArray[m.ack].seq = m.ack
  BY <1>1, <1>2 DEF RcvNew, Answers, IInv, ArrayInv
<1>4. /\ ~sendArray[m.ack] /\ Moves(arrived, k)
      /\ sendArray' = [i \in Seqs |-> arrived[i] /\ i \notin Cleared(k)]
      /\ head' = (head + k) % SeqSize /\ end' = (end + k) % SeqSize
  BY <1>3 DEF RcvNew
<1>5. arrived \in [Seqs -> BOOLEAN] BY <1>1, <1>2, ClientTypes
<1>6. \A i \in Seqs : arrived[i] => i < lastSequence
  BY <1>1, <1>2, <1>3, ClientTypes, Constants DEF IInv, ArrayInv, Seqs
<1>7. \A j \in 0 .. k - 1 : arrived[(head + j) % SeqSize]
  BY <1>4 DEF Moves
<1>8. ~arrived[(head + k) % SeqSize] \/ (head + k) % SeqSize \in Cleared(k)
  BY <1>4 DEF Moves
<1> HIDE DEF arrived
<1>9. head + k <= lastSequence
  <2> SUFFICES ASSUME ~(head + k <= lastSequence) PROVE FALSE
    OBVIOUS
  <2> DEFINE d == lastSequence - head
  <2>1. d \in 0 .. k - 1 /\ head + d = lastSequence
    BY <1>1, ClientTypes
  <2>2. (head + d) % SeqSize = lastSequence
    BY <1>1, <2>1, ModSeq, ClientTypes
  <2>3. arrived[lastSequence]
    BY <1>7, <2>1, <2>2
  <2> QED BY <1>1, <1>6, <2>3, ClientTypes
<1>10. /\ head < end /\ end <= head + Room /\ lastSequence <= end
       /\ lastSequence + Room < SeqSize /\ Room \in Nat
  BY <1>1, InReach, NoWrapFacts DEF ClientInv, OpenInv, Connected, Copying
<1>11. head' = head + k
  <2>1. head + k \in Seqs BY <1>1, <1>9, <1>10, ClientTypes, Constants DEF Seqs
  <2> QED BY <1>4, <2>1, ModSeq
<1>12. \A j \in 0 .. k : end + j \in Seqs
  <2> SUFFICES ASSUME NEW j \in 0 .. k PROVE end + j \in Seqs
    OBVIOUS
  <2>1. j \in Nat /\ j <= k /\ end \in Nat /\ head \in Nat /\ lastSequence \in Nat
    BY <1>1, ClientTypes
  <2>2. end + j \in Nat /\ end + j < SeqSize BY <1>1, <1>9, <1>10, <2>1, Constants
  <2> QED BY <2>2, Constants DEF Seqs
<1>13. end' = end + k BY <1>1, <1>4, <1>12, ModSeq
<1>14. \A n \in Cleared(k) : n > lastSequence
  <2> SUFFICES ASSUME NEW j \in 1 .. k PROVE (end + j) % SeqSize > lastSequence
    BY DEF Cleared
  <2>1. (end + j) % SeqSize = end + j BY <1>1, <1>12, ModSeq
  <2> QED BY <1>1, <1>10, <2>1, ClientTypes
<1>15. sendArray' = arrived
  <2>1. \A i \in Seqs : arrived[i] => i \notin Cleared(k)
    BY <1>1, <1>6, <1>14, ClientTypes DEF Seqs
  <2>2. \A i \in Seqs : sendArray'[i] = arrived[i] BY <1>4, <1>5, <2>1
  <2> QED BY <1>4, <1>5, <2>2
<1>16. ASSUME NEW n \in Seqs, head <= n, n < head + k PROVE arrived[n]
  <2> DEFINE j == n - head
  <2>1. j \in 0 .. k - 1 /\ head + j = n
    BY <1>1, <1>16, ClientTypes, Constants DEF Seqs
  <2> QED BY <1>7, <2>1, ModSeq
<1>17. ~sendArray'[head']
  <2>1. head + k \in Int BY <1>1, ClientTypes
  <2>2. head' \in Seqs BY <1>4, <2>1, ModSeq
  <2> QED BY <1>4, <1>8, <2>2
<1> QED BY <1>2, <1>3, <1>4, <1>9, <1>11, <1>13, <1>15, <1>16, <1>17 DEF arrived

\* rcvMsg on a new echo.
LEMMA NewEchoStep ==
  ASSUME NoWrap, IInv, AnnounceInv, ClientInv,
         NEW m \in ClientInbox, NEW k \in 0 .. SeqSize, RcvNew(m, k)
  PROVE  ClientInv'
<1>1. /\ TypeOK /\ Copying /\ Copying' /\ k \in Nat /\ pc' = "send"
      /\ UNCHANGED <<lastSequence, xfer, transferred, fileLen>>
      /\ received' = received + 1 /\ serverRcvSize' = m.rcvw
      /\ rcvWindowSize' = rcvWindowSize - 1 + k
  BY Constants DEF RcvNew, Copying, IInv, TypeInv
<1>2. /\ m.ack \in Seqs /\ ~sendArray[m.ack]
      /\ m.ack \in base .. lastSequence - 1
      /\ head' = head + k /\ head + k <= lastSequence /\ end' = end + k
      /\ sendArray' = [sendArray EXCEPT ![m.ack] = TRUE]
      /\ \A n \in Seqs : head <= n /\ n < head + k => sendArray'[n]
      /\ ~sendArray'[head']
  BY NewEcho
<1>3. base' = base BY <1>1 DEF base
<1>4. SpentInv' BY <1>1 DEF ClientInv, SpentInv, Resting, Copying
<1>5. 0 < m.rcvw
  <2>1. m \in toClient
    BY <1>1, Inboxes DEF RcvNew, Answers, IsEcho
  <2> QED BY <2>1 DEF AnnounceInv
<1>6. OpenInv'
  <2>1. head < end /\ end <= head + Room /\ lastSequence <= end
    BY <1>1 DEF ClientInv, OpenInv, Connected, Copying
  <2>2. head + k < end + k /\ end + k <= head + k + Room /\ lastSequence <= end + k
    <3>1. Room \in Int BY NoWrapFacts
    <3>2. head \in Int /\ end \in Int /\ lastSequence \in Int BY <1>1, ClientTypes
    <3> QED BY <1>1, <2>1, <3>1, <3>2
  <2> QED BY <1>1, <1>2, <1>5, <2>2 DEF OpenInv
<1>7. Cardinality(Got)' = Cardinality(Got) + 1
  <2>1. Got' = Got \cup {m.ack} /\ m.ack \notin Got
    BY <1>1, <1>2, ClientTypes DEF Got
  <2>2. Cardinality(Got \cup {m.ack}) = Cardinality(Got) + 1
    BY <1>1, <2>1, GotFinite, FS_AddElement
  <2> QED BY <2>1, <2>2
<1>8. \A n \in Seqs : base <= n /\ n < head + k => sendArray'[n]
  <2> SUFFICES ASSUME NEW n \in Seqs, base <= n, n < head + k PROVE sendArray'[n]
    OBVIOUS
  <2>1. CASE head <= n BY <1>2, <2>1
  <2>2. CASE n < head
    <3>1. sendArray[n] BY <1>1, <2>2 DEF ClientInv, ReadInv
    <3> QED BY <1>1, <1>2, <3>1, ClientTypes
  <2> QED BY <1>1, <2>1, <2>2, ClientTypes, Constants DEF Seqs
<1>9. ReadInv'
  <2>1. base <= head /\ received = Cardinality(Got)
        /\ rcvWindowSize = Mrws - received + (head - base)
    BY <1>1 DEF ClientInv, ReadInv
  <2>2. base <= head + k /\ received + 1 = Cardinality(Got)'
    BY <1>1, <1>7, <2>1, ClientTypes
  <2>3. rcvWindowSize - 1 + k = Mrws - (received + 1) + ((head + k) - base)
    <3>1. Mrws \in Int BY Constants
    <3>2. received \in Int /\ head \in Int /\ base \in Int BY <1>1, ClientTypes
    <3> QED BY <1>1, <2>1, <3>1, <3>2
  <2>4. ~Resting' /\ pc' # "synwait" BY <1>1 DEF Resting
  <2> QED BY <1>1, <1>2, <1>3, <1>8, <2>2, <2>3, <2>4 DEF ReadInv
<1>10. Downloaded' BY <1>1 DEF Downloaded
<1> QED BY <1>4, <1>6, <1>9, <1>10 DEF ClientInv

\* A step that changes neither the client's numbers nor its marks, and at
\* most the window the server has announced.
LEMMA QuietNumbers ==
  ASSUME ClientInv,
         UNCHANGED <<head, end, lastSequence, xfer, fileLen, transferred, received, out>>,
         UNCHANGED <<sendArray, rcvWindowSize>>,
         serverRcvSize' = serverRcvSize \/ serverRcvSize' > 0,
         Copying' => Copying, Resting' => Resting, Connected' => Connected,
         pc' = "synwait" => pc = "synwait", pc' = "finwait" => pc = "finwait"
  PROVE  ClientInv'
<1>1. base' = base /\ Got' = Got BY DEF base, Got
<1>2. SpentInv' BY DEF ClientInv, SpentInv
<1>3. OpenInv' BY DEF ClientInv, OpenInv
<1>4. ReadInv' BY <1>1 DEF ClientInv, ReadInv
<1>5. Downloaded' BY DEF ClientInv, Downloaded
<1> QED BY <1>2, <1>3, <1>4, <1>5 DEF ClientInv

\* A process starts with nothing sent and nothing read.
LEMMA StartNumbers ==
  ASSUME IInv, ClientStart
  PROVE  ClientInv'
<1>1. TypeOK /\ 0 \in Seqs BY Constants DEF IInv, TypeInv, Seqs
<1>2. /\ pc' = "synwait" /\ head' = 0 /\ lastSequence' = 0 /\ sendArray' = Unset
      /\ xfer' = xfer
  BY DEF ClientStart, fileVars
<1>3. 0 <= xfer * MaxChunks BY <1>1, ClientTypes, Multiples
<1>4. SpentInv' BY <1>2, <1>3 DEF SpentInv, Copying
<1>5. OpenInv' /\ Downloaded' BY <1>2 DEF OpenInv, Connected, Downloaded
<1>6. ReadInv' BY <1>1, <1>2 DEF ReadInv, Copying, Unset
<1> QED BY <1>4, <1>5, <1>6 DEF ClientInv

\* Whatever the client reads announces room, damaged or not.
LEMMA InboxHasRoom ==
  ASSUME IInv, AnnounceInv, NEW m \in ClientInbox
  PROVE  0 < m.rcvw /\ m.rcvw <= Room /\ m.rcvw \in Int
<1>1. \A x \in toClient : x \in Packet BY DEF IInv, TypeInv, TypeOK
<1>2. \A x \in toClient : Damage(x).rcvw = x.rcvw BY <1>1 DEF Damage, Packet
<1>3. PICK x \in toClient : m.rcvw = x.rcvw BY <1>2 DEF ClientInbox, Deliverable
<1>4. x.rcvw \in Int BY <1>1, Constants DEF Packet, Bytes
<1> QED BY <1>3, <1>4 DEF AnnounceInv

\* The answer to SYN opens the window.
LEMMA ConnectNumbers ==
  ASSUME NoWrap, IInv, AnnounceInv, ClientInv, NEW m \in ClientInbox, ConnectReply(m)
  PROVE  ClientInv'
<1>1. 0 < m.rcvw /\ m.rcvw <= Room /\ m.rcvw \in Int BY InboxHasRoom
<1>2. /\ pc = "synwait" /\ pc' = "command" /\ serverRcvSize' = m.rcvw /\ end' = m.rcvw
      /\ UNCHANGED <<head, lastSequence, sendArray, xfer>>
  BY DEF ConnectReply, arrayVars, fileVars
<1>3. lastSequence = 0 /\ head = 0 BY <1>2 DEF ClientInv, ReadInv, Resting
<1>4. SpentInv' BY <1>2 DEF ClientInv, SpentInv, Resting, Copying
<1>5. 0 + Room = Room BY NoWrapFacts
<1>6. OpenInv' BY <1>1, <1>2, <1>3, <1>5 DEF OpenInv
<1>7. ReadInv' BY <1>2 DEF ClientInv, ReadInv, Resting, Copying
<1>8. Downloaded' BY <1>2 DEF Downloaded
<1> QED BY <1>4, <1>6, <1>7, <1>8 DEF ClientInv

\* A transfer begins where the last one ended, with the window open.
LEMMA TransformNumbers ==
  ASSUME IInv, ClientInv, NEW L \in 0 .. MaxChunks, Transform(L)
  PROVE  ClientInv'
<1>1. /\ TypeOK /\ pc = "command" /\ pc' = "send" /\ xfer' = xfer + 1
      /\ transferred' = 0 /\ received' = 0
      /\ UNCHANGED <<head, end, lastSequence, sendArray, rcvWindowSize, serverRcvSize>>
  BY DEF IInv, TypeInv, Transform, windowVars, arrayVars, sizeVars
<1>2. sendArray = Unset /\ rcvWindowSize = Mrws
  BY <1>1 DEF IInv, TypeInv, PhaseInv
<1>3. lastSequence <= xfer * MaxChunks /\ head = lastSequence
  BY <1>1 DEF ClientInv, SpentInv, ReadInv, Resting
<1>4. SpentInv'
  <2> DEFINE a == xfer * MaxChunks
  <2>0. xfer \in Nat BY <1>1, ClientTypes
  <2>1. a \in Nat BY <2>0, Multiples
  <2>2. xfer' - 1 = xfer /\ xfer' > 0 BY <1>1, <2>0
  <2> HIDE DEF a
  <2>3. lastSequence <= a BY <1>3 DEF a
  <2>4. lastSequence' <= a + transferred' BY <1>1, <2>1, <2>3, ClientTypes
  <2>5. ~Resting' BY <1>1 DEF Resting
  <2> QED BY <2>2, <2>4, <2>5 DEF SpentInv, a
<1>5. OpenInv' BY <1>1 DEF ClientInv, OpenInv, Connected
<1>6. ReadInv'
  <2>1. base' = lastSequence BY <1>1, ClientTypes DEF base
  <2>2. Got' = Got /\ Cardinality(Got) = 0 BY <1>1, <1>2, GotNone DEF Got
  <2>3. Mrws = Mrws - 0 + (lastSequence - lastSequence) BY <1>1, ClientTypes, Constants
  <2>4. \A n \in Seqs : ~(lastSequence <= n /\ n < lastSequence)
    BY <1>1, ClientTypes, Constants DEF Seqs
  <2>5. ~sendArray[head] BY DEF ClientInv, ReadInv
  <2>6. ~Resting' /\ pc' # "synwait" /\ lastSequence <= lastSequence
    BY <1>1, ClientTypes DEF Resting
  <2> QED BY <1>1, <1>2, <1>3, <2>1, <2>2, <2>3, <2>4, <2>5, <2>6 DEF ReadInv
<1>7. Downloaded' BY <1>1 DEF Downloaded
<1> QED BY <1>4, <1>5, <1>6, <1>7 DEF ClientInv

\* A packet uses the next sequence number, which is still in the window.
LEMMA SendNumbers ==
  ASSUME IInv, ClientInv, SendPkt, Fits
  PROVE  ClientInv'
<1>1. /\ TypeOK /\ pc = "send" /\ pc' = "recv" /\ transferred' = transferred + 1
      /\ UNCHANGED <<head, end, sendArray, rcvWindowSize, serverRcvSize, xfer, received>>
      /\ lastSequence < end /\ lastSequence' = (lastSequence + 1) % SeqSize
  BY DEF IInv, TypeInv, SendPkt, MaySend, WindowFree, sizeVars
<1>2. lastSequence' = lastSequence + 1
  <2>1. lastSequence \in Seqs /\ end \in Seqs BY <1>1, ClientTypes
  <2>2. lastSequence + 1 \in Seqs BY <1>1, <2>1, Constants DEF Seqs
  <2> QED BY <1>1, <2>2, ModSeq
<1>3. base' = base /\ Got' = Got BY <1>1, <1>2, ClientTypes DEF base, Got
<1>4. SpentInv'
  <2> DEFINE b == (xfer - 1) * MaxChunks
  <2>1. b \in Int BY <1>1, ClientTypes, Multiples
  <2>2. lastSequence <= b + transferred /\ xfer > 0
    BY <1>1 DEF ClientInv, SpentInv, Copying
  <2> HIDE DEF b
  <2>3. lastSequence \in Int /\ transferred \in Int BY <1>1, ClientTypes
  <2>4. lastSequence + 1 <= b + (transferred + 1) BY <2>1, <2>2, <2>3
  <2> QED BY <1>1, <1>2, <2>2, <2>4 DEF SpentInv, Resting, b
<1>5. OpenInv' 
  <2>1. lastSequence + 1 <= end BY <1>1, ClientTypes
  <2> QED BY <1>1, <1>2, <2>1 DEF ClientInv, OpenInv, Connected
<1>6. ReadInv'
  <2>1. ~Resting' /\ pc' # "synwait" /\ Copying BY <1>1 DEF Resting, Copying
  <2> QED BY <1>1, <1>3, <2>1 DEF ClientInv, ReadInv
<1>7. Downloaded' BY <1>1 DEF Downloaded
<1> QED BY <1>4, <1>5, <1>6, <1>7 DEF ClientInv

\* finishTransfer is reached with all of the file written.
LEMMA FinishNumbers ==
  ASSUME IInv, ClientInv, FinishTransfer
  PROVE  ClientInv' /\ head = lastSequence /\ Len(out) = fileLen
<1>1. /\ TypeOK /\ pc = "send" /\ Copying /\ ~MaySend /\ transferred <= received
      /\ pc' \in {"crashed", "finwait"} /\ sendArray' = Unset
      /\ UNCHANGED <<head, end, lastSequence, serverRcvSize, xfer, fileLen, transferred, out>>
  BY DEF IInv, TypeInv, FinishTransfer, windowVars, fileVars, Copying
<1>2. head = lastSequence BY <1>1, AllArrived DEF ClientInv
<1>3. WindowFree /\ serverRcvSize > 0
  BY <1>1, <1>2 DEF ClientInv, OpenInv, Connected, WindowFree
<1>4. transferred = fileLen
  BY <1>1, <1>3, ClientTypes DEF MaySend, HasData, IInv, ArrayInv
<1>5. Len(out) = fileLen
  <2>1. Len(out) = head - base
    BY <1>1 DEF IInv, HeadInv, ClientInv, ReadInv
  <2> QED BY <1>1, <1>2, <1>4, <2>1, ClientTypes
<1>6. SpentInv'
  <2> DEFINE a == xfer * MaxChunks
  <2> DEFINE b == (xfer - 1) * MaxChunks
  <2>1. a \in Nat /\ b \in Int /\ b + MaxChunks = a BY <1>1, ClientTypes, Multiples
  <2>2. lastSequence <= b + transferred /\ transferred <= MaxChunks
    BY <1>1, <1>4, ClientTypes DEF ClientInv, SpentInv
  <2> HIDE DEF a, b
  <2>3. lastSequence <= a BY <1>1, <2>1, <2>2, ClientTypes, Constants
  <2> QED BY <1>1, <2>3 DEF SpentInv, Copying, a
<1>7. OpenInv' BY <1>1 DEF ClientInv, OpenInv, Connected
<1>8. ReadInv'
  <2>1. head \in Seqs BY <1>1, ClientTypes
  <2> QED BY <1>1, <1>2, <2>1 DEF ReadInv, Copying, Unset
<1>9. Downloaded' BY <1>1, <1>5 DEF Downloaded
<1> QED BY <1>2, <1>5, <1>6, <1>7, <1>8, <1>9 DEF ClientInv

\* Every step keeps the client's numbers.
LEMMA NumbersStep ==
  ASSUME NoWrap, IInv, AnnounceInv, ClientInv, [Next]_vars
  PROVE  ClientInv'
<1> DEFINE Same == UNCHANGED <<windowVars, arrayVars, sizeVars, fileVars>>
<1>1. ASSUME Same, pc' = pc \/ pc' \in Ended PROVE ClientInv'
  BY <1>1, QuietNumbers
  DEF windowVars, arrayVars, sizeVars, fileVars, Ended, Copying, Resting, Connected
<1>2. \A m \in ClientInbox : m.rcvw > 0
  <2>1. \A m \in ClientInbox : 0 < m.rcvw /\ m.rcvw \in Int BY InboxHasRoom
  <2> QED BY <2>1
<1>3. CASE Connecting
  BY <1>1, <1>3, StartNumbers, ConnectNumbers
  DEF Connecting, ConnectRetry, ConnectFail, Ended
<1>4. CASE Sending
  <2>1. CASE SendPkt /\ ~Fits
    BY <2>1, QuietNumbers DEF SendPkt, sizeVars, Copying, Resting, Connected
  <2>2. CASE SkipSend
    BY <2>2, QuietNumbers
    DEF SkipSend, windowVars, arrayVars, sizeVars, fileVars, Copying, Resting, Connected
  <2> QED BY <1>4, <2>1, <2>2, TransformNumbers, SendNumbers DEF Sending
<1>5. CASE Receiving
  <2>1. ASSUME NEW m \in ClientInbox, RcvStray(m) \/ RcvDuplicate(m) PROVE ClientInv'
    BY <1>2, <2>1, QuietNumbers
    DEF RcvStray, RcvDuplicate, windowVars, arrayVars, fileVars, Copying, Resting, Connected
  <2>2. CASE RecvTimeout
    BY <2>2, QuietNumbers
    DEF RecvTimeout, windowVars, arrayVars, sizeVars, fileVars, Copying, Resting, Connected
  <2>3. CASE GiveUp BY <1>1, <2>3 DEF GiveUp, Ended
  <2> QED BY <1>5, <2>1, <2>2, <2>3, NewEchoStep DEF Receiving
<1>6. ASSUME Same, pc \in {"finwait", "command"}, pc' \in {"command", "diswait"}
      PROVE  ClientInv'
  BY <1>6, QuietNumbers
  DEF windowVars, arrayVars, sizeVars, fileVars, Copying, Resting, Connected
<1>7. CASE Finishing
  BY <1>1, <1>6, <1>7, FinishNumbers DEF Finishing, FinishRetry, FinishReply, clientVars
<1>8. CASE Closing
  BY <1>1, <1>6, <1>8
  DEF Closing, Disconnect, DisconnectRetry, DisconnectReply, Die, Ended, clientVars
<1>9. CASE ServerNext BY <1>1, <1>9 DEF ServerNext, clientVars
<1>10. CASE UNCHANGED vars BY <1>1, <1>10 DEF vars, clientVars
<1> QED BY <1>3, <1>4, <1>5, <1>7, <1>8, <1>9, <1>10 DEF Next, ClientNext

\* At the start nothing has been announced, sent or read.
LEMMA NumbersInit == NoWrap /\ Init => AnnounceInv /\ ClientInv
<1> SUFFICES ASSUME NoWrap, Init PROVE AnnounceInv /\ ClientInv
  OBVIOUS
<1>1. AnnounceInv
  BY NoWrapFacts DEF Init, ServerInit, NewWindow, AnnounceInv
<1>2. pc = "down" /\ head = 0 /\ sendArray = Unset /\ 0 \in Seqs
  BY Constants DEF Init, ClientInit, Seqs
<1>3. ClientInv
  BY <1>2
  DEF ClientInv, SpentInv, OpenInv, ReadInv, Downloaded, Resting, Copying, Connected, Unset
<1> QED BY <1>1, <1>3

\* Always, the client's numbers, if none wraps.
THEOREM NumbersInvariance ==
  ASSUME NoWrap
  PROVE  Spec => [](AnnounceInv /\ ClientInv)
<1>1. Init => AnnounceInv /\ ClientInv BY NumbersInit
<1>2. IInv /\ (AnnounceInv /\ ClientInv) /\ [Next]_vars => (AnnounceInv /\ ClientInv)'
  BY AnnounceStep, NumbersStep
<1> QED BY <1>1, <1>2, Invariance, PTL DEF Spec

\* When finishTransfer says that the file is downloaded, all of it has been
\* sent, echoed and written, if no number wraps: the test transferred <=
\* received, which also holds of a transfer that merely cannot go on, is
\* then right.
THEOREM DownloadedWhole ==
  ASSUME NoWrap
  PROVE  Spec => []Downloaded
<1>1. ClientInv => Downloaded BY DEF ClientInv
<1> QED BY <1>1, NumbersInvariance, PTL

\* The client is never told that the server has no room.
THEOREM RoomAlways ==
  ASSUME NoWrap
  PROVE  Spec => []AnnouncesRoom
<1>1. IInv /\ AnnounceInv => AnnouncesRoom
  <2> SUFFICES ASSUME IInv, AnnounceInv, NEW m \in toClient PROVE m.rcvw > 0
    BY DEF AnnouncesRoom
  <2>1. m.rcvw \in Int BY Constants DEF IInv, TypeInv, TypeOK, Packet, Bytes
  <2> QED BY <2>1 DEF AnnounceInv
<1> QED BY <1>1, Invariance, NumbersInvariance, PTL

\* Echoes held back because an earlier one is missing are those of Got from
\* the head on.
LEMMA HeldBack ==
  ASSUME IInv, ClientInv, Copying
  PROVE  Cardinality({n \in head .. SeqSize - 1 : sendArray[n]}) = received - (head - base)
<1>1. /\ TypeOK /\ base <= head /\ received = Cardinality(Got)
      /\ \A n \in Seqs : base <= n /\ n < head => sendArray[n]
  BY DEF IInv, TypeInv, ClientInv, ReadInv
<1> DEFINE held == {n \in head .. SeqSize - 1 : sendArray[n]}
<1> DEFINE top == head - 1
<1> DEFINE read == base .. top
<1>2. 0 <= base
  BY <1>1, ClientTypes DEF base, IInv, ArrayInv
<1>3. base \in Int /\ top \in Int /\ head \in Nat /\ head < SeqSize
  BY <1>1, ClientTypes, Constants DEF Seqs
<1>4. read \subseteq Got
  BY <1>1, <1>2, <1>3, Constants DEF Got, Seqs
<1>5. held \subseteq Got
  BY <1>3, Constants DEF Got, Seqs
<1>6. Got \subseteq read \cup held
  <2> SUFFICES ASSUME NEW n \in Seqs, sendArray[n] PROVE n \in read \cup held
    BY DEF Got
  <2>1. base <= n BY <1>3 DEF IInv, ArrayInv
  <2> QED BY <1>3, <2>1, Constants DEF Seqs
<1>7. read \cap held = {} BY <1>3
<1>8. IsFiniteSet(read) /\ IsFiniteSet(held)
  BY <1>1, <1>4, <1>5, GotFinite, FS_Subset
<1>9. Cardinality(read) = head - base
  <2> HIDE DEF top
  <2>1. Cardinality(base .. top) = IF base > top THEN 0 ELSE top - base + 1
    BY <1>3, FS_Interval
  <2>2. top - base + 1 = head - base BY <1>3 DEF top
  <2>3. base > top => head - base = 0 BY <1>1, <1>3 DEF top
  <2> QED BY <2>1, <2>2, <2>3
<1> HIDE DEF read, held
<1>10. Got = read \cup held BY <1>4, <1>5, <1>6
<1>11. Cardinality(Got) = Cardinality(read) + Cardinality(held) - Cardinality(read \cap held)
  BY <1>8, <1>10, FS_Union
<1>12. Cardinality(read \cap held) = 0 BY <1>7, FS_EmptySet
<1>13. Cardinality(held) \in Nat BY <1>8, FS_CardinalityType
<1> QED BY <1>1, <1>3, <1>9, <1>11, <1>12, <1>13 DEF held

\* The window the client announces is what its command line says less the
\* echoes it holds back, in all its transfers.
THEOREM AnnouncesRight ==
  ASSUME NoWrap
  PROVE  Spec => []AnnouncesFreeBuffer
<1>1. IInv /\ ClientInv => AnnouncesFreeBuffer
  <2> SUFFICES ASSUME IInv, ClientInv, Copying
               PROVE  rcvWindowSize =
                        Mrws - Cardinality({n \in head .. SeqSize - 1 : sendArray[n]})
    BY DEF AnnouncesFreeBuffer, Copying
  <2>1. rcvWindowSize = Mrws - received + (head - base)
    BY DEF ClientInv, ReadInv
  <2>2. received \in Int /\ head \in Int /\ base \in Int /\ Mrws \in Int
    BY ClientTypes, Constants DEF IInv, TypeInv
  <2> QED BY <2>1, <2>2, HeldBack
<1> QED BY <1>1, Invariance, NumbersInvariance, PTL

-----------------------------------------------------------------------------
(* RelDat implements FileEcho: transform is Begin, an echo that closes a   *)
(* gap is Copy, finishTransfer is Complete, and every other step is        *)
(* Release or changes nothing that FileEcho speaks of.                     *)

\* The phase of FileEcho, as the refinement mapping has it.
Phase == CASE pc \in {"send", "recv"} -> "copying"
           [] pc = "finwait"          -> "done"
           [] OTHER                   -> "idle"

LEMMA PhaseValues ==
  /\ Copying => Phase = "copying"
  /\ pc = "finwait" => Phase = "done"
  /\ ~Copying /\ pc # "finwait" => Phase = "idle"
  BY DEF Phase, Copying

\* The primed phase, in the same way.
LEMMA NextPhaseValues ==
  /\ Copying' => Phase' = "copying"
  /\ pc' = "finwait" => Phase' = "done"
  /\ ~Copying' /\ pc' # "finwait" => Phase' = "idle"
  BY DEF Phase, Copying

\* Steps that leave the files alone and do not enter a transfer or complete
\* one.
LEMMA Releases ==
  ASSUME UNCHANGED <<xfer, fileLen, out>>,
         \/ Copying /\ Copying'
         \/ pc = "finwait" /\ pc' = "finwait"
         \/ ~Copying' /\ pc' # "finwait"
  PROVE  [Echoes!Next]_(Echoes!vars)
<1>1. CASE ~Copying' /\ pc' # "finwait"
  <2>1. Phase' = "idle" BY <1>1, NextPhaseValues
  <2>2. Echoes!Release BY <2>1 DEF Echoes!Release, Phase
  <2> QED BY <2>2 DEF Echoes!Next
<1>2. CASE Phase' = Phase
  BY <1>2 DEF Echoes!vars, Phase
<1> QED BY <1>1, <1>2, PhaseValues, NextPhaseValues

\* A new echo writes the next k packets of the file, or none.
LEMMA EchoCopies ==
  ASSUME IInv, IInv', NEW m \in ClientInbox, NEW k \in 0 .. SeqSize, RcvNew(m, k)
  PROVE  [Echoes!Next]_(Echoes!vars)
<1> DEFINE written == [j \in 1 .. k |-> rcvBuffer'[(head + j - 1) % SeqSize]]
<1> DEFINE next == [j \in 1 .. k |-> ToUpperCase(Chunk(xfer, Len(out) + j))]
<1>1. /\ TypeOK /\ TypeOK' /\ Copying /\ Copying' /\ k \in Nat
      /\ xfer' = xfer /\ fileLen' = fileLen /\ out' = out \o written
  BY Constants DEF RcvNew, Copying, IInv, TypeInv
<1>2. Len(out) \in Nat /\ out \in Seq(Payload) /\ out' \in Seq(Payload)
  BY <1>1, ClientTypes DEF TypeOK, ClientTypeOK
<1> HIDE DEF written
<1>3. Len(written) = k
  BY <1>1 DEF written
<1>4. Len(out') = Len(out) + k /\ \A j \in 1 .. k : out'[Len(out) + j] = written[j]
  <2>1. written = [j \in 1 .. k |-> written[j]] BY DEF written
  <2>2. written \in Seq({written[j] : j \in 1 .. k})
    BY <1>1, <2>1
  <2> DEFINE S == Payload \cup {written[j] : j \in 1 .. k}
  <2>3. out \in Seq(S) /\ written \in Seq(S)
    BY <1>2, <2>1, <2>2, <1>3
  <2>4. ASSUME NEW s \in Seq(S), NEW t \in Seq(S)
        PROVE  /\ Len(s \o t) = Len(s) + Len(t)
               /\ \A j \in 1 .. Len(t) : (s \o t)[Len(s) + j] = t[j]
    OBVIOUS
  <2> QED BY <1>1, <1>3, <2>3, <2>4
<1>5. Len(out) + k <= fileLen
  BY <1>1, <1>4 DEF IInv, OutIsPrefix
<1>6. \A j \in 1 .. k : written[j] = ToUpperCase(Chunk(xfer, Len(out) + j))
  <2> SUFFICES ASSUME NEW j \in 1 .. k
               PROVE  written[j] = ToUpperCase(Chunk(xfer, Len(out) + j))
    OBVIOUS
  <2>1. Len(out) + j \in 1 .. Len(out') BY <1>1, <1>2, <1>4
  <2>2. out'[Len(out) + j] = ToUpperCase(Chunk(xfer, Len(out) + j))
    BY <1>1, <2>1 DEF IInv, OutIsPrefix
  <2> QED BY <1>4, <2>2
<1>7. written = next BY <1>6 DEF written
<1>8. CASE k = 0
  <2>1. out' = out
    <3>1. \A s \in Seq(Payload) : s \o <<>> = s OBVIOUS
    <3>2. written = <<>> BY <1>8 DEF written
    <3> QED BY <1>1, <1>2, <3>1, <3>2
  <2> QED BY <1>1, <2>1, Releases
<1>9. CASE k > 0
  <2>1. k \in 1 .. MaxChunks
    BY <1>1, <1>2, <1>5, <1>9, ClientTypes, Constants
  <2>2. Phase = "copying" /\ Phase' = "copying"
    BY <1>1, PhaseValues, NextPhaseValues
  <2>3. out' = out \o [j \in 1 .. k |-> Echoes!ToUpperCase(Echoes!Chunk(xfer, Len(out) + j))]
    BY <1>1, <1>7 DEF Echoes!ToUpperCase, Echoes!Chunk, ToUpperCase, Chunk
  <2>4. UNCHANGED <<Phase, xfer, fileLen>>
    BY <1>1, <2>2
  <2>5. Echoes!Copy(k)
    BY <1>5, <2>2, <2>3, <2>4, Zenon DEF Echoes!Copy, Phase
  <2> QED BY <2>1, <2>5 DEF Echoes!Next
<1> QED BY <1>1, <1>8, <1>9

\* Every step of RelDat is a step of FileEcho, or none.
LEMMA EchoStep ==
  ASSUME IInv, IInv', ClientInv, [Next]_vars
  PROVE  [Echoes!Next]_(Echoes!vars)
<1>1. ASSUME NEW L \in 0 .. MaxChunks, Transform(L) PROVE [Echoes!Next]_(Echoes!vars)
  <2>1. /\ pc = "command" /\ Copying' /\ xfer < MaxTransfers
        /\ xfer' = xfer + 1 /\ fileLen' = L /\ out' = <<>>
    BY <1>1 DEF Transform, Copying
  <2>2. Phase = "idle" /\ Phase' = "copying"
    BY <2>1, PhaseValues, NextPhaseValues DEF Copying
  <2>3. Echoes!Begin(L)
    BY <2>1, <2>2, Zenon DEF Echoes!Begin, Phase
  <2> QED BY <2>3 DEF Echoes!Next
<1>2. ASSUME FinishTransfer PROVE [Echoes!Next]_(Echoes!vars)
  <2>1. /\ Copying /\ pc' \in {"crashed", "finwait"} /\ Len(out) = fileLen
        /\ UNCHANGED <<xfer, fileLen, out>>
    BY <1>2, FinishNumbers DEF FinishTransfer, fileVars, Copying
  <2>2. CASE pc' = "crashed" BY <2>1, <2>2, Releases DEF Copying
  <2>3. CASE pc' = "finwait"
    <3>1. Phase = "copying" /\ Phase' = "done"
      BY <2>1, <2>3, PhaseValues, NextPhaseValues
    <3>2. Echoes!Complete
      BY <2>1, <3>1, Zenon DEF Echoes!Complete, Phase
    <3> QED BY <3>2 DEF Echoes!Next
  <2> QED BY <2>1, <2>2, <2>3
<1>3. CASE Connecting
  BY <1>3, Releases
  DEF Connecting, ClientStart, ConnectRetry, ConnectFail, ConnectReply, fileVars, Copying
<1>4. CASE Sending
  <2>1. CASE SendPkt \/ SkipSend
    BY <2>1, Releases DEF SendPkt, SkipSend, fileVars, Copying
  <2> QED BY <1>1, <1>4, <2>1 DEF Sending
<1>5. CASE Receiving
  <2>1. ASSUME NEW m \in ClientInbox, RcvStray(m) \/ RcvDuplicate(m)
        PROVE  [Echoes!Next]_(Echoes!vars)
    BY <2>1, Releases DEF RcvStray, RcvDuplicate, fileVars, Copying
  <2>2. CASE RecvTimeout \/ GiveUp
    BY <2>2, Releases DEF RecvTimeout, GiveUp, fileVars, Copying
  <2> QED BY <1>5, <2>1, <2>2, EchoCopies DEF Receiving
<1>6. CASE Finishing
  <2>1. CASE FinishRetry
    BY <2>1, Releases DEF FinishRetry, clientVars, fileVars, Copying
  <2>2. ASSUME NEW m \in ClientInbox, FinishReply(m) PROVE [Echoes!Next]_(Echoes!vars)
    BY <2>2, Releases DEF FinishReply, fileVars, Copying
  <2> QED BY <1>2, <1>6, <2>1, <2>2 DEF Finishing
<1>7. CASE Closing
  BY <1>7, Releases
  DEF Closing, Disconnect, DisconnectRetry, DisconnectReply, Die, clientVars, fileVars, Copying
<1>8. CASE UNCHANGED clientVars
  BY <1>8, Releases DEF clientVars, fileVars, Copying
<1> QED
  BY <1>3, <1>4, <1>5, <1>6, <1>7, <1>8 DEF Next, ClientNext, ServerNext, vars

\* If no number wraps, RelDat implements FileEcho, whatever the network does
\* and whoever is killed: transform copies the file upper-cased, packet by
\* packet and in order, and says that it is downloaded only when all of it
\* is.
THEOREM Refinement ==
  ASSUME NoWrap
  PROVE  Spec => ImplementsFileEcho
<1>1. Init => Echoes!Init
  <2> SUFFICES ASSUME Init PROVE Echoes!Init
    OBVIOUS
  <2>1. pc = "down" /\ xfer = 0 /\ fileLen = 0 /\ out = <<>>
    BY DEF Init, ClientInit
  <2>2. Phase = "idle" BY <2>1, PhaseValues DEF Copying
  <2> QED BY <2>1, <2>2, Zenon DEF Echoes!Init, Phase
<1>2. IInv /\ IInv' /\ (AnnounceInv /\ ClientInv) /\ [Next]_vars => [Echoes!Next]_(Echoes!vars)
  BY EchoStep
<1> QED
  BY <1>1, <1>2, Invariance, NumbersInvariance, PTL DEF Spec, ImplementsFileEcho, Echoes!Spec

-----------------------------------------------------------------------------
(* The server does not give up an echo before the client has written it.   *)

\* A fresh window has no marks and starts at zero.
LEMMA FreshWindow ==
  ASSUME NEW n \in Seqs
  PROVE  /\ NewWindow.start = 0 /\ \A i \in Seqs : ~NewWindow.ack[i]
         /\ PrepareNextTransfer(n).start = n + 1
         /\ \A i \in Seqs : ~PrepareNextTransfer(n).ack[i]
<1>1. NewWindow.start = 0 /\ \A i \in Seqs : ~NewWindow.ack[i] BY DEF NewWindow
<1>2. /\ PrepareNextTransfer(n).start = n + 1
      /\ PrepareNextTransfer(n).ack = NewWindow.ack
  BY DEF PrepareNextTransfer, NewWindow
<1> QED BY <1>1, <1>2

\* addpacket sets no mark.
LEMMA AddPacketMarks ==
  ASSUME NEW w \in WindowType, NEW n \in Seqs, NEW p \in Packet
  PROVE  \A i \in Seqs : AddPacket(w, n, p).ack[i] => w.ack[i]
<1> DEFINE u == w.unacked + (IF InRange(w, n) THEN 1 ELSE 0)
                          - (IF w.pkt[n] # NoPkt THEN 1 ELSE 0)
           x == [w EXCEPT !.unacked = u]
<1>1. AddPacket(w, n, p) = [x EXCEPT !.ack[n] = FALSE, !.pkt[n] = p]
  BY DEF AddPacket
<1> HIDE DEF u
<1>2. x.ack = w.ack /\ w.ack \in [Seqs -> BOOLEAN] /\ DOMAIN x = DOMAIN w
  BY DEF WindowType
<1>3. AddPacket(w, n, p).ack = [w.ack EXCEPT ![n] = FALSE]
  BY <1>1, <1>2 DEF WindowType
<1> QED BY <1>2, <1>3

\* moveWindow stops at the first packet whose echo is not acknowledged, at
\* the latest at the first one whose echo has not arrived.
LEMMA AckStopsAtHead ==
  ASSUME IInv, ClientInv, BehindInv, NEW n \in Seqs, Arrived(n), NEW v \in AckPacket(win, n)
  PROVE  v.start <= head /\ \A i \in Seqs : v.ack[i] => Arrived(i)
<1> DEFINE u == [win EXCEPT !.ack[n] = TRUE, !.pkt[n] = NoPkt]
<1>1. /\ win \in WindowType /\ win.start \in Nat /\ win.start <= head
      /\ head \in Seqs /\ head \in Nat /\ head < SeqSize
      /\ \A i \in Seqs : win.ack[i] => Arrived(i)
  <2>1. TypeOK BY DEF IInv, TypeInv
  <2>2. head \in Seqs /\ head \in Nat /\ head < SeqSize
    BY <2>1, ClientTypes, Constants DEF Seqs
  <2>3. win \in WindowType /\ win.start \in Nat
    BY <2>1, Constants DEF TypeOK, ServerTypeOK, WindowType
  <2> QED BY <2>2, <2>3 DEF BehindInv, ServerNeverAhead
<1>2. u.start = win.start /\ \A i \in Seqs : u.ack[i] => Arrived(i)
  BY <1>1 DEF WindowType
<1>3. ~Arrived(head)
  BY <1>1 DEF Arrived, ClientInv, ReadInv
<1>4. v = win \/ v = u \/ \E k \in 0 .. SeqSize : SlidesBy(u, k) /\ v = Slide(u, k)
  BY DEF AckPacket, MoveWindow
<1> HIDE DEF u
<1>5. ASSUME NEW k \in 0 .. SeqSize, SlidesBy(u, k), v = Slide(u, k)
      PROVE  v.start <= head /\ \A i \in Seqs : v.ack[i] => Arrived(i)
  <2>1. \A j \in 0 .. k - 1 : u.ack[u.start + j]
    BY <1>5 DEF SlidesBy
  <2>2. win.start + k <= head
    <3> SUFFICES ASSUME ~(win.start + k <= head) PROVE FALSE
      OBVIOUS
    <3> DEFINE d == head - win.start
    <3>1. d \in 0 .. k - 1 /\ win.start + d = head
      BY <1>1, Constants
    <3> QED BY <1>1, <1>2, <1>3, <2>1, <3>1
  <2>3. win.start + k \in Seqs
    BY <1>1, <2>2, Constants DEF Seqs
  <2>4. \A i \in Seqs : Slide(u, k).ack[i] => u.ack[i]
    BY <1>1 DEF Slide, u, WindowType
  <2>5. Slide(u, k).start = (win.start + k) % SeqSize
    BY <1>1, <1>2 DEF Slide, u, WindowType
  <2> QED BY <1>2, <1>5, <2>2, <2>3, <2>4, <2>5, ModSeq
<1> QED BY <1>1, <1>2, <1>4, <1>5

\* The server's steps.
LEMMA ServerBehind ==
  ASSUME IInv, ClientInv, BehindInv, ServerNext
  PROVE  BehindInv'
<1>1. /\ TypeOK /\ win \in WindowType
      /\ UNCHANGED <<cli, pc, head, sendArray, toServer>>
  BY DEF IInv, TypeInv, TypeOK, ServerTypeOK, ServerNext, clientVars, windowVars, arrayVars
<1>2. \A n : Arrived(n)' = Arrived(n) BY <1>1 DEF Arrived
<1> DEFINE Kept == win'.start <= head /\ \A n \in Seqs : win'.ack[n] => Arrived(n)
<1>3. head \in Nat /\ 0 \in Seqs BY <1>1, ClientTypes, Constants DEF Seqs
<1>4. ASSUME win' = win \/ win' = NewWindow PROVE Kept
  BY <1>3, <1>4, FreshWindow DEF BehindInv, ServerNeverAhead
<1>5. ASSUME NEW m \in ServerInbox, ServerTurn(m) PROVE Kept /\ cli # 0
  <2>1. PICK o \in toServer : m.ack = o.ack /\ m.flags = o.flags BY <1>1, Inboxes
  <2>2. m \in Packet /\ m.ack \in Seqs /\ m.seq \in Seqs /\ Echo(m) \in Packet
    BY <1>1, Inboxes, ReplyTypes DEF Packet
  <2>3. cli # 0 BY <2>1 DEF BehindInv
  <2>4. CASE TransferData(m)
    <3>1. CASE ChecksumOk(m)
      <4>1. win' = AddPacket(win, m.seq, Echo(m)) BY <2>4, <3>1 DEF TransferData
      <4> QED
        BY <1>1, <2>2, <4>1, AddPacketType, AddPacketMarks DEF BehindInv, ServerNeverAhead
    <3>2. CASE ~ChecksumOk(m) BY <1>4, <2>3, <2>4, <3>2 DEF TransferData
    <3> QED BY <3>1, <3>2
  <2>5. CASE AckRecvd(m)
    <3>1. m.flags = {"ACK"} /\ win' \in AckPacket(win, m.ack)
      BY <2>5 DEF AckRecvd, FindState
    <3>2. Arrived(m.ack) BY <2>1, <3>1 DEF BehindInv
    <3> QED BY <2>2, <2>3, <3>1, <3>2, AckStopsAtHead
  <2>6. CASE FinishOneTransfer(m)
    <3>1. m.flags = {"ACK", "SYN", "FIN"} /\ win' = PrepareNextTransfer(m.ack)
      BY <2>6 DEF FinishOneTransfer, FindState
    <3>2. m.ack < head BY <2>1, <3>1 DEF BehindInv
    <3>3. m.ack + 1 <= head BY <1>3, <2>2, <3>2, Constants DEF Seqs
    <3> QED BY <2>2, <2>3, <3>1, <3>3, FreshWindow
  <2>7. CASE ConnRequest(m) \/ ServerDisconnect(m) \/ Ignore(m)
    BY <1>4, <2>3, <2>7 DEF ConnRequest, ServerDisconnect, ClientGone, Ignore, serverVars
  <2> QED BY <1>5, <2>3, <2>4, <2>5, <2>6, <2>7 DEF ServerTurn, Handle
<1>6. ASSUME NEW gap \in Silence, ServerTimeout(gap) PROVE win' = win \/ win' = NewWindow
  BY <1>6 DEF ServerTimeout, SocketTimeout, ClientGone, serverVars
<1>7. ASSUME ServerRestart PROVE win' = NewWindow
  BY <1>7 DEF ServerRestart, ClientGone
<1>8. Kept /\ (cli = 0 => win' = win \/ win' = NewWindow)
  BY <1>4, <1>5, <1>6, <1>7 DEF ServerNext
<1> QED BY <1>1, <1>2, <1>8 DEF BehindInv, ServerNeverAhead

\* What has arrived stays so within a process.
LEMMA ArrivedStays ==
  ASSUME NoWrap, IInv, ClientInv, ClientNext, cli' = cli
  PROVE  /\ head <= head'
         /\ \A n \in Seqs : Arrived(n) => Arrived(n)'
<1>0. TypeOK /\ head \in Nat BY ClientTypes DEF IInv, TypeInv
<1>1. CASE UNCHANGED <<head, sendArray>> BY <1>0, <1>1 DEF Arrived
<1>2. CASE FinishTransfer
  <2>1. head' = head /\ Copying /\ head = lastSequence
    BY <1>2, FinishNumbers DEF FinishTransfer, windowVars, Copying
  <2>2. \A n \in Seqs : sendArray[n] => n < lastSequence
    BY <1>0, <2>1, ClientTypes, Constants DEF IInv, ArrayInv, Seqs
  <2> QED BY <1>0, <2>1, <2>2 DEF Arrived
<1>3. ASSUME NEW m \in ClientInbox, NEW k \in 0 .. SeqSize, RcvNew(m, k)
      PROVE  head <= head' /\ \A n \in Seqs : Arrived(n) => Arrived(n)'
  <2>1. head' = head + k /\ sendArray' = [sendArray EXCEPT ![m.ack] = TRUE] /\ k \in Nat
    BY <1>3, NewEcho, Constants
  <2>2. \A n \in Seqs : n < head => n < head + k BY <1>0, <2>1, Constants DEF Seqs
  <2>3. \A n \in Seqs : sendArray[n] => sendArray'[n] BY <1>0, <2>1, ClientTypes
  <2> QED BY <1>0, <2>1, <2>2, <2>3 DEF Arrived
<1>4. ~ClientStart BY <1>0 DEF ClientStart, TypeOK, ClientTypeOK
<1>5. CASE Connecting
  BY <1>1, <1>4, <1>5
  DEF Connecting, ConnectRetry, ConnectFail, ConnectReply, windowVars, arrayVars
<1>6. CASE Sending
  BY <1>1, <1>6 DEF Sending, Transform, SendPkt, SkipSend, windowVars, arrayVars
<1>7. CASE Receiving
  BY <1>1, <1>3, <1>7
  DEF Receiving, RcvStray, RcvDuplicate, RecvTimeout, GiveUp, windowVars, arrayVars
<1>8. CASE Finishing
  BY <1>1, <1>2, <1>8
  DEF Finishing, FinishRetry, FinishReply, clientVars, windowVars, arrayVars
<1>9. CASE Closing
  BY <1>1, <1>9
  DEF Closing, Disconnect, DisconnectRetry, DisconnectReply, Die, clientVars, windowVars,
      arrayVars
<1> QED BY <1>5, <1>6, <1>7, <1>8, <1>9 DEF ClientNext

\* What a datagram says of what has arrived.
Truthful(m) ==
  /\ m.flags = {"ACK"} => Arrived(m.ack)
  /\ m.flags = {"ACK", "SYN", "FIN"} => m.ack < head

\* The client acknowledges what has arrived.
LEMMA SendsTruth ==
  ASSUME NoWrap, IInv, IInv', ClientInv, ClientNext, cli' = cli, NEW x \in toServer'
  PROVE  x \in toServer \/ Truthful(x)'
<1>0. TypeOK /\ TypeOK' /\ head \in Nat BY ClientTypes DEF IInv, TypeInv
<1> DEFINE New(s) == \A y \in s : Truthful(y)'
<1>1. \A f : f = {"SYN"} \/ f = {"FIN"} \/ f = {} =>
        f # {"ACK"} /\ f # {"ACK", "SYN", "FIN"}
  OBVIOUS
<1>2. New({SynPkt}) /\ New({FinPkt}) /\ New({DataPkt}) /\ New({})
  BY <1>1 DEF SynPkt, FinPkt, DataPkt, Datagram, Truthful
<1>3. ASSUME Copying \/ Copying', UNCHANGED <<pktArray, lastSequence>>
      PROVE  New(ResendOverdue) /\ New(ResendOverdue')
  <2>1. \A n \in Seqs : pktArray[n] # NoPkt => pktArray[n].flags = {}
    BY <1>3 DEF IInv, ArrayInv
  <2>2. \A n \in Overdue : n \in Seqs /\ pktArray[n] # NoPkt
    BY <1>0, ScanInSeqs DEF TypeOK, ClientTypeOK, Overdue
  <2>3. \A n \in Overdue' : n \in Seqs /\ pktArray[n] # NoPkt
    BY <1>0, <1>3, ScanInSeqs DEF TypeOK, ClientTypeOK, Overdue
  <2>4. \A y \in ResendOverdue \cup ResendOverdue' : y.flags = {}
    BY <1>3, <2>1, <2>2, <2>3 DEF ResendOverdue
  <2> QED BY <1>1, <2>4 DEF Truthful
<1>4. ASSUME FinishTransfer \/ FinishRetry
      PROVE  New({FintPkt}) /\ New(FintPkts)
  <2>1. head' = head /\ head = lastSequence
    BY <1>4, FinishNumbers
    DEF FinishTransfer, FinishRetry, clientVars, windowVars, ClientInv, ReadInv, Resting
  <2>2. FintPkt.flags = {"ACK", "SYN", "FIN"} /\ FintPkt.ack = lastSequence - 1
    BY DEF FintPkt, Datagram
  <2>3. lastSequence - 1 < lastSequence BY <1>0, ClientTypes
  <2>4. \A y \in {FintPkt} : Truthful(y)'
    BY <2>1, <2>2, <2>3 DEF Truthful
  <2>5. New(FintPkts) BY <2>4 DEF FintPkts
  <2> QED BY <2>4, <2>5
<1>5. ASSUME NEW m \in ClientInbox, RcvDuplicate(m) PROVE New(AckPkts(m.ack))
  <2>1. m.ack \in Seqs BY <1>0, Inboxes DEF Packet
  <2>2. sendArray[m.ack] /\ sendArray' = sendArray
    BY <1>5, <2>1 DEF RcvDuplicate, Answers, IInv, ArrayInv, Copying, arrayVars
  <2>3. \A y \in AckPkts(m.ack) : y.flags = {"ACK"} /\ y.ack = m.ack
    BY DEF AckPkts, Datagram
  <2> QED BY <2>2, <2>3 DEF Truthful, Arrived
<1>6. ASSUME NEW m \in ClientInbox, NEW k \in 0 .. SeqSize, RcvNew(m, k)
      PROVE  New(AckPkts(m.ack)')
  <2>1. m.ack \in Seqs /\ sendArray' = [sendArray EXCEPT ![m.ack] = TRUE]
    BY <1>6, NewEcho
  <2>2. sendArray'[m.ack] BY <1>0, <2>1, ClientTypes
  <2>3. \A y \in AckPkts(m.ack)' : y.flags = {"ACK"} /\ y.ack = m.ack
    BY DEF AckPkts, Datagram
  <2> QED BY <2>2, <2>3 DEF Truthful, Arrived
<1>7. ASSUME NEW s, SendToServer(s), New(s) PROVE x \in toServer \/ Truthful(x)'
  BY <1>7 DEF SendToServer
<1>8. \A s, t : New(s) /\ New(t) => New(s \cup t)
  OBVIOUS
<1> HIDE DEF New
<1>9. ~ClientStart BY <1>0 DEF ClientStart, TypeOK, ClientTypeOK
<1>10. CASE Connecting BY <1>2, <1>7, <1>9, <1>10 DEF Connecting
<1>11. CASE Sending
  <2>1. CASE SendPkt /\ SendToServer(IF Fits THEN {DataPkt} ELSE {})
    BY <1>2, <1>7, <2>1
  <2> QED BY <1>2, <1>7, <1>11, <2>1 DEF Sending
<1>12. CASE Receiving
  <2>1. Copying /\ UNCHANGED <<pktArray, lastSequence>>
    BY <1>12
    DEF Receiving, RcvStray, RcvDuplicate, RcvNew, RecvTimeout, GiveUp, windowVars, arrayVars,
        Copying
  <2>2. New(ResendOverdue) /\ New(ResendOverdue') BY <1>3, <2>1
  <2>3. ASSUME NEW m \in ClientInbox, RcvDuplicate(m),
               SendToServer(AckPkts(m.ack) \cup ResendOverdue')
        PROVE  x \in toServer \/ Truthful(x)'
    BY <1>5, <1>7, <1>8, <2>2, <2>3
  <2>4. ASSUME NEW m \in ClientInbox, NEW k \in 0 .. SeqSize, RcvNew(m, k),
               SendToServer(AckPkts(m.ack)' \cup ResendOverdue')
        PROVE  x \in toServer \/ Truthful(x)'
    BY <1>6, <1>7, <1>8, <2>2, <2>4
  <2> QED BY <1>2, <1>7, <1>12, <2>2, <2>3, <2>4 DEF Receiving
<1>13. CASE Finishing BY <1>2, <1>4, <1>7, <1>13 DEF Finishing
<1>14. CASE Closing BY <1>2, <1>7, <1>14 DEF Closing
<1> QED BY <1>10, <1>11, <1>12, <1>13, <1>14 DEF ClientNext

\* The client's steps.
LEMMA ClientBehind ==
  ASSUME NoWrap, MaxClients = 1, IInv, IInv', ClientInv, BehindInv, ClientNext
  PROVE  BehindInv'
<1>1. /\ TypeOK /\ TypeOK' /\ head \in Nat /\ head' \in Nat /\ win \in WindowType
      /\ win' = win /\ win.start \in Nat
  <2>1. TypeOK /\ TypeOK' /\ win' = win BY DEF IInv, TypeInv, ClientNext, serverVars
  <2>2. head \in Nat BY <2>1, ClientTypes
  <2>3. head' \in Nat BY <2>1, Constants DEF TypeOK, ClientTypeOK, Seqs
  <2>4. win \in WindowType /\ win.start \in Nat
    BY <2>1, Constants DEF TypeOK, ServerTypeOK, WindowType
  <2> QED BY <2>1, <2>2, <2>3, <2>4
<1>2. CASE cli' = cli
  <2>1. head <= head' /\ \A n \in Seqs : Arrived(n) => Arrived(n)'
    BY <1>2, ArrivedStays
  <2>2. \A x \in toServer : x.ack \in Seqs /\ x.ack \in Int
    BY <1>1, Constants DEF TypeOK, Packet, Seqs
  <2>3. \A x \in toServer : Truthful(x) BY DEF BehindInv, Truthful
  <2>4. \A x \in toServer : Truthful(x)'
    BY <1>1, <2>1, <2>2, <2>3 DEF Truthful
  <2>5. \A x \in toServer' : Truthful(x)' BY <1>2, <2>4, SendsTruth
  <2>6. cli # 0
    <3>1. cli = 0 => pc = "down" BY DEF BehindInv
    <3>2. ~ClientStart BY <1>1, <1>2 DEF ClientStart, TypeOK, ClientTypeOK
    <3>3. pc # "down"
      BY <3>2
      DEF ClientNext, Connecting, Sending, Receiving, Finishing, Closing, ConnectRetry,
          ConnectFail, ConnectReply, Transform, SendPkt, SkipSend, RcvStray, RcvDuplicate,
          RcvNew, RecvTimeout, GiveUp, FinishTransfer, FinishRetry, FinishReply, Disconnect,
          DisconnectRetry, DisconnectReply, Die, Ended
    <3> QED BY <3>1, <3>3
  <2>7. \A n \in Seqs : win.ack[n] => Arrived(n)' BY <2>1 DEF BehindInv
  <2>8. win.start <= head' BY <1>1, <2>1 DEF BehindInv, ServerNeverAhead
  <2> QED
    BY <1>1, <1>2, <2>5, <2>6, <2>7, <2>8 DEF BehindInv, Truthful, ServerNeverAhead
<1>3. CASE cli' # cli
  <2>1. ClientStart /\ SendToServer({SynPkt'})
    BY <1>3
    DEF ClientNext, Connecting, Sending, Receiving, Finishing, Closing, ConnectRetry,
        ConnectFail, ConnectReply, Transform, SendPkt, SkipSend, RcvStray, RcvDuplicate,
        RcvNew, RecvTimeout, GiveUp, FinishTransfer, FinishRetry, FinishReply, Disconnect,
        DisconnectRetry, DisconnectReply, Die, clientVars
  <2>2. cli = 0 /\ cli' # 0 /\ 0 \in Seqs
    BY <1>1, <2>1, Constants DEF ClientStart, TypeOK, ClientTypeOK, Seqs
  <2>3. toServer' = {SynPkt'} /\ SynPkt'.flags = {"SYN"}
    BY <2>1, <2>2 DEF BehindInv, SendToServer, SynPkt, Datagram
  <2>4. \A x \in toServer' : x.flags # {"ACK"} /\ x.flags # {"ACK", "SYN", "FIN"}
    BY <2>3
  <2>5. win.start = 0 /\ \A n \in Seqs : ~win.ack[n]
    BY <2>2, FreshWindow DEF BehindInv
  <2> QED BY <1>1, <2>2, <2>4, <2>5 DEF BehindInv, ServerNeverAhead
<1> QED BY <1>2, <1>3

\* While there is one client process, what the server resends is all that
\* the client may still need: it moves its window over an echo, and so
\* forgets it, only after the client has written that echo.
THEOREM NeverAhead ==
  ASSUME NoWrap, MaxClients = 1
  PROVE  Spec => []ServerNeverAhead
<1>1. Init => BehindInv
  <2> SUFFICES ASSUME Init PROVE BehindInv
    OBVIOUS
  <2>1. pc = "down" /\ win = NewWindow /\ toServer = {} /\ head = 0 /\ 0 \in Seqs
    BY Constants DEF Init, ClientInit, ServerInit, Seqs
  <2> QED BY <2>1, FreshWindow DEF BehindInv, ServerNeverAhead
<1>2. IInv /\ IInv' /\ (AnnounceInv /\ ClientInv) /\ BehindInv /\ [Next]_vars => BehindInv'
  <2> SUFFICES ASSUME IInv, IInv', ClientInv, BehindInv, [Next]_vars PROVE BehindInv'
    OBVIOUS
  <2>1. CASE UNCHANGED vars
    BY <2>1
    DEF vars, clientVars, serverVars, windowVars, arrayVars, BehindInv, Arrived,
        ServerNeverAhead
  <2> QED BY <2>1, ClientBehind, ServerBehind DEF Next
<1>3. BehindInv => ServerNeverAhead BY DEF BehindInv
<1> QED BY <1>1, <1>2, <1>3, Invariance, NumbersInvariance, PTL DEF Spec
=============================================================================
