-------------------------- MODULE RelDatFifoProofs --------------------------
(***************************************************************************)
(* Theorems about RelDatFifo, the two programs over a path that keeps the  *)
(* order of datagrams: the types, for every number of losses, and with one *)
(* loss at most (OneLoss) what Window.java's counter and start promise.    *)
(* IInv is the inductive invariant.  Its proof has one lemma per kind of   *)
(* step: the client's (connecting, commands, sending, reading, finishing), *)
(* the server's case by case of its switch, what is resent, and a loss on  *)
(* either way.                                                             *)
(***************************************************************************)
EXTENDS RelDatFifo, RelDatLemmas, FiniteSetTheorems

-----------------------------------------------------------------------------
(* Sequences. *)

\* A reply of at most one datagram, as a sequence.
LEMMA ReplyAsSequence ==
  /\ SetToSeq({}) = <<>>
  /\ \A x : SetToSeq({x}) = <<x>>
<1>1. SetToSeq({}) = <<>>
  <2>1. Cardinality({}) = 0 BY FS_EmptySet
  <2>2. <<>> \in [1 .. 0 -> {}] /\ \A f \in [1 .. 0 -> {}] : f = <<>>
    OBVIOUS
  <2>3. IsInjective(<<>>) BY DEF IsInjective
  <2> QED BY <2>1, <2>2, <2>3 DEF SetToSeq
<1>2. ASSUME NEW x PROVE SetToSeq({x}) = <<x>>
  <2>1. Cardinality({x}) = 1 BY FS_Singleton
  <2>2. [1 .. 1 -> {x}] = {<<x>>} OBVIOUS
  <2>3. IsInjective(<<x>>) BY DEF IsInjective
  <2> QED BY <2>1, <2>2, <2>3 DEF SetToSeq
<1> QED BY <1>1, <1>2

\* A datagram lost: the ones behind it move up.
LEMMA Removed ==
  ASSUME NEW T, NEW q \in Seq(T), NEW i \in DOMAIN q
  PROVE  /\ RemoveAt(q, i) \in Seq(T)
         /\ Len(RemoveAt(q, i)) = Len(q) - 1
         /\ \A j \in 1 .. Len(q) - 1 : RemoveAt(q, i)[j] = q[IF j < i THEN j ELSE j + 1]
<1> DEFINE a == SubSeq(q, 1, i - 1)
           b == SubSeq(q, i + 1, Len(q))
<1>1. a \in Seq(T) /\ Len(a) = i - 1 /\ \A j \in 1 .. i - 1 : a[j] = q[j]
  OBVIOUS
<1>2. b \in Seq(T) /\ Len(b) = Len(q) - i /\ \A j \in 1 .. Len(q) - i : b[j] = q[i + j]
  OBVIOUS
<1>3. RemoveAt(q, i) = a \o b BY DEF RemoveAt
<1> HIDE DEF a, b
<1>4. Len(q) \in Nat /\ i \in 1 .. Len(q) OBVIOUS
<1>5. /\ a \o b \in Seq(T) /\ Len(a \o b) = Len(a) + Len(b)
      /\ \A j \in 1 .. Len(a) + Len(b) :
           (a \o b)[j] = IF j <= Len(a) THEN a[j] ELSE b[j - Len(a)]
  <2>1. a \in Seq(T) /\ b \in Seq(T) BY <1>1, <1>2
  <2> QED BY ONLY <2>1
<1>6. Len(a) + Len(b) = Len(q) - 1 BY <1>1, <1>2, <1>4
<1>7. ASSUME NEW j \in 1 .. Len(q) - 1
      PROVE  (a \o b)[j] = q[IF j < i THEN j ELSE j + 1]
  <2>1. CASE j < i
    BY <1>1, <1>4, <1>5, <1>6, <2>1
  <2>2. CASE ~(j < i)
    <3>1. (a \o b)[j] = b[j - (i - 1)] /\ j - (i - 1) \in 1 .. Len(q) - i
      BY <1>1, <1>4, <1>5, <1>6, <2>2
    <3>2. b[j - (i - 1)] = q[i + (j - (i - 1))] /\ i + (j - (i - 1)) = j + 1
      BY <1>2, <1>4, <3>1
    <3> QED BY <2>2, <3>1, <3>2
  <2> QED BY <2>1, <2>2
<1> QED BY <1>3, <1>5, <1>6, <1>7

\* A scan visits slots of the set, each once.
LEMMA ScanVisits ==
  ASSUME NEW f, NEW S \in SUBSET Seqs, NEW n \in Int
  PROVE  /\ \A T : (\A s \in S : f[s] \in T) => Scan(f, S, n) \in Seq(T)
         /\ \A i \in DOMAIN Scan(f, S, n) : \E s \in S : Scan(f, S, n)[i] = f[s]
         /\ S = {} => Scan(f, S, n) = <<>>
<1> DEFINE N == Cardinality(S)
           Upto(s) == {t \in S : t = s \/ VisitedBefore(t, s, n)}
           place == [s \in S |-> Cardinality(Upto(s))]
<1>1. IsFiniteSet(S) /\ N \in Nat
  <2>1. IsFiniteSet(Seqs) BY Constants, FS_Interval DEF Seqs
  <2> QED BY <2>1, FS_Subset, FS_CardinalityType
<1>2. \A s \in S : IsFiniteSet(Upto(s)) /\ Cardinality(Upto(s)) \in 1 .. N
  <2> TAKE s \in S
  <2>1. IsFiniteSet(Upto(s)) /\ Cardinality(Upto(s)) <= N
    BY <1>1, FS_Subset
  <2>2. Upto(s) # {} OBVIOUS
  <2> QED BY <1>1, <2>1, <2>2, FS_EmptySet, FS_CardinalityType
<1>3. ASSUME NEW s \in S, NEW t \in S, VisitedBefore(s, t, n)
      PROVE  Cardinality(Upto(s)) < Cardinality(Upto(t))
  <2>1. s \in Int /\ t \in Int /\ s # t BY <1>3, Constants DEF Seqs, VisitedBefore
  <2>2. t \notin Upto(s)
    BY <1>3, <2>1 DEF VisitedBefore
  <2>3. Upto(s) \subseteq Upto(t)
    <3> SUFFICES ASSUME NEW u \in S, u = s \/ VisitedBefore(u, s, n)
                 PROVE  VisitedBefore(u, t, n)
      OBVIOUS
    <3>1. u \in Int BY Constants DEF Seqs
    <3> QED BY <1>3, <2>1, <3>1 DEF VisitedBefore
  <2>4. t \in Upto(t) OBVIOUS
  <2>5. Upto(s) # Upto(t) BY <2>2, <2>4
  <2> HIDE DEF Upto
  <2>6. Cardinality(Upto(s)) <= Cardinality(Upto(t)) /\ Cardinality(Upto(s)) # Cardinality(Upto(t))
    BY <1>2, <2>3, <2>5, FS_Subset
  <2> QED BY <1>1, <1>2, <2>6
<1>4. place \in Injection(S, 1 .. N)
  <2>1. place \in [S -> 1 .. N] BY <1>2
  <2>2. ASSUME NEW s \in S, NEW t \in S, s # t PROVE place[s] # place[t]
    <3>1. VisitedBefore(s, t, n) \/ VisitedBefore(t, s, n)
      BY <2>2, Constants DEF Seqs, VisitedBefore
    <3>2. place[s] < place[t] \/ place[t] < place[s]
      BY <1>3, <3>1
    <3>3. place[s] \in Nat /\ place[t] \in Nat BY <1>1, <2>1
    <3> QED BY <3>2, <3>3
  <2> HIDE DEF place
  <2> QED BY <2>1, <2>2 DEF Injection, IsInjective
<1>5. place \in Surjection(S, 1 .. N)
  <2>1. IsFiniteSet(1 .. N) /\ Cardinality(1 .. N) = N
    BY <1>1, FS_Interval
  <2> QED BY <1>4, <2>1, FS_Injection
<1>6. \A i \in 1 .. N : (CHOOSE s \in S : Cardinality(Upto(s)) = i) \in S
  <2> TAKE i \in 1 .. N
  <2>1. \E s \in S : place[s] = i BY <1>5 DEF Surjection
  <2>2. \E s \in S : Cardinality(Upto(s)) = i BY <2>1
  <2> HIDE DEF Upto
  <2> QED BY <2>2
<1>7. Scan(f, S, n) = [i \in 1 .. N |-> f[CHOOSE s \in S : Cardinality(Upto(s)) = i]]
  BY DEF Scan
<1>8. S = {} => N = 0 BY FS_EmptySet
<1> DEFINE at(i) == CHOOSE s \in S : Cardinality(Upto(s)) = i
<1>9. /\ \A i \in 1 .. N : at(i) \in S
      /\ Scan(f, S, n) = [i \in 1 .. N |-> f[at(i)]]
  BY <1>6, <1>7
<1> HIDE DEF N, Upto, at
<1>10. /\ DOMAIN Scan(f, S, n) = 1 .. N
       /\ \A i \in 1 .. N : Scan(f, S, n)[i] = f[at(i)] 
  BY <1>9
<1>11. ASSUME NEW T, \A s \in S : f[s] \in T PROVE Scan(f, S, n) \in Seq(T)
  <2>1. \A i \in 1 .. N : f[at(i)] \in T BY <1>9, <1>11
  <2> QED BY <1>1, <1>9, <2>1
<1>12. S = {} => Scan(f, S, n) = <<>>
  BY <1>8, <1>9
<1> QED BY <1>9, <1>10, <1>11, <1>12

\* Sequences put together, and taken apart.
LEMMA Joined ==
  ASSUME NEW T, NEW q \in Seq(T), NEW r \in Seq(T)
  PROVE  /\ q \o r \in Seq(T) /\ Len(q \o r) = Len(q) + Len(r)
         /\ \A j \in 1 .. Len(q) + Len(r) :
              (q \o r)[j] = IF j <= Len(q) THEN q[j] ELSE r[j - Len(q)]
  OBVIOUS

\* A datagram that joins the path at its end.
LEMMA Appended ==
  ASSUME NEW T, NEW q \in Seq(T), NEW x \in T
  PROVE  /\ Append(q, x) \in Seq(T) /\ Len(Append(q, x)) = Len(q) + 1
         /\ \A j \in 1 .. Len(q) + 1 : Append(q, x)[j] = IF j <= Len(q) THEN q[j] ELSE x
  OBVIOUS

\* The first datagram taken: those behind it move up by one.
LEMMA TailOf ==
  ASSUME NEW T, NEW q \in Seq(T), q # <<>>
  PROVE  /\ Head(q) = q[1] /\ q[1] \in T
         /\ Tail(q) \in Seq(T) /\ Len(Tail(q)) = Len(q) - 1 /\ Len(q) \in Nat \ {0}
         /\ \A j \in 1 .. Len(q) - 1 : Tail(q)[j] = q[j + 1]
  OBVIOUS

\* Short sequences are sequences of their members.
LEMMA ShortSeqs == \A T : <<>> \in Seq(T) /\ \A x \in T : <<x>> \in Seq(T) /\ Len(<<x>>) = 1
  OBVIOUS

-----------------------------------------------------------------------------
(* Type correctness. *)

TypeInv == TypeOK /\ PhaseInv

\* The types hold at the start, with both processes down and nothing on the way.
LEMMA TypeInit == Init => TypeInv
<1> SUFFICES ASSUME Init PROVE TypeInv
  OBVIOUS
<1>1. ClientTypeOK /\ PhaseInv
  BY ClientBegins DEF Init, ClientTypeInv
<1>2. ServerTypeOK
  BY NewWindowType DEF Init, ServerInit, ServerTypeOK
<1>3. toServer = <<>> /\ toClient = <<>> /\ lost = 0
  BY DEF Init
<1> QED BY <1>1, <1>2, <1>3, FifoAssumption DEF TypeInv, TypeOK

\* What a turn of transfer() sends at its end.
LEMMA TurnSends ==
  ASSUME WellFormed', NEW s \in Seq(Packet), toServer \in Seq(Packet), head' \in Seqs, EndTurn(s)
  PROVE  toServer' \in Seq(Packet) /\ Len(toServer') <= Capacity
<1> DEFINE overdue == Scan(pktArray', Overdue', head')
<1>1. overdue \in Seq(Packet)
  <2> DEFINE f == pktArray'  S == Overdue'  n == head'
  <2>1. S \in SUBSET Seqs /\ n \in Int /\ \A t \in S : f[t] \in Packet
    BY Constants DEF WellFormed, Seqs
  <2> HIDE DEF f, S, n
  <2>2. Scan(f, S, n) \in Seq(Packet) BY <2>1, ScanVisits
  <2> QED BY <2>2 DEF f, S, n
<1>2. /\ toServer' = toServer \o s \/ toServer' = s \o overdue
      /\ Len(toServer') <= Capacity
  BY DEF EndTurn, ToServer
<1> HIDE DEF overdue
<1> QED BY <1>1, <1>2, Joined

\* The client's steps keep the types, and what they send is well formed.
LEMMA ClientType == TypeInv /\ ClientNext => TypeInv'
<1> SUFFICES ASSUME TypeInv, ClientNext PROVE TypeInv'
  OBVIOUS
<1> USE DEF TypeInv, TypeOK
<1>1. ClientTypeInv /\ ServerTypeOK' /\ lost' \in 0 .. MaxLoss
  BY DEF ClientNext, Idle, ClientTypeInv, ServerTypeOK, serverVars
<1>2. ASSUME toClient # <<>> PROVE Head(toClient) \in Packet /\ Head(toClient).ack \in Seqs
  <2>1. Head(toClient) \in Packet BY <1>2, TailOf
  <2> QED BY <2>1 DEF Packet
<1>3. toClient' \in Seq(Packet) /\ Len(toClient') <= Capacity
  BY FifoAssumption
  DEF ClientNext, Connecting, Commands, Sending, Reading, NothingRead, Retrying, AwaitsNothing
<1>4. ClientTypeInv'
  <2>1. CASE Connecting \/ Commands \/ Retrying \/ NothingRead
    BY <1>1, <2>1, QuietTypes DEF Connecting, Commands, Retrying, NothingRead
  <2>2. CASE Sending
    BY <1>1, <2>2, QuietTypes, SendTypes DEF Sending
  <2>3. CASE Reading
    <3>1. PICK m \in {Head(toClient)} : \/ ConnectReading(m) \/ Receiving(m)
                                       \/ FinishReading(m)  \/ CloseReading(m)
      BY <2>3 DEF Reading
    <3>2. m \in Packet BY <1>2, <2>3, <3>1 DEF Reading
    <3> QED
      BY <1>1, <3>1, <3>2, QuietTypes, ReadTypes, RcvNewTypes
      DEF ConnectReading, Receiving, FinishReading, CloseReading
  <2> QED BY <2>1, <2>2, <2>3 DEF ClientNext
<1>5. WellFormed /\ WellFormed'
  <2>1. ClientTypeOK' => WellFormed' BY ClientPackets, PTL
  <2> QED BY <1>1, <1>4, <2>1, ClientPackets DEF ClientTypeInv
<1>6. /\ pc = "synwait" => SynPkt \in Packet
      /\ pc \in {"command", "diswait"} => FinPkt \in Packet
      /\ pc = "finwait" => FintPkt \in Packet
      /\ FintPkts \subseteq Packet /\ SetToSeq(FintPkts) \in Seq(Packet)
      /\ Fits => DataPkt \in Packet
  <2>1. lastSequence = 0 \/ lastSequence > 0 BY <1>1 DEF ClientTypeInv, ClientTypeOK, Seqs
  <2>2. FintPkts = {} \/ (FintPkts = {FintPkt} /\ FintPkt \in Packet)
    BY <1>5, <2>1 DEF WellFormed, FintPkts
  <2>3. FintPkts \subseteq Packet /\ SetToSeq(FintPkts) \in Seq(Packet)
    BY <2>2, ReplyAsSequence, ShortSeqs
  <2> QED BY <1>1, <1>5, <2>3 DEF WellFormed, ClientTypeInv, PhaseInv
<1>7. \A n \in Seqs : SetToSeq(AckPkts(n)) \in Seq(Packet) /\ SetToSeq(AckPkts(n)') \in Seq(Packet)
  <2> SUFFICES ASSUME NEW n \in Seqs
               PROVE  SetToSeq(AckPkts(n)) \in Seq(Packet) /\ SetToSeq(AckPkts(n)') \in Seq(Packet)
    OBVIOUS
  <2>1. AckPkts(n) \subseteq Packet /\ (AckPkts(n))' \subseteq Packet
    BY <1>5 DEF WellFormed
  <2>2. AckPkts(n) = {} \/ \E x : AckPkts(n) = {x}
    BY DEF AckPkts
  <2>3. AckPkts(n)' = {} \/ \E x : AckPkts(n)' = {x}
    BY DEF AckPkts
  <2>4. \A S : S \subseteq Packet /\ (S = {} \/ \E x : S = {x}) => SetToSeq(S) \in Seq(Packet)
    BY ReplyAsSequence, ShortSeqs
  <2> QED BY <2>1, <2>2, <2>3, <2>4
<1>8. toServer' \in Seq(Packet) /\ Len(toServer') <= Capacity
  <2> DEFINE Adds(q) == ToServer(Append(toServer, q)) \/ ToServer(<<q>>)
  <2>0. /\ \A q \in Packet : Adds(q) => toServer' \in Seq(Packet) /\ Len(toServer') <= Capacity
        /\ ToServer(toServer) \/ ToServer(<<>>) =>
             toServer' \in Seq(Packet) /\ Len(toServer') <= Capacity
        /\ \A q \in Seq(Packet) : ToServer(toServer \o q) =>
             toServer' \in Seq(Packet) /\ Len(toServer') <= Capacity
    <3>1. toServer \in Seq(Packet) OBVIOUS
    <3>2. \A q \in Packet : Append(toServer, q) \in Seq(Packet) /\ <<q>> \in Seq(Packet)
      BY <3>1, Appended, ShortSeqs
    <3>3. \A q \in Seq(Packet) : toServer \o q \in Seq(Packet)
      BY <3>1, Joined
    <3>4. <<>> \in Seq(Packet) BY ShortSeqs
    <3> QED BY <3>1, <3>2, <3>3, <3>4 DEF ToServer
  <2>1. CASE Connecting
    <3>1. ToServer(<<SynPkt'>>) \/ ToServer(<<SynPkt>>) \/ ToServer(<<>>)
      BY <2>1 DEF Connecting
    <3>2. SynPkt \in Packet /\ SynPkt' \in Packet BY <1>5 DEF WellFormed
    <3> QED BY <2>0, <3>1, <3>2
  <2>2. CASE Commands \/ Retrying
    <3>1. \/ ToServer(toServer)
          \/ pc \in {"command", "diswait"} /\ Adds(FinPkt)
          \/ pc = "finwait" /\ Adds(FintPkt)
      BY <2>2 DEF Commands, Retrying, Disconnect, FinishRetry, DisconnectRetry
    <3> QED BY <1>6, <2>0, <3>1
  <2>3. CASE Sending
    <3>1. \/ Fits /\ Adds(DataPkt)
          \/ ToServer(toServer) \/ ToServer(toServer \o SetToSeq(FintPkts))
      BY <2>3 DEF Sending
    <3> QED BY <1>6, <2>0, <3>1
  <2>4. CASE NothingRead
    <3>1. <<>> \in Seq(Packet) /\ head' \in Seqs BY <1>4, ShortSeqs DEF ClientTypeInv, ClientTypeOK
    <3> QED BY <1>5, <2>4, <3>1, TurnSends DEF NothingRead
  <2>5. CASE Reading
    <3>1. PICK m \in {Head(toClient)} : \/ ConnectReading(m) \/ Receiving(m)
                                       \/ FinishReading(m)  \/ CloseReading(m)
      BY <2>5 DEF Reading
    <3>2. m \in Packet /\ m.ack \in Seqs BY <1>2, <2>5, <3>1 DEF Reading
    <3>3. head' \in Seqs BY <1>4 DEF ClientTypeInv, ClientTypeOK
    <3>4. CASE ConnectReading(m)
      <4>1. ToServer(toServer) \/ Adds(SynPkt) BY <3>4 DEF ConnectReading
      <4>2. SynPkt \in Packet BY <1>5 DEF WellFormed
      <4> QED BY <2>0, <4>1, <4>2
    <3>5. CASE Receiving(m)
      <4>1. \E s \in Seq(Packet) : EndTurn(s)
        <5>1. CASE RcvStray(m) /\ EndTurn(<<>>) BY <5>1, ShortSeqs
        <5>2. CASE EndTurn(SetToSeq(AckPkts(m.ack))) BY <1>7, <3>2, <5>2
        <5>3. CASE \E k \in 0 .. SeqSize : RcvNew(m, k) /\ EndTurn(SetToSeq(AckPkts(m.ack)'))
          BY <1>7, <3>2, <5>3
        <5> QED BY <3>5, <5>1, <5>2, <5>3 DEF Receiving
      <4> QED BY <1>5, <3>3, <4>1, TurnSends
    <3>6. CASE FinishReading(m) \/ CloseReading(m)
      <4>1. \/ ToServer(toServer)
            \/ pc = "diswait" /\ Adds(FinPkt)
            \/ pc = "finwait" /\ Adds(FintPkt)
        BY <3>6 DEF FinishReading, CloseReading, FinishRetry, DisconnectRetry
      <4> QED BY <1>6, <2>0, <4>1
    <3> QED BY <3>1, <3>4, <3>5, <3>6
  <2> QED BY <2>1, <2>2, <2>3, <2>4, <2>5 DEF ClientNext
<1> QED BY <1>1, <1>3, <1>4, <1>8 DEF ClientTypeInv

\* What a turn of the server sends at its end.
LEMMA ServerTurnSends ==
  ASSUME win' \in WindowType, NEW s \in Seq(Packet), toClient \in Seq(Packet), EndServerTurn(s)
  PROVE  toClient' \in Seq(Packet) /\ Len(toClient') <= Capacity
<1> DEFINE due == Scan(win'.pkt, Resendable(win'), win'.start)
<1>1. due \in Seq(Packet)
  <2>1. \A n \in Resendable(win') : n \in Seqs
    BY Constants DEF Resendable, WindowType, Seqs
  <2>2. (\A n \in Resendable(win') : win'.pkt[n] \in Packet) /\ Resendable(win') \in SUBSET Seqs
    BY <2>1 DEF Resendable, WindowType
  <2>3. win'.start \in Int BY Constants DEF WindowType
  <2> QED BY <2>2, <2>3, ScanVisits
<1>2. /\ toClient' = toClient \o s \/ toClient' = s \o due
      /\ Len(toClient') <= Capacity
  BY DEF EndServerTurn, ToClient
<1> HIDE DEF due
<1> QED BY <1>1, <1>2, Joined

\* A reply is one datagram or none.
LEMMA ReplySeq ==
  ASSUME win \in WindowType, NEW m \in Packet
  PROVE  SetToSeq(Reply(m)) \in Seq(Packet) /\ (Reply(m) = {} \/ \E r \in Packet : Reply(m) = {r})
<1>1. Reply(m) \subseteq Packet BY ServerPackets
<1>2. Reply(m) = {} \/ \E r : Reply(m) = {r} BY DEF Reply
<1>3. CASE Reply(m) = {}
  BY <1>3, ReplyAsSequence, ShortSeqs
<1>4. CASE \E r : Reply(m) = {r}
  <2>1. PICK r : Reply(m) = {r} BY <1>4
  <2>2. r \in Packet BY <1>1, <2>1
  <2> QED BY <2>1, <2>2, ReplyAsSequence, ShortSeqs
<1> QED BY <1>2, <1>3, <1>4

\* The server's steps and the network's keep the types.
LEMMA ServerType == TypeInv /\ (ServerRead \/ ServerResend \/ ServerGivesUp \/ Lose) => TypeInv'
<1> SUFFICES ASSUME TypeInv, ServerRead \/ ServerResend \/ ServerGivesUp \/ Lose PROVE TypeInv'
  OBVIOUS
<1> USE DEF TypeInv, TypeOK
<1>1. ClientTypeOK' /\ PhaseInv'
  BY DEF ServerRead, ServerResend, ServerGivesUp, Lose, ClientTypeOK, PhaseInv, clientVars,
     windowVars, arrayVars, sizeVars, fileVars
<1>2. CASE ServerRead
  <2>1. PICK m \in Packet :
          /\ toServer' = Tail(toServer) /\ toServer # <<>> /\ lost' = lost /\ Handle(m)
          /\ \/ EndServerTurn(SetToSeq(Reply(m)))
             \/ ToClient(toClient \o SetToSeq(Reply(m)))
    BY <1>2 DEF ServerRead
  <2>2. ServerTypeOK' BY <2>1, TurnTypes DEF Handle
  <2>3. SetToSeq(Reply(m)) \in Seq(Packet) BY ReplySeq DEF ServerTypeOK
  <2>4. toClient' \in Seq(Packet) /\ Len(toClient') <= Capacity
    <3>1. CASE EndServerTurn(SetToSeq(Reply(m)))
      BY <2>2, <2>3, <3>1, ServerTurnSends DEF ServerTypeOK
    <3>2. CASE ToClient(toClient \o SetToSeq(Reply(m)))
      BY <2>3, <3>2, Joined DEF ToClient
    <3> QED BY <2>1, <3>1, <3>2
  <2>5. toServer' \in Seq(Packet) /\ Len(toServer') <= Capacity
    BY <2>1, FifoAssumption
  <2> QED BY <1>1, <2>1, <2>2, <2>4, <2>5
<1>3. CASE ServerResend \/ ServerGivesUp
  <2>1. ServerTypeOK'
    BY <1>3, TimeoutTypes DEF ServerResend, ServerGivesUp, Silence
  <2>2. <<>> \in Seq(Packet) OBVIOUS
  <2>3. toClient' \in Seq(Packet) /\ Len(toClient') <= Capacity
    BY <1>3, <2>1, <2>2, ServerTurnSends DEF ServerResend, ServerGivesUp, ServerTypeOK
  <2> QED BY <1>1, <1>3, <2>1, <2>3 DEF ServerResend, ServerGivesUp
<1>4. CASE Lose
  <2>1. lost' \in 0 .. MaxLoss /\ ServerTypeOK'
    BY <1>4, FifoAssumption DEF Lose, ServerTypeOK, serverVars
  <2>2. \A q \in Seq(Packet), i \in Nat : i \in DOMAIN q /\ Len(q) <= Capacity =>
          RemoveAt(q, i) \in Seq(Packet) /\ Len(RemoveAt(q, i)) <= Capacity
    BY Removed, FifoAssumption
  <2> QED BY <1>1, <1>4, <2>1, <2>2 DEF Lose
<1> QED BY <1>2, <1>3, <1>4

\* Every step keeps the types.
LEMMA TypeStep == TypeInv /\ [Next]_vars => TypeInv'
<1>1. ASSUME TypeInv, UNCHANGED vars PROVE TypeInv'
  BY <1>1
  DEF vars, clientVars, serverVars, windowVars, arrayVars, sizeVars, fileVars,
      TypeInv, TypeOK, ClientTypeOK, ServerTypeOK, PhaseInv
<1> QED BY <1>1, ClientType, ServerType DEF Next

\* Every variable keeps its type, every datagram on the way is well formed,
\* and no more are on the way than the path has room for.
THEOREM FifoTypes == Spec => []TypeOK
<1>1. TypeInv => TypeOK BY DEF TypeInv
<1> QED BY <1>1, TypeInit, TypeStep, PTL DEF Spec
-----------------------------------------------------------------------------
(* The invariant: what one loss leaves in order.                           *)
(*                                                                         *)
(* On a path that keeps the order of datagrams, the acknowledgement of an  *)
(* echo reaches the server before any packet the client could send only    *)
(* because of it.  So whatever the server reads lies in its window, unless *)
(* an acknowledgement was lost (a hole: the window's start never moves on) *)
(* or a packet was (a gap, which a later echo may have overtaken).  With   *)
(* a hole and no gap the window fills up and takes no more packets; with a *)
(* gap and no hole all of them lie in the window.                          *)

\* One client process, at most one loss, a client whose window is no smaller
\* than the server's, and sequence numbers that do not begin anew.
OneLoss ==
  /\ MaxLoss <= 1 /\ MaxClients <= 1
  /\ WinSize <= Mrws
  /\ MaxTransfers * MaxChunks + WinSize < SeqSize

\* A transfer is under way, or its end is being announced.
Busy == pc \in {"send", "recv", "finwait"}
Live == Busy /\ connected

IsData(m) == FindState(m) = "TransferData"
IsAck(m)  == FindState(m) = "AckRecvd"
IsSyn(m)  == FindState(m) = "ConnRequest"
IsFint(m) == FindState(m) = "FinishOneTransfer"
IsFin(m)  == FindState(m) = "Disconnect"
Carries(m) == IsData(m) \/ IsAck(m)
Known(m) == Carries(m) \/ IsSyn(m) \/ IsFint(m) \/ IsFin(m)

\* The echo of a packet of the current transfer.
CurrentEcho(m) == IsAck(m) /\ m.ack >= base

\* A datagram of an earlier phase: the server has seen nothing of this
\* transfer while one is on the way to it.
IsOld(m) == IsSyn(m) \/ (IsFint(m) /\ m.ack < base)

\* How far packet n has come at the server.
Done(n) == n < win.start \/ win.ack[n]
Held(n) == Done(n) \/ win.pkt[n] # NoPkt
Kept    == {n \in Seqs : n >= win.start /\ (win.pkt[n] # NoPkt \/ win.ack[n])}

\* ... and how far it will have come when the first i - 1 datagrams on the
\* way have been read.
AckBefore(n, i)  == \E j \in 1 .. i - 1 : IsAck(toServer[j]) /\ toServer[j].ack = n
DataBefore(n, i) == \E j \in 1 .. i - 1 : IsData(toServer[j]) /\ toServer[j].seq = n
Settled(n, i) == Done(n) \/ AckBefore(n, i)
Stored(n, i)  == Held(n) \/ DataBefore(n, i)
Beyond == Len(toServer) + 1

\* Echoes that wait for one before them.
Waiting == {n \in Seqs : n >= head /\ sendArray[n]}

\* Room for the transfers still to come.
Room == (MaxTransfers - xfer) * MaxChunks

\* The client by itself: its window is as wide as the server's, its numbers
\* do not begin anew, and the window it announces never closes.
ClientInv ==
  /\ lastSequence + Room <= MaxTransfers * MaxChunks
  /\ Busy => /\ xfer > 0
             /\ transferred <= lastSequence /\ transferred <= fileLen
             /\ base + fileLen + Room <= MaxTransfers * MaxChunks
             /\ transferred = 0 => received = 0
  /\ pc = "synwait" => head = 0 /\ lastSequence = 0
  /\ Busy \/ pc = "command" =>
       end = head + WinSize /\ head <= lastSequence /\ lastSequence <= head + WinSize
  /\ pc = "finwait" => transferred <= received
  /\ Copying =>
       /\ \A n \in Seqs : pktArray[n] # NoPkt <=> n \in base .. lastSequence - 1
       /\ \A n \in Seqs : pktArray[n] # NoPkt =>
            /\ IsData(pktArray[n]) /\ pktArray[n].seq = n
            /\ pktArray[n].rcvw # 0 /\ ChecksumOk(pktArray[n])
       /\ \A n \in Seqs : sendArray[n] => n \in base .. lastSequence - 1
       /\ rcvWindowSize + Cardinality(Waiting) = Mrws
       /\ ~sendArray[head]
       /\ \A n \in base .. head - 1 : sendArray[n]

\* The server's window by itself.
WinInv ==
  /\ win.start <= lastSequence /\ win.end = win.start + WinSize
  /\ Kept \subseteq win.start .. win.start + WinSize - 1
  /\ Kept \subseteq 0 .. lastSequence - 1
  /\ \A n \in Seqs : win.pkt[n] # NoPkt =>
       n >= win.start /\ ~win.ack[n] /\ IsAck(win.pkt[n]) /\ win.pkt[n].ack = n
  /\ ~win.ack[win.start]
  /\ UnackedCounts

\* How the server keeps up with the client.
ServedInv ==
  /\ ~connected \/ pc \in {"synwait", "down"} => win = NewWindow
  /\ pc \in {"send", "recv", "command"} => connected
  /\ ~Busy => Kept = {}
  /\ pc = "command" => win.start = lastSequence
  /\ Live => base <= win.start

\* What is on the way in which phase.
PathInv ==
  /\ cli = 0 => pc = "down" /\ toServer = <<>> /\ toClient = <<>>
  /\ pc \in {"synwait", "down"} =>
       /\ \A i \in DOMAIN toServer : IsSyn(toServer[i])
       /\ \A i \in DOMAIN toClient : toClient[i].rcvw = WinSize
       /\ toClient # <<>> => connected
  /\ ~Busy => \A i \in DOMAIN toServer : ~Carries(toServer[i])
  /\ pc = "command" =>
       \A i \in DOMAIN toServer :
         IsSyn(toServer[i]) \/ (IsFint(toServer[i]) /\ toServer[i].ack = lastSequence - 1)
  /\ pc = "finwait" /\ ~connected =>
       toClient = <<>> /\ \A i \in DOMAIN toServer : ~IsSyn(toServer[i]) /\ ~IsFin(toServer[i])
  /\ \A i \in DOMAIN toServer :
       Known(toServer[i]) /\ (IsFint(toServer[i]) => toServer[i].ack < lastSequence)
  /\ \A i \in DOMAIN toClient : IsAck(toClient[i]) \/ IsFint(toClient[i]) => toClient[i].ack < lastSequence

\* What announces the end of a transfer comes after all the transfer sent,
\* and what is left of an earlier phase before all of it.
FinishInv ==
  Live =>
    /\ \A i \in DOMAIN toServer :
         /\ ~IsFin(toServer[i])
         /\ IsOld(toServer[i]) =>
              /\ Kept = {} /\ win.start = base /\ received = 0
              /\ \A j \in 1 .. i - 1 : ~Carries(toServer[j])
              /\ \A j \in DOMAIN toClient : ~CurrentEcho(toClient[j])
         /\ IsFint(toServer[i]) =>
              \/ toServer[i].ack = base - 1
              \/ pc = "finwait" /\ toServer[i].ack = lastSequence - 1
         /\ IsFint(toServer[i]) /\ toServer[i].ack >= base =>
              \A j \in i .. Len(toServer) : IsFint(toServer[j])
    /\ \A i \in DOMAIN toClient : IsFint(toClient[i]) =>
         \/ /\ toClient[i].ack < base /\ received = 0
            /\ \A j \in 1 .. i - 1 : ~CurrentEcho(toClient[j])
         \/ /\ pc = "finwait" /\ toClient[i].ack = lastSequence - 1
            /\ Kept = {} /\ win.start = lastSequence
            /\ \A j \in DOMAIN toServer : ~Carries(toServer[j])

\* Echoes and acknowledgements are of packets the server holds; packets the
\* client still sends are not acknowledged, and no acknowledgement of one is
\* ahead of it.
CarryInv ==
  Live =>
    /\ \A i \in DOMAIN toClient : CurrentEcho(toClient[i]) => Held(toClient[i].ack)
    /\ \A i \in DOMAIN toServer : IsAck(toServer[i]) =>
         toServer[i].ack \in base .. lastSequence - 1 /\ Held(toServer[i].ack) /\ toServer[i].rcvw # 0
    /\ \A i \in DOMAIN toServer : IsData(toServer[i]) =>
         /\ toServer[i].seq \in base .. lastSequence - 1
         /\ toServer[i].rcvw # 0 /\ ChecksumOk(toServer[i])
         /\ ~Settled(toServer[i].seq, i)
    /\ Copying => \A n \in base .. lastSequence - 1 :
         IF sendArray[n] THEN Held(n) ELSE ~Settled(n, Beyond)

\* The echoes the client has, and those a packet on the way relies on, are
\* acknowledged when that packet is read, but for h.
AckedBut(h) ==
  /\ Copying => \A n \in base .. lastSequence - 1 : sendArray[n] /\ n # h => Settled(n, Beyond)
  /\ \A i \in DOMAIN toServer : IsData(toServer[i]) =>
       \A n \in base .. toServer[i].seq - WinSize : n # h => Settled(n, i)

\* The packets below x that were sent, and those sent before a packet on the
\* way, are held by the server when that packet is read.
NoGapsBelow(x) ==
  /\ Copying => \A n \in base .. lastSequence - 1 : n < x => Stored(n, Beyond)
  /\ \A i \in DOMAIN toServer : IsData(toServer[i]) =>
       \A n \in base .. toServer[i].seq - 1 : n < x => Stored(n, i)

HoleInv ==
  Live => /\ lost = 0 => AckedBut(-1) /\ NoGapsBelow(SeqSize)
          /\ AckedBut(-1) \/ \E h \in Seqs : AckedBut(h) /\ NoGapsBelow(h + WinSize)

IInv ==
  /\ TypeInv /\ ClientInv /\ WinInv /\ ServedInv
  /\ PathInv /\ FinishInv /\ CarryInv /\ HoleInv
-----------------------------------------------------------------------------
(* The kinds of datagrams. *)

\* What a datagram is taken for depends on its flags only.
LEMMA KindOf ==
  ASSUME NEW c, NEW s, NEW a, NEW f, NEW r, NEW d
  PROVE  /\ f = {} <=> IsData(Datagram(c, s, a, f, r, d))
         /\ f = {"ACK"} <=> IsAck(Datagram(c, s, a, f, r, d))
         /\ f = {"SYN"} <=> IsSyn(Datagram(c, s, a, f, r, d))
         /\ f = {"FIN"} <=> IsFin(Datagram(c, s, a, f, r, d))
         /\ f = {"ACK", "SYN", "FIN"} <=> IsFint(Datagram(c, s, a, f, r, d))
<1>1. Datagram(c, s, a, f, r, d).flags = f BY DEF Datagram
<1>2. \A m : /\ m.flags = {} <=> IsData(m)
             /\ m.flags = {"ACK"} <=> IsAck(m)
             /\ m.flags = {"SYN"} <=> IsSyn(m)
             /\ m.flags = {"FIN"} <=> IsFin(m)
             /\ m.flags = {"ACK", "SYN", "FIN"} <=> IsFint(m)
  <2>1. /\ "ACK" \notin {"SYN"} /\ "ACK" \notin {"FIN"} /\ "ACK" \notin {}
        /\ "SYN" \notin {"ACK"} /\ "SYN" \notin {"FIN"} /\ "SYN" \notin {}
        /\ "FIN" \notin {"ACK"} /\ "FIN" \notin {"SYN"} /\ "FIN" \notin {}
    OBVIOUS
  <2>2. /\ {"ACK"} # {"SYN"} /\ {"ACK"} # {"FIN"} /\ {"ACK"} # {} /\ {"SYN"} # {"FIN"}
        /\ {"SYN"} # {} /\ {"FIN"} # {} /\ {"ACK", "SYN", "FIN"} # {"ACK"}
        /\ {"ACK", "SYN", "FIN"} # {"SYN"} /\ {"ACK", "SYN", "FIN"} # {"FIN"}
        /\ {"ACK", "SYN", "FIN"} # {}
    BY <2>1
  <2> QED BY <2>2 DEF FindState, IsData, IsAck, IsSyn, IsFin, IsFint
<1> HIDE DEF IsData, IsAck, IsSyn, IsFin, IsFint
<1> QED BY <1>1, <1>2

\* A datagram is of one kind.
LEMMA OneKind ==
  \A m : /\ IsData(m) => ~IsAck(m) /\ ~IsSyn(m) /\ ~IsFint(m) /\ ~IsFin(m)
         /\ IsAck(m) => ~IsSyn(m) /\ ~IsFint(m) /\ ~IsFin(m)
         /\ IsSyn(m) => ~IsFint(m) /\ ~IsFin(m)
         /\ IsFint(m) => ~IsFin(m)
  BY DEF IsData, IsAck, IsSyn, IsFint, IsFin

\* What the client sends, and what it takes for an answer.
LEMMA ClientKinds ==
  /\ IsSyn(SynPkt) /\ IsFin(FinPkt)
  /\ IsFint(FintPkt) /\ FintPkt.ack = lastSequence - 1
  /\ IsData(DataPkt) /\ DataPkt.seq = lastSequence /\ DataPkt.rcvw = rcvWindowSize
  /\ xfer # 0 => ChecksumOk(DataPkt)
  /\ \A n : Fits => \E p : /\ AckPkts(n) = {p} /\ IsAck(p)
                           /\ p.ack = n /\ p.rcvw = rcvWindowSize
  /\ \A m : IsEcho(m) => IsAck(m)
  /\ \A m : IsFinishReply(m) => IsFint(m)
<1>1. IsSyn(SynPkt) /\ IsFin(FinPkt) /\ IsFint(FintPkt) /\ IsData(DataPkt)
  BY KindOf DEF SynPkt, FinPkt, FintPkt, DataPkt
<1>2. /\ FintPkt.ack = lastSequence - 1
      /\ DataPkt.seq = lastSequence /\ DataPkt.rcvw = rcvWindowSize
      /\ DataPkt.data.xfer = xfer
  BY DEF FintPkt, DataPkt, Datagram, Chunk
<1>3. xfer # 0 => ChecksumOk(DataPkt)
  BY <1>2 DEF ChecksumOk, Garbled
<1>4. ASSUME NEW n, Fits
      PROVE  \E p : AckPkts(n) = {p} /\ IsAck(p) /\ p.ack = n /\ p.rcvw = rcvWindowSize
  <2> DEFINE p == Datagram(cli, 0, n, {"ACK"}, rcvWindowSize, Greeting)
  <2>1. AckPkts(n) = {p} BY <1>4 DEF AckPkts
  <2>2. IsAck(p) BY KindOf
  <2>3. p.ack = n /\ p.rcvw = rcvWindowSize BY DEF Datagram
  <2> HIDE DEF p
  <2> QED BY <2>1, <2>2, <2>3
<1>5. \A m : m.flags = {"ACK"} => IsAck(m)
  <2>1. {"ACK"} # {"SYN"} BY "ACK" \notin {"SYN"}
  <2> QED BY <2>1 DEF IsAck, FindState
<1>6. \A m : m.flags = {"ACK", "SYN", "FIN"} => IsFint(m)
  <2>1. /\ "SYN" \notin {"ACK"} /\ "ACK" \notin {"SYN"} /\ "ACK" \notin {"FIN"} /\ "ACK" \notin {}
    OBVIOUS
  <2>2. /\ {"ACK", "SYN", "FIN"} # {"ACK"} /\ {"ACK", "SYN", "FIN"} # {"SYN"}
        /\ {"ACK", "SYN", "FIN"} # {"FIN"} /\ {"ACK", "SYN", "FIN"} # {}
    BY <2>1
  <2> QED BY <2>2 DEF IsFint, FindState
<1> QED BY <1>1, <1>2, <1>3, <1>4, <1>5, <1>6 DEF IsEcho, IsFinishReply

\* What the server answers to which kind.
LEMMA ReplyKinds ==
  ASSUME NEW m, NEW r \in Reply(m)
  PROVE  /\ Accepts(m)
         /\ IsAck(r) => IsData(m) /\ r.ack = m.seq
         /\ IsFint(r) => IsFint(m) /\ r.ack = m.ack
         /\ IsSyn(m) => r.rcvw = FreeByte
         /\ IsData(m) \/ IsSyn(m) \/ IsFint(m) \/ IsFin(m)
<1>1. Accepts(m) BY DEF Reply
<1>2. CASE IsData(m)
  <2>1. r = Echo(m) BY <1>1, <1>2 DEF Reply, IsData
  <2>2. IsAck(Echo(m)) /\ Echo(m).ack = m.seq
    <3>1. IsAck(Echo(m)) BY KindOf DEF Echo
    <3> QED BY <3>1 DEF Echo, Datagram
  <2> QED BY <1>1, <1>2, <2>1, <2>2, OneKind
<1>3. CASE IsSyn(m)
  <2>1. r = Datagram(m.cli, m.ack, 0, {"ACK", "SYN"}, FreeByte, Greeting)
    BY <1>1, <1>3 DEF Reply, IsSyn
  <2>2. ~IsAck(r) /\ ~IsFint(r)
    <3>1. "SYN" \notin {"ACK"} /\ "FIN" \notin {"ACK", "SYN"} OBVIOUS
    <3>2. {"ACK", "SYN"} # {"ACK"} /\ {"ACK", "SYN"} # {"ACK", "SYN", "FIN"} BY <3>1
    <3> QED BY <2>1, <3>2, KindOf
  <2>3. r.rcvw = FreeByte BY <2>1 DEF Datagram
  <2> QED BY <1>1, <1>3, <2>2, <2>3
<1>4. CASE IsFint(m)
  <2>1. r = Datagram(m.cli, m.ack, m.ack, {"ACK", "SYN", "FIN"}, FreeByte, Greeting)
    BY <1>1, <1>4 DEF Reply, IsFint
  <2>2. IsFint(r) BY <2>1, KindOf
  <2>3. r.ack = m.ack BY <2>1 DEF Datagram
  <2> QED BY <1>1, <1>4, <2>2, <2>3, OneKind
<1>5. CASE IsFin(m)
  <2>1. r = Datagram(m.cli, m.ack, 0, {"ACK", "FIN"}, FreeByte, Greeting)
    BY <1>1, <1>5 DEF Reply, IsFin
  <2>2. ~IsAck(r) /\ ~IsFint(r)
    <3>1. "FIN" \notin {"ACK"} /\ "SYN" \notin {"ACK", "FIN"} OBVIOUS
    <3>2. {"ACK", "FIN"} # {"ACK"} /\ {"ACK", "FIN"} # {"ACK", "SYN", "FIN"} BY <3>1
    <3> QED BY <2>1, <3>2, KindOf
  <2> QED BY <1>1, <1>5, <2>2, OneKind
<1>6. IsData(m) \/ IsSyn(m) \/ IsFint(m) \/ IsFin(m)
  BY <1>1 DEF Reply, IsData, IsSyn, IsFint, IsFin
<1> QED BY <1>2, <1>3, <1>4, <1>5, <1>6

-----------------------------------------------------------------------------
(* The client by itself. *)

\* Sequence numbers in use do not begin anew, also as wide as a window away.
LEMMA NoWrap ==
  ASSUME OneLoss, ClientTypeOK, ClientInv
  PROVE  /\ Room \in Nat /\ lastSequence \in Nat
         /\ lastSequence + WinSize < SeqSize
         /\ Busy => base \in Nat /\ base <= lastSequence /\ base + fileLen + WinSize < SeqSize
         /\ \A a \in 0 .. SeqSize - 1 : a % SeqSize = a
<1>1. MaxTransfers - xfer \in Nat /\ MaxChunks \in Nat
  BY Constants DEF ClientTypeOK
<1>2. Room \in Nat /\ MaxTransfers * MaxChunks \in Nat
  <2>1. \A a, b \in Nat : a * b \in Nat OBVIOUS
  <2> QED BY <1>1, <2>1, Constants DEF Room
<1> HIDE DEF Room
<1>3. lastSequence \in Nat /\ transferred \in Nat /\ fileLen \in Nat
  BY Constants DEF ClientTypeOK, Seqs
<1>4. \A a \in 0 .. SeqSize - 1 : a % SeqSize = a
  BY ModSeq DEF Seqs
<1> DEFINE all == MaxTransfers * MaxChunks
<1>5. all \in Nat /\ all + WinSize < SeqSize /\ lastSequence + Room <= all
      /\ (Busy => transferred <= lastSequence /\ base + fileLen + Room <= all)
  BY <1>2 DEF OneLoss, ClientInv
<1> HIDE DEF all
<1> QED BY <1>2, <1>3, <1>4, <1>5, Constants DEF base

\* The echoes that wait are fewer than the window has slots, so the window
\* the client announces is a byte, and not zero.
LEMMA WindowOpen ==
  ASSUME OneLoss, ClientTypeOK, ClientInv, Copying
  PROVE  /\ IsFiniteSet(Waiting) /\ Cardinality(Waiting) \in 0 .. WinSize - 1
         /\ Fits /\ rcvWindowSize # 0
<1>1. Waiting \subseteq head + 1 .. head + WinSize - 1
  <2>1. /\ \A n \in Seqs : sendArray[n] => n \in base .. lastSequence - 1
        /\ ~sendArray[head] /\ lastSequence <= head + WinSize
    BY DEF ClientInv, Copying, Busy
  <2> QED BY <2>1, Constants DEF Waiting, ClientTypeOK, Seqs, base
<1> DEFINE a == head + 1
           b == head + WinSize - 1
<1>2. a \in Int /\ b \in Int /\ b - a + 1 = WinSize - 1
  BY Constants DEF ClientTypeOK, Seqs
<1>3. Waiting \subseteq a .. b
  BY <1>1
<1> HIDE DEF Waiting, a, b
<1>4. IsFiniteSet(Waiting) /\ Cardinality(Waiting) <= WinSize - 1 /\ Cardinality(Waiting) \in Nat
  <2>1. IsFiniteSet(a .. b) /\ Cardinality(a .. b) = IF a > b THEN 0 ELSE b - a + 1
    BY <1>2, FS_Interval
  <2>2. Cardinality(a .. b) <= WinSize - 1
    BY <1>2, <2>1, Constants
  <2>3. IsFiniteSet(Waiting) /\ Cardinality(Waiting) <= Cardinality(a .. b)
    BY <1>3, <2>1, FS_Subset
  <2>4. Cardinality(Waiting) \in Nat /\ Cardinality(a .. b) \in Nat
    BY <2>1, <2>3, FS_CardinalityType
  <2> QED BY <2>2, <2>3, <2>4, Constants
<1>5. rcvWindowSize + Cardinality(Waiting) = Mrws /\ WinSize <= Mrws
  BY DEF ClientInv, OneLoss
<1> QED BY <1>4, <1>5, Constants DEF Fits, Bytes, ClientTypeOK

\* An interval taken out of a set.
LEMMA IntervalOut ==
  ASSUME NEW S, IsFiniteSet(S), NEW a \in Int, NEW k \in Nat, a .. a + k - 1 \subseteq S
  PROVE  /\ IsFiniteSet(S \ (a .. a + k - 1))
         /\ Cardinality(S \ (a .. a + k - 1)) = Cardinality(S) - k
<1> DEFINE I == a .. a + k - 1
<1>1. IsFiniteSet(I) /\ Cardinality(I) = k
  BY FS_Interval
<1> HIDE DEF I
<1>2. IsFiniteSet(S \ I) /\ Cardinality(S \ I) \in Nat /\ Cardinality(S) \in Nat
  BY FS_Subset, FS_CardinalityType
<1>3. (S \ I) \cup I = S /\ (S \ I) \cap I = {}
  BY DEF I
<1>4. Cardinality(S) = Cardinality(S \ I) + k
  BY <1>1, <1>2, <1>3, FS_Union, FS_EmptySet
<1> QED BY <1>2, <1>4 DEF I

\* rcvMsg on a new echo, when the numbers do not begin anew: the loop of
\* moveToNext passes what has arrived in order and clears no mark in use.
LEMMA NewEcho ==
  ASSUME OneLoss, ClientTypeOK, ClientInv, NEW m \in Packet, NEW k \in 0 .. SeqSize, RcvNew(m, k)
  PROVE  /\ m.ack \in base .. lastSequence - 1 /\ m.ack \in Seqs
         /\ m.ack >= head /\ ~sendArray[m.ack]
         /\ sendArray' = [sendArray EXCEPT ![m.ack] = TRUE]
         /\ k <= lastSequence - head /\ head' = head + k /\ end' = end + k
         /\ head' \in Seqs
         /\ \A n \in head .. head' - 1 : sendArray'[n]
         /\ ~sendArray'[head']
<1>1. Copying /\ Busy /\ pktArray[m.ack] # NoPkt /\ m.ack \in Seqs
  BY DEF RcvNew, Answers, Copying, Busy, Packet
<1>2. m.ack \in base .. lastSequence - 1 /\ pktArray[m.ack].seq = m.ack
  BY <1>1 DEF ClientInv
<1> DEFINE arrived == [sendArray EXCEPT ![m.ack] = TRUE]
<1>3. /\ ~sendArray[m.ack] /\ Moves(arrived, k)
      /\ sendArray' = [i \in Seqs |-> arrived[i] /\ i \notin Cleared(k)]
      /\ head' = (head + k) % SeqSize /\ end' = (end + k) % SeqSize
  BY <1>2 DEF RcvNew
<1>4. /\ head \in Nat /\ lastSequence \in Nat /\ base \in Nat /\ end = head + WinSize
      /\ head <= lastSequence /\ lastSequence <= head + WinSize
      /\ lastSequence + WinSize < SeqSize
      /\ \A a \in 0 .. SeqSize - 1 : a % SeqSize = a
  BY <1>1, NoWrap DEF ClientInv, ClientTypeOK, Seqs
<1>5. /\ \A n \in Seqs : arrived[n] => n \in base .. lastSequence - 1
      /\ arrived \in [Seqs -> BOOLEAN]
  BY <1>1, <1>2 DEF ClientInv, ClientTypeOK
<1>6. m.ack >= head
  <2>1. \A n \in base .. head - 1 : sendArray[n] BY <1>1 DEF ClientInv
  <2> QED BY <1>2, <1>3, <1>4, <2>1
<1> HIDE DEF arrived
<1>7. \A j \in 0 .. k - 1 : arrived[(head + j) % SeqSize]
  BY <1>3 DEF Moves
<1>8. k <= lastSequence - head
  <2>1. SUFFICES ASSUME k > lastSequence - head PROVE FALSE
    BY <1>4
  <2>2. arrived[(head + (lastSequence - head)) % SeqSize]
    <3>1. lastSequence - head \in 0 .. k - 1 BY <1>4, <2>1
    <3> QED BY <1>7, <3>1
  <2>3. (head + (lastSequence - head)) % SeqSize = lastSequence /\ lastSequence \in Seqs
    BY <1>4, Constants DEF Seqs
  <2> QED BY <1>4, <1>5, <2>2, <2>3
<1>9. head' = head + k /\ end' = end + k /\ head + k \in Seqs
  BY <1>3, <1>4, <1>8, Constants DEF Seqs
<1>10. \A n \in Cleared(k) : n > lastSequence
  BY <1>4, <1>8, Constants DEF Cleared
<1>11. sendArray' = arrived
  <2>1. \A n \in Seqs : arrived[n] => n \notin Cleared(k)
    BY <1>4, <1>5, <1>10
  <2> QED BY <1>3, <1>5, <2>1
<1>12. \A n \in head .. head' - 1 : sendArray'[n]
  <2> SUFFICES ASSUME NEW n \in head .. head' - 1 PROVE arrived[n]
    BY <1>11
  <2>1. n - head \in 0 .. k - 1 /\ head + (n - head) = n /\ n \in 0 .. SeqSize - 1
    BY <1>4, <1>8, <1>9, Constants DEF Seqs
  <2>2. arrived[(head + (n - head)) % SeqSize] BY <1>7, <2>1
  <2> QED BY <1>4, <2>1, <2>2
<1>13. ~sendArray'[head']
  <2>1. ~(arrived[(head + k) % SeqSize] /\ (head + k) % SeqSize \notin Cleared(k))
    BY <1>3 DEF Moves
  <2> QED BY <1>3, <1>9, <1>11, <2>1
<1> QED BY <1>1, <1>2, <1>3, <1>6, <1>8, <1>9, <1>11, <1>12, <1>13 DEF arrived

\* What the client's steps are, one by one.
LEMMA ClientSteps ==
  ASSUME ClientNext
  PROVE  \/ ClientStart
         \/ \E m \in {Head(toClient)} : toClient # <<>> /\ ConnectReply(m)
         \/ \E L \in 0 .. MaxChunks : Transform(L)
         \/ SendPkt \/ FinishTransfer
         \/ \E m \in {Head(toClient)}, k \in 0 .. SeqSize : toClient # <<>> /\ RcvNew(m, k)
         \/ /\ UNCHANGED <<windowVars, arrayVars, rcvWindowSize, fileVars>>
            /\ \/ pc' = pc \/ (Copying /\ Copying')
               \/ pc \in {"synwait", "command", "diswait"} /\ pc' \in {"down", "diswait", "closed"}
               \/ pc = "finwait" /\ pc' = "command"
<1> DEFINE Quiet == /\ UNCHANGED <<windowVars, arrayVars, rcvWindowSize, fileVars>>
                    /\ \/ pc' = pc \/ (Copying /\ Copying')
                       \/ pc \in {"synwait", "command", "diswait"} /\ pc' \in {"down", "diswait", "closed"}
                       \/ pc = "finwait" /\ pc' = "command"
<1>1. ConnectRetry \/ ConnectFail \/ SkipSend \/ RecvTimeout => Quiet
  <2>1. ConnectRetry \/ ConnectFail => Quiet
    BY DEF ConnectRetry, ConnectFail, sizeVars
  <2>2. SkipSend \/ RecvTimeout => Quiet
    BY DEF SkipSend, RecvTimeout, sizeVars, Copying
  <2> QED BY <2>1, <2>2
<1>2. FinishRetry \/ DisconnectRetry \/ Disconnect => Quiet
  <2>1. FinishRetry \/ DisconnectRetry => Quiet
    BY DEF FinishRetry, DisconnectRetry, clientVars, sizeVars
  <2>2. Disconnect => Quiet
    BY DEF Disconnect, sizeVars
  <2> QED BY <2>1, <2>2
<1>3. ASSUME NEW m, RcvStray(m) \/ RcvDuplicate(m) \/ FinishReply(m) \/ DisconnectReply(m)
      PROVE  Quiet
  BY <1>3 DEF RcvStray, RcvDuplicate, FinishReply, DisconnectReply, sizeVars, Copying
<1> HIDE DEF Quiet
<1>4. CASE Connecting
  BY <1>1, <1>4 DEF Connecting, Quiet
<1>5. CASE Commands \/ Retrying \/ NothingRead
  BY <1>1, <1>2, <1>5 DEF Commands, Retrying, NothingRead, Quiet
<1>6. CASE Sending
  BY <1>1, <1>6 DEF Sending, Quiet
<1>7. CASE Reading
  <2>1. PICK m \in {Head(toClient)} : \/ ConnectReading(m) \/ Receiving(m)
                                     \/ FinishReading(m)  \/ CloseReading(m)
    BY <1>7 DEF Reading
  <2>2. toClient # <<>> BY <1>7 DEF Reading
  <2>3. CASE ConnectReading(m)
    BY <1>1, <2>1, <2>2, <2>3 DEF ConnectReading, Quiet
  <2>4. CASE Receiving(m)
    BY <1>3, <2>1, <2>2, <2>4 DEF Receiving, Quiet
  <2>5. CASE FinishReading(m) \/ CloseReading(m)
    BY <1>2, <1>3, <2>5 DEF FinishReading, CloseReading, Quiet
  <2> QED BY <2>1, <2>3, <2>4, <2>5
<1> QED BY <1>4, <1>5, <1>6, <1>7 DEF ClientNext

\* The client's steps keep its part of the invariant.
LEMMA ClientInvStep ==
  ASSUME OneLoss, TypeInv, ClientInv, PathInv, ClientNext, ClientTypeOK'
  PROVE  ClientInv'
<1> USE DEF TypeInv, TypeOK
<1>1. /\ Room \in Nat /\ lastSequence \in Nat /\ head \in Nat /\ lastSequence + WinSize < SeqSize
      /\ transferred \in Nat /\ fileLen \in Nat /\ received \in Nat
      /\ WinSize \in Nat /\ MaxChunks \in Nat /\ MaxTransfers * MaxChunks \in Nat
      /\ \A a \in 0 .. SeqSize - 1 : a % SeqSize = a
  <2>1. \A a, b \in Nat : a * b \in Nat OBVIOUS
  <2>2. MaxTransfers * MaxChunks \in Nat BY <2>1, Constants
  <2>3. /\ Room \in Nat /\ lastSequence \in Nat /\ lastSequence + WinSize < SeqSize
        /\ \A a \in 0 .. SeqSize - 1 : a % SeqSize = a
    BY NoWrap
  <2>4. /\ head \in Nat /\ transferred \in Nat /\ fileLen \in Nat /\ received \in Nat
        /\ WinSize \in Nat /\ MaxChunks \in Nat
    BY Constants DEF ClientTypeOK, Seqs
  <2> QED BY <2>2, <2>3, <2>4
<1>2. CASE ClientStart
  BY <1>1, <1>2 DEF ClientStart, ClientInv, Room, fileVars, Copying, Busy
<1>3. CASE \E m \in {Head(toClient)} : toClient # <<>> /\ ConnectReply(m)
  <2>1. toClient # <<>> /\ ConnectReply(Head(toClient)) BY <1>3
  <2>2. Head(toClient).rcvw = WinSize
    <3>1. pc = "synwait" /\ Head(toClient) = toClient[1] /\ 1 \in DOMAIN toClient
      BY <2>1, TailOf DEF ConnectReply
    <3> QED BY <3>1 DEF PathInv
  <2>3. /\ pc = "synwait" /\ pc' = "command" /\ end' = WinSize
        /\ UNCHANGED <<head, lastSequence, fileVars>>
    BY <2>1, <2>2 DEF ConnectReply
  <2> QED BY <1>1, <2>3 DEF ClientInv, Room, fileVars, Copying, Busy
<1>4. CASE \E L \in 0 .. MaxChunks : Transform(L)
  <2>1. PICK L \in 0 .. MaxChunks : Transform(L) BY <1>4
  <2>2. /\ pc = "command" /\ pc' = "send" /\ xfer' = xfer + 1 /\ fileLen' = L /\ xfer < MaxTransfers
        /\ transferred' = 0 /\ received' = 0 /\ UNCHANGED <<windowVars, arrayVars, rcvWindowSize>>
    BY <2>1 DEF Transform, sizeVars
  <2>3. Room' = Room - MaxChunks
    BY <1>1, <2>2, Constants DEF Room, ClientTypeOK
  <2>4. /\ sendArray = Unset /\ pktArray = Empty /\ rcvWindowSize = Mrws
        /\ end = head + WinSize /\ head <= lastSequence /\ lastSequence <= head + WinSize
    BY <2>2 DEF PhaseInv, ClientInv
  <2>5. Waiting' = {} /\ Cardinality(Waiting') = 0
    BY <2>2, <2>4, FS_EmptySet DEF Waiting, Unset, windowVars, arrayVars
  <2>6. base' = lastSequence /\ lastSequence' = lastSequence /\ xfer' > 0
    BY <1>1, <2>2 DEF base, windowVars, ClientTypeOK
  <2>7. Mrws \in Nat BY Constants
  <2>8. lastSequence + L + Room' <= MaxTransfers * MaxChunks /\ lastSequence + Room' <= MaxTransfers * MaxChunks
    BY <1>1, <2>3 DEF ClientInv
  <2>9. /\ \A n \in Seqs : pktArray'[n] = NoPkt /\ ~sendArray'[n]
        /\ ~sendArray'[head'] /\ rcvWindowSize' + Cardinality(Waiting') = Mrws
    BY <2>2, <2>4, <2>5, <2>7 DEF Unset, Empty, arrayVars, windowVars, ClientTypeOK
  <2>10. base' .. lastSequence' - 1 = {} /\ base' .. head' - 1 = {}
    BY <1>1, <2>2, <2>4, <2>6 DEF windowVars
  <2> HIDE DEF Room, Waiting
  <2> QED
    BY <1>1, <2>2, <2>4, <2>6, <2>8, <2>9, <2>10 DEF ClientInv, Copying, Busy, windowVars
<1>5. CASE SendPkt
  <2>1. Copying /\ Busy /\ pc = "send" BY <1>5 DEF SendPkt, Copying, Busy
  <2>2. Fits /\ rcvWindowSize # 0 BY <2>1, WindowOpen
  <2>3. /\ pc' = "recv" /\ pktArray' = Insert(pktArray, lastSequence, DataPkt)
        /\ lastSequence' = lastSequence + 1 /\ transferred' = transferred + 1
        /\ transferred < fileLen /\ lastSequence < end
        /\ UNCHANGED <<head, end, sendArray, rcvWindowSize, xfer, fileLen, received>>
    <3>1. lastSequence + 1 \in 0 .. SeqSize - 1 BY <1>1, Constants
    <3> QED BY <1>1, <1>5, <2>2, <3>1 DEF SendPkt, MaySend, HasData, WindowFree, sizeVars
  <2>4. base' = base /\ base \in Nat /\ base <= lastSequence /\ Room' = Room /\ Waiting' = Waiting
    BY <1>1, <2>1, <2>3, NoWrap DEF base, Room, Waiting
  <2>5. /\ \A n \in Seqs : pktArray[n] # NoPkt <=> n \in base .. lastSequence - 1
        /\ \A n \in Seqs : pktArray[n] # NoPkt =>
             /\ IsData(pktArray[n]) /\ pktArray[n].seq = n
             /\ pktArray[n].rcvw # 0 /\ ChecksumOk(pktArray[n])
        /\ \A n \in Seqs : sendArray[n] => n \in base .. lastSequence - 1
        /\ rcvWindowSize + Cardinality(Waiting) = Mrws
        /\ ~sendArray[head]
        /\ \A n \in base .. head - 1 : sendArray[n]
        /\ xfer > 0
    BY <2>1 DEF ClientInv
  <2>6. /\ IsData(DataPkt) /\ DataPkt.seq = lastSequence
        /\ DataPkt.rcvw # 0 /\ ChecksumOk(DataPkt) /\ DataPkt # NoPkt
    <3>1. DataPkt \in Packet BY <2>2, ClientPackets DEF WellFormed
    <3>2. xfer # 0 BY <2>5
    <3> QED BY <2>2, <3>1, <3>2, ClientKinds, Constants
  <2>7. \A n \in Seqs : pktArray'[n] = IF n < lastSequence THEN pktArray[n]
                                       ELSE IF n = lastSequence THEN DataPkt ELSE NoPkt
    <3> SUFFICES ASSUME NEW n \in Seqs, n > lastSequence PROVE pktArray[n - 1] = NoPkt
      <4>1. Insert(pktArray, lastSequence, DataPkt)
              = [i \in Seqs |-> IF i < lastSequence THEN pktArray[i]
                                ELSE IF i = lastSequence THEN DataPkt ELSE pktArray[i - 1]]
        BY DEF Insert
      <4> HIDE DEF DataPkt
      <4> QED BY <1>1, <2>3, <4>1 DEF Seqs
    <3>1. n - 1 \in Seqs /\ n - 1 >= lastSequence BY <1>1, Constants DEF Seqs
    <3> QED BY <1>1, <2>4, <2>5, <3>1
  <2> HIDE DEF Room, Waiting, base
  <2>8. /\ \A n \in Seqs : pktArray'[n] # NoPkt <=> n \in base' .. lastSequence' - 1
        /\ \A n \in Seqs : pktArray'[n] # NoPkt =>
             /\ IsData(pktArray'[n]) /\ pktArray'[n].seq = n
             /\ pktArray'[n].rcvw # 0 /\ ChecksumOk(pktArray'[n])
    <3>1. \A n \in Seqs : n \in base .. lastSequence <=> n \in base .. lastSequence - 1 \/ n = lastSequence
      BY <1>1, <2>4, Constants DEF Seqs
    <3>2. base' .. lastSequence' - 1 = base .. lastSequence
      BY <1>1, <2>3, <2>4
    <3>3. \A n \in Seqs : n \in base .. lastSequence - 1 => n < lastSequence
      BY <1>1, <2>4
    <3> SUFFICES ASSUME NEW n \in Seqs
                 PROVE  /\ pktArray'[n] # NoPkt <=> n \in base .. lastSequence
                        /\ pktArray'[n] # NoPkt =>
                             /\ IsData(pktArray'[n]) /\ pktArray'[n].seq = n
                             /\ pktArray'[n].rcvw # 0 /\ ChecksumOk(pktArray'[n])
      BY <3>2
    <3>4. CASE n < lastSequence
      <4>1. pktArray'[n] = pktArray[n] BY <2>7, <3>4
      <4> QED BY <1>1, <2>5, <3>1, <3>4, <4>1
    <3>5. CASE n = lastSequence
      <4>1. pktArray'[n] = DataPkt BY <1>1, <2>7, <3>5
      <4> QED BY <2>6, <3>1, <3>5, <4>1
    <3>6. CASE n > lastSequence
      <4>1. pktArray'[n] = NoPkt BY <1>1, <2>7, <3>6, Constants DEF Seqs
      <4>2. n \notin base .. lastSequence BY <1>1, <2>4, <3>6, Constants DEF Seqs
      <4> QED BY <4>1, <4>2
    <3> QED BY <1>1, <3>4, <3>5, <3>6, Constants DEF Seqs
  <2>9. \A n \in Seqs : sendArray'[n] => n \in base' .. lastSequence' - 1
    BY <1>1, <2>3, <2>4, <2>5
  <2>10. /\ lastSequence' + Room' <= MaxTransfers * MaxChunks
         /\ transferred' <= lastSequence' /\ transferred' <= fileLen'
         /\ base' + fileLen' + Room' <= MaxTransfers * MaxChunks
         /\ head' <= lastSequence' /\ lastSequence' <= head' + WinSize /\ end' = head' + WinSize
         /\ transferred' # 0
    BY <1>1, <2>1, <2>3, <2>4 DEF ClientInv, base
  <2> QED
    BY <2>3, <2>4, <2>5, <2>8, <2>9, <2>10 DEF ClientInv, Copying, Busy
<1>6. CASE FinishTransfer
  <2>1. /\ pc = "send" /\ Busy /\ pc' \in {"crashed", "finwait"} /\ transferred <= received
        /\ UNCHANGED <<windowVars, fileVars>>
    BY <1>6 DEF FinishTransfer, Busy
  <2>2. Room' = Room /\ base' = base
    BY <2>1 DEF Room, base, windowVars, fileVars
  <2> QED BY <2>1, <2>2 DEF ClientInv, Copying, Busy, windowVars, fileVars
<1>7. CASE \E m \in {Head(toClient)}, k \in 0 .. SeqSize : toClient # <<>> /\ RcvNew(m, k)
  <2>1. PICK k \in 0 .. SeqSize : RcvNew(Head(toClient), k) /\ toClient # <<>> BY <1>7
  <2> DEFINE m == Head(toClient)
  <2>2. m \in Packet BY <2>1, TailOf
  <2> HIDE DEF m
  <2>3. /\ m.ack \in base .. lastSequence - 1 /\ m.ack \in Seqs
        /\ m.ack >= head /\ ~sendArray[m.ack]
        /\ sendArray' = [sendArray EXCEPT ![m.ack] = TRUE]
        /\ k <= lastSequence - head /\ head' = head + k /\ end' = end + k
        /\ head' \in Seqs
        /\ \A n \in head .. head' - 1 : sendArray'[n]
        /\ ~sendArray'[head']
    <3>1. RcvNew(m, k) BY <2>1 DEF m
    <3> QED BY <2>2, <3>1, NewEcho
  <2>4. /\ pc = "recv" /\ pc' = "send" /\ Copying /\ Busy
        /\ UNCHANGED <<lastSequence, pktArray, xfer, fileLen, transferred>>
        /\ rcvWindowSize' = rcvWindowSize - 1 + k
    BY <2>1 DEF RcvNew, Copying, Busy
  <2>5. base' = base /\ Room' = Room /\ base \in Nat
    BY <2>4, NoWrap DEF base, Room
  <2>6. Waiting' = (Waiting \cup {m.ack}) \ (head .. head + k - 1)
    <3>1. \A n \in Seqs : sendArray'[n] <=> sendArray[n] \/ n = m.ack
      BY <2>3 DEF ClientTypeOK
    <3>2. ASSUME NEW n \in Seqs
          PROVE  n >= head + k /\ (sendArray[n] \/ n = m.ack) <=>
                   /\ (n >= head /\ sendArray[n]) \/ n = m.ack
                   /\ n \notin head .. head + k - 1
      BY <1>1, <2>3, Constants DEF Seqs
    <3> QED BY <2>3, <3>1, <3>2 DEF Waiting
  <2>7. head .. head + k - 1 \subseteq Waiting \cup {m.ack}
    <3> SUFFICES ASSUME NEW n \in head .. head + k - 1, n # m.ack PROVE n \in Waiting
      OBVIOUS
    <3>1. n \in Seqs /\ n >= head /\ sendArray'[n]
      BY <1>1, <2>3, Constants DEF Seqs
    <3> QED BY <2>3, <3>1 DEF Waiting, ClientTypeOK
  <2>8. Cardinality(Waiting') = Cardinality(Waiting) + 1 - k
    <3>1. IsFiniteSet(Waiting) /\ Cardinality(Waiting) \in Nat BY <2>4, WindowOpen
    <3>2. m.ack \notin Waiting BY <2>3 DEF Waiting
    <3>3. /\ IsFiniteSet(Waiting \cup {m.ack})
          /\ Cardinality(Waiting \cup {m.ack}) = Cardinality(Waiting) + 1
      BY <3>1, <3>2, FS_AddElement
    <3> HIDE DEF Waiting
    <3>4. k \in Nat /\ head \in Int BY <1>1, Constants
    <3>5. Cardinality((Waiting \cup {m.ack}) \ (head .. head + k - 1)) = Cardinality(Waiting \cup {m.ack}) - k
      BY <2>7, <3>3, <3>4, IntervalOut
    <3> QED BY <2>6, <3>1, <3>3, <3>4, <3>5
  <2>9. Cardinality(Waiting) \in Int /\ k \in Int /\ rcvWindowSize \in Int
    BY <2>4, WindowOpen DEF ClientTypeOK
  <2> HIDE DEF Room, Waiting, base
  <2>10. rcvWindowSize' + Cardinality(Waiting') = Mrws
    BY <2>4, <2>8, <2>9 DEF ClientInv
  <2>11. \A n \in Seqs : sendArray'[n] => n \in base' .. lastSequence' - 1
    BY <2>3, <2>4, <2>5 DEF ClientInv, ClientTypeOK
  <2>12. \A n \in base' .. head' - 1 : sendArray'[n]
    <3> SUFFICES ASSUME NEW n \in base .. head' - 1 PROVE sendArray'[n]
      BY <2>5
    <3>1. CASE n >= head BY <1>1, <2>3, <2>5, <3>1
    <3>2. CASE n < head
      <4>1. n \in base .. head - 1 /\ n \in Seqs
        BY <1>1, <2>3, <2>5, <3>2, Constants DEF Seqs, ClientTypeOK
      <4>2. sendArray[n] BY <2>4, <4>1 DEF ClientInv
      <4> QED BY <2>3, <4>1, <4>2 DEF ClientTypeOK
    <3> QED BY <1>1, <2>5, <3>1, <3>2
  <2>13. end' = head' + WinSize /\ head' <= lastSequence' /\ lastSequence' <= head' + WinSize
    BY <1>1, <2>3, <2>4, <2>9 DEF ClientInv
  <2>14. transferred' # 0
    <3>1. base <= m.ack /\ m.ack < lastSequence BY <1>1, <2>3, <2>5
    <3> QED BY <1>1, <2>3, <2>4, <3>1 DEF base, Seqs
  <2> QED
    BY <2>3, <2>4, <2>5, <2>10, <2>11, <2>12, <2>13, <2>14 DEF ClientInv, Copying, Busy
<1>8. CASE /\ UNCHANGED <<windowVars, arrayVars, rcvWindowSize, fileVars>>
           /\ \/ pc' = pc \/ (Copying /\ Copying')
              \/ pc \in {"synwait", "command", "diswait"} /\ pc' \in {"down", "diswait", "closed"}
              \/ pc = "finwait" /\ pc' = "command"
  <2>1. Room' = Room /\ base' = base /\ Waiting' = Waiting
    BY <1>8 DEF Room, base, Waiting, windowVars, fileVars, arrayVars
  <2> HIDE DEF Room, base, Waiting
  <2> QED
    BY <1>8, <2>1 DEF ClientInv, Copying, Busy, windowVars, fileVars, arrayVars
<1> QED BY <1>2, <1>3, <1>4, <1>5, <1>6, <1>7, <1>8, ClientSteps

-----------------------------------------------------------------------------
(* The server's window by itself. *)

\* The slots kept are no more than the window has, and it is full only when
\* they are all of them.
LEMMA KeptSize ==
  ASSUME ServerTypeOK, WinInv
  PROVE  /\ IsFiniteSet(Kept) /\ Cardinality(Kept) \in 0 .. WinSize
         /\ IsFull(win) => Kept = win.start .. win.start + WinSize - 1
<1> DEFINE a == win.start
           b == win.start + WinSize - 1
<1>1. a \in Int /\ b \in Int /\ b - a + 1 = WinSize /\ b >= a
  BY Constants DEF ServerTypeOK, WindowType
<1>2. Kept \in SUBSET (a .. b) /\ win.unacked = Cardinality(Kept)
  BY DEF WinInv, UnackedCounts, Kept
<1>3. Kept = a .. b => Kept = win.start .. win.start + WinSize - 1
  OBVIOUS
<1> HIDE DEF a, b, Kept
<1>4. IsFiniteSet(a .. b) /\ Cardinality(a .. b) = WinSize
  BY <1>1, FS_Interval
<1>5. /\ IsFiniteSet(Kept) /\ Cardinality(Kept) <= WinSize
      /\ Cardinality(Kept) = WinSize => Kept = a .. b
  BY <1>2, <1>4, FS_Subset
<1>6. Cardinality(Kept) \in Nat BY <1>5, FS_CardinalityType
<1>7. IsFull(win) => Cardinality(Kept) = WinSize
  BY <1>2, <1>5, <1>6, Constants DEF IsFull
<1> QED BY <1>3, <1>5, <1>6, <1>7, Constants

\* An echo stored in the window.
LEMMA StoreInWindow ==
  ASSUME ServerTypeOK, WinInv, lastSequence \in Nat, lastSequence + WinSize < SeqSize,
         NEW n \in Seqs, n < lastSequence, ~Done(n), n < win.start + WinSize,
         NEW p \in Packet, IsAck(p), p.ack = n,
         win' = AddPacket(win, n, p), lastSequence' = lastSequence
  PROVE  /\ WinInv' /\ win'.start = win.start /\ Kept' = Kept \cup {n}
         /\ \A i \in Int : (Done(i))' <=> Done(i)
         /\ \A i \in Int : (Held(i))' <=> Held(i) \/ i = n
<1>1. /\ win \in WindowType /\ win.start \in Nat /\ win.unacked \in Int
      /\ p # NoPkt /\ ~win.ack[n] /\ n >= win.start /\ n \in Nat
      /\ win.end = win.start + WinSize /\ win.start <= lastSequence
  BY Constants DEF ServerTypeOK, WindowType, Done, WinInv, Seqs
<1>2. InRange(win, n)
  BY <1>1, Constants DEF InRange
<1> DEFINE u == win.unacked + 1 - (IF win.pkt[n] # NoPkt THEN 1 ELSE 0)
<1>3. /\ win'.start = win.start /\ win'.end = win.end /\ win'.unacked = u
      /\ win'.ack = [win.ack EXCEPT ![n] = FALSE]
      /\ win'.pkt = [win.pkt EXCEPT ![n] = p]
  <2>1. AddPacket(win, n, p) = [[win EXCEPT !.unacked = u] EXCEPT !.ack[n] = FALSE, !.pkt[n] = p]
    BY <1>2 DEF AddPacket
  <2>2. [win EXCEPT !.unacked = u] \in [start : Nat, end : Seqs, unacked : Int,
             ack : [Seqs -> BOOLEAN], pkt : [Seqs -> Packet \cup {NoPkt}]]
    BY <1>1 DEF WindowType
  <2> QED BY <1>1, <2>1, <2>2 DEF WindowType
<1>4. /\ win.ack \in [Seqs -> BOOLEAN] /\ win.pkt \in [Seqs -> Packet \cup {NoPkt}]
      /\ win'.ack = win.ack
  BY <1>1, <1>3 DEF WindowType
<1>5. Kept' = Kept \cup {n}
  BY <1>1, <1>3, <1>4 DEF Kept
<1>6. win'.unacked = Cardinality(Kept')
  <2>1. IsFiniteSet(Kept) /\ win.unacked = Cardinality(Kept)
    BY KeptSize DEF WinInv, UnackedCounts, Kept
  <2>2. n \in Kept <=> win.pkt[n] # NoPkt BY <1>1 DEF Kept
  <2> HIDE DEF Kept
  <2>3. Cardinality(Kept \cup {n}) = IF n \in Kept THEN Cardinality(Kept) ELSE Cardinality(Kept) + 1
    BY <2>1, FS_AddElement
  <2>4. win'.unacked = IF n \in Kept THEN win.unacked ELSE win.unacked + 1
    BY <1>1, <1>3, <2>2
  <2> QED BY <1>5, <2>1, <2>3, <2>4
<1>7. \A i \in Int : (Done(i))' <=> Done(i)
  BY <1>3, <1>4 DEF Done
<1>8. \A i \in Int : (Held(i))' <=> Held(i) \/ i = n
  <2> SUFFICES ASSUME NEW i \in Int PROVE (Held(i))' <=> Held(i) \/ i = n
    OBVIOUS
  <2>1. i \in Seqs => win'.pkt[i] = IF i = n THEN p ELSE win.pkt[i]
    BY <1>3, <1>4
  <2>2. i \notin Seqs => win'.pkt[i] = win.pkt[i]
    BY <1>3, <1>4
  <2> QED BY <1>1, <1>7, <2>1, <2>2 DEF Held
<1>9. WinInv'
  <2>1. /\ win'.start <= lastSequence' /\ win'.end = win'.start + WinSize
        /\ ~win'.ack[win'.start]
    BY <1>1, <1>3, <1>4 DEF WinInv
  <2>2. /\ Kept' \subseteq win'.start .. win'.start + WinSize - 1
        /\ Kept' \subseteq 0 .. lastSequence' - 1
    <3>1. n \in win.start .. win.start + WinSize - 1 /\ n \in 0 .. lastSequence - 1
      BY <1>1, Constants
    <3>2. Kept \subseteq win.start .. win.start + WinSize - 1 /\ Kept \subseteq 0 .. lastSequence - 1
      BY DEF WinInv
    <3> HIDE DEF Kept
    <3> QED BY <1>3, <1>5, <3>1, <3>2
  <2>3. \A i \in Seqs : win'.pkt[i] # NoPkt =>
          i >= win'.start /\ ~win'.ack[i] /\ IsAck(win'.pkt[i]) /\ win'.pkt[i].ack = i
    BY <1>1, <1>3, <1>4 DEF WinInv
  <2>4. UnackedCounts'
    BY <1>6 DEF UnackedCounts, Kept
  <2> QED BY <2>1, <2>2, <2>3, <2>4 DEF WinInv
<1> QED BY <1>3, <1>5, <1>7, <1>8, <1>9

\* An echo acknowledged, when the numbers do not begin anew: moveWindow's
\* loop passes what is acknowledged in order and resets no mark in use.
LEMMA AckInWindow ==
  ASSUME ServerTypeOK, WinInv, lastSequence \in Nat, lastSequence + WinSize < SeqSize,
         \A a \in 0 .. SeqSize - 1 : a % SeqSize = a,
         NEW n \in Seqs, Held(n), win' \in AckPacket(win, n), lastSequence' = lastSequence
  PROVE  /\ WinInv' /\ win.start <= win'.start /\ Kept' \subseteq Kept
         /\ \A i \in Seqs : (Done(i))' <=> Done(i) \/ i = n
         /\ \A i \in Seqs : (Held(i))' <=> Held(i)
<1>1. /\ win \in WindowType /\ win.start \in Nat /\ win.unacked \in Int
      /\ win.ack \in [Seqs -> BOOLEAN] /\ win.pkt \in [Seqs -> Packet \cup {NoPkt}]
      /\ win.end = win.start + WinSize /\ win.start <= lastSequence
      /\ n \in Nat /\ WinSize \in Nat /\ WinSize > 0 /\ SeqSize \in Nat
      /\ \A i \in Seqs : i \in Nat /\ i < SeqSize
      /\ \A i \in Nat : i < SeqSize => i \in Seqs
  BY Constants DEF ServerTypeOK, WindowType, WinInv, Seqs
<1>2. CASE win.ack[n] \/ win.pkt[n] = NoPkt
  <2>1. win' = win BY <1>2 DEF AckPacket
  <2>2. Done(n) BY <1>2 DEF Held, Done
  <2>3. WinInv' BY <2>1 DEF WinInv, Kept, UnackedCounts
  <2> QED BY <1>1, <2>1, <2>2, <2>3 DEF Done, Held, Kept
<1>3. CASE ~(win.ack[n] \/ win.pkt[n] = NoPkt)
  <2> DEFINE u == [win EXCEPT !.ack[n] = TRUE, !.pkt[n] = NoPkt]
  <2>1. /\ u.start = win.start /\ u.end = win.end /\ u.unacked = win.unacked
        /\ u.ack = [win.ack EXCEPT ![n] = TRUE] /\ u.pkt = [win.pkt EXCEPT ![n] = NoPkt]
        /\ u \in WindowType
    BY <1>1 DEF WindowType
  <2>2. PICK k \in 0 .. SeqSize : SlidesBy(u, k) /\ win' = IF k = 0 THEN u ELSE Slide(u, k)
    BY <1>3 DEF AckPacket, MoveWindow
  <2> HIDE DEF u
  <2>3. n \in Kept /\ n >= win.start
    BY <1>3 DEF WinInv, Kept
  <2>4. \A i \in Seqs : i >= win.start /\ u.ack[i] => i \in Kept
    BY <1>1, <2>1, <2>3 DEF Kept
  <2>5. /\ \A i \in Kept : i \in Nat /\ i < win.start + WinSize /\ i < lastSequence
        /\ Kept \subseteq Seqs
    BY <1>1 DEF WinInv, Kept
  <2>6. \A j \in 0 .. k - 1 : win.start + j < SeqSize /\ u.ack[win.start + j]
    BY <2>1, <2>2 DEF SlidesBy
  <2>7. \A j \in 0 .. k - 1 : win.start + j \in Kept
    BY <1>1, <2>4, <2>6
  <2>8. win.start + k <= lastSequence /\ k \in Nat
    <3>1. k \in Nat BY <2>2
    <3>2. CASE k = 0 BY <1>1, <3>2
    <3>3. CASE k > 0
      <4>1. k - 1 \in 0 .. k - 1 BY <3>1, <3>3
      <4>2. win.start + (k - 1) \in Kept BY <2>7, <4>1
      <4>3. win.start + (k - 1) < lastSequence BY <2>5, <4>2
      <4>4. win.start \in Nat /\ lastSequence \in Nat BY <1>1
      <4> QED BY <3>1, <4>3, <4>4
    <3> QED BY <3>1, <3>2, <3>3
  <2>9. \A i \in ResetBySlide(u, k) : i \in Nat /\ i >= win.start + WinSize
    <3> SUFFICES ASSUME NEW j \in 0 .. k - 1
                 PROVE  (u.end + j) % SeqSize \in Nat /\ (u.end + j) % SeqSize >= win.start + WinSize
      BY DEF ResetBySlide
    <3>1. u.end + j \in 0 .. SeqSize - 1 /\ u.end + j >= win.start + WinSize
      BY <1>1, <2>1, <2>8
    <3> QED BY <1>1, <3>1
  <2>10. \A i \in Seqs : u.ack[i] => i \notin ResetBySlide(u, k)
    <3> SUFFICES ASSUME NEW i \in Seqs, u.ack[i], i \in ResetBySlide(u, k) PROVE FALSE
      OBVIOUS
    <3>1. i >= win.start + WinSize /\ i \in Nat BY <2>9
    <3>2. i \in Kept BY <1>1, <2>4, <3>1
    <3> QED BY <1>1, <2>5, <3>1, <3>2
  <2>11. /\ win'.start = win.start + k /\ win'.end = win.end + k
         /\ win'.unacked = win.unacked - k /\ win'.ack = u.ack /\ win'.pkt = u.pkt
    <3>1. CASE k = 0 BY <1>1, <2>1, <2>2, <3>1
    <3>2. CASE k # 0
      <4>1. win' = Slide(u, k) BY <2>2, <3>2
      <4>2. /\ win'.start = (u.start + k) % SeqSize /\ win'.end = (u.end + k) % SeqSize
            /\ win'.unacked = u.unacked - k /\ win'.pkt = u.pkt
            /\ win'.ack = [i \in Seqs |-> u.ack[i] /\ i \notin ResetBySlide(u, k)]
        BY <2>1, <4>1 DEF Slide, WindowType
      <4>3. u.ack \in [Seqs -> BOOLEAN] BY <2>1 DEF WindowType
      <4>4. win'.ack = u.ack BY <2>10, <4>2, <4>3
      <4>5. u.start + k \in 0 .. SeqSize - 1 /\ u.end + k \in 0 .. SeqSize - 1
        BY <1>1, <2>1, <2>8
      <4> QED BY <1>1, <2>1, <4>2, <4>4, <4>5
    <3> QED BY <3>1, <3>2
  <2>12. \A i \in Seqs : /\ win'.ack[i] <=> win.ack[i] \/ i = n
                         /\ win'.pkt[i] = IF i = n THEN NoPkt ELSE win.pkt[i]
    BY <1>1, <2>1, <2>11
  <2>13. Kept' = Kept \ (win.start .. win.start + k - 1)
    <3>1. \A i \in Seqs : (win'.pkt[i] # NoPkt \/ win'.ack[i]) <=> (win.pkt[i] # NoPkt \/ win.ack[i])
      BY <1>3, <2>12
    <3>2. \A i \in Seqs : i >= win'.start <=> i >= win.start /\ i \notin win.start .. win.start + k - 1
      <4>1. win.start \in Nat /\ k \in Nat /\ win'.start = win.start + k BY <1>1, <2>8, <2>11
      <4>2. \A i \in Seqs : i \in Nat BY <1>1
      <4> QED BY <4>1, <4>2
    <3> QED BY <3>1, <3>2 DEF Kept
  <2>14. win.start .. win.start + k - 1 \subseteq Kept
    <3> SUFFICES ASSUME NEW i \in win.start .. win.start + k - 1 PROVE i \in Kept
      OBVIOUS
    <3>1. i - win.start \in 0 .. k - 1 /\ win.start + (i - win.start) = i
      BY <1>1, <2>8
    <3> QED BY <2>7, <3>1
  <2>15. win'.unacked = Cardinality(Kept')
    <3>1. IsFiniteSet(Kept) /\ win.unacked = Cardinality(Kept)
      BY KeptSize DEF WinInv, UnackedCounts, Kept
    <3> HIDE DEF Kept
    <3>2. win.start \in Int BY <1>1
    <3>3. Cardinality(Kept \ (win.start .. win.start + k - 1)) = Cardinality(Kept) - k
      BY <2>8, <2>14, <3>1, <3>2, IntervalOut
    <3> QED BY <2>11, <2>13, <3>1, <3>3
  <2>16. WinInv'
    <3>1. win'.start <= lastSequence' /\ win'.end = win'.start + WinSize
      BY <1>1, <2>8, <2>11
    <3>2. /\ Kept' \subseteq win'.start .. win'.start + WinSize - 1
          /\ Kept' \subseteq 0 .. lastSequence' - 1
      <4> SUFFICES ASSUME NEW i \in Kept'
                   PROVE  i \in win'.start .. win'.start + WinSize - 1 /\ i \in 0 .. lastSequence' - 1
        OBVIOUS
      <4>1. i \in Kept /\ i >= win'.start BY <2>13 DEF Kept
      <4>2. i \in Nat /\ i < win.start + WinSize /\ i < lastSequence BY <2>5, <4>1
      <4> QED BY <1>1, <2>8, <2>11, <4>1, <4>2
    <3>3. ASSUME NEW i \in Seqs, win'.pkt[i] # NoPkt
          PROVE  i >= win'.start /\ ~win'.ack[i] /\ IsAck(win'.pkt[i]) /\ win'.pkt[i].ack = i
      <4>0. i \in Nat /\ win.start \in Nat /\ k \in Nat /\ win'.start = win.start + k
        <5>1. i \in Nat /\ win.start \in Nat BY <1>1
        <5> QED BY <2>8, <2>11, <5>1
      <4>1. i # n /\ win'.pkt[i] = win.pkt[i] /\ win.pkt[i] # NoPkt BY <2>12, <3>3
      <4>2. i >= win.start /\ ~win.ack[i] /\ IsAck(win.pkt[i]) /\ win.pkt[i].ack = i
        BY <4>1 DEF WinInv
      <4>3. CASE i < win'.start
        <5>1. i - win.start \in 0 .. k - 1 /\ win.start + (i - win.start) = i
          BY <4>0, <4>2, <4>3
        <5>2. u.ack[i] BY <2>6, <5>1
        <5>3. win.ack[i] BY <1>1, <2>1, <4>1, <5>2
        <5> QED BY <4>2, <5>3
      <4>5. i >= win'.start BY <4>0, <4>3
      <4> QED BY <2>12, <4>1, <4>2, <4>5
    <3>4. ~win'.ack[win'.start]
      <4>1. ~(/\ win.start + k < SeqSize /\ u.ack[win.start + k]
              /\ win.start + k \notin ResetBySlide(u, k))
        BY <2>1, <2>2 DEF SlidesBy
      <4>2. win.start + k \in Seqs /\ win.start + k < SeqSize
        BY <1>1, <2>8
      <4> QED BY <2>10, <2>11, <4>1, <4>2
    <3>5. UnackedCounts' BY <2>15 DEF UnackedCounts, Kept
    <3> QED BY <3>1, <3>2, <3>3, <3>4, <3>5 DEF WinInv
  <2>17. \A i \in Seqs : (Done(i))' <=> Done(i) \/ i = n
    <3> SUFFICES ASSUME NEW i \in Seqs PROVE (Done(i))' <=> Done(i) \/ i = n
      OBVIOUS
    <3>1. (Done(i))' <=> i < win.start + k \/ win.ack[i] \/ i = n
      BY <2>11, <2>12 DEF Done
    <3>2. i < win.start + k => i < win.start \/ win.ack[i] \/ i = n
      <4> SUFFICES ASSUME i < win.start + k, i >= win.start PROVE win.ack[i] \/ i = n
        <5>1. i \in Nat /\ win.start \in Nat BY <1>1
        <5> QED BY <5>1
      <4>1. i - win.start \in 0 .. k - 1 /\ win.start + (i - win.start) = i
        BY <1>1, <2>8
      <4>2. u.ack[i] BY <2>6, <4>1
      <4> QED BY <1>1, <2>1, <4>2
    <3>3. i < win.start => i < win.start + k
      BY <1>1, <2>8
    <3> QED BY <3>1, <3>2, <3>3 DEF Done
  <2>18. \A i \in Seqs : (Held(i))' <=> Held(i)
    <3> SUFFICES ASSUME NEW i \in Seqs PROVE (Held(i))' <=> Held(i)
      OBVIOUS
    <3>1. (Done(i))' <=> Done(i) \/ i = n BY <2>17
    <3> HIDE DEF Done
    <3> QED BY <1>3, <2>12, <3>1 DEF Held
  <2>19. win.start <= win'.start BY <1>1, <2>8, <2>11
  <2>20. Kept' \subseteq Kept BY <2>13
  <2> QED BY <2>16, <2>17, <2>18, <2>19, <2>20
<1> QED BY <1>2, <1>3

-----------------------------------------------------------------------------
(* The client's turns in a transfer. *)

\* What joins the queue comes after all that is on it.
LEMMA JoinedBefore ==
  ASSUME toServer \in Seq(Packet), NEW r \in Seq(Packet), toServer' = toServer \o r
  PROVE  /\ \A i \in DOMAIN toServer : i \in DOMAIN toServer' /\ toServer'[i] = toServer[i]
         /\ \A i \in DOMAIN r : Len(toServer) + i \in DOMAIN toServer' /\ toServer'[Len(toServer) + i] = r[i]
         /\ \A i \in DOMAIN toServer' :
              \/ i \in DOMAIN toServer /\ toServer'[i] = toServer[i]
              \/ i > Len(toServer) /\ i - Len(toServer) \in DOMAIN r /\ toServer'[i] = r[i - Len(toServer)]
         /\ Len(toServer') = Len(toServer) + Len(r)
         /\ \A n, i \in Int : i <= Beyond =>
              /\ (AckBefore(n, i))' <=> AckBefore(n, i)
              /\ (DataBefore(n, i))' <=> DataBefore(n, i)
         /\ \A n, i \in Int : i >= Beyond =>
              /\ AckBefore(n, Beyond) => (AckBefore(n, i))'
              /\ DataBefore(n, Beyond) => (DataBefore(n, i))'
<1>1. /\ Len(toServer) \in Nat /\ Len(r) \in Nat /\ Len(toServer') = Len(toServer) + Len(r)
      /\ DOMAIN toServer = 1 .. Len(toServer) /\ DOMAIN r = 1 .. Len(r)
      /\ DOMAIN toServer' = 1 .. Len(toServer) + Len(r)
      /\ \A j \in 1 .. Len(toServer) + Len(r) :
           toServer'[j] = IF j <= Len(toServer) THEN toServer[j] ELSE r[j - Len(toServer)]
  BY Joined
<1>2. \A i \in 1 .. Len(toServer) : toServer'[i] = toServer[i]
  BY <1>1
<1>3. \A i \in 1 .. Len(r) : Len(toServer) + i \in DOMAIN toServer' /\ toServer'[Len(toServer) + i] = r[i]
  BY <1>1
<1>4. ASSUME NEW n \in Int, NEW i \in Int, i <= Beyond
      PROVE  /\ (AckBefore(n, i))' <=> AckBefore(n, i)
             /\ (DataBefore(n, i))' <=> DataBefore(n, i)
  <2>1. \A j \in 1 .. i - 1 : toServer'[j] = toServer[j]
    BY <1>1, <1>2, <1>4 DEF Beyond
  <2> QED BY <2>1 DEF AckBefore, DataBefore
<1>5. ASSUME NEW n \in Int, NEW i \in Int, i >= Beyond
      PROVE  /\ AckBefore(n, Beyond) => (AckBefore(n, i))'
             /\ DataBefore(n, Beyond) => (DataBefore(n, i))'
  <2>1. \A j \in 1 .. Beyond - 1 : toServer'[j] = toServer[j] /\ j \in 1 .. i - 1
    BY <1>1, <1>2, <1>5 DEF Beyond
  <2> QED BY <2>1 DEF AckBefore, DataBefore
<1> QED BY <1>1, <1>2, <1>3, <1>4, <1>5

\* What the client may add to the path in a turn of transfer(): first the
\* acknowledgement of the echo it has read, if any, then packets that are
\* not acknowledged.
TurnAdds(r) ==
  /\ r \in Seq(Packet) /\ toServer' = toServer \o r
  /\ \A i \in DOMAIN r :
       \/ /\ i = 1 /\ IsAck(r[i]) /\ r[i].rcvw # 0
          /\ r[i].ack \in base .. lastSequence - 1 /\ sendArray'[r[i].ack]
       \/ /\ IsData(r[i]) /\ r[i].rcvw # 0 /\ ChecksumOk(r[i])
          /\ r[i].seq \in base .. lastSequence' - 1 /\ ~sendArray'[r[i].seq]
  /\ \A n \in base .. lastSequence - 1 :
       /\ sendArray[n] => sendArray'[n]
       /\ sendArray'[n] /\ ~sendArray[n] =>
            /\ 1 \in DOMAIN r /\ IsAck(r[1]) /\ r[1].ack = n
            /\ 1 \in DOMAIN toClient /\ CurrentEcho(toClient[1]) /\ toClient[1].ack = n
  /\ \/ lastSequence' = lastSequence
     \/ /\ lastSequence' = lastSequence + 1 /\ ~sendArray'[lastSequence]
        /\ \E i \in DOMAIN r : IsData(r[i]) /\ r[i].seq = lastSequence
  /\ toClient' = toClient \/ (toClient # <<>> /\ toClient' = Tail(toClient))
  /\ \/ received' = received
     \/ toClient # <<>> /\ toClient' = Tail(toClient) /\ CurrentEcho(toClient[1])

\* The numbers in use, before and after one packet more.
LEMMA NextNumber ==
  \A l \in Nat : \A m \in {l, l + 1} :
    /\ m \in Nat /\ l <= m /\ m <= l + 1 /\ 0 .. l - 1 \subseteq 0 .. m - 1
    /\ \A b \in Nat : \A n \in b .. m - 1 : n \in b .. l - 1 \/ (n = l /\ m = l + 1)
<1> SUFFICES ASSUME NEW l \in Nat, NEW m \in {l, l + 1}
             PROVE  /\ m \in Nat /\ l <= m /\ m <= l + 1 /\ 0 .. l - 1 \subseteq 0 .. m - 1
                    /\ \A b \in Nat : \A n \in b .. m - 1 : n \in b .. l - 1 \/ (n = l /\ m = l + 1)
  OBVIOUS
<1>1. CASE m = l
  BY <1>1
<1>2. CASE m = l + 1
  BY <1>2
<1> QED BY <1>1, <1>2

\* Such a turn keeps the invariant.
LEMMA CopyTurn ==
  ASSUME OneLoss, IInv, Copying, Copying', UNCHANGED <<serverVars, lost, cli>>, base' = base,
         TypeInv', ClientInv', NEW r, TurnAdds(r)
  PROVE  IInv'
<1>1. /\ Live /\ Live' /\ Busy /\ Busy' /\ connected /\ connected' /\ win' = win /\ lost' = lost
      /\ pc \notin {"finwait", "command", "synwait", "down"}
      /\ pc' \notin {"finwait", "command", "synwait", "down"}
      /\ TypeInv /\ ClientInv /\ WinInv /\ ServedInv /\ PathInv /\ FinishInv /\ CarryInv /\ HoleInv
  BY DEF IInv, ServedInv, Live, Copying, Busy, serverVars
<1>2. /\ base \in Nat /\ lastSequence \in Nat /\ lastSequence' \in {lastSequence, lastSequence + 1}
      /\ base <= lastSequence /\ WinSize \in Nat /\ WinSize > 0 /\ head' \in Nat /\ base' = base
      /\ lastSequence' <= head' + WinSize /\ win.start \in Nat /\ base <= win.start
      /\ lastSequence' \in Nat /\ lastSequence <= lastSequence' /\ lastSequence' <= lastSequence + 1
  <2>1. base \in Nat /\ lastSequence \in Nat /\ base <= lastSequence
    BY <1>1, NoWrap DEF TypeInv, TypeOK
  <2>2. lastSequence' \in {lastSequence, lastSequence + 1} BY DEF TurnAdds
  <2>3. head' \in Nat /\ win.start \in Nat /\ WinSize \in Nat /\ WinSize > 0
    BY <1>1, Constants DEF TypeInv, TypeOK, ClientTypeOK, ServerTypeOK, WindowType, Seqs
  <2>4. lastSequence' <= head' + WinSize BY <1>1 DEF ClientInv
  <2>5. base <= win.start BY <1>1 DEF ServedInv
  <2>6. lastSequence' \in Nat /\ lastSequence <= lastSequence' /\ lastSequence' <= lastSequence + 1
    BY <2>1, <2>2, NextNumber
  <2> QED BY <2>1, <2>2, <2>3, <2>4, <2>5, <2>6
<1>0. /\ lastSequence' < SeqSize /\ SeqSize \in Nat
      /\ \A i \in Seqs : i \in Nat /\ i < SeqSize
      /\ \A i \in Nat : i < SeqSize => i \in Seqs
  BY Constants DEF TypeInv, TypeOK, ClientTypeOK, Seqs
<1>3. /\ toServer \in Seq(Packet) /\ toClient \in Seq(Packet) /\ Len(toServer) \in Nat
      /\ DOMAIN toServer = 1 .. Len(toServer) /\ DOMAIN r = 1 .. Len(r) /\ Len(r) \in Nat
      /\ Beyond = Len(toServer) + 1
  <2>1. r \in Seq(Packet) BY DEF TurnAdds
  <2> QED BY <1>1, <2>1 DEF TypeInv, TypeOK, Beyond
<1>4. /\ \A i \in DOMAIN toServer : i \in DOMAIN toServer' /\ toServer'[i] = toServer[i]
      /\ \A i \in DOMAIN r : Len(toServer) + i \in DOMAIN toServer' /\ toServer'[Len(toServer) + i] = r[i]
      /\ \A i \in DOMAIN toServer' :
           \/ i \in DOMAIN toServer /\ toServer'[i] = toServer[i]
           \/ i > Len(toServer) /\ i - Len(toServer) \in DOMAIN r /\ toServer'[i] = r[i - Len(toServer)]
      /\ Beyond' = Beyond + Len(r)
      /\ \A n, i \in Int : i <= Beyond =>
           /\ (AckBefore(n, i))' <=> AckBefore(n, i)
           /\ (DataBefore(n, i))' <=> DataBefore(n, i)
      /\ \A n, i \in Int : i >= Beyond =>
           /\ AckBefore(n, Beyond) => (AckBefore(n, i))'
           /\ DataBefore(n, Beyond) => (DataBefore(n, i))'
  <2>0. r \in Seq(Packet) /\ toServer' = toServer \o r BY DEF TurnAdds
  <2>1. Beyond' = Beyond + Len(r)
    BY <1>3, <2>0, Joined DEF Beyond
  <2> QED BY <1>3, <2>0, <2>1, JoinedBefore
<1>5. /\ \A n : (Done(n))' <=> Done(n)
      /\ \A n : (Held(n))' <=> Held(n)
      /\ Kept' = Kept
  BY <1>1 DEF Done, Held, Kept
<1>6. PICK k \in {0, 1} :
        /\ \A i \in DOMAIN toClient' : i + k \in DOMAIN toClient /\ toClient'[i] = toClient[i + k]
        /\ \/ received' = received
           \/ k = 1 /\ 1 \in DOMAIN toClient /\ CurrentEcho(toClient[1])
  <2>1. CASE toClient # <<>> /\ toClient' = Tail(toClient)
    <3>1. \A i \in DOMAIN toClient' : i + 1 \in DOMAIN toClient /\ toClient'[i] = toClient[i + 1]
      BY <1>3, <2>1, TailOf
    <3>2. 1 \in DOMAIN toClient BY <1>3, <2>1
    <3> QED BY <3>1, <3>2 DEF TurnAdds
  <2>2. CASE toClient' = toClient /\ received' = received
    BY <1>3, <2>2
  <2> QED BY <2>1, <2>2 DEF TurnAdds
<1>7. \A i \in DOMAIN r :
        \/ /\ i = 1 /\ IsAck(r[i]) /\ r[i].rcvw # 0
           /\ r[i].ack \in base .. lastSequence - 1 /\ sendArray'[r[i].ack]
        \/ /\ IsData(r[i]) /\ r[i].rcvw # 0 /\ ChecksumOk(r[i])
           /\ r[i].seq \in base .. lastSequence' - 1 /\ ~sendArray'[r[i].seq]
  BY DEF TurnAdds
<1>8. \A n \in base .. lastSequence - 1 :
        /\ sendArray[n] => sendArray'[n]
        /\ sendArray'[n] /\ ~sendArray[n] =>
             /\ Held(n) /\ 1 \in DOMAIN r /\ IsAck(r[1]) /\ r[1].ack = n
  <2> SUFFICES ASSUME NEW n \in base .. lastSequence - 1, sendArray'[n], ~sendArray[n] PROVE Held(n)
    BY DEF TurnAdds
  <2>1. 1 \in DOMAIN toClient /\ CurrentEcho(toClient[1]) /\ toClient[1].ack = n BY DEF TurnAdds
  <2> QED BY <1>1, <2>1 DEF CarryInv
<1>9. /\ lastSequence' = lastSequence + 1 =>
           /\ ~sendArray'[lastSequence]
           /\ \E i \in DOMAIN r : IsData(r[i]) /\ r[i].seq = lastSequence
      /\ \A n \in base .. lastSequence' - 1 :
           n \in base .. lastSequence - 1 \/ (n = lastSequence /\ lastSequence' = lastSequence + 1)
  <2>1. lastSequence' # lastSequence + 1 \/
           /\ ~sendArray'[lastSequence]
           /\ \E i \in DOMAIN r : IsData(r[i]) /\ r[i].seq = lastSequence
    BY <1>2 DEF TurnAdds
  <2>2. \A n \in base .. lastSequence' - 1 :
           n \in base .. lastSequence - 1 \/ (n = lastSequence /\ lastSequence' = lastSequence + 1)
    BY <1>2, NextNumber
  <2> QED BY <2>1, <2>2
<1>10. ~Settled(lastSequence, Beyond)
  <2>1. ~Done(lastSequence)
    <3>1. win.start <= lastSequence /\ Kept \subseteq 0 .. lastSequence - 1 /\ lastSequence \in Seqs
      BY <1>0, <1>1, <1>2 DEF WinInv
    <3> QED BY <1>2, <3>1 DEF Done, Kept
  <2>2. ~AckBefore(lastSequence, Beyond)
    <3> SUFFICES ASSUME NEW j \in 1 .. Beyond - 1, IsAck(toServer[j]), toServer[j].ack = lastSequence PROVE FALSE
      BY DEF AckBefore
    <3>1. j \in DOMAIN toServer BY <1>3
    <3>2. toServer[j].ack \in base .. lastSequence - 1 BY <1>1, <3>1 DEF CarryInv
    <3> QED BY <1>2, <3>2
  <2> QED BY <2>1, <2>2 DEF Settled
<1>11. WinInv'
  <2>1. lastSequence <= lastSequence' /\ 0 .. lastSequence - 1 \subseteq 0 .. lastSequence' - 1
    BY <1>2, NextNumber
  <2>2. UnackedCounts' BY <1>1 DEF WinInv, UnackedCounts
  <2>3. win.start <= lastSequence' BY <1>1, <1>2 DEF WinInv
  <2> QED BY <1>1, <1>5, <2>1, <2>2, <2>3 DEF WinInv
<1>12. ServedInv'
  BY <1>1, <1>2, <1>5 DEF ServedInv
<1>13. PathInv'
  <2>1. cli' # 0 BY <1>1 DEF PathInv
  <2>2. ASSUME NEW i \in DOMAIN toServer', IsFint(toServer'[i]) PROVE toServer'[i].ack < lastSequence'
    <3>1. CASE i \in DOMAIN toServer /\ toServer'[i] = toServer[i]
      <4>1. toServer[i].ack < lastSequence /\ toServer[i].ack \in Nat
        <5>1. toServer[i] \in Packet BY <1>3, <3>1
        <5> QED BY <1>0, <1>1, <2>2, <3>1, <5>1 DEF PathInv, Packet
      <4> QED BY <1>2, <3>1, <4>1
    <3>2. CASE i - Len(toServer) \in DOMAIN r /\ toServer'[i] = r[i - Len(toServer)]
      BY <1>7, <2>2, <3>2, OneKind
    <3> QED BY <1>4, <3>1, <3>2
  <2>3. ASSUME NEW i \in DOMAIN toClient', IsAck(toClient'[i]) \/ IsFint(toClient'[i])
        PROVE  toClient'[i].ack < lastSequence'
    <3>1. /\ i + k \in DOMAIN toClient /\ toClient'[i] = toClient[i + k]
          /\ toClient[i + k].ack < lastSequence /\ toClient[i + k].ack \in Nat
      <4>1. i + k \in DOMAIN toClient /\ toClient'[i] = toClient[i + k] BY <1>6
      <4>2. toClient[i + k] \in Packet BY <1>3, <4>1
      <4> QED BY <1>0, <1>1, <2>3, <4>1, <4>2 DEF PathInv, Packet
    <3> QED BY <1>2, <3>1
  <2>4. ASSUME NEW i \in DOMAIN toServer' PROVE Known(toServer'[i])
    <3>1. CASE i \in DOMAIN toServer /\ toServer'[i] = toServer[i]
      BY <1>1, <3>1 DEF PathInv
    <3>2. CASE i - Len(toServer) \in DOMAIN r /\ toServer'[i] = r[i - Len(toServer)]
      BY <1>7, <3>2 DEF Known, Carries
    <3> QED BY <1>4, <3>1, <3>2
  <2> QED BY <1>1, <2>1, <2>2, <2>3, <2>4 DEF PathInv
<1>14. FinishInv'
  <2>1. ASSUME NEW i \in DOMAIN toServer'
        PROVE  /\ ~IsFin(toServer'[i])
               /\ IsSyn(toServer'[i]) \/ IsFint(toServer'[i]) =>
                    i \in DOMAIN toServer /\ toServer'[i] = toServer[i]
    <3>1. CASE i \in DOMAIN toServer /\ toServer'[i] = toServer[i]
      BY <1>1, <3>1 DEF FinishInv
    <3>2. CASE i - Len(toServer) \in DOMAIN r /\ toServer'[i] = r[i - Len(toServer)]
      BY <1>7, <3>2, OneKind
    <3> QED BY <1>4, <3>1, <3>2
  <2>2. ASSUME NEW i \in DOMAIN toServer', IsFint(toServer'[i])
        PROVE  toServer'[i].ack = base - 1
    <3>1. i \in DOMAIN toServer /\ toServer'[i] = toServer[i] BY <2>1, <2>2
    <3> QED BY <1>1, <2>2, <3>1 DEF FinishInv
  <2>3. ASSUME NEW i \in DOMAIN toServer', IsOld(toServer'[i])
        PROVE  /\ Kept' = {} /\ win'.start = base' /\ received' = 0
               /\ \A j \in 1 .. i - 1 : ~Carries(toServer'[j])
               /\ \A j \in DOMAIN toClient' : ~CurrentEcho(toClient'[j])
    <3>1. i \in DOMAIN toServer /\ toServer'[i] = toServer[i] /\ IsOld(toServer[i])
      BY <2>1, <2>3 DEF IsOld
    <3>2. /\ Kept = {} /\ win.start = base /\ received = 0
          /\ \A j \in 1 .. i - 1 : ~Carries(toServer[j])
          /\ \A j \in DOMAIN toClient : ~CurrentEcho(toClient[j])
      BY <1>1, <3>1 DEF FinishInv
    <3>3. received' = 0 BY <1>6, <3>2
    <3>4. ASSUME NEW j \in 1 .. i - 1 PROVE ~Carries(toServer'[j])
      <4>1. j \in DOMAIN toServer BY <1>3, <3>1
      <4> QED BY <1>4, <3>2, <4>1
    <3>5. ASSUME NEW j \in DOMAIN toClient' PROVE ~CurrentEcho(toClient'[j])
      <4>1. j + k \in DOMAIN toClient /\ toClient'[j] = toClient[j + k] BY <1>6
      <4> QED BY <3>2, <4>1
    <3> QED BY <1>1, <1>2, <1>5, <3>2, <3>3, <3>4, <3>5
  <2>4. ASSUME NEW i \in DOMAIN toClient', IsFint(toClient'[i])
        PROVE  /\ toClient'[i].ack < base' /\ received' = 0
               /\ \A j \in 1 .. i - 1 : ~CurrentEcho(toClient'[j])
    <3>1. i + k \in DOMAIN toClient /\ toClient'[i] = toClient[i + k] BY <1>6
    <3>2. /\ toClient[i + k].ack < base /\ received = 0
          /\ \A j \in 1 .. i + k - 1 : ~CurrentEcho(toClient[j])
      <4>1. IsFint(toClient[i + k]) BY <2>4, <3>1
      <4>2. \A e \in DOMAIN toClient : IsFint(toClient[e]) =>
              /\ toClient[e].ack < base /\ received = 0
              /\ \A j \in 1 .. e - 1 : ~CurrentEcho(toClient[j])
        BY <1>1 DEF FinishInv
      <4>3. i \in Int /\ i + k \in Int
        <5>1. toClient' \in Seq(Packet) BY DEF TypeInv, TypeOK
        <5> QED BY <5>1
      <4> QED BY <3>1, <4>1, <4>2, <4>3
    <3>3. i \in Nat /\ i >= 1 /\ \A j \in 1 .. i - 1 : j \in DOMAIN toClient'
      <4>1. toClient' \in Seq(Packet) BY DEF TypeInv, TypeOK
      <4> QED BY <4>1
    <3>4. received' = 0
      <4>1. k = 1 => 1 \in 1 .. i + k - 1 BY <3>3
      <4> QED BY <1>6, <3>2, <4>1
    <3>5. ASSUME NEW j \in 1 .. i - 1 PROVE ~CurrentEcho(toClient'[j])
      <4>1. toClient'[j] = toClient[j + k] BY <1>6, <3>3
      <4>2. j + k \in 1 .. i + k - 1 BY <3>3
      <4>3. ~CurrentEcho(toClient[j + k]) BY <3>2, <4>2
      <4> QED BY <4>1, <4>3
    <3> QED BY <1>2, <3>1, <3>2, <3>4, <3>5
  <2>5. ASSUME NEW i \in DOMAIN toServer', IsFint(toServer'[i]) PROVE ~(toServer'[i].ack >= base')
    BY <1>2, <2>2, <2>5
  <2> QED BY <1>2, <2>1, <2>2, <2>3, <2>4, <2>5 DEF FinishInv, IsOld, CurrentEcho
<1>15. \A n \in base .. lastSequence - 1 : ~sendArray'[n] => ~Settled(n, Beyond)
  BY <1>1, <1>8 DEF CarryInv
<1>16. \A n \in base .. lastSequence' - 1, i \in Int :
         ~sendArray'[n] /\ i >= Beyond /\ i <= Beyond' => ~(Settled(n, i))'
  <2> SUFFICES ASSUME NEW n \in base .. lastSequence' - 1, NEW i \in Int,
                      ~sendArray'[n], i >= Beyond, i <= Beyond', (Settled(n, i))'
               PROVE  FALSE
    OBVIOUS
  <2>1. ~Settled(n, Beyond) BY <1>2, <1>9, <1>10, <1>15
  <2>2. PICK j \in 1 .. i - 1 : IsAck(toServer'[j]) /\ toServer'[j].ack = n
    BY <1>5, <2>1 DEF Settled, AckBefore
  <2>3. j \in DOMAIN toServer'
    <3>1. toServer' \in Seq(Packet) BY DEF TypeInv, TypeOK
    <3>2. DOMAIN toServer' = 1 .. Len(toServer') /\ Len(toServer') \in Nat BY <3>1
    <3> QED BY <3>2 DEF Beyond
  <2>4. CASE j \in DOMAIN toServer /\ toServer'[j] = toServer[j]
    BY <1>3, <2>1, <2>2, <2>4 DEF Settled, AckBefore
  <2>5. CASE j - Len(toServer) \in DOMAIN r /\ toServer'[j] = r[j - Len(toServer)]
    BY <1>7, <2>2, <2>5, OneKind
  <2> QED BY <1>4, <2>3, <2>4, <2>5
<1>17. CarryInv'
  <2>1. ASSUME NEW i \in DOMAIN toClient', CurrentEcho(toClient'[i]) PROVE Held(toClient'[i].ack)
    <3>1. i + k \in DOMAIN toClient /\ toClient'[i] = toClient[i + k] BY <1>6
    <3>2. CurrentEcho(toClient[i + k]) BY <2>1, <3>1
    <3>3. Held(toClient[i + k].ack) BY <1>1, <3>1, <3>2 DEF CarryInv
    <3> QED BY <3>1, <3>3
  <2>2. ASSUME NEW i \in DOMAIN toServer', IsAck(toServer'[i])
        PROVE  /\ toServer'[i].ack \in base .. lastSequence' - 1
               /\ Held(toServer'[i].ack) /\ toServer'[i].rcvw # 0
    <3>1. CASE i \in DOMAIN toServer /\ toServer'[i] = toServer[i]
      <4>1. toServer[i].ack \in base .. lastSequence - 1 /\ Held(toServer[i].ack) /\ toServer[i].rcvw # 0
        BY <1>1, <2>2, <3>1 DEF CarryInv
      <4> QED BY <1>2, <3>1, <4>1
    <3>2. CASE i - Len(toServer) \in DOMAIN r /\ toServer'[i] = r[i - Len(toServer)]
      <4>1. /\ toServer'[i].rcvw # 0 /\ toServer'[i].ack \in base .. lastSequence - 1
            /\ sendArray'[toServer'[i].ack]
        BY <1>7, <2>2, <3>2, OneKind
      <4>2. Held(toServer'[i].ack)
        <5>1. \A n \in base .. lastSequence - 1 : sendArray[n] => Held(n)
          BY <1>1 DEF CarryInv
        <5> QED BY <1>8, <4>1, <5>1
      <4> QED BY <1>2, <4>1, <4>2
    <3> QED BY <1>4, <3>1, <3>2
  <2>3. ASSUME NEW i \in DOMAIN toServer', IsData(toServer'[i]), NEW n, n = toServer'[i].seq
        PROVE  /\ n \in base .. lastSequence' - 1
               /\ toServer'[i].rcvw # 0 /\ ChecksumOk(toServer'[i])
               /\ ~(Settled(n, i))'
    <3>1. CASE i \in DOMAIN toServer /\ toServer'[i] = toServer[i]
      <4>1. /\ n \in base .. lastSequence - 1
            /\ toServer[i].rcvw # 0 /\ ChecksumOk(toServer[i])
            /\ ~Settled(n, i)
        BY <1>1, <2>3, <3>1 DEF CarryInv
      <4>2. i \in Int /\ i <= Beyond /\ n \in Int BY <1>2, <1>3, <3>1, <4>1
      <4>3. ~(Settled(n, i))' BY <1>4, <1>5, <4>1, <4>2 DEF Settled
      <4> QED BY <1>2, <3>1, <4>1, <4>3
    <3>2. CASE i > Len(toServer) /\ i - Len(toServer) \in DOMAIN r /\ toServer'[i] = r[i - Len(toServer)]
      <4>1. /\ toServer'[i].rcvw # 0 /\ ChecksumOk(toServer'[i])
            /\ n \in base .. lastSequence' - 1 /\ ~sendArray'[n]
        BY <1>7, <2>3, <3>2, OneKind
      <4>2. i \in Int /\ i >= Beyond /\ i <= Beyond'
        <5>1. toServer' \in Seq(Packet) BY DEF TypeInv, TypeOK
        <5>2. DOMAIN toServer' = 1 .. Len(toServer') /\ Len(toServer') \in Nat BY <5>1
        <5> QED BY <1>3, <3>2, <5>2 DEF Beyond
      <4>3. ~(Settled(n, i))' BY <1>16, <4>1, <4>2
      <4> QED BY <4>1, <4>3
    <3> QED BY <1>4, <3>1, <3>2
  <2>4. ASSUME NEW n \in base .. lastSequence' - 1
        PROVE  IF sendArray'[n] THEN (Held(n))' ELSE ~(Settled(n, Beyond))'
    <3>1. CASE ~sendArray'[n]
      <4>1. Beyond' \in Int /\ Beyond' >= Beyond BY <1>3, <1>4
      <4>2. \A i \in Int : i >= Beyond /\ i <= Beyond' => ~(Settled(n, i))' BY <1>16, <3>1
      <4>3. \A i : i = Beyond' => ~(Settled(n, i))' BY <4>1, <4>2
      <4> QED BY <3>1, <4>3 DEF Settled, AckBefore
    <3>2. CASE sendArray'[n]
      <4>1. n \in base .. lastSequence - 1 BY <1>9, <3>2
      <4>2. sendArray[n] => Held(n) BY <1>1, <4>1 DEF CarryInv
      <4> QED BY <1>5, <1>8, <3>2, <4>1, <4>2
    <3> QED BY <3>1, <3>2
  <2>5. \A i \in DOMAIN toClient' : (CurrentEcho(toClient[i]))' => (Held(toClient[i].ack))'
    BY <1>1, <1>2, <2>1 DEF CurrentEcho, Held, Done
  <2>6. \A i \in DOMAIN toServer' : IsAck(toServer'[i]) =>
          toServer'[i].ack \in base' .. lastSequence' - 1 /\ (Held(toServer[i].ack))' /\ toServer'[i].rcvw # 0
    BY <1>1, <1>2, <2>2 DEF Held, Done
  <2>7. \A i \in DOMAIN toServer' : IsData(toServer'[i]) =>
          /\ toServer'[i].seq \in base' .. lastSequence' - 1
          /\ toServer'[i].rcvw # 0 /\ ChecksumOk(toServer'[i])
          /\ ~(Settled(toServer[i].seq, i))'
    BY <1>2, <2>3 DEF Settled, AckBefore, Done
  <2> QED BY <1>2, <2>4, <2>5, <2>6, <2>7 DEF CarryInv
<1>18. ASSUME NEW n \in base .. lastSequence - 1, NEW h \in Int, n # h, AckedBut(h), sendArray'[n],
              NEW i \in Int, i >= Beyond, i = Beyond \/ i > Beyond, 1 \in DOMAIN r /\ IsAck(r[1]) => i > Beyond
       PROVE  (Settled(n, i))'
  <2>1. CASE sendArray[n]
    <3>1. Settled(n, Beyond) BY <1>18, <2>1 DEF AckedBut
    <3> QED BY <1>2, <1>3, <1>4, <1>5, <1>18, <3>1 DEF Settled
  <2>2. CASE ~sendArray[n]
    <3>1. 1 \in DOMAIN r /\ IsAck(r[1]) /\ r[1].ack = n BY <1>8, <1>18, <2>2
    <3>2. toServer'[Len(toServer) + 1] = r[1] BY <1>4, <3>1
    <3>3. Len(toServer) + 1 \in 1 .. i - 1 BY <1>3, <1>18, <3>1
    <3> QED BY <3>1, <3>2, <3>3 DEF Settled, AckBefore
  <2> QED BY <2>1, <2>2
<1>19. ASSUME NEW h \in Int, AckedBut(h) PROVE (AckedBut(h))'
  <2>1. ASSUME NEW n \in base' .. lastSequence' - 1, sendArray'[n], n # h
        PROVE  (Settled(n, Beyond))'
    <3>1. n \in base .. lastSequence - 1 BY <1>9, <2>1
    <3>2. Beyond' \in Int /\ Beyond' >= Beyond /\ (1 \in DOMAIN r => Beyond' > Beyond)
      BY <1>3, <1>4
    <3> QED BY <1>3, <1>18, <1>19, <2>1, <3>1, <3>2
  <2>2. ASSUME NEW i \in DOMAIN toServer', IsData(toServer'[i]),
               NEW n \in base' .. toServer'[i].seq - WinSize, n # h
        PROVE  (Settled(n, i))'
    <3>1. CASE i \in DOMAIN toServer /\ toServer'[i] = toServer[i]
      <4>1. Settled(n, i) BY <1>2, <1>19, <2>2, <3>1 DEF AckedBut
      <4>2. i \in Int /\ i <= Beyond BY <1>3, <3>1
      <4> QED BY <1>2, <1>4, <1>5, <4>1, <4>2 DEF Settled
    <3>2. CASE i > Len(toServer) /\ i - Len(toServer) \in DOMAIN r /\ toServer'[i] = r[i - Len(toServer)]
      <4>1. toServer'[i].seq \in base .. lastSequence' - 1
        BY <1>7, <2>2, <3>2, OneKind
      <4>2. n \in base .. lastSequence - 1 /\ n \in base' .. head' - 1
        <5>1. /\ n \in Int /\ n >= base /\ toServer'[i].seq \in Int
              /\ n <= toServer'[i].seq - WinSize /\ toServer'[i].seq <= lastSequence' - 1
          BY <1>2, <2>2, <4>1
        <5> QED BY <1>2, <5>1
      <4>3. sendArray'[n]
        <5>1. \A j \in base' .. head' - 1 : sendArray'[j] BY DEF ClientInv
        <5> QED BY <4>2, <5>1
      <4>4. i \in Int /\ i >= Beyond /\ (1 \in DOMAIN r /\ IsAck(r[1]) => i > Beyond)
        <5>1. i \in Int /\ i >= Beyond BY <1>3, <3>2
        <5>2. i = Beyond => toServer'[i] = r[1] BY <1>3, <3>2
        <5> QED BY <1>3, <2>2, <5>1, <5>2, OneKind
      <4>5. i = Beyond \/ i > Beyond BY <1>3, <4>4
      <4> QED BY <1>18, <1>19, <2>2, <4>2, <4>3, <4>4, <4>5
    <3> QED BY <1>4, <3>1, <3>2
  <2> QED BY <2>1, <2>2 DEF AckedBut
<1>20. ASSUME NEW x \in Int, NoGapsBelow(x) PROVE (NoGapsBelow(x))'
  <2>1. \A n \in base .. lastSequence - 1, i \in Int : n < x /\ i >= Beyond => (Stored(n, i))'
    <3> SUFFICES ASSUME NEW n \in base .. lastSequence - 1, NEW i \in Int, n < x, i >= Beyond
                 PROVE  (Stored(n, i))'
      OBVIOUS
    <3>1. Stored(n, Beyond) BY <1>20 DEF NoGapsBelow
    <3> QED BY <1>2, <1>4, <1>5, <3>1 DEF Stored
  <2>2. ASSUME NEW n \in base' .. lastSequence' - 1, n < x PROVE (Stored(n, Beyond))'
    <3>1. CASE n \in base .. lastSequence - 1
      BY <1>3, <1>4, <2>1, <2>2, <3>1
    <3>2. CASE n = lastSequence /\ lastSequence' = lastSequence + 1
      <4>1. PICK i \in DOMAIN r : IsData(r[i]) /\ r[i].seq = lastSequence BY <1>9, <3>2
      <4>2. toServer'[Len(toServer) + i] = r[i] BY <1>4
      <4>3. Len(toServer) + i \in 1 .. Beyond' - 1 BY <1>3, <1>4
      <4> QED BY <3>2, <4>1, <4>2, <4>3 DEF Stored, DataBefore
    <3> QED BY <1>9, <3>1, <3>2
  <2>3. ASSUME NEW i \in DOMAIN toServer', IsData(toServer'[i]),
               NEW n \in base' .. toServer'[i].seq - 1, n < x
        PROVE  (Stored(n, i))'
    <3>1. CASE i \in DOMAIN toServer /\ toServer'[i] = toServer[i]
      <4>1. Stored(n, i) BY <1>2, <1>20, <2>3, <3>1 DEF NoGapsBelow
      <4>2. i \in Int /\ i <= Beyond BY <1>3, <3>1
      <4> QED BY <1>2, <1>4, <1>5, <4>1, <4>2 DEF Stored
    <3>2. CASE i > Len(toServer) /\ i - Len(toServer) \in DOMAIN r /\ toServer'[i] = r[i - Len(toServer)]
      <4>1. toServer'[i].seq \in base .. lastSequence' - 1
        BY <1>7, <2>3, <3>2, OneKind
      <4>2. n \in base .. lastSequence - 1 BY <1>2, <4>1
      <4>3. i \in Int /\ i >= Beyond BY <1>3, <3>2
      <4> QED BY <2>1, <2>3, <4>2, <4>3
    <3> QED BY <1>4, <3>1, <3>2
  <2> QED BY <2>2, <2>3 DEF NoGapsBelow
<1>21. HoleInv'
  <2>1. SeqSize \in Int /\ \A h \in Seqs : h \in Int /\ h + WinSize \in Int BY <1>0, <1>2
  <2>2. lost = 0 => AckedBut(-1) /\ NoGapsBelow(SeqSize) BY <1>1 DEF HoleInv
  <2>3. AckedBut(-1) \/ \E h \in Seqs : AckedBut(h) /\ NoGapsBelow(h + WinSize) BY <1>1 DEF HoleInv
  <2>4. -1 \in Int OBVIOUS
  <2>5. lost' = 0 => (AckedBut(-1))' /\ (NoGapsBelow(SeqSize))'
    BY <1>1, <1>19, <1>20, <2>1, <2>2, <2>4
  <2>6. (AckedBut(-1))' \/ \E h \in Seqs : (AckedBut(h))' /\ (NoGapsBelow(h + WinSize))'
    BY <1>19, <1>20, <2>1, <2>3, <2>4
  <2> QED BY <2>5, <2>6 DEF HoleInv
<1> QED BY <1>11, <1>12, <1>13, <1>14, <1>17, <1>21 DEF IInv

\* What a turn of transfer() adds: what it has to say, and what is overdue.
LEMMA TurnEnds ==
  ASSUME WellFormed', head' \in Seqs, toServer \in Seq(Packet),
         NEW s \in Seq(Packet), EndTurn(s)
  PROVE  \E r \in Seq(Packet) :
           /\ toServer' = toServer \o r
           /\ \A i \in DOMAIN s : i \in DOMAIN r /\ r[i] = s[i]
           /\ \A i \in DOMAIN r :
                \/ i \in DOMAIN s /\ r[i] = s[i]
                \/ \E n \in Seqs : r[i] = pktArray'[n] /\ pktArray'[n] # NoPkt /\ ~sendArray'[n]
<1> DEFINE overdue == Scan(pktArray', Overdue', head')
<1>1. /\ overdue \in Seq(Packet)
      /\ \A i \in DOMAIN overdue : \E n \in Overdue' : overdue[i] = pktArray'[n]
  <2> DEFINE f == pktArray'  S == Overdue'  n == head'
  <2>1. S \in SUBSET Seqs /\ n \in Int /\ \A t \in S : f[t] \in Packet
    BY Constants DEF WellFormed, Seqs
  <2> HIDE DEF f, S, n
  <2>2. Scan(f, S, n) \in Seq(Packet) BY <2>1, ScanVisits
  <2>3. \A i \in DOMAIN Scan(f, S, n) : \E t \in S : Scan(f, S, n)[i] = f[t]
    BY <2>1, ScanVisits
  <2> QED BY <2>2, <2>3 DEF f, S, n
<1>2. \A n \in Overdue' : n \in Seqs /\ pktArray'[n] # NoPkt /\ ~sendArray'[n]
  <2>1. (\A n \in Overdue : pktArray[n] # NoPkt /\ ~sendArray[n])' BY OverdueIs, PTL
  <2>2. Overdue' \subseteq Seqs BY DEF WellFormed
  <2> QED BY <2>1, <2>2
<1>3. CASE toServer' = toServer \o s
  BY <1>3
<1>4. CASE toServer = <<>> /\ toServer' = s \o overdue
  <2> HIDE DEF overdue
  <2>1. /\ toServer' \in Seq(Packet) /\ Len(s) \in Nat /\ DOMAIN s = 1 .. Len(s)
        /\ DOMAIN overdue = 1 .. Len(overdue) /\ Len(overdue) \in Nat
        /\ DOMAIN toServer' = 1 .. Len(s) + Len(overdue)
        /\ \A j \in 1 .. Len(s) + Len(overdue) :
             toServer'[j] = IF j <= Len(s) THEN s[j] ELSE overdue[j - Len(s)]
    BY <1>1, <1>4, Joined
  <2>2. toServer' = toServer \o toServer'
    BY <1>4, <2>1
  <2>3. \A i \in DOMAIN s : i \in DOMAIN toServer' /\ toServer'[i] = s[i]
    BY <2>1
  <2>4. ASSUME NEW i \in DOMAIN toServer'
        PROVE  \/ i \in DOMAIN s /\ toServer'[i] = s[i]
               \/ \E n \in Seqs : toServer'[i] = pktArray'[n] /\ pktArray'[n] # NoPkt /\ ~sendArray'[n]
    <3>1. CASE i <= Len(s)
      BY <2>1, <3>1
    <3>2. CASE ~(i <= Len(s))
      <4>1. i - Len(s) \in DOMAIN overdue /\ toServer'[i] = overdue[i - Len(s)]
        BY <2>1, <3>2
      <4> QED BY <1>1, <1>2, <4>1
    <3> QED BY <3>1, <3>2
  <2> QED BY <2>1, <2>2, <2>3, <2>4
<1> QED BY <1>3, <1>4 DEF EndTurn, ToServer

\* The window the client announces, stated of a state as a whole.
LEMMA WindowFits == OneLoss /\ ClientTypeOK /\ ClientInv /\ Copying => Fits /\ rcvWindowSize # 0
  BY WindowOpen

\* A turn that ends with s, of at most one acknowledgement.
LEMMA TurnOf ==
  ASSUME OneLoss, TypeInv, TypeInv', ClientInv', Copying', base' = base, lastSequence' = lastSequence,
         NEW s \in Seq(Packet), EndTurn(s),
         \A i \in DOMAIN s :
           /\ i = 1 /\ IsAck(s[i]) /\ s[i].rcvw # 0
           /\ s[i].ack \in base .. lastSequence - 1 /\ sendArray'[s[i].ack],
         \A n \in base .. lastSequence - 1 :
           /\ sendArray[n] => sendArray'[n]
           /\ sendArray'[n] /\ ~sendArray[n] =>
                /\ 1 \in DOMAIN s /\ IsAck(s[1]) /\ s[1].ack = n
                /\ 1 \in DOMAIN toClient /\ CurrentEcho(toClient[1]) /\ toClient[1].ack = n,
         toClient' = toClient \/ (toClient # <<>> /\ toClient' = Tail(toClient)),
         \/ received' = received
         \/ toClient # <<>> /\ toClient' = Tail(toClient) /\ CurrentEcho(toClient[1])
  PROVE  \E r : TurnAdds(r)
<1>1. PICK r \in Seq(Packet) :
        /\ toServer' = toServer \o r
        /\ \A i \in DOMAIN s : i \in DOMAIN r /\ r[i] = s[i]
        /\ \A i \in DOMAIN r :
             \/ i \in DOMAIN s /\ r[i] = s[i]
             \/ \E n \in Seqs : r[i] = pktArray'[n] /\ pktArray'[n] # NoPkt /\ ~sendArray'[n]
  <2>1. ClientTypeOK' => WellFormed' BY ClientPackets, PTL
  <2>2. WellFormed' /\ head' \in Seqs /\ toServer \in Seq(Packet)
    BY <2>1 DEF TypeInv, TypeOK, ClientTypeOK
  <2> QED BY <2>2, TurnEnds
<1>2. \A n \in Seqs : pktArray'[n] # NoPkt =>
        /\ IsData(pktArray'[n]) /\ pktArray'[n].seq = n /\ n \in base .. lastSequence - 1
        /\ pktArray'[n].rcvw # 0 /\ ChecksumOk(pktArray'[n])
  BY DEF ClientInv
<1>3. \A i \in DOMAIN r :
        \/ /\ i = 1 /\ IsAck(r[i]) /\ r[i].rcvw # 0
           /\ r[i].ack \in base .. lastSequence - 1 /\ sendArray'[r[i].ack]
        \/ /\ IsData(r[i]) /\ r[i].rcvw # 0 /\ ChecksumOk(r[i])
           /\ r[i].seq \in base .. lastSequence' - 1 /\ ~sendArray'[r[i].seq]
  <2> SUFFICES ASSUME NEW i \in DOMAIN r
               PROVE  \/ /\ i = 1 /\ IsAck(r[i]) /\ r[i].rcvw # 0
                         /\ r[i].ack \in base .. lastSequence - 1 /\ sendArray'[r[i].ack]
                      \/ /\ IsData(r[i]) /\ r[i].rcvw # 0 /\ ChecksumOk(r[i])
                         /\ r[i].seq \in base .. lastSequence' - 1 /\ ~sendArray'[r[i].seq]
    OBVIOUS
  <2>1. CASE i \in DOMAIN s /\ r[i] = s[i]
    BY <2>1
  <2>2. CASE \E n \in Seqs : r[i] = pktArray'[n] /\ pktArray'[n] # NoPkt /\ ~sendArray'[n]
    <3>1. PICK n \in Seqs : r[i] = pktArray'[n] /\ pktArray'[n] # NoPkt /\ ~sendArray'[n]
      BY <2>2
    <3>2. /\ IsData(r[i]) /\ r[i].seq = n /\ n \in base .. lastSequence - 1
          /\ r[i].rcvw # 0 /\ ChecksumOk(r[i])
      BY <1>2, <3>1
    <3>3. base .. lastSequence' - 1 = base .. lastSequence - 1 OBVIOUS
    <3> QED BY <3>1, <3>2, <3>3
  <2> QED BY <1>1, <2>1, <2>2
<1>4. \A n \in base .. lastSequence - 1 :
        /\ sendArray[n] => sendArray'[n]
        /\ sendArray'[n] /\ ~sendArray[n] =>
             /\ 1 \in DOMAIN r /\ IsAck(r[1]) /\ r[1].ack = n
             /\ 1 \in DOMAIN toClient /\ CurrentEcho(toClient[1]) /\ toClient[1].ack = n
  BY <1>1
<1>5. toServer' = toServer \o r BY <1>1
<1> QED BY <1>3, <1>4, <1>5 DEF TurnAdds

\* The acknowledgement of an echo, as the datagrams to send.
LEMMA AckAsSequence ==
  ASSUME NEW c \in Nat, NEW n \in Seqs, NEW w \in Bytes, w # 0
  PROVE  LET s == SetToSeq({Datagram(c, 0, n, {"ACK"}, w, Greeting)}) IN
           /\ s \in Seq(Packet) /\ DOMAIN s = {1}
           /\ IsAck(s[1]) /\ s[1].ack = n /\ s[1].rcvw # 0
<1> DEFINE p == Datagram(c, 0, n, {"ACK"}, w, Greeting)
<1>1. p \in Packet
  <2>1. 0 \in Seqs /\ {"ACK"} \in SUBSET {"ACK", "SYN", "FIN"} BY Constants DEF Seqs
  <2> QED BY <2>1, DatagramType, PayloadTypes
<1>2. IsAck(p) /\ p.ack = n /\ p.rcvw = w
  <2>1. IsAck(p) BY KindOf
  <2> QED BY <2>1 DEF Datagram
<1> HIDE DEF p
<1>3. SetToSeq({p}) = <<p>> BY ReplyAsSequence
<1>4. <<p>> \in Seq(Packet) /\ DOMAIN <<p>> = {1} /\ <<p>>[1] = p BY <1>1
<1>5. SetToSeq({p}) \in Seq(Packet) /\ DOMAIN SetToSeq({p}) = {1} /\ SetToSeq({p})[1] = p
  BY <1>3, <1>4
<1> QED BY <1>2, <1>5 DEF p

\* The steps of transfer()'s loop are such turns.
LEMMA CopySteps ==
  ASSUME OneLoss, TypeInv, ClientInv, TypeInv', ClientInv', ClientNext, Copying, Copying'
  PROVE  /\ UNCHANGED <<serverVars, lost, cli>> /\ base' = base
         /\ \E r : TurnAdds(r)
<1>1. UNCHANGED <<serverVars, lost>> BY DEF ClientNext, Idle
<1>2. /\ base \in Nat /\ lastSequence \in Nat /\ base <= lastSequence /\ transferred \in Nat
      /\ lastSequence + 1 \in 0 .. SeqSize - 1 /\ (lastSequence + 1) % SeqSize = lastSequence + 1
      /\ toServer \in Seq(Packet) /\ toClient \in Seq(Packet) /\ cli \in Nat
  <2>1. /\ base \in Nat /\ lastSequence \in Nat /\ base <= lastSequence
        /\ lastSequence + WinSize < SeqSize /\ \A a \in 0 .. SeqSize - 1 : a % SeqSize = a
    BY NoWrap DEF TypeInv, TypeOK, Copying, Busy
  <2>2. lastSequence + 1 \in 0 .. SeqSize - 1 BY <2>1, Constants
  <2>3. cli \in Nat /\ transferred \in Nat
    BY Constants DEF TypeInv, TypeOK, ClientTypeOK
  <2> QED BY <2>1, <2>2, <2>3 DEF TypeInv, TypeOK
<1>3. /\ Fits /\ rcvWindowSize # 0 /\ rcvWindowSize \in Bytes
      /\ rcvWindowSize' # 0 /\ rcvWindowSize' \in Bytes
  <2>1. (OneLoss /\ ClientTypeOK /\ ClientInv /\ Copying)' => (Fits /\ rcvWindowSize # 0)'
    BY WindowFits, PTL
  <2> QED BY <2>1, WindowFits DEF TypeInv, TypeOK, OneLoss, Fits
<1>4. /\ \A n \in Seqs : pktArray[n] # NoPkt <=> n \in base .. lastSequence - 1
      /\ \A n \in Seqs : pktArray[n] # NoPkt => pktArray[n].seq = n
      /\ \A n \in Seqs : sendArray[n] => n \in base .. lastSequence - 1
      /\ xfer > 0
  BY DEF ClientInv, Copying, Busy
<1>5. ASSUME toClient # <<>>
      PROVE  /\ Head(toClient) = toClient[1] /\ 1 \in DOMAIN toClient
             /\ toClient[1] \in Packet /\ toClient[1].ack \in Seqs
  <2>1. Head(toClient) = toClient[1] /\ toClient[1] \in Packet /\ Len(toClient) \in Nat \ {0}
    BY <1>2, <1>5, TailOf
  <2> QED BY <1>2, <2>1 DEF Packet
<1>6. <<>> \in Seq(Packet) /\ DOMAIN <<>> = {} BY ShortSeqs
<1>7. CASE Sending
  <2>1. AwaitsNothing /\ (SendPkt \/ SkipSend)
    BY <1>7 DEF Sending, FinishTransfer, Copying
  <2>2. toClient' = toClient BY <2>1 DEF AwaitsNothing
  <2>3. CASE SendPkt
    <3>1. /\ lastSequence' = lastSequence + 1 /\ transferred' = transferred + 1
          /\ sendArray' = sendArray /\ received' = received /\ cli' = cli
      BY <1>2, <1>3, <2>3 DEF SendPkt
    <3>2. base' = base BY <1>2, <3>1 DEF base
    <3>3. toServer' = Append(toServer, DataPkt)
      BY <1>3, <1>7, <2>3 DEF Sending, SendPkt, SkipSend, FinishTransfer, ToServer
    <3>4. DataPkt \in Packet BY <1>3, ClientPackets DEF WellFormed, TypeInv, TypeOK
    <3>5. /\ IsData(DataPkt) /\ DataPkt.seq = lastSequence /\ DataPkt.rcvw # 0 /\ ChecksumOk(DataPkt)
      BY <1>3, <1>4, ClientKinds DEF TypeInv, TypeOK, ClientTypeOK
    <3> DEFINE p == DataPkt
               r == <<p>>
    <3> HIDE DEF p
    <3>6. /\ r \in Seq(Packet) /\ DOMAIN r = {1} /\ r[1] = p
          /\ toServer' = toServer \o r
      BY <1>2, <3>3, <3>4 DEF p
    <3>7. ~sendArray'[lastSequence]
      <4>1. lastSequence \in Seqs BY DEF TypeInv, TypeOK, ClientTypeOK
      <4> QED BY <1>2, <1>4, <3>1, <4>1
    <3>8. lastSequence \in base .. lastSequence' - 1
      <4>1. lastSequence \in base .. (lastSequence + 1) - 1 BY <1>2
      <4> QED BY <3>1, <4>1
    <3> HIDE DEF r
    <3>9. TurnAdds(r)
      BY <2>2, <3>1, <3>5, <3>6, <3>7, <3>8 DEF TurnAdds, p
    <3> QED BY <1>1, <3>1, <3>2, <3>9
  <2>4. CASE SkipSend
    <3>1. /\ lastSequence' = lastSequence /\ base' = base /\ cli' = cli
          /\ sendArray' = sendArray /\ received' = received
      BY <2>4 DEF SkipSend, windowVars, arrayVars, fileVars, base
    <3>2. toServer' = toServer \o <<>>
      <4>1. toServer' = toServer
        BY <1>7, <2>4 DEF Sending, SendPkt, SkipSend, FinishTransfer, ToServer, MaySend
      <4> QED BY <1>2, <4>1
    <3>3. TurnAdds(<<>>)
      BY <1>6, <2>2, <3>1, <3>2 DEF TurnAdds
    <3> QED BY <1>1, <3>1, <3>3
  <2> QED BY <2>1, <2>3, <2>4
<1>8. CASE NothingRead
  <2>1. /\ EndTurn(<<>>) /\ toClient' = toClient
        /\ lastSequence' = lastSequence /\ base' = base /\ cli' = cli
        /\ sendArray' = sendArray /\ received' = received
    BY <1>8 DEF NothingRead, RecvTimeout, AwaitsNothing, windowVars, arrayVars, fileVars, base
  <2>2. \E r : TurnAdds(r) BY <1>6, <2>1, TurnOf
  <2> QED BY <1>1, <2>1, <2>2
<1>9. CASE Reading
  <2>5. PICK m \in {Head(toClient)} :
          ConnectReading(m) \/ Receiving(m) \/ FinishReading(m) \/ CloseReading(m)
    BY <1>9 DEF Reading
  <2>6. toClient # <<>> /\ toClient' = Tail(toClient) BY <1>9 DEF Reading
  <2>0. /\ toClient # <<>> /\ toClient' = Tail(toClient) /\ toClient[1] = m
        /\ m \in Packet /\ m.ack \in Seqs /\ 1 \in DOMAIN toClient
    BY <1>5, <2>6
  <2>1. Receiving(m)
    BY <2>5 DEF ConnectReading, ConnectReply, ConnectRetry, FinishReading, FinishReply, FinishRetry,
       CloseReading, DisconnectReply, DisconnectRetry, Copying
  <2>2. CASE RcvStray(m) /\ EndTurn(<<>>)
    <3>1. /\ lastSequence' = lastSequence /\ base' = base /\ cli' = cli
          /\ sendArray' = sendArray /\ received' = received
      BY <2>2 DEF RcvStray, windowVars, arrayVars, fileVars, base
    <3>2. \E r : TurnAdds(r) BY <1>6, <2>0, <2>2, <3>1, TurnOf
    <3> QED BY <1>1, <3>1, <3>2
  <2>3. CASE RcvDuplicate(m) /\ EndTurn(SetToSeq(AckPkts(m.ack)))
    <3>1. /\ lastSequence' = lastSequence /\ base' = base /\ cli' = cli
          /\ sendArray' = sendArray /\ received' = received
      BY <2>3 DEF RcvDuplicate, windowVars, arrayVars, fileVars, base
    <3>2. m.ack \in base .. lastSequence - 1 /\ sendArray[m.ack]
      BY <1>4, <2>0, <2>3 DEF RcvDuplicate, Answers
    <3> DEFINE s == SetToSeq(AckPkts(m.ack))
    <3>3. /\ s \in Seq(Packet) /\ DOMAIN s = {1}
          /\ IsAck(s[1]) /\ s[1].ack = m.ack /\ s[1].rcvw # 0
      <4>1. AckPkts(m.ack) = {Datagram(cli, 0, m.ack, {"ACK"}, rcvWindowSize, Greeting)}
        BY <1>3 DEF AckPkts
      <4> QED BY <1>2, <1>3, <2>0, <4>1, AckAsSequence
    <3>4. EndTurn(s) BY <2>3
    <3> HIDE DEF s
    <3>5. \E r : TurnAdds(r) BY <2>0, <3>1, <3>2, <3>3, <3>4, TurnOf
    <3> QED BY <1>1, <3>1, <3>5
  <2>4. CASE \E k \in 0 .. SeqSize : RcvNew(m, k) /\ EndTurn(SetToSeq(AckPkts(m.ack)'))
    <3>1. PICK k \in 0 .. SeqSize : RcvNew(m, k) /\ EndTurn(SetToSeq(AckPkts(m.ack)')) BY <2>4
    <3>2. /\ lastSequence' = lastSequence /\ base' = base /\ cli' = cli
      BY <3>1 DEF RcvNew, base
    <3>3. /\ m.ack \in base .. lastSequence - 1 /\ ~sendArray[m.ack]
          /\ sendArray' = [sendArray EXCEPT ![m.ack] = TRUE]
      BY <2>0, <3>1, NewEcho DEF TypeInv, TypeOK
    <3>4. sendArray \in [Seqs -> BOOLEAN] BY DEF TypeInv, TypeOK, ClientTypeOK
    <3>5. CurrentEcho(m)
      <4>1. IsAck(m) BY <3>1, ClientKinds DEF RcvNew, Answers
      <4> QED BY <1>2, <3>3, <4>1 DEF CurrentEcho
    <3> DEFINE s == SetToSeq(AckPkts(m.ack)')
    <3>6. /\ s \in Seq(Packet) /\ DOMAIN s = {1}
          /\ IsAck(s[1]) /\ s[1].ack = m.ack /\ s[1].rcvw # 0
      <4>1. Fits' /\ cli' \in Nat BY <1>2, <1>3, <3>2 DEF Fits
      <4>2. AckPkts(m.ack)' = {Datagram(cli', 0, m.ack, {"ACK"}, rcvWindowSize', Greeting)}
        BY <4>1 DEF AckPkts
      <4> QED BY <1>3, <2>0, <4>1, <4>2, AckAsSequence
    <3>7. EndTurn(s) BY <3>1
    <3> HIDE DEF s
    <3>8. \E r : TurnAdds(r)
      <4>1. \A n \in Seqs : sendArray'[n] = (sendArray[n] \/ n = m.ack) BY <2>0, <3>3, <3>4
      <4>2. \A n \in base .. lastSequence - 1 :
              /\ sendArray[n] => sendArray'[n]
              /\ sendArray'[n] /\ ~sendArray[n] => n = m.ack
        <5>1. \A n \in base .. lastSequence - 1 : n \in Seqs
          <6>1. SeqSize \in Nat BY Constants
          <6> QED BY <1>2, <6>1 DEF Seqs
        <5> QED BY <4>1, <5>1
      <4>3. sendArray'[m.ack] BY <2>0, <4>1
      <4>4. \A i \in DOMAIN s :
              /\ i = 1 /\ IsAck(s[i]) /\ s[i].rcvw # 0
              /\ s[i].ack \in base .. lastSequence - 1 /\ sendArray'[s[i].ack]
        BY <3>3, <3>6, <4>3
      <4>5. toClient[1] = m BY <2>0
      <4>6. \A n \in base .. lastSequence - 1 :
              /\ sendArray[n] => sendArray'[n]
              /\ sendArray'[n] /\ ~sendArray[n] =>
                   /\ 1 \in DOMAIN s /\ IsAck(s[1]) /\ s[1].ack = n
                   /\ 1 \in DOMAIN toClient /\ CurrentEcho(toClient[1]) /\ toClient[1].ack = n
        BY <2>0, <3>5, <3>6, <4>2, <4>5
      <4>7. CurrentEcho(toClient[1]) BY <3>5, <4>5
      <4> QED BY <2>0, <3>2, <3>6, <3>7, <4>4, <4>6, <4>7, TurnOf
    <3> QED BY <1>1, <3>2, <3>8
  <2> QED BY <2>1, <2>2, <2>3, <2>4 DEF Receiving
<1>10. ~Connecting /\ ~Commands /\ ~Retrying
  BY DEF Connecting, ClientStart, ConnectRetry, ConnectFail, Commands, Transform, Disconnect,
     Retrying, FinishRetry, DisconnectRetry, Copying, Ended
<1> QED BY <1>7, <1>8, <1>9, <1>10 DEF ClientNext

-----------------------------------------------------------------------------
(* The client's other steps. *)

\* A fresh window.
LEMMA FreshWindow ==
  win = NewWindow /\ lastSequence \in Nat => WinInv /\ Kept = {} /\ win.start = 0
<1> SUFFICES ASSUME win = NewWindow, lastSequence \in Nat PROVE WinInv /\ Kept = {} /\ win.start = 0
  OBVIOUS
<1>1. /\ win.start = 0 /\ win.end = 0 + WinSize /\ win.unacked = 0
      /\ \A n \in Seqs : ~win.ack[n] /\ win.pkt[n] = NoPkt
  BY Constants DEF NewWindow
<1>2. Kept = {} BY <1>1 DEF Kept
<1>3. UnackedCounts
  <2>1. {n \in Seqs : n >= win.start /\ (win.pkt[n] # NoPkt \/ win.ack[n])} = {} BY <1>1
  <2> QED BY <1>1, <2>1, FS_EmptySet DEF UnackedCounts
<1>4. 0 \in Seqs BY Constants DEF Seqs
<1> QED BY <1>1, <1>2, <1>3, <1>4 DEF WinInv

\* What a transfer's order asks for is vacuous when none is under way.
LEMMA NoTransfer == ~Live => FinishInv /\ CarryInv /\ HoleInv
  BY DEF FinishInv, CarryInv, HoleInv

\* A step that leaves the server alone leaves what it holds alone.
LEMMA ServerIdle ==
  ASSUME UNCHANGED <<serverVars, lastSequence>>
  PROVE  /\ WinInv => WinInv'
         /\ Kept' = Kept /\ win' = win /\ connected' = connected
         /\ \A n : (Done(n))' <=> Done(n)
         /\ \A n : (Held(n))' <=> Held(n)
<1>1. win' = win /\ connected' = connected /\ lastSequence' = lastSequence BY DEF serverVars
<1>2. Kept' = Kept BY <1>1 DEF Kept
<1>3. WinInv => WinInv'
  <2>1. UnackedCounts => UnackedCounts' BY <1>1 DEF UnackedCounts
  <2> QED BY <1>1, <1>2, <2>1 DEF WinInv
<1> QED BY <1>1, <1>2, <1>3 DEF Done, Held

\* The path when a datagram joins it, and when its first one is taken.
Sends(p) == p \in Packet /\ toServer' = Append(toServer, p)
ReadsOrNot == toClient' = toClient \/ (toClient # <<>> /\ toClient' = Tail(toClient))

\* What is on the way when a datagram joins it or the first one is read: the
\* others stay, in the same order.
LEMMA PathSteps ==
  ASSUME TypeInv, TypeInv'
  PROVE  /\ \A p : Sends(p) =>
              /\ \A i \in DOMAIN toServer : i \in DOMAIN toServer' /\ toServer'[i] = toServer[i]
              /\ \A i \in DOMAIN toServer' :
                   \/ i \in DOMAIN toServer /\ toServer'[i] = toServer[i]
                   \/ i = Len(toServer) + 1 /\ toServer'[i] = p
              /\ Len(toServer') = Len(toServer) + 1
         /\ ReadsOrNot => \E k \in {0, 1} : \A i \in DOMAIN toClient' :
              i + k \in DOMAIN toClient /\ toClient'[i] = toClient[i + k]
         /\ DOMAIN toServer = 1 .. Len(toServer) /\ Len(toServer) \in Nat
         /\ DOMAIN toClient = 1 .. Len(toClient) /\ Len(toClient) \in Nat
         /\ toServer = <<>> => \A p : <<p>> = Append(toServer, p)
<1>1. toServer \in Seq(Packet) /\ toClient \in Seq(Packet) BY DEF TypeInv, TypeOK
<1>2. ASSUME NEW p, Sends(p)
      PROVE  /\ \A i \in DOMAIN toServer : i \in DOMAIN toServer' /\ toServer'[i] = toServer[i]
             /\ \A i \in DOMAIN toServer' :
                  \/ i \in DOMAIN toServer /\ toServer'[i] = toServer[i]
                  \/ i = Len(toServer) + 1 /\ toServer'[i] = p
             /\ Len(toServer') = Len(toServer) + 1
  <2>1. /\ p \in Packet /\ toServer' = Append(toServer, p) BY <1>2 DEF Sends
  <2>2. /\ Len(toServer') = Len(toServer) + 1 /\ Len(toServer) \in Nat
        /\ DOMAIN toServer = 1 .. Len(toServer) /\ DOMAIN toServer' = 1 .. Len(toServer) + 1
        /\ \A j \in 1 .. Len(toServer) + 1 : toServer'[j] = IF j <= Len(toServer) THEN toServer[j] ELSE p
    BY <1>1, <2>1, Appended
  <2> QED BY <2>2
<1>3. ASSUME ReadsOrNot
      PROVE  \E k \in {0, 1} : \A i \in DOMAIN toClient' :
               i + k \in DOMAIN toClient /\ toClient'[i] = toClient[i + k]
  <2>1. CASE toClient' = toClient
    <3>1. \A i \in DOMAIN toClient' : i + 0 \in DOMAIN toClient /\ toClient'[i] = toClient[i + 0]
      BY <1>1, <2>1
    <3> QED BY <3>1
  <2>2. CASE toClient # <<>> /\ toClient' = Tail(toClient)
    <3>1. \A i \in DOMAIN toClient' : i + 1 \in DOMAIN toClient /\ toClient'[i] = toClient[i + 1]
      BY <1>1, <2>2, TailOf
    <3> QED BY <3>1
  <2> QED BY <1>3, <2>1, <2>2 DEF ReadsOrNot
<1>4. toServer = <<>> => \A p : <<p>> = Append(toServer, p) OBVIOUS
<1> QED BY <1>1, <1>2, <1>3, <1>4

\* What the client's steps put on the path and take from it.
Takes(m) == toClient # <<>> /\ m = toClient[1] /\ toClient' = Tail(toClient) /\ toServer' = toServer

\* Each step of the client with what it sends and what it reads: the parts of
\* Next told apart by what they do to the path.
LEMMA ClientMoves ==
  ASSUME OneLoss, TypeInv, ClientInv, TypeInv', ClientNext
  PROVE  \/ ClientStart /\ toServer' = <<SynPkt'>> /\ toClient' = toClient
         \/ ConnectFail /\ toServer' = <<>> /\ toClient' = toClient
         \/ ConnectRetry /\ Sends(SynPkt) /\ ReadsOrNot
         \/ \E m : ConnectReply(m) /\ Takes(m)
         \/ \E L \in 0 .. MaxChunks : Transform(L) /\ toServer' = toServer /\ toClient' = toClient
         \/ Disconnect /\ Sends(FinPkt) /\ ReadsOrNot
         \/ DisconnectRetry /\ Sends(FinPkt) /\ ReadsOrNot
         \/ \E m : DisconnectReply(m) /\ Takes(m)
         \/ FinishTransfer /\ lastSequence = 0 /\ toServer' = toServer /\ toClient' = toClient
         \/ FinishTransfer /\ lastSequence > 0 /\ Sends(FintPkt) /\ ReadsOrNot
         \/ FinishRetry /\ Sends(FintPkt) /\ ReadsOrNot
         \/ \E m : FinishReply(m) /\ Takes(m)
         \/ Copying /\ Copying'
<1>1. WellFormed BY ClientPackets DEF TypeInv, TypeOK
<1>2. /\ pc = "synwait" => SynPkt \in Packet
      /\ pc \in {"command", "diswait"} => FinPkt \in Packet
      /\ lastSequence > 0 => FintPkt \in Packet
      /\ pc = "finwait" => FintPkt \in Packet
  BY <1>1 DEF WellFormed, TypeInv, PhaseInv
<1>3. toServer \in Seq(Packet) /\ (toServer = <<>> => \A p : <<p>> = Append(toServer, p))
  <2>1. toServer = <<>> => \A p : <<p>> = Append(toServer, p) OBVIOUS
  <2> QED BY <2>1 DEF TypeInv, TypeOK
<1>4. CASE Connecting
  BY <1>2, <1>3, <1>4 DEF Connecting, ConnectRetry, AwaitsNothing, ToServer, Sends, ReadsOrNot
<1>5. CASE Commands
  BY <1>2, <1>5 DEF Commands, Disconnect, AwaitsNothing, ToServer, Sends, ReadsOrNot
<1>6. CASE Retrying
  BY <1>2, <1>3, <1>6 DEF Retrying, FinishRetry, DisconnectRetry, AwaitsNothing, ToServer, Sends, ReadsOrNot
<1>7. CASE NothingRead
  BY <1>7 DEF NothingRead, RecvTimeout, Copying
<1>8. CASE Sending
  <2>1. CASE SendPkt
    <3>1. Fits
      <4>1. Copying BY <2>1 DEF SendPkt, Copying
      <4> QED BY <4>1, WindowFits DEF TypeInv, TypeOK
    <3> QED BY <2>1, <3>1 DEF SendPkt, Copying
  <2>2. CASE SkipSend
    BY <2>2 DEF SkipSend, Copying
  <2>3. CASE FinishTransfer /\ ToServer(toServer \o SetToSeq(FintPkts)) /\ AwaitsNothing
    <3>1. lastSequence \in Nat BY Constants DEF TypeInv, TypeOK, ClientTypeOK, Seqs
    <3>2. CASE lastSequence = 0
      <4>1. SetToSeq(FintPkts) = <<>> BY <3>2, ReplyAsSequence DEF FintPkts
      <4>2. toServer \o <<>> = toServer BY <1>3
      <4> QED BY <2>3, <3>2, <4>1, <4>2 DEF ToServer, AwaitsNothing
    <3>3. CASE lastSequence > 0
      <4> DEFINE p == FintPkt
      <4>0. FintPkts = {p} BY <3>1, <3>3 DEF FintPkts
      <4>1. SetToSeq(FintPkts) = <<p>> BY <4>0, ReplyAsSequence
      <4>2. p \in Packet BY <1>2, <3>3
      <4> HIDE DEF p
      <4>3. toServer \o <<p>> = Append(toServer, p) BY <1>3, <4>2
      <4>4. Sends(p) /\ ReadsOrNot BY <2>3, <4>1, <4>2, <4>3 DEF ToServer, AwaitsNothing, Sends, ReadsOrNot
      <4> QED BY <2>3, <3>3, <4>4 DEF p
    <3> QED BY <3>1, <3>2, <3>3
  <2> QED BY <1>8, <2>1, <2>2, <2>3 DEF Sending
<1>9. CASE Reading
  <2>1. PICK m \in {Head(toClient)} :
          ConnectReading(m) \/ Receiving(m) \/ FinishReading(m) \/ CloseReading(m)
    BY <1>9 DEF Reading
  <2>2. toClient # <<>> /\ toClient' = Tail(toClient) /\ m = toClient[1]
    <3>1. toClient # <<>> /\ toClient' = Tail(toClient) BY <1>9 DEF Reading
    <3>2. toClient \in Seq(Packet) BY DEF TypeInv, TypeOK
    <3>3. Head(toClient) = toClient[1] BY <3>1, <3>2, TailOf
    <3> QED BY <3>1, <3>3
  <2>3. CASE ConnectReading(m)
    BY <1>2, <2>2, <2>3 DEF ConnectReading, ConnectRetry, ToServer, Sends, ReadsOrNot, Takes
  <2>4. CASE Receiving(m)
    BY <2>4 DEF Receiving, RcvStray, RcvDuplicate, RcvNew, Copying
  <2>5. CASE FinishReading(m)
    BY <1>2, <2>2, <2>5 DEF FinishReading, FinishRetry, ToServer, Sends, ReadsOrNot, Takes
  <2>6. CASE CloseReading(m)
    BY <1>2, <2>2, <2>6 DEF CloseReading, DisconnectRetry, ToServer, Sends, ReadsOrNot, Takes
  <2> QED BY <2>1, <2>3, <2>4, <2>5, <2>6
<1> QED BY <1>4, <1>5, <1>6, <1>7, <1>8, <1>9 DEF ClientNext

\* What the steps of the client outside a transfer have in common.
LEMMA ClientOutside ==
  ASSUME IInv, ClientNext, TypeInv'
  PROVE  /\ lost' = lost /\ win' = win /\ connected' = connected
         /\ lastSequence' = lastSequence => WinInv' /\ Kept' = Kept
         /\ ~Live' => FinishInv' /\ CarryInv' /\ HoleInv'
         /\ lastSequence \in Nat /\ lastSequence' \in Nat
<1>1. UNCHANGED serverVars /\ lost' = lost /\ win' = win /\ connected' = connected
  BY DEF ClientNext, Idle, serverVars
<1>2. lastSequence' = lastSequence => WinInv' /\ Kept' = Kept
  BY <1>1, ServerIdle DEF IInv
<1>3. (~Live => FinishInv /\ CarryInv /\ HoleInv)' BY NoTransfer, PTL
<1>4. lastSequence \in Nat /\ lastSequence' \in Nat
  BY Constants DEF IInv, TypeInv, TypeOK, ClientTypeOK, Seqs
<1> QED BY <1>1, <1>2, <1>3, <1>4

\* connect.
LEMMA StartStep ==
  ASSUME OneLoss, IInv, ClientNext, TypeInv', ClientInv', ClientStart, toServer' = <<SynPkt'>>, toClient' = toClient
  PROVE  IInv'
<1>1. cli = 0
  <2>1. cli < MaxClients /\ MaxClients <= 1 /\ cli \in Nat /\ MaxClients \in Nat
    BY Constants DEF ClientStart, OneLoss, IInv, TypeInv, TypeOK, ClientTypeOK
  <2> QED BY <2>1
<1>2. /\ toClient = <<>> /\ win = NewWindow /\ win' = win /\ connected' = connected
      /\ pc' = "synwait" /\ cli' = 1 /\ ~Busy' /\ ~Live' /\ lastSequence' \in Nat
  BY <1>1, ClientOutside DEF IInv, PathInv, ServedInv, ClientStart, Busy, Live
<1>3. WinInv' /\ Kept' = {}
  <2>1. (win = NewWindow /\ lastSequence \in Nat => WinInv /\ Kept = {} /\ win.start = 0)'
    BY FreshWindow, PTL
  <2>2. (NewWindow)' = NewWindow OBVIOUS
  <2> QED BY <1>2, <2>1, <2>2
<1>4. ServedInv' BY <1>2, <1>3 DEF ServedInv
<1>5. PathInv'
  <2> DEFINE p == SynPkt'
  <2>1. IsSyn(p)
    <3>1. IsSyn(SynPkt)' BY ClientKinds, PTL
    <3> QED BY <3>1 DEF IsSyn, FindState
  <2>2. toServer' = <<p>> OBVIOUS
  <2> HIDE DEF p
  <2>3. \A i \in DOMAIN toServer' : toServer'[i] = p BY <2>2
  <2>4. DOMAIN toClient' = {} BY <1>2
  <2> QED BY <1>2, <2>1, <2>3, <2>4, OneKind DEF PathInv, Known, Carries
<1> QED BY <1>2, <1>3, <1>4, <1>5, ClientOutside DEF IInv

\* cliConnect: a SYN sent again, the answer read, or the client given up.
LEMMA ConnectStep ==
  ASSUME OneLoss, IInv, ClientNext, TypeInv', ClientInv',
         \/ ConnectFail /\ toServer' = <<>> /\ toClient' = toClient
         \/ ConnectRetry /\ Sends(SynPkt) /\ ReadsOrNot
         \/ \E m : ConnectReply(m) /\ Takes(m)
  PROVE  IInv'
<1>1. /\ pc = "synwait" /\ cli' = cli /\ lastSequence' = lastSequence
      /\ pc' \in {"synwait", "down", "command"}
      /\ pc' = "command" => \E m : Takes(m)
      /\ \/ toServer' = toServer \/ toServer' = <<>> \/ Sends(SynPkt)
      /\ ReadsOrNot
  BY DEF ConnectFail, ConnectRetry, ConnectReply, windowVars, Takes, ReadsOrNot
<1>2. /\ TypeInv /\ ClientInv /\ WinInv /\ ServedInv /\ PathInv
      /\ win' = win /\ connected' = connected /\ WinInv' /\ Kept' = Kept
      /\ ~Busy' /\ ~Busy /\ ~Live' /\ FinishInv' /\ CarryInv' /\ HoleInv'
      /\ Kept = {} /\ win = NewWindow /\ win.start = 0 /\ lastSequence = 0
  <2>1. ~Busy /\ ~Busy' /\ ~Live' BY <1>1 DEF Busy, Live
  <2>2. lastSequence = 0 BY <1>1 DEF IInv, ClientInv
  <2>3. win = NewWindow BY <1>1 DEF IInv, ServedInv
  <2> QED BY <1>1, <2>1, <2>2, <2>3, FreshWindow, ClientOutside DEF IInv
<1>3. \A i \in DOMAIN toServer' : IsSyn(toServer'[i])
  <2>1. \A i \in DOMAIN toServer : IsSyn(toServer[i]) BY <1>1, <1>2 DEF PathInv
  <2>2. CASE toServer' = toServer BY <2>1, <2>2
  <2>3. CASE toServer' = <<>> BY <2>3
  <2>4. CASE Sends(SynPkt)
    <3>1. IsSyn(SynPkt) BY ClientKinds
    <3> QED BY <1>2, <2>1, <2>4, <3>1, PathSteps
  <2> QED BY <1>1, <2>2, <2>3, <2>4
<1>4. PICK k \in {0, 1} : \A i \in DOMAIN toClient' : i + k \in DOMAIN toClient /\ toClient'[i] = toClient[i + k]
  BY <1>1, <1>2, PathSteps
<1>5. toClient' # <<>> => connected
  BY <1>1, <1>2 DEF ReadsOrNot, PathInv
<1>6. pc' = "command" => connected
  BY <1>1, <1>2 DEF Takes, PathInv
<1>7. ServedInv'
  BY <1>1, <1>2, <1>6 DEF ServedInv
<1>8. PathInv'
  <2>1. cli # 0 BY <1>1, <1>2 DEF PathInv
  <2>2. \A i \in DOMAIN toServer' : Known(toServer'[i]) /\ ~Carries(toServer'[i]) /\ ~IsFint(toServer'[i])
    BY <1>3, OneKind DEF Known, Carries
  <2>3. \A i \in DOMAIN toClient' : toClient'[i].rcvw = WinSize BY <1>1, <1>2, <1>4 DEF PathInv
  <2>4. \A i \in DOMAIN toClient' : IsAck(toClient'[i]) \/ IsFint(toClient'[i]) => toClient'[i].ack < lastSequence'
    BY <1>1, <1>2, <1>4 DEF PathInv
  <2> QED BY <1>1, <1>2, <1>3, <1>5, <2>1, <2>2, <2>3, <2>4 DEF PathInv
<1> QED BY <1>2, <1>7, <1>8 DEF IInv

\* disConnect.
LEMMA CloseStep ==
  ASSUME OneLoss, IInv, ClientNext, TypeInv', ClientInv',
         \/ Disconnect /\ Sends(FinPkt) /\ ReadsOrNot
         \/ DisconnectRetry /\ Sends(FinPkt) /\ ReadsOrNot
         \/ \E m : DisconnectReply(m) /\ Takes(m)
  PROVE  IInv'
<1>1. /\ pc \in {"command", "diswait"} /\ cli' = cli /\ lastSequence' = lastSequence
      /\ pc' \in {"diswait", "closed"}
      /\ toServer' = toServer \/ Sends(FinPkt)
      /\ ReadsOrNot
  BY DEF Disconnect, DisconnectRetry, DisconnectReply, clientVars, windowVars, Takes, ReadsOrNot
<1>2. /\ TypeInv /\ ClientInv /\ WinInv /\ ServedInv /\ PathInv
      /\ win' = win /\ connected' = connected /\ WinInv' /\ Kept' = Kept
      /\ ~Busy' /\ ~Busy /\ ~Live' /\ FinishInv' /\ CarryInv' /\ HoleInv'
      /\ Kept = {}
  <2>1. ~Busy /\ ~Busy' /\ ~Live' BY <1>1 DEF Busy, Live
  <2>2. Kept = {} BY <2>1 DEF IInv, ServedInv
  <2> QED BY <1>1, <2>1, <2>2, ClientOutside DEF IInv
<1>3. \A i \in DOMAIN toServer' :
        /\ Known(toServer'[i]) /\ ~Carries(toServer'[i])
        /\ IsFint(toServer'[i]) => toServer'[i].ack < lastSequence
  <2>1. \A i \in DOMAIN toServer :
          /\ Known(toServer[i]) /\ ~Carries(toServer[i])
          /\ IsFint(toServer[i]) => toServer[i].ack < lastSequence
    BY <1>1, <1>2 DEF PathInv
  <2>2. CASE toServer' = toServer BY <2>1, <2>2
  <2>3. CASE Sends(FinPkt)
    <3>1. Known(FinPkt) /\ ~Carries(FinPkt) /\ ~IsFint(FinPkt)
      BY ClientKinds, OneKind DEF Known, Carries
    <3> QED BY <1>2, <2>1, <2>3, <3>1, PathSteps
  <2> QED BY <1>1, <2>2, <2>3
<1>4. PICK k \in {0, 1} : \A i \in DOMAIN toClient' : i + k \in DOMAIN toClient /\ toClient'[i] = toClient[i + k]
  BY <1>1, <1>2, PathSteps
<1>5. ServedInv'
  BY <1>1, <1>2 DEF ServedInv
<1>6. PathInv'
  <2>1. cli # 0 BY <1>1, <1>2 DEF PathInv
  <2>2. \A i \in DOMAIN toClient' : IsAck(toClient'[i]) \/ IsFint(toClient'[i]) => toClient'[i].ack < lastSequence'
    BY <1>1, <1>2, <1>4 DEF PathInv
  <2> QED BY <1>1, <1>2, <1>3, <2>1, <2>2 DEF PathInv
<1> QED BY <1>2, <1>5, <1>6 DEF IInv

\* A transfer begins: nothing of it is on the way.
LEMMA TransformStep ==
  ASSUME OneLoss, IInv, ClientNext, TypeInv', ClientInv',
         NEW L \in 0 .. MaxChunks, Transform(L), toServer' = toServer, toClient' = toClient
  PROVE  IInv'
<1>1. /\ pc = "command" /\ pc' = "send" /\ cli' = cli /\ lastSequence' = lastSequence
      /\ transferred' = 0 /\ received' = 0 /\ sendArray' = sendArray
  BY DEF Transform, windowVars, arrayVars
<1>2. /\ TypeInv /\ ClientInv /\ WinInv /\ ServedInv /\ PathInv
      /\ win' = win /\ connected' = connected /\ WinInv' /\ Kept' = Kept /\ lost' = lost
      /\ ~Busy /\ Busy' /\ connected /\ Live' /\ Kept = {} /\ win.start = lastSequence
      /\ base' = lastSequence /\ lastSequence \in Nat
  <2>1. ~Busy /\ Busy' BY <1>1 DEF Busy
  <2>2. Kept = {} /\ connected /\ win.start = lastSequence BY <1>1, <2>1 DEF IInv, ServedInv
  <2>3. base' = lastSequence
    <3>1. lastSequence \in Nat BY ClientOutside
    <3> QED BY <1>1, <3>1 DEF base
  <2> QED BY <1>1, <2>1, <2>2, <2>3, ClientOutside DEF IInv, Live
<1>3. /\ \A i \in DOMAIN toServer :
           /\ Known(toServer[i]) /\ ~Carries(toServer[i]) /\ ~IsFin(toServer[i])
           /\ ~IsData(toServer[i]) /\ ~IsAck(toServer[i])
           /\ IsFint(toServer[i]) => toServer[i].ack = lastSequence - 1 /\ ~(toServer[i].ack >= lastSequence)
      /\ \A i \in DOMAIN toClient :
           IsAck(toClient[i]) \/ IsFint(toClient[i]) =>
             toClient[i].ack < lastSequence /\ ~(toClient[i].ack >= lastSequence)
  <2>1. \A i \in DOMAIN toServer :
           /\ Known(toServer[i]) /\ ~Carries(toServer[i]) /\ ~IsFin(toServer[i])
           /\ ~IsData(toServer[i]) /\ ~IsAck(toServer[i])
           /\ IsFint(toServer[i]) => toServer[i].ack = lastSequence - 1
    BY <1>1, <1>2, OneKind DEF PathInv, Carries
  <2>2. \A i \in DOMAIN toClient :
          IsAck(toClient[i]) \/ IsFint(toClient[i]) => toClient[i].ack < lastSequence /\ toClient[i].ack \in Nat
    <3>1. \A i \in DOMAIN toClient : toClient[i].ack \in Nat
      <4>1. \A n \in Seqs : n \in Nat BY Constants DEF Seqs
      <4>2. toClient \in Seq(Packet) BY <1>2 DEF TypeInv, TypeOK
      <4>3. \A i \in DOMAIN toClient : toClient[i] \in Packet BY <4>2
      <4> QED BY <4>1, <4>3 DEF Packet
    <3> QED BY <1>2, <3>1 DEF PathInv
  <2> QED BY <1>2, <2>1, <2>2
<1>4. ServedInv'
  BY <1>1, <1>2 DEF ServedInv
<1>5. PathInv'
  <2>1. cli # 0 BY <1>1, <1>2 DEF PathInv
  <2> QED BY <1>1, <1>2, <1>3, <2>1 DEF PathInv
<1>6. FinishInv'
  <2>1. base' - 1 = lastSequence - 1 BY <1>2
  <2>2. \A i \in DOMAIN toServer' :
          /\ ~IsFin(toServer'[i]) /\ ~Carries(toServer'[i])
          /\ IsFint(toServer'[i]) => toServer'[i].ack = base' - 1 /\ ~(toServer'[i].ack >= base')
    BY <1>2, <1>3, <2>1
  <2>3. \A i \in DOMAIN toClient' :
          /\ IsFint(toClient'[i]) => toClient'[i].ack < base'
          /\ ~(CurrentEcho(toClient[i]))'
    BY <1>2, <1>3 DEF CurrentEcho
  <2>4. Kept' = {} /\ win'.start = base' /\ received' = 0 BY <1>1, <1>2
  <2>5. /\ \A i \in DOMAIN toServer' : \A j \in 1 .. i - 1 : j \in DOMAIN toServer'
        /\ \A i \in DOMAIN toClient' : \A j \in 1 .. i - 1 : j \in DOMAIN toClient'
    <3>1. /\ DOMAIN toServer' = 1 .. Len(toServer) /\ Len(toServer) \in Nat
          /\ DOMAIN toClient' = 1 .. Len(toClient) /\ Len(toClient) \in Nat
      BY <1>2, PathSteps
    <3>2. \A l \in Nat : \A i \in 1 .. l : \A j : j \in 1 .. i - 1 => j \in 1 .. l OBVIOUS
    <3> QED BY <3>1, <3>2
  <2> QED BY <2>2, <2>3, <2>4, <2>5 DEF FinishInv
<1>7. \A n : ~(n \in base' .. lastSequence' - 1)
  <2>1. \A l \in Nat : \A n : ~(n \in l .. l - 1) OBVIOUS
  <2> QED BY <1>1, <1>2, <2>1
<1>8. CarryInv'
  BY <1>1, <1>2, <1>3, <1>7 DEF CarryInv, CurrentEcho
<1>9. HoleInv'
  <2>1. \A h : (AckedBut(h))' BY <1>1, <1>3, <1>7 DEF AckedBut
  <2>2. \A x : (NoGapsBelow(x))' BY <1>1, <1>3, <1>7 DEF NoGapsBelow
  <2> QED BY <2>1, <2>2 DEF HoleInv
<1> QED BY <1>2, <1>4, <1>5, <1>6, <1>8, <1>9 DEF IInv

\* A transfer of which nothing was sent has left nothing anywhere.
LEMMA EmptyTransfer ==
  ASSUME OneLoss, IInv, Live, base = lastSequence
  PROVE  /\ Kept = {} /\ win.start = base /\ received = 0
         /\ \A i \in DOMAIN toServer : ~Carries(toServer[i])
         /\ \A i \in DOMAIN toClient : ~CurrentEcho(toClient[i])
<1>1. /\ TypeInv /\ ClientInv /\ WinInv /\ ServedInv /\ PathInv /\ CarryInv
      /\ base \in Nat /\ lastSequence \in Nat /\ transferred \in Nat /\ win.start \in Nat
      /\ \A n \in Seqs : n \in Nat
  <2>1. base \in Nat /\ lastSequence \in Nat BY NoWrap DEF IInv, TypeInv, TypeOK, Live
  <2>2. transferred \in Nat /\ win.start \in Nat /\ \A n \in Seqs : n \in Nat
    BY Constants DEF IInv, TypeInv, TypeOK, ClientTypeOK, ServerTypeOK, WindowType, Seqs
  <2> QED BY <2>1, <2>2 DEF IInv
<1>2. transferred = 0 BY <1>1 DEF base
<1>3. received = 0 BY <1>2, <1>1 DEF ClientInv, Live
<1>4. win.start = base
  <2>1. win.start <= lastSequence /\ base <= win.start BY <1>1 DEF WinInv, ServedInv
  <2> QED BY <1>1, <2>1
<1>5. Kept = {}
  <2> SUFFICES ASSUME NEW n \in Kept PROVE FALSE OBVIOUS
  <2>1. n \in Nat /\ n >= win.start BY <1>1 DEF Kept
  <2>2. n \in 0 .. lastSequence - 1 BY <1>1 DEF WinInv
  <2> QED BY <1>1, <1>4, <2>1, <2>2
<1>6. \A n : ~(n \in base .. lastSequence - 1) BY <1>1
<1>7. \A i \in DOMAIN toServer : ~Carries(toServer[i])
  BY <1>1, <1>6 DEF CarryInv, Carries
<1>8. \A i \in DOMAIN toClient : ~CurrentEcho(toClient[i])
  <2> SUFFICES ASSUME NEW i \in DOMAIN toClient, CurrentEcho(toClient[i]) PROVE FALSE OBVIOUS
  <2>1. toClient[i] \in Packet BY <1>1 DEF TypeInv, TypeOK
  <2>2. toClient[i].ack \in Nat BY <1>1, <2>1 DEF Packet
  <2>3. toClient[i].ack < lastSequence /\ toClient[i].ack >= base BY <1>1 DEF PathInv, CurrentEcho
  <2> QED BY <1>1, <2>2, <2>3
<1> QED BY <1>3, <1>4, <1>5, <1>7, <1>8

\* finishTransfer finds that nothing has ever been sent, and crashes.
LEMMA CrashStep ==
  ASSUME OneLoss, IInv, ClientNext, TypeInv', ClientInv',
         FinishTransfer, lastSequence = 0, toServer' = toServer, toClient' = toClient
  PROVE  IInv'
<1>1. /\ pc = "send" /\ pc' = "crashed" /\ cli' = cli /\ lastSequence' = lastSequence
  BY DEF FinishTransfer, windowVars
<1>2. /\ TypeInv /\ ClientInv /\ WinInv /\ ServedInv /\ PathInv
      /\ win' = win /\ connected' = connected /\ WinInv' /\ Kept' = Kept
      /\ Busy /\ ~Busy' /\ Live /\ ~Live' /\ FinishInv' /\ CarryInv' /\ HoleInv'
  <2>1. Busy /\ ~Busy' /\ ~Live' BY <1>1 DEF Busy, Live
  <2>2. Live BY <1>1, <2>1 DEF IInv, ServedInv, Live
  <2> QED BY <1>1, <2>1, <2>2, ClientOutside DEF IInv
<1>3. base = lastSequence
  <2>1. transferred <= lastSequence /\ transferred \in Nat
    BY <1>2, Constants DEF ClientInv, TypeInv, TypeOK, ClientTypeOK
  <2> QED BY <2>1 DEF base
<1>4. Kept = {} /\ \A i \in DOMAIN toServer : ~Carries(toServer[i])
  BY <1>2, <1>3, EmptyTransfer
<1>5. ServedInv' BY <1>1, <1>2, <1>4 DEF ServedInv
<1>6. PathInv'
  <2>1. cli # 0 BY <1>1, <1>2 DEF PathInv
  <2> QED BY <1>1, <1>2, <1>4, <2>1 DEF PathInv
<1> QED BY <1>2, <1>5, <1>6 DEF IInv

\* FINT is sent: what announces the end comes after all the transfer sent.
LEMMA AnnounceStep ==
  ASSUME OneLoss, IInv, ClientNext, TypeInv', ClientInv', lastSequence > 0,
         FinishTransfer \/ FinishRetry, Sends(FintPkt), ReadsOrNot
  PROVE  IInv'
<1>1. /\ pc \in {"send", "finwait"} /\ pc' = "finwait" /\ cli' = cli /\ lastSequence' = lastSequence
      /\ transferred' = transferred /\ received' = received /\ base' = base
  BY DEF FinishTransfer, FinishRetry, clientVars, windowVars, fileVars, base
<1>2. /\ TypeInv /\ ClientInv /\ WinInv /\ ServedInv /\ PathInv /\ FinishInv /\ CarryInv /\ HoleInv
      /\ win' = win /\ connected' = connected /\ lost' = lost /\ WinInv' /\ Kept' = Kept
      /\ Busy /\ Busy' /\ (Live <=> connected) /\ (Live' <=> connected) /\ ~Copying'
      /\ ~Live' => FinishInv' /\ CarryInv' /\ HoleInv'
  <2>1. Busy /\ Busy' /\ ~Copying' BY <1>1 DEF Busy, Copying
  <2>2. (Live <=> connected) /\ (Live' <=> connected) BY <1>1, <2>1, ClientOutside DEF Live
  <2> QED BY <1>1, <2>1, <2>2, ClientOutside DEF IInv
<1>3. /\ base \in Nat /\ lastSequence \in Nat /\ base <= lastSequence
      /\ \A i \in DOMAIN toServer : toServer[i].ack \in Nat
      /\ \A i \in DOMAIN toClient : toClient[i].ack \in Nat
      /\ DOMAIN toServer = 1 .. Len(toServer) /\ Len(toServer) \in Nat
      /\ DOMAIN toClient = 1 .. Len(toClient) /\ Len(toClient) \in Nat
  <2>1. base \in Nat /\ lastSequence \in Nat /\ base <= lastSequence
    BY <1>2, NoWrap DEF TypeInv, TypeOK
  <2>2. \A p \in Packet : p.ack \in Nat
    <3>1. \A n \in Seqs : n \in Nat BY Constants DEF Seqs
    <3> QED BY <3>1 DEF Packet
  <2>3. toServer \in Seq(Packet) /\ toClient \in Seq(Packet) BY <1>2 DEF TypeInv, TypeOK
  <2>4. (\A i \in DOMAIN toServer : toServer[i] \in Packet) /\ (\A i \in DOMAIN toClient : toClient[i] \in Packet)
    BY <2>3
  <2> QED BY <2>1, <2>2, <2>3, <2>4
<1> DEFINE p == FintPkt
<1>4. IsFint(p) /\ p.ack = lastSequence - 1 /\ Sends(p) BY ClientKinds
<1> HIDE DEF p
<1>5. /\ \A i \in DOMAIN toServer : i \in DOMAIN toServer' /\ toServer'[i] = toServer[i]
      /\ \A i \in DOMAIN toServer' :
           \/ i \in DOMAIN toServer /\ toServer'[i] = toServer[i]
           \/ i = Len(toServer) + 1 /\ toServer'[i] = p
      /\ Len(toServer') = Len(toServer) + 1
  BY <1>2, <1>4, PathSteps
<1>6. PICK k \in {0, 1} : \A i \in DOMAIN toClient' : i + k \in DOMAIN toClient /\ toClient'[i] = toClient[i + k]
  BY <1>2, PathSteps
<1>7. ServedInv' BY <1>1, <1>2 DEF ServedInv
<1>8. PathInv'
  <2>1. cli # 0 BY <1>1, <1>2 DEF PathInv
  <2>2. \A i \in DOMAIN toServer' : Known(toServer'[i]) /\ (IsFint(toServer'[i]) => toServer'[i].ack < lastSequence)
    BY <1>2, <1>3, <1>4, <1>5 DEF PathInv, Known
  <2>3. \A i \in DOMAIN toClient' : IsAck(toClient'[i]) \/ IsFint(toClient'[i]) => toClient'[i].ack < lastSequence
    BY <1>2, <1>6 DEF PathInv
  <2>4. ~connected => toClient' = <<>> /\ \A i \in DOMAIN toServer' : ~IsSyn(toServer'[i]) /\ ~IsFin(toServer'[i])
    <3> SUFFICES ASSUME ~connected
                 PROVE  toClient' = <<>> /\ \A i \in DOMAIN toServer' : ~IsSyn(toServer'[i]) /\ ~IsFin(toServer'[i])
      OBVIOUS
    <3>1. pc = "finwait" BY <1>1, <1>2 DEF ServedInv
    <3>2. toClient = <<>> /\ \A i \in DOMAIN toServer : ~IsSyn(toServer[i]) /\ ~IsFin(toServer[i])
      BY <1>2, <3>1 DEF PathInv
    <3>3. ~IsSyn(p) /\ ~IsFin(p) BY <1>4, OneKind
    <3> QED BY <1>5, <3>2, <3>3 DEF ReadsOrNot
  <2> QED BY <1>1, <1>2, <2>1, <2>2, <2>3, <2>4 DEF PathInv
<1>9. CASE connected
  <2>1. base = lastSequence =>
          /\ Kept = {} /\ win.start = base /\ received = 0
          /\ \A i \in DOMAIN toServer : ~Carries(toServer[i])
          /\ \A i \in DOMAIN toClient : ~CurrentEcho(toClient[i])
    BY <1>2, <1>9, EmptyTransfer
  <2>2. p.ack \in Int /\ (p.ack < base <=> base = lastSequence) /\ (p.ack >= base <=> base # lastSequence)
    BY <1>3, <1>4
  <2>3. ASSUME NEW i \in DOMAIN toServer'
        PROVE  /\ ~IsFin(toServer'[i])
               /\ IsOld(toServer'[i]) =>
                    /\ Kept = {} /\ win.start = base /\ received = 0
                    /\ \A j \in 1 .. i - 1 : ~Carries(toServer'[j])
                    /\ \A j \in DOMAIN toClient : ~CurrentEcho(toClient[j])
               /\ IsFint(toServer'[i]) => toServer'[i].ack = base - 1 \/ toServer'[i].ack = lastSequence - 1
               /\ IsFint(toServer'[i]) /\ toServer'[i].ack >= base =>
                    \A j \in i .. Len(toServer') : IsFint(toServer'[j])
    <3>1. CASE i \in DOMAIN toServer /\ toServer'[i] = toServer[i]
      <4>1. /\ ~IsFin(toServer[i])
            /\ IsOld(toServer[i]) =>
                 /\ Kept = {} /\ win.start = base /\ received = 0
                 /\ \A j \in 1 .. i - 1 : ~Carries(toServer[j])
                 /\ \A j \in DOMAIN toClient : ~CurrentEcho(toClient[j])
            /\ IsFint(toServer[i]) => toServer[i].ack = base - 1 \/ toServer[i].ack = lastSequence - 1
            /\ IsFint(toServer[i]) /\ toServer[i].ack >= base =>
                 \A j \in i .. Len(toServer) : IsFint(toServer[j])
        BY <1>2, <1>9, <3>1 DEF FinishInv
      <4>2. \A j \in 1 .. i - 1 : j \in DOMAIN toServer BY <1>3, <3>1
      <4>3. \A j \in i .. Len(toServer') : (j \in i .. Len(toServer) /\ j \in DOMAIN toServer) \/ toServer'[j] = p
        <5>1. \A j \in i .. Len(toServer') : j \in DOMAIN toServer'
          <6>1. DOMAIN toServer' = 1 .. Len(toServer')
            <7>1. toServer' \in Seq(Packet) BY DEF TypeInv, TypeOK
            <7> QED BY <7>1
          <6> QED BY <1>3, <1>5, <3>1, <6>1
        <5> QED BY <1>3, <1>5, <3>1, <5>1
      <4> QED BY <1>4, <1>5, <3>1, <4>1, <4>2, <4>3
    <3>2. CASE i = Len(toServer) + 1 /\ toServer'[i] = p
      <4>1. \A j \in 1 .. i - 1 : j \in DOMAIN toServer BY <1>3, <3>2
      <4>2. \A j \in i .. Len(toServer') : j = i BY <1>3, <1>5, <3>2
      <4>3. ~IsFin(p) /\ (IsOld(p) => base = lastSequence) BY <1>4, <2>2, OneKind DEF IsOld
      <4> QED BY <1>4, <1>5, <2>1, <3>2, <4>1, <4>2, <4>3
    <3> QED BY <1>5, <3>1, <3>2
  <2>4. ASSUME NEW i \in DOMAIN toClient', IsFint(toClient'[i])
        PROVE  \/ /\ toClient'[i].ack < base /\ received = 0
                  /\ \A j \in 1 .. i - 1 : ~CurrentEcho(toClient'[j])
               \/ /\ toClient'[i].ack = lastSequence - 1
                  /\ Kept = {} /\ win.start = lastSequence
                  /\ \A j \in DOMAIN toServer' : ~Carries(toServer'[j])
    <3>1. i + k \in DOMAIN toClient /\ toClient'[i] = toClient[i + k] BY <1>6
    <3>2. \/ /\ toClient[i + k].ack < base /\ received = 0
             /\ \A j \in 1 .. i + k - 1 : ~CurrentEcho(toClient[j])
          \/ /\ toClient[i + k].ack = lastSequence - 1
             /\ Kept = {} /\ win.start = lastSequence
             /\ \A j \in DOMAIN toServer : ~Carries(toServer[j])
      <4>1. \A e \in DOMAIN toClient : IsFint(toClient[e]) =>
              \/ /\ toClient[e].ack < base /\ received = 0
                 /\ \A j \in 1 .. e - 1 : ~CurrentEcho(toClient[j])
              \/ /\ toClient[e].ack = lastSequence - 1
                 /\ Kept = {} /\ win.start = lastSequence
                 /\ \A j \in DOMAIN toServer : ~Carries(toServer[j])
        BY <1>2, <1>9 DEF FinishInv
      <4>2. i \in Int /\ i + k \in Int
        <5>1. toClient' \in Seq(Packet) BY DEF TypeInv, TypeOK
        <5> QED BY <5>1
      <4> QED BY <2>4, <3>1, <4>1, <4>2
    <3>3. CASE /\ toClient[i + k].ack < base /\ received = 0
               /\ \A j \in 1 .. i + k - 1 : ~CurrentEcho(toClient[j])
      <4>1. i \in Nat /\ i >= 1 /\ \A j \in 1 .. i - 1 : j \in DOMAIN toClient'
        <5>1. toClient' \in Seq(Packet) BY DEF TypeInv, TypeOK
        <5> QED BY <5>1
      <4>2. \A j \in 1 .. i - 1 : toClient'[j] = toClient[j + k] /\ j + k \in 1 .. i + k - 1
        BY <1>6, <4>1
      <4> QED BY <3>1, <3>3, <4>2
    <3>4. CASE /\ toClient[i + k].ack = lastSequence - 1
               /\ Kept = {} /\ win.start = lastSequence
               /\ \A j \in DOMAIN toServer : ~Carries(toServer[j])
      <4>1. ~Carries(p) BY <1>4, OneKind DEF Carries
      <4> QED BY <1>5, <3>1, <3>4, <4>1
    <3> QED BY <3>2, <3>3, <3>4
  <2>5. \A j \in DOMAIN toClient' : ~CurrentEcho(toClient'[j]) \/ ~(\A i \in DOMAIN toClient : ~CurrentEcho(toClient[i]))
    BY <1>6
  <2>6. FinishInv'
    <3>1. \A i \in DOMAIN toServer' : (IsOld(toServer[i]))' <=> IsOld(toServer'[i])
      BY <1>1 DEF IsOld
    <3>2. \A i \in DOMAIN toClient' : (CurrentEcho(toClient[i]))' <=> CurrentEcho(toClient'[i])
      BY <1>1 DEF CurrentEcho
    <3>3. base' - 1 = base - 1 /\ lastSequence' - 1 = lastSequence - 1 BY <1>1
    <3>4. \A i \in DOMAIN toClient' : \A j \in 1 .. i - 1 : j \in DOMAIN toClient'
      <4>1. toClient' \in Seq(Packet) BY DEF TypeInv, TypeOK
      <4> QED BY <4>1
    <3> QED BY <1>1, <1>2, <2>3, <2>4, <2>5, <3>1, <3>2, <3>3, <3>4 DEF FinishInv
  <2>7. \A i \in DOMAIN toServer' : IsData(toServer'[i]) \/ IsAck(toServer'[i]) =>
          /\ i \in DOMAIN toServer /\ toServer'[i] = toServer[i]
          /\ \A n : ((AckBefore(n, i))' <=> AckBefore(n, i)) /\ ((DataBefore(n, i))' <=> DataBefore(n, i))
    <3> SUFFICES ASSUME NEW i \in DOMAIN toServer', IsData(toServer'[i]) \/ IsAck(toServer'[i])
                 PROVE  /\ i \in DOMAIN toServer /\ toServer'[i] = toServer[i]
                        /\ \A n : ((AckBefore(n, i))' <=> AckBefore(n, i)) /\ ((DataBefore(n, i))' <=> DataBefore(n, i))
      OBVIOUS
    <3>1. i \in DOMAIN toServer /\ toServer'[i] = toServer[i] BY <1>4, <1>5, OneKind
    <3>2. \A j \in 1 .. i - 1 : toServer'[j] = toServer[j] BY <1>3, <1>5, <3>1
    <3> QED BY <3>1, <3>2 DEF AckBefore, DataBefore
  <2>8. (\A n : (Done(n))' <=> Done(n)) /\ (\A n : (Held(n))' <=> Held(n))
    BY <1>2 DEF Done, Held
  <2>9. CarryInv'
    <3>1. ASSUME NEW i \in DOMAIN toClient', (CurrentEcho(toClient[i]))' PROVE (Held(toClient[i].ack))'
      <4>1. i + k \in DOMAIN toClient /\ toClient'[i] = toClient[i + k] BY <1>6
      <4>2. CurrentEcho(toClient[i + k]) BY <1>1, <3>1, <4>1 DEF CurrentEcho
      <4>3. Held(toClient[i + k].ack) BY <1>2, <1>9, <4>1, <4>2 DEF CarryInv
      <4> QED BY <1>2, <4>1, <4>3 DEF Held, Done
    <3>2. base' .. lastSequence' - 1 = base .. lastSequence - 1 BY <1>1
    <3>3. ASSUME NEW i \in DOMAIN toServer', IsAck(toServer'[i])
          PROVE  toServer'[i].ack \in base .. lastSequence - 1 /\ (Held(toServer[i].ack))' /\ toServer'[i].rcvw # 0
      <4>1. toServer[i].ack \in base .. lastSequence - 1 /\ Held(toServer[i].ack) /\ toServer[i].rcvw # 0
        BY <1>2, <1>9, <2>7, <3>3 DEF CarryInv
      <4> QED BY <1>2, <2>7, <3>3, <4>1 DEF Held, Done
    <3>4. ASSUME NEW i \in DOMAIN toServer', IsData(toServer'[i])
          PROVE  /\ toServer'[i].seq \in base .. lastSequence - 1
                 /\ toServer'[i].rcvw # 0 /\ ChecksumOk(toServer'[i])
                 /\ ~(Settled(toServer[i].seq, i))'
      <4>1. /\ toServer[i].seq \in base .. lastSequence - 1
            /\ toServer[i].rcvw # 0 /\ ChecksumOk(toServer[i])
            /\ ~Settled(toServer[i].seq, i)
        BY <1>2, <1>9, <2>7, <3>4 DEF CarryInv
      <4>2. \A n : (Settled(n, i))' <=> Settled(n, i) BY <2>7, <2>8, <3>4 DEF Settled
      <4>3. toServer'[i] = toServer[i] BY <2>7, <3>4
      <4>4. \A n : n = toServer[i].seq => ~(Settled(n, i))' BY <4>1, <4>2
      <4> QED BY <4>1, <4>3, <4>4 DEF Settled, AckBefore, Done
    <3> QED BY <1>2, <3>1, <3>2, <3>3, <3>4 DEF CarryInv
  <2>10. HoleInv'
    <3>1. ASSUME NEW h, AckedBut(h) PROVE (AckedBut(h))'
      <4> SUFFICES ASSUME NEW i \in DOMAIN toServer', IsData(toServer'[i]),
                          NEW n \in base' .. toServer'[i].seq - WinSize, n # h
                   PROVE  (Settled(n, i))'
        BY <1>2 DEF AckedBut
      <4>1. Settled(n, i) BY <1>1, <2>7, <3>1 DEF AckedBut
      <4> QED BY <2>7, <2>8, <4>1 DEF Settled
    <3>2. ASSUME NEW x, NoGapsBelow(x) PROVE (NoGapsBelow(x))'
      <4> SUFFICES ASSUME NEW i \in DOMAIN toServer', IsData(toServer'[i]),
                          NEW n \in base' .. toServer'[i].seq - 1, n < x
                   PROVE  (Stored(n, i))'
        BY <1>2 DEF NoGapsBelow
      <4>1. Stored(n, i) BY <1>1, <2>7, <3>2 DEF NoGapsBelow
      <4> QED BY <2>7, <2>8, <4>1 DEF Stored
    <3> QED BY <1>2, <1>9, <3>1, <3>2 DEF HoleInv
  <2> QED BY <1>2, <1>7, <1>8, <2>6, <2>9, <2>10 DEF IInv
<1>10. CASE ~connected
  BY <1>2, <1>7, <1>8, <1>10 DEF IInv
<1> QED BY <1>9, <1>10

\* The answer to FINT: nothing of the transfer is left.
LEMMA AnsweredStep ==
  ASSUME OneLoss, IInv, ClientNext, TypeInv', ClientInv', NEW m, FinishReply(m), Takes(m)
  PROVE  IInv'
<1>1. /\ pc = "finwait" /\ pc' = "command" /\ cli' = cli /\ lastSequence' = lastSequence
      /\ toServer' = toServer /\ ReadsOrNot /\ toClient # <<>> /\ m = toClient[1] /\ IsFint(m)
  BY ClientKinds DEF FinishReply, windowVars, Takes, ReadsOrNot
<1>2. /\ TypeInv /\ ClientInv /\ WinInv /\ ServedInv /\ PathInv /\ FinishInv
      /\ win' = win /\ connected' = connected /\ WinInv' /\ Kept' = Kept
      /\ Busy /\ ~Busy' /\ connected /\ Live /\ ~Live' /\ FinishInv' /\ CarryInv' /\ HoleInv'
  <2>1. Busy /\ ~Busy' /\ ~Live' BY <1>1 DEF Busy, Live
  <2>2. connected BY <1>1 DEF IInv, PathInv
  <2> QED BY <1>1, <2>1, <2>2, ClientOutside DEF IInv, Live
<1>3. /\ base \in Nat /\ lastSequence \in Nat /\ transferred \in Nat /\ 1 \in DOMAIN toClient
  <2>1. base \in Nat /\ lastSequence \in Nat
    BY <1>2, NoWrap DEF TypeInv, TypeOK
  <2>2. transferred \in Nat
    BY <1>2, Constants DEF TypeInv, TypeOK, ClientTypeOK
  <2>3. toClient \in Seq(Packet) BY <1>2 DEF TypeInv, TypeOK
  <2> QED BY <1>1, <2>1, <2>2, <2>3
<1>4. /\ Kept = {} /\ win.start = lastSequence
      /\ \A j \in DOMAIN toServer : ~Carries(toServer[j])
  <2>1. \/ m.ack < base /\ received = 0
        \/ /\ Kept = {} /\ win.start = lastSequence
           /\ \A j \in DOMAIN toServer : ~Carries(toServer[j])
    BY <1>1, <1>2, <1>3 DEF FinishInv
  <2>2. CASE received = 0
    <3>1. transferred = 0 BY <1>1, <1>2, <1>3, <2>2 DEF ClientInv
    <3>2. base = lastSequence BY <1>3, <3>1 DEF base
    <3> QED BY <1>2, <3>2, EmptyTransfer
  <2> QED BY <2>1, <2>2
<1>5. ASSUME NEW i \in DOMAIN toServer
      PROVE  IsSyn(toServer[i]) \/ (IsFint(toServer[i]) /\ toServer[i].ack = lastSequence - 1)
  <2>1. IsSyn(toServer[i]) \/ IsFint(toServer[i])
    BY <1>2, <1>4 DEF FinishInv, PathInv, Known
  <2>2. ASSUME IsFint(toServer[i]), toServer[i].ack = base - 1 PROVE base = lastSequence
    <3>1. IsOld(toServer[i]) BY <1>3, <2>2 DEF IsOld
    <3> QED BY <1>2, <1>4, <3>1 DEF FinishInv
  <2>3. IsFint(toServer[i]) => toServer[i].ack = base - 1 \/ toServer[i].ack = lastSequence - 1
    BY <1>2 DEF FinishInv
  <2> QED BY <2>1, <2>2, <2>3
<1>6. PICK k \in {0, 1} : \A i \in DOMAIN toClient' : i + k \in DOMAIN toClient /\ toClient'[i] = toClient[i + k]
  BY <1>1, <1>2, PathSteps
<1>7. ServedInv' BY <1>1, <1>2, <1>4 DEF ServedInv
<1>8. PathInv'
  <2>1. cli # 0 BY <1>1, <1>2 DEF PathInv
  <2>2. \A i \in DOMAIN toClient' : IsAck(toClient'[i]) \/ IsFint(toClient'[i]) => toClient'[i].ack < lastSequence
    BY <1>2, <1>6 DEF PathInv
  <2>3. lastSequence' - 1 = lastSequence - 1 BY <1>1
  <2> QED BY <1>1, <1>2, <1>4, <1>5, <2>1, <2>2, <2>3 DEF PathInv
<1> QED BY <1>2, <1>7, <1>8 DEF IInv

\* The client's steps keep the invariant.
LEMMA ClientStep ==
  ASSUME OneLoss, IInv, ClientNext, TypeInv', ClientInv'
  PROVE  IInv'
<1>1. TypeInv /\ ClientInv BY DEF IInv
<1>2. CASE Copying /\ Copying'
  <2>1. UNCHANGED <<serverVars, lost, cli>> /\ base' = base /\ \E r : TurnAdds(r)
    BY <1>1, <1>2, CopySteps
  <2> QED BY <1>2, <2>1, CopyTurn
<1>3. FinishRetry => lastSequence > 0
  BY <1>1 DEF FinishRetry, TypeInv, PhaseInv
<1> QED
  BY <1>1, <1>2, <1>3, ClientMoves, StartStep, ConnectStep, CloseStep, TransformStep,
     CrashStep, AnnounceStep, AnsweredStep

-----------------------------------------------------------------------------
(* The server's turns. *)

\* A step of the server or of the network leaves the client alone.
LEMMA ClientIdle ==
  ASSUME UNCHANGED clientVars
  PROVE  /\ ClientInv => ClientInv'
         /\ pc' = pc /\ cli' = cli /\ lastSequence' = lastSequence /\ base' = base /\ received' = received
         /\ (Busy' <=> Busy) /\ (Copying' <=> Copying) /\ sendArray' = sendArray
<1>1. UNCHANGED <<cli, pc, tries, head, end, lastSequence, sendArray, pktArray, rcvBuffer,
                  rcvWindowSize, serverRcvSize, xfer, fileLen, transferred, received, out>>
  BY DEF clientVars, windowVars, arrayVars, sizeVars, fileVars
<1>2. base' = base /\ Room' = Room /\ Waiting' = Waiting /\ (Busy' <=> Busy) /\ (Copying' <=> Copying)
  BY <1>1 DEF base, Room, Waiting, Busy, Copying
<1>3. ClientInv => ClientInv' BY <1>1, <1>2 DEF ClientInv
<1> QED BY <1>1, <1>2, <1>3

\* What a turn of the server sends: what it answers, and the echoes it keeps.
LEMMA ServerTurnEnds ==
  ASSUME win' \in WindowType, toClient \in Seq(Packet), NEW s \in Seq(Packet),
         EndServerTurn(s) \/ ToClient(toClient \o s)
  PROVE  \E r \in Seq(Packet) :
           /\ toClient' = toClient \o r
           /\ \A i \in DOMAIN r :
                \/ i \in DOMAIN s /\ r[i] = s[i]
                \/ \E n \in Seqs : r[i] = win'.pkt[n] /\ win'.pkt[n] # NoPkt
<1> DEFINE due == Scan(win'.pkt, Resendable(win'), win'.start)
<1>1. /\ due \in Seq(Packet)
      /\ \A i \in DOMAIN due : \E n \in Seqs : due[i] = win'.pkt[n] /\ win'.pkt[n] # NoPkt
  <2>1. \A n \in Resendable(win') : n \in Seqs /\ win'.pkt[n] # NoPkt
    BY Constants DEF Resendable, WindowType, Seqs
  <2>2. (\A n \in Resendable(win') : win'.pkt[n] \in Packet) /\ Resendable(win') \in SUBSET Seqs
    BY <2>1 DEF WindowType
  <2>3. win'.start \in Int BY Constants DEF WindowType
  <2>4. due \in Seq(Packet) BY <2>2, <2>3, ScanVisits
  <2>5. \A i \in DOMAIN due : \E n \in Resendable(win') : due[i] = win'.pkt[n]
    BY <2>2, <2>3, ScanVisits
  <2> HIDE DEF due
  <2> QED BY <2>1, <2>4, <2>5
<1>2. \/ toClient' = toClient \o s
      \/ toClient = <<>> /\ toClient' = s \o due
  BY DEF EndServerTurn, ToClient
<1> HIDE DEF due
<1>3. CASE toClient' = toClient \o s
  BY <1>3
<1>4. CASE toClient = <<>> /\ toClient' = s \o due
  <2>1. /\ toClient' \in Seq(Packet) /\ Len(s) \in Nat /\ DOMAIN s = 1 .. Len(s)
        /\ DOMAIN due = 1 .. Len(due) /\ Len(due) \in Nat
        /\ DOMAIN toClient' = 1 .. Len(s) + Len(due)
        /\ \A j \in 1 .. Len(s) + Len(due) :
             toClient'[j] = IF j <= Len(s) THEN s[j] ELSE due[j - Len(s)]
    BY <1>1, <1>4, Joined
  <2>2. toClient' = toClient \o toClient'
    BY <1>4, <2>1
  <2>3. ASSUME NEW i \in DOMAIN toClient'
        PROVE  \/ i \in DOMAIN s /\ toClient'[i] = s[i]
               \/ \E n \in Seqs : toClient'[i] = win'.pkt[n] /\ win'.pkt[n] # NoPkt
    <3>1. CASE i <= Len(s)
      BY <2>1, <3>1
    <3>2. CASE ~(i <= Len(s))
      <4>1. i - Len(s) \in DOMAIN due /\ toClient'[i] = due[i - Len(s)]
        BY <2>1, <3>2
      <4> QED BY <1>1, <4>1
    <3> QED BY <3>1, <3>2
  <2> QED BY <2>1, <2>2, <2>3
<1> QED BY <1>2, <1>3, <1>4

\* The server takes m off the path and puts r on the way back.
Reads(m, r) ==
  /\ toServer # <<>> /\ m = toServer[1] /\ toServer' = Tail(toServer)
  /\ r \in Seq(Packet) /\ toClient' = toClient \o r
  /\ \A i \in DOMAIN r :
       \/ i = 1 /\ r[i] \in Reply(m)
       \/ \E n \in Seqs : r[i] = win'.pkt[n] /\ win'.pkt[n] # NoPkt

\* A turn of the server reads one datagram, and sends its answer and what
\* checktimeout resends.
LEMMA ServerReads ==
  ASSUME TypeInv, TypeInv', ServerRead
  PROVE  /\ \E m \in Packet : \E r : Reads(m, r) /\ Handle(m)
         /\ UNCHANGED clientVars /\ lost' = lost
<1>1. /\ toServer # <<>> /\ toServer' = Tail(toServer) /\ UNCHANGED clientVars /\ lost' = lost
      /\ toServer \in Seq(Packet) /\ toClient \in Seq(Packet) /\ win \in WindowType /\ win' \in WindowType
  BY DEF ServerRead, TypeInv, TypeOK, ServerTypeOK
<1>2. toServer[1] \in Packet /\ Head(toServer) = toServer[1] BY <1>1, TailOf
<1>3. PICK m \in Packet :
        /\ m = toServer[1] /\ Handle(m)
        /\ EndServerTurn(SetToSeq(Reply(m))) \/ ToClient(toClient \o SetToSeq(Reply(m)))
  BY <1>2 DEF ServerRead
<1> DEFINE s == SetToSeq(Reply(m))
<1>4. s \in Seq(Packet) /\ \A i \in DOMAIN s : i = 1 /\ s[i] \in Reply(m)
  <2>1. s \in Seq(Packet) /\ (Reply(m) = {} \/ \E q \in Packet : Reply(m) = {q})
    BY <1>1, ReplySeq
  <2>2. CASE Reply(m) = {}
    <3>1. s = <<>> BY <2>2, ReplyAsSequence
    <3> QED BY <2>1, <3>1
  <2>3. CASE \E q \in Packet : Reply(m) = {q}
    <3>1. PICK q \in Packet : Reply(m) = {q} BY <2>3
    <3>2. s = <<q>> BY <3>1, ReplyAsSequence
    <3>3. DOMAIN <<q>> = {1} /\ <<q>>[1] = q OBVIOUS
    <3> QED BY <2>1, <3>1, <3>2, <3>3
  <2> QED BY <2>1, <2>2, <2>3
<1>5. EndServerTurn(s) \/ ToClient(toClient \o s) BY <1>3
<1> HIDE DEF s
<1>6. PICK r \in Seq(Packet) :
        /\ toClient' = toClient \o r
        /\ \A i \in DOMAIN r :
             \/ i \in DOMAIN s /\ r[i] = s[i]
             \/ \E n \in Seqs : r[i] = win'.pkt[n] /\ win'.pkt[n] # NoPkt
  BY <1>1, <1>4, <1>5, ServerTurnEnds
<1>7. \A i \in DOMAIN r :
        \/ i = 1 /\ r[i] \in Reply(m)
        \/ \E n \in Seqs : r[i] = win'.pkt[n] /\ win'.pkt[n] # NoPkt
  BY <1>4, <1>6
<1>8. Reads(m, r) BY <1>1, <1>3, <1>6, <1>7 DEF Reads
<1> QED BY <1>1, <1>3, <1>8

\* The paths after such a turn.
LEMMA ReadShift ==
  ASSUME toServer \in Seq(Packet), toClient \in Seq(Packet), NEW m, NEW r, Reads(m, r)
  PROVE  /\ 1 \in DOMAIN toServer /\ m \in Packet
         /\ \A i \in DOMAIN toServer' :
              /\ i \in Nat /\ i >= 1 /\ i + 1 \in DOMAIN toServer /\ toServer'[i] = toServer[i + 1]
              /\ \A j \in 1 .. i - 1 : j \in DOMAIN toServer'
         /\ \A i \in DOMAIN toClient : i \in DOMAIN toClient' /\ toClient'[i] = toClient[i]
         /\ \A i \in DOMAIN toClient' :
              \/ i \in DOMAIN toClient /\ toClient'[i] = toClient[i]
                 /\ \A j \in 1 .. i - 1 : j \in DOMAIN toClient
              \/ i > Len(toClient) /\ i - Len(toClient) \in DOMAIN r /\ toClient'[i] = r[i - Len(toClient)]
         /\ Beyond' \in Nat /\ Beyond' >= 1 /\ Beyond = Beyond' + 1
         /\ \A n, i \in Int : i >= 1 /\ i <= Beyond' =>
              /\ AckBefore(n, i + 1) <=> (AckBefore(n, i))' \/ (IsAck(m) /\ m.ack = n)
              /\ DataBefore(n, i + 1) <=> (DataBefore(n, i))' \/ (IsData(m) /\ m.seq = n)
<1>1. /\ toServer # <<>> /\ m = toServer[1] /\ toServer' = Tail(toServer)
      /\ r \in Seq(Packet) /\ toClient' = toClient \o r
  BY DEF Reads
<1>2. /\ m \in Packet /\ Len(toServer') = Len(toServer) - 1 /\ Len(toServer) \in Nat \ {0}
      /\ DOMAIN toServer = 1 .. Len(toServer) /\ DOMAIN toServer' = 1 .. Len(toServer) - 1
      /\ \A j \in 1 .. Len(toServer) - 1 : toServer'[j] = toServer[j + 1]
  BY <1>1, TailOf
<1>3. /\ Len(toClient) \in Nat /\ Len(r) \in Nat
      /\ DOMAIN toClient = 1 .. Len(toClient) /\ DOMAIN r = 1 .. Len(r)
      /\ DOMAIN toClient' = 1 .. Len(toClient) + Len(r)
      /\ \A j \in 1 .. Len(toClient) + Len(r) :
           toClient'[j] = IF j <= Len(toClient) THEN toClient[j] ELSE r[j - Len(toClient)]
  BY <1>1, Joined
<1>4. Beyond' \in Nat /\ Beyond' >= 1 /\ Beyond = Beyond' + 1 /\ Beyond' = Len(toServer)
  BY <1>2 DEF Beyond
<1>5. ASSUME NEW n \in Int, NEW i \in Int, i >= 1, i <= Beyond'
      PROVE  /\ AckBefore(n, i + 1) <=> (AckBefore(n, i))' \/ (IsAck(m) /\ m.ack = n)
             /\ DataBefore(n, i + 1) <=> (DataBefore(n, i))' \/ (IsData(m) /\ m.seq = n)
  <2>1. \A j \in 1 .. i - 1 : toServer'[j] = toServer[j + 1] /\ j + 1 \in 1 .. i + 1 - 1
    BY <1>2, <1>4, <1>5
  <2>2. 1 \in 1 .. i + 1 - 1 BY <1>5
  <2>3. \A j \in 1 .. i + 1 - 1 : j = 1 \/ (j - 1 \in 1 .. i - 1 /\ toServer'[j - 1] = toServer[j])
    <3> SUFFICES ASSUME NEW j \in 1 .. i + 1 - 1, j # 1
                 PROVE  j - 1 \in 1 .. i - 1 /\ toServer'[j - 1] = toServer[j]
      OBVIOUS
    <3>1. j - 1 \in 1 .. i - 1 /\ (j - 1) + 1 = j BY <1>5
    <3> QED BY <2>1, <3>1
  <2>4. AckBefore(n, i + 1) => (AckBefore(n, i))' \/ (IsAck(m) /\ m.ack = n)
    <3> SUFFICES ASSUME NEW j \in 1 .. i + 1 - 1, IsAck(toServer[j]), toServer[j].ack = n,
                        ~(IsAck(m) /\ m.ack = n)
                 PROVE  (AckBefore(n, i))'
      BY DEF AckBefore
    <3>1. j # 1 BY <1>1
    <3>2. j - 1 \in 1 .. i - 1 /\ IsAck(toServer'[j - 1]) /\ toServer'[j - 1].ack = n
      BY <2>3, <3>1
    <3>3. \E l \in 1 .. i - 1 : IsAck(toServer'[l]) /\ toServer'[l].ack = n
      BY <3>2
    <3> QED BY <3>3 DEF AckBefore, IsAck
  <2>5. IsAck(m) /\ m.ack = n => AckBefore(n, i + 1)
    BY <1>1, <2>2 DEF AckBefore
  <2>6. (AckBefore(n, i))' => AckBefore(n, i + 1)
    <3>1. (AckBefore(n, i))' => \E j \in 1 .. i - 1 : IsAck(toServer'[j]) /\ toServer'[j].ack = n
      BY DEF AckBefore
    <3> QED BY <2>1, <3>1 DEF AckBefore
  <2>7. DataBefore(n, i + 1) => (DataBefore(n, i))' \/ (IsData(m) /\ m.seq = n)
    <3> SUFFICES ASSUME NEW j \in 1 .. i + 1 - 1, IsData(toServer[j]), toServer[j].seq = n,
                        ~(IsData(m) /\ m.seq = n)
                 PROVE  (DataBefore(n, i))'
      BY DEF DataBefore
    <3>1. j # 1 BY <1>1
    <3>2. j - 1 \in 1 .. i - 1 /\ IsData(toServer'[j - 1]) /\ toServer'[j - 1].seq = n
      BY <2>3, <3>1
    <3>3. \E l \in 1 .. i - 1 : IsData(toServer'[l]) /\ toServer'[l].seq = n
      BY <3>2
    <3> QED BY <3>3 DEF DataBefore, IsData
  <2>8. IsData(m) /\ m.seq = n => DataBefore(n, i + 1)
    BY <1>1, <2>2 DEF DataBefore
  <2>9. (DataBefore(n, i))' => DataBefore(n, i + 1)
    <3>1. (DataBefore(n, i))' => \E j \in 1 .. i - 1 : IsData(toServer'[j]) /\ toServer'[j].seq = n
      BY DEF DataBefore
    <3> QED BY <2>1, <3>1 DEF DataBefore
  <2> QED BY <2>4, <2>5, <2>6, <2>7, <2>8, <2>9
<1>6. \A i \in DOMAIN toServer' :
        /\ i \in Nat /\ i >= 1 /\ i + 1 \in DOMAIN toServer /\ toServer'[i] = toServer[i + 1]
        /\ \A j \in 1 .. i - 1 : j \in DOMAIN toServer'
  BY <1>2
<1>7. \A i \in DOMAIN toClient : i \in DOMAIN toClient' /\ toClient'[i] = toClient[i]
  BY <1>3
<1>8. \A i \in DOMAIN toClient' :
        \/ i \in DOMAIN toClient /\ toClient'[i] = toClient[i]
           /\ \A j \in 1 .. i - 1 : j \in DOMAIN toClient
        \/ i > Len(toClient) /\ i - Len(toClient) \in DOMAIN r /\ toClient'[i] = r[i - Len(toClient)]
  BY <1>3
<1>9. 1 \in DOMAIN toServer BY <1>2
<1> QED BY <1>2, <1>4, <1>5, <1>6, <1>7, <1>8, <1>9

\* The server is given a packet beyond its window only when it waits for an
\* acknowledgement that was lost, of the echo at its window's start.
LEMMA HoleAt ==
  ASSUME OneLoss, IInv, Live, toServer # <<>>, IsData(toServer[1]),
         toServer[1].seq >= win.start + WinSize, NEW h, AckedBut(h)
  PROVE  h = win.start
<1>1. /\ 1 \in DOMAIN toServer /\ toServer[1] \in Packet /\ toServer[1].seq \in Int
      /\ win.start \in Int /\ base \in Int /\ WinSize \in Int
  <2>1. toServer \in Seq(Packet) /\ ClientTypeOK /\ win \in WindowType
    BY DEF IInv, TypeInv, TypeOK, ServerTypeOK
  <2>2. 1 \in DOMAIN toServer /\ toServer[1] \in Packet BY <2>1
  <2>3. base \in Nat BY <2>1, NoWrap DEF IInv, Live
  <2> QED BY <2>1, <2>2, <2>3, Constants DEF Packet, Seqs, WindowType
<1>2. base <= win.start /\ ~Done(win.start)
  BY <1>1 DEF IInv, ServedInv, WinInv, Done
<1>3. ~AckBefore(win.start, 1)
  BY DEF AckBefore
<1>4. win.start \in base .. toServer[1].seq - WinSize
  BY <1>1, <1>2
<1>5. win.start # h => Settled(win.start, 1)
  BY <1>1, <1>4 DEF AckedBut
<1> QED BY <1>2, <1>3, <1>5 DEF Settled

\* A packet that is read while the window has room lies in the window ...
LEMMA DataFits ==
  ASSUME OneLoss, IInv, Live, toServer # <<>>, IsData(toServer[1]), ~IsFull(win)
  PROVE  toServer[1].seq < win.start + WinSize
<1> DEFINE m == toServer[1]
<1>1. /\ 1 \in DOMAIN toServer /\ m \in Packet /\ m.seq \in Seqs /\ m.seq \in Int
      /\ win.start \in Nat /\ base \in Int /\ WinSize \in Nat
      /\ \A i \in Nat : i <= m.seq => i \in Seqs
  <2>1. toServer \in Seq(Packet) /\ ClientTypeOK /\ win \in WindowType
    BY DEF IInv, TypeInv, TypeOK, ServerTypeOK
  <2>2. 1 \in DOMAIN toServer /\ toServer[1] \in Packet BY <2>1
  <2>3. base \in Nat BY <2>1, NoWrap DEF IInv, Live
  <2>4. m.seq \in 0 .. SeqSize - 1 /\ SeqSize \in Nat BY <2>2, Constants DEF Packet, Seqs
  <2>5. \A i \in Nat : i <= m.seq => i \in Seqs BY <2>4 DEF Seqs
  <2>6. win.start \in Nat /\ WinSize \in Nat BY <2>1, Constants DEF WindowType
  <2> QED BY <2>2, <2>3, <2>4, <2>5, <2>6 DEF Seqs
<1> SUFFICES ASSUME m.seq >= win.start + WinSize PROVE FALSE
  BY <1>1
<1>2. ~AckedBut(-1)
  <2>1. -1 # win.start BY <1>1
  <2> QED BY <2>1, HoleAt
<1>3. PICK h \in Seqs : AckedBut(h) /\ NoGapsBelow(h + WinSize)
  BY <1>2 DEF IInv, HoleInv
<1>4. h = win.start BY <1>3, HoleAt
<1>5. base <= win.start BY DEF IInv, ServedInv
<1>6. win.start .. win.start + WinSize - 1 \subseteq Kept
  <2> SUFFICES ASSUME NEW n \in win.start .. win.start + WinSize - 1 PROVE n \in Kept
    OBVIOUS
  <2>1. n \in Int /\ n >= win.start /\ n < h + WinSize /\ n \in base .. m.seq - 1 /\ n \in Seqs
    BY <1>1, <1>4, <1>5
  <2>2. Stored(n, 1) BY <1>1, <1>3, <2>1 DEF NoGapsBelow
  <2>3. ~DataBefore(n, 1) BY DEF DataBefore
  <2>4. ~(n < win.start) BY <1>1, <2>1
  <2> QED BY <2>1, <2>2, <2>3, <2>4 DEF Stored, Held, Done, Kept
<1>7. ServerTypeOK /\ WinInv BY DEF IInv, TypeInv, TypeOK
<1> DEFINE a == win.start
           b == win.start + WinSize - 1
<1>8. IsFiniteSet(a .. b) /\ Cardinality(a .. b) = WinSize
  <2>1. a \in Int /\ b \in Int /\ b - a + 1 = WinSize /\ ~(a > b) BY <1>1, Constants
  <2> HIDE DEF a, b
  <2> QED BY <2>1, FS_Interval
<1>9. a .. b \subseteq Kept BY <1>6
<1>10. IsFiniteSet(Kept) /\ Cardinality(Kept) \in 0 .. WinSize /\ win.unacked = Cardinality(Kept)
  BY <1>7, KeptSize DEF WinInv, UnackedCounts, Kept
<1> HIDE DEF a, b, Kept
<1>11. Cardinality(a .. b) <= Cardinality(Kept)
  BY <1>9, <1>10, FS_Subset
<1> QED BY <1>1, <1>8, <1>10, <1>11 DEF IsFull

\* ... and one that lies in a full window is held already.
LEMMA FullHolds ==
  ASSUME ServerTypeOK, WinInv, IsFull(win), NEW n \in Seqs, n < win.start + WinSize
  PROVE  Held(n)
<1>1. n \in Int /\ win.start \in Int /\ WinSize \in Int
  BY Constants DEF Seqs, ServerTypeOK, WindowType
<1>2. n >= win.start => n \in Kept
  BY <1>1, KeptSize
<1> QED BY <1>1, <1>2 DEF Kept, Held, Done

\* What a turn on m does to the window, when it only takes m in.
Served(m) ==
  /\ win.start <= win'.start
  /\ \A n \in Seqs : (Done(n) => (Done(n))') /\ (Held(n) => (Held(n))')
  /\ \A n \in Seqs : (Done(n))' => Done(n) \/ (IsAck(m) /\ m.ack = n)
  /\ IsAck(m) => (Done(m.ack))'
  /\ IsData(m) => (Held(m.seq))' \/ (~Accepts(m) /\ m.seq >= win.start + WinSize)

\* Such a turn in a transfer keeps what is known of the packets on the way.
LEMMA LiveRead ==
  ASSUME OneLoss, IInv, TypeInv', UNCHANGED clientVars, lost' = lost, Live, connected', WinInv',
         NEW m, NEW r, Reads(m, r), Served(m)
  PROVE  ServedInv' /\ PathInv' /\ CarryInv' /\ HoleInv'
<1>1. /\ toServer \in Seq(Packet) /\ toClient \in Seq(Packet) /\ ClientTypeOK /\ ClientInv
      /\ toServer' \in Seq(Packet)
  BY DEF IInv, TypeInv, TypeOK
<1>2. /\ pc' = pc /\ cli' = cli /\ lastSequence' = lastSequence /\ base' = base /\ received' = received
      /\ (Busy' <=> Busy) /\ (Copying' <=> Copying) /\ sendArray' = sendArray
      /\ Busy /\ Busy' /\ Live'
  BY ClientIdle DEF Live
<1>3. m = toServer[1] /\ 1 \in DOMAIN toServer /\ m \in Packet
  BY <1>1, ReadShift DEF Reads
<1>4. /\ base \in Nat /\ lastSequence \in Nat /\ lastSequence < SeqSize /\ WinSize \in Nat
      /\ base .. lastSequence - 1 \subseteq Seqs
      /\ \A p \in Packet : p.seq \in Seqs /\ p.ack \in Seqs /\ base .. p.seq - 1 \subseteq Seqs
                           /\ base .. p.seq - WinSize \subseteq Seqs
  <2>1. base \in Nat /\ lastSequence \in Nat /\ lastSequence < SeqSize /\ WinSize \in Nat
    BY <1>1, <1>2, NoWrap, Constants
  <2> QED BY <2>1, Constants DEF Packet, Seqs
<1>5. /\ Beyond' \in Nat /\ Beyond' >= 1 /\ Beyond = Beyond' + 1
      /\ \A n \in Seqs : \A i \in Nat : i >= 1 /\ i <= Beyond' =>
           /\ AckBefore(n, i + 1) <=> (AckBefore(n, i))' \/ (IsAck(m) /\ m.ack = n)
           /\ DataBefore(n, i + 1) <=> (DataBefore(n, i))' \/ (IsData(m) /\ m.seq = n)
  <2>1. Beyond' \in Nat /\ Beyond' >= 1 /\ Beyond = Beyond' + 1 BY <1>1, ReadShift
  <2>2. \A n, i \in Int : i >= 1 /\ i <= Beyond' =>
           /\ AckBefore(n, i + 1) <=> (AckBefore(n, i))' \/ (IsAck(m) /\ m.ack = n)
           /\ DataBefore(n, i + 1) <=> (DataBefore(n, i))' \/ (IsData(m) /\ m.seq = n)
    BY <1>1, ReadShift
  <2>3. \A n \in Seqs : n \in Int BY DEF Seqs
  <2>4. \A i \in Nat : i \in Int OBVIOUS
  <2> QED BY <2>1, <2>2, <2>3, <2>4
<1>6. \A i \in DOMAIN toServer' :
        /\ i \in Nat /\ i >= 1 /\ i <= Beyond' /\ i + 1 \in DOMAIN toServer
        /\ toServer'[i] = toServer[i + 1] /\ toServer'[i] \in Packet
  <2>1. \A i \in DOMAIN toServer' :
        /\ i \in Nat /\ i >= 1 /\ i + 1 \in DOMAIN toServer
        /\ toServer'[i] = toServer[i + 1]
    BY <1>1, ReadShift
  <2>2. \A i \in DOMAIN toServer' : i <= Beyond' /\ toServer'[i] \in Packet BY <1>1 DEF Beyond
  <2> QED BY <2>1, <2>2
<1>7. \A n \in Seqs : \A i \in Nat : i >= 1 /\ i <= Beyond' =>
        /\ Settled(n, i + 1) <=> (Settled(n, i))'
        /\ Stored(n, i + 1) /\ (IsData(m) /\ m.seq = n => (Held(n))') => (Stored(n, i))'
  <2> TAKE n \in Seqs
  <2> TAKE i \in Nat
  <2> HAVE i >= 1 /\ i <= Beyond'
  <2>1. (Settled(n, i))' <=> (Done(n))' \/ (AckBefore(n, i))' BY DEF Settled
  <2>2. (Stored(n, i))' <=> (Held(n))' \/ (DataBefore(n, i))' BY DEF Stored
  <2>3. /\ Done(n) => (Done(n))'
        /\ Held(n) => (Held(n))'
        /\ (Done(n))' => Done(n) \/ (IsAck(m) /\ m.ack = n)
        /\ IsAck(m) /\ m.ack = n => (Done(n))'
    BY DEF Served
  <2>4. Settled(n, i + 1) <=> Done(n) \/ AckBefore(n, i + 1) BY DEF Settled
  <2>5. Stored(n, i + 1) <=> Held(n) \/ DataBefore(n, i + 1) BY DEF Stored
  <2>6. /\ AckBefore(n, i + 1) <=> (AckBefore(n, i))' \/ (IsAck(m) /\ m.ack = n)
        /\ DataBefore(n, i + 1) <=> (DataBefore(n, i))' \/ (IsData(m) /\ m.seq = n)
    BY <1>5
  <2> QED BY <2>1, <2>2, <2>3, <2>4, <2>5, <2>6
<1>8. \A i \in DOMAIN toClient' :
        /\ toClient'[i] \in Packet
        /\ IsAck(toClient'[i]) \/ IsFint(toClient'[i]) => toClient'[i].ack < lastSequence
        /\ \A n \in Seqs : IsAck(toClient'[i]) /\ toClient'[i].ack = n /\ n >= base => (Held(n))'
  <2> SUFFICES ASSUME NEW i \in DOMAIN toClient', NEW n \in Seqs, toClient'[i].ack = n
               PROVE  /\ IsAck(toClient'[i]) \/ IsFint(toClient'[i]) => n < lastSequence
                      /\ IsAck(toClient'[i]) /\ n >= base => (Held(n))'
    <3>1. \A i \in DOMAIN toClient' : toClient'[i] \in Packet /\ toClient'[i].ack \in Seqs
      <4>1. toClient' \in Seq(Packet) BY DEF TypeInv, TypeOK
      <4> QED BY <1>4, <4>1
    <3> QED BY <3>1
  <2>1. CASE i \in DOMAIN toClient /\ toClient'[i] = toClient[i]
    <3>1. /\ IsAck(toClient[i]) \/ IsFint(toClient[i]) => n < lastSequence
          /\ IsAck(toClient[i]) /\ n >= base => Held(n)
      BY <2>1 DEF IInv, PathInv, CarryInv, CurrentEcho
    <3>2. Held(n) => (Held(n))' BY DEF Served
    <3> QED BY <2>1, <3>1, <3>2
  <2>2. ASSUME NEW j \in DOMAIN r, toClient'[i] = r[j]
        PROVE  /\ IsAck(toClient'[i]) \/ IsFint(toClient'[i]) => n < lastSequence
               /\ IsAck(toClient'[i]) /\ n >= base => (Held(n))'
    <3>1. CASE r[j] \in Reply(m)
      <4>1. /\ Accepts(m) /\ (IsAck(r[j]) => IsData(m) /\ n = m.seq)
            /\ (IsFint(r[j]) => IsFint(m) /\ n = m.ack)
        BY <2>2, <3>1, ReplyKinds
      <4>2. /\ IsData(m) => m.seq \in base .. lastSequence - 1
            /\ IsFint(m) => m.ack < lastSequence
        BY <1>3 DEF IInv, CarryInv, PathInv
      <4>3. IsData(m) /\ n = m.seq => n < lastSequence BY <1>4, <4>2
      <4>4. IsData(m) /\ Accepts(m) /\ n = m.seq => (Held(n))'
        <5>1. IsData(m) /\ Accepts(m) => (Held(m.seq))' BY DEF Served
        <5> QED BY <5>1 DEF Held, Done
      <4> QED BY <2>2, <4>1, <4>2, <4>3, <4>4
    <3>2. CASE \E l \in Seqs : r[j] = win'.pkt[l] /\ win'.pkt[l] # NoPkt
      <4>1. PICK l \in Seqs : r[j] = win'.pkt[l] /\ win'.pkt[l] # NoPkt BY <3>2
      <4>2. IsAck(r[j]) /\ l = n /\ (Held(n))'
        <5>1. IsAck(win'.pkt[l]) /\ win'.pkt[l].ack = l
          <6>1. \A q \in Seqs : win'.pkt[q] # NoPkt => IsAck(win'.pkt[q]) /\ win'.pkt[q].ack = q
            BY DEF WinInv, IsAck
          <6> QED BY <4>1, <6>1
        <5>2. l = n BY <2>2, <4>1, <5>1
        <5> QED BY <4>1, <5>1, <5>2 DEF Held
      <4>3. n < lastSequence
        <5>1. n \in Kept' BY <4>1, <4>2 DEF WinInv, Kept
        <5>2. Kept' \subseteq 0 .. lastSequence - 1 BY <1>2 DEF WinInv
        <5> QED BY <1>4, <5>1, <5>2
      <4> QED BY <4>2, <4>3
    <3> QED BY <3>1, <3>2 DEF Reads
  <2> QED BY <1>1, <2>1, <2>2, ReadShift
<1>9. ServedInv'
  <2>1. base <= win.start /\ win.start <= win'.start BY DEF IInv, ServedInv, Served
  <2>2. win.start \in Nat /\ win'.start \in Nat
    BY DEF IInv, TypeInv, TypeOK, ServerTypeOK, WindowType
  <2>3. base' <= win'.start BY <1>2, <1>4, <2>1, <2>2
  <2> QED BY <1>2, <2>3 DEF ServedInv, Busy
<1>10. PathInv'
  <2>1. pc' \notin {"synwait", "down", "command"} /\ cli' # 0
    BY <1>2 DEF Busy, IInv, PathInv
  <2>2. \A i \in DOMAIN toServer' :
          Known(toServer'[i]) /\ (IsFint(toServer'[i]) => toServer'[i].ack < lastSequence')
    BY <1>2, <1>6 DEF IInv, PathInv
  <2>3. \A i \in DOMAIN toClient' :
          IsAck(toClient'[i]) \/ IsFint(toClient'[i]) => toClient'[i].ack < lastSequence'
    BY <1>2, <1>8
  <2> QED BY <1>2, <2>1, <2>2, <2>3 DEF PathInv
<1>11. CarryInv'
  <2>1. \A i \in DOMAIN toClient' : (CurrentEcho(toClient[i]))' => (Held(toClient[i].ack))'
    <3> TAKE i \in DOMAIN toClient'
    <3> HAVE (CurrentEcho(toClient[i]))'
    <3>1. IsAck(toClient'[i]) /\ toClient'[i].ack >= base /\ toClient'[i].ack \in Seqs
      BY <1>2, <1>4, <1>8 DEF CurrentEcho, IsAck
    <3>2. PICK n \in Seqs : n = toClient'[i].ack /\ (Held(n))' BY <1>8, <3>1
    <3> QED BY <3>2 DEF Held, Done
  <2>2. \A i \in DOMAIN toServer' : IsAck(toServer'[i]) =>
          /\ toServer'[i].ack \in base' .. lastSequence' - 1
          /\ (Held(toServer[i].ack))' /\ toServer'[i].rcvw # 0
    <3> TAKE i \in DOMAIN toServer'
    <3> HAVE IsAck(toServer'[i])
    <3>1. PICK c \in Packet : i + 1 \in DOMAIN toServer /\ toServer[i + 1] = c /\ toServer'[i] = c
      BY <1>6
    <3>2. c.ack \in base .. lastSequence - 1 /\ Held(c.ack) /\ c.rcvw # 0
      BY <1>6, <3>1 DEF IInv, CarryInv
    <3>3. (Held(c.ack))' BY <1>4, <3>2 DEF Served
    <3>4. (Held(toServer[i].ack))' BY <3>1, <3>3 DEF Held, Done
    <3>5. base' .. lastSequence' - 1 = base .. lastSequence - 1 BY <1>2
    <3> QED BY <3>1, <3>2, <3>4, <3>5
  <2>3. \A i \in DOMAIN toServer' : IsData(toServer'[i]) =>
          /\ toServer'[i].seq \in base' .. lastSequence' - 1
          /\ toServer'[i].rcvw # 0 /\ ChecksumOk(toServer'[i])
          /\ ~(Settled(toServer[i].seq, i))'
    <3> TAKE i \in DOMAIN toServer'
    <3> HAVE IsData(toServer'[i])
    <3>1. PICK c \in Packet :
             /\ i + 1 \in DOMAIN toServer /\ toServer[i + 1] = c /\ toServer'[i] = c
             /\ i \in Nat /\ i >= 1 /\ i <= Beyond' /\ c.seq \in Seqs
      BY <1>4, <1>6
    <3>2. c.seq \in base .. lastSequence - 1 /\ c.rcvw # 0 /\ ChecksumOk(c) /\ ~Settled(c.seq, i + 1)
      BY <1>6, <3>1 DEF IInv, CarryInv
    <3>3. ~(Settled(c.seq, i))' BY <1>7, <3>1, <3>2
    <3>4. ~(Settled(toServer[i].seq, i))' BY <3>1, <3>3 DEF Settled, Done, AckBefore
    <3>5. base' .. lastSequence' - 1 = base .. lastSequence - 1 BY <1>2
    <3> QED BY <3>1, <3>2, <3>4, <3>5
  <2>4. Copying' => \A n \in base' .. lastSequence' - 1 :
          IF sendArray'[n] THEN (Held(n))' ELSE ~(Settled(n, Beyond))'
    <3> SUFFICES ASSUME Copying, NEW n \in base .. lastSequence - 1
                 PROVE  IF sendArray[n] THEN (Held(n))' ELSE ~(Settled(n, Beyond))'
      BY <1>2
    <3>1. n \in Seqs /\ IF sendArray[n] THEN Held(n) ELSE ~Settled(n, Beyond)
      BY <1>4 DEF IInv, CarryInv
    <3>2. ~Settled(n, Beyond' + 1) => ~(Settled(n, Beyond))'
      <4>1. PICK b \in Nat : b = Beyond' /\ b >= 1 /\ b <= b BY <1>5
      <4>2. (Settled(n, Beyond))' <=> (Settled(n, b))' BY <4>1 DEF Settled, AckBefore, Done
      <4>3. ~Settled(n, b + 1) => ~(Settled(n, b))' BY <1>7, <3>1, <4>1
      <4> QED BY <4>1, <4>2, <4>3
    <3>3. Held(n) => (Held(n))' BY <3>1 DEF Served
    <3> QED BY <1>5, <3>1, <3>2, <3>3
  <2> QED BY <1>2, <2>1, <2>2, <2>3, <2>4 DEF CarryInv
<1>12. \A h \in Int : AckedBut(h) => (AckedBut(h))'
  <2> SUFFICES ASSUME NEW h \in Int, AckedBut(h) PROVE (AckedBut(h))'
    OBVIOUS
  <2>1. ASSUME Copying, NEW n \in base .. lastSequence - 1, sendArray[n], n # h
        PROVE  (Settled(n, Beyond))'
    <3>1. n \in Seqs /\ Settled(n, Beyond) BY <1>4, <2>1 DEF AckedBut
    <3>2. PICK b \in Nat : b = Beyond' /\ b >= 1 /\ b <= b BY <1>5
    <3>3. (Settled(n, Beyond))' <=> (Settled(n, b))' BY <3>2 DEF Settled, AckBefore, Done
    <3>4. Settled(n, b + 1) => (Settled(n, b))' BY <1>7, <3>1, <3>2
    <3> QED BY <1>5, <3>1, <3>2, <3>3, <3>4
  <2>2. ASSUME NEW i \in DOMAIN toServer', IsData(toServer'[i]),
               NEW n \in base .. toServer'[i].seq - WinSize, n # h
        PROVE  (Settled(n, i))'
    <3>1. PICK c \in Packet :
             /\ i + 1 \in DOMAIN toServer /\ toServer[i + 1] = c /\ toServer'[i] = c
             /\ i \in Nat /\ i >= 1 /\ i <= Beyond'
      BY <1>6
    <3>2. n \in Seqs /\ Settled(n, i + 1) BY <1>4, <2>2, <3>1 DEF AckedBut
    <3> QED BY <1>7, <3>1, <3>2
  <2>3. base' .. lastSequence' - 1 = base .. lastSequence - 1 /\ \A a : base' .. a = base .. a
    BY <1>2
  <2> QED BY <1>2, <2>1, <2>2, <2>3 DEF AckedBut
<1>13. \A x \in Int : NoGapsBelow(x) /\ (IsData(m) /\ m.seq < x => (Held(m.seq))') => (NoGapsBelow(x))'
  <2> SUFFICES ASSUME NEW x \in Int, NoGapsBelow(x), IsData(m) /\ m.seq < x => (Held(m.seq))'
               PROVE  (NoGapsBelow(x))'
    OBVIOUS
  <2>0. \A n : n < x => (IsData(m) /\ m.seq = n => (Held(n))')
    BY DEF Held, Done
  <2>1. ASSUME Copying, NEW n \in base .. lastSequence - 1, n < x
        PROVE  (Stored(n, Beyond))'
    <3>1. n \in Seqs /\ Stored(n, Beyond) BY <1>4, <2>1 DEF NoGapsBelow
    <3>2. PICK b \in Nat : b = Beyond' /\ b >= 1 /\ b <= b BY <1>5
    <3>3. (Stored(n, Beyond))' <=> (Stored(n, b))' BY <3>2 DEF Stored, DataBefore, Held, Done
    <3>4. Stored(n, b + 1) => (Stored(n, b))' BY <1>7, <2>0, <2>1, <3>1, <3>2
    <3> QED BY <1>5, <3>1, <3>2, <3>3, <3>4
  <2>2. ASSUME NEW i \in DOMAIN toServer', IsData(toServer'[i]),
               NEW n \in base .. toServer'[i].seq - 1, n < x
        PROVE  (Stored(n, i))'
    <3>1. PICK c \in Packet :
             /\ i + 1 \in DOMAIN toServer /\ toServer[i + 1] = c /\ toServer'[i] = c
             /\ i \in Nat /\ i >= 1 /\ i <= Beyond'
      BY <1>6
    <3>2. n \in Seqs /\ Stored(n, i + 1) BY <1>4, <2>2, <3>1 DEF NoGapsBelow
    <3> QED BY <1>7, <2>0, <2>2, <3>1, <3>2
  <2>3. base' .. lastSequence' - 1 = base .. lastSequence - 1 /\ \A a : base' .. a = base .. a
    BY <1>2
  <2> QED BY <1>2, <2>1, <2>2, <2>3 DEF NoGapsBelow
<1>14. HoleInv'
  <2>1. /\ win.start \in Nat /\ WinSize \in Int /\ SeqSize \in Int /\ -1 \in Int
        /\ \A h \in Seqs : h \in Int /\ h + WinSize \in Int
    BY Constants DEF IInv, TypeInv, TypeOK, ServerTypeOK, WindowType, Seqs
  <2>2. m.seq \in Int BY <1>3, <1>4 DEF Seqs
  <2>3. ASSUME NEW h, AckedBut(h), h = -1 \/ h \in Seqs, IsData(m), h = -1 \/ m.seq < h + WinSize
        PROVE  (Held(m.seq))'
    <3>1. CASE m.seq >= win.start + WinSize
      <4>1. h = win.start BY <1>3, <2>3, <3>1, HoleAt DEF Reads
      <4> QED BY <2>1, <2>2, <2>3, <3>1, <4>1
    <3> QED BY <2>1, <2>2, <2>3, <3>1 DEF Served
  <2>4. CASE lost = 0
    <3>1. AckedBut(-1) /\ NoGapsBelow(SeqSize) BY <2>4 DEF IInv, HoleInv
    <3>2. (AckedBut(-1))' BY <1>12, <2>1, <3>1
    <3>3. (NoGapsBelow(SeqSize))'
      <4>1. IsData(m) /\ m.seq < SeqSize => (Held(m.seq))' BY <2>3, <3>1
      <4> QED BY <1>13, <2>1, <3>1, <4>1
    <3> QED BY <3>2, <3>3 DEF HoleInv
  <2>5. CASE lost # 0
    <3>1. CASE AckedBut(-1)
      <4>1. (AckedBut(-1))' BY <1>12, <2>1, <3>1
      <4> QED BY <2>5, <4>1 DEF HoleInv
    <3>2. CASE \E h \in Seqs : AckedBut(h) /\ NoGapsBelow(h + WinSize)
      <4>1. PICK h \in Seqs : AckedBut(h) /\ NoGapsBelow(h + WinSize) BY <3>2
      <4>2. (AckedBut(h))' BY <1>12, <2>1, <4>1
      <4>3. (NoGapsBelow(h + WinSize))'
        <5>1. IsData(m) /\ m.seq < h + WinSize => (Held(m.seq))' BY <2>3, <4>1
        <5> QED BY <1>13, <2>1, <4>1, <5>1
      <4> QED BY <2>5, <4>2, <4>3 DEF HoleInv
    <3> QED BY <3>1, <3>2 DEF IInv, HoleInv
  <2> QED BY <2>4, <2>5
<1> QED BY <1>9, <1>10, <1>11, <1>14

\* ... and what is known of the end of the transfer, when the turn takes a
\* packet in or leaves the window alone, and answers no FINT but an old one.
LEMMA LiveFinish ==
  ASSUME OneLoss, IInv, TypeInv', UNCHANGED clientVars, Live, connected', WinInv',
         NEW m, NEW r, Reads(m, r),
         Carries(m) \/ (Kept' = Kept /\ win'.start = win.start),
         IsFint(m) /\ Accepts(m) => m.ack < base
  PROVE  FinishInv'
<1>1. /\ toServer \in Seq(Packet) /\ toClient \in Seq(Packet) /\ FinishInv /\ Live
  BY DEF IInv, TypeInv, TypeOK
<1>2. /\ pc' = pc /\ lastSequence' = lastSequence /\ base' = base /\ received' = received
  BY ClientIdle
<1>3. m = toServer[1] /\ 1 \in DOMAIN toServer
  BY <1>1, ReadShift DEF Reads
<1>4. \A i \in DOMAIN toServer' :
        /\ i \in Nat /\ i >= 1 /\ i + 1 \in DOMAIN toServer
        /\ toServer'[i] = toServer[i + 1]
        /\ \A j \in 1 .. i - 1 : j \in DOMAIN toServer'
  BY <1>1, ReadShift
<1>5. /\ \A i \in DOMAIN toClient : i \in DOMAIN toClient' /\ toClient'[i] = toClient[i]
      /\ \A i \in DOMAIN toClient' :
           \/ i \in DOMAIN toClient /\ toClient'[i] = toClient[i]
              /\ \A j \in 1 .. i - 1 : j \in DOMAIN toClient
           \/ \E j \in DOMAIN r : toClient'[i] = r[j]
  BY <1>1, ReadShift
<1>6. \A j \in DOMAIN r :
        /\ IsAck(r[j]) => IsData(m) \/ Kept' # {}
        /\ IsFint(r[j]) => IsFint(m) /\ r[j].ack = m.ack /\ m.ack < base
  <2> TAKE j \in DOMAIN r
  <2>1. CASE r[j] \in Reply(m)
    BY <2>1, ReplyKinds
  <2>2. CASE \E n \in Seqs : r[j] = win'.pkt[n] /\ win'.pkt[n] # NoPkt
    <3>1. PICK n \in Seqs : r[j] = win'.pkt[n] /\ win'.pkt[n] # NoPkt BY <2>2
    <3>2. n \in Kept' /\ IsAck(r[j]) BY <3>1 DEF WinInv, Kept, IsAck, FindState
    <3> QED BY <3>2, OneKind
  <2> QED BY <2>1, <2>2 DEF Reads
<1>7. ASSUME ~Carries(m), Kept = {}, \A j \in DOMAIN toClient : ~CurrentEcho(toClient[j])
      PROVE  Kept' = {} /\ win'.start = win.start /\ \A i \in DOMAIN toClient' : ~(CurrentEcho(toClient[i]))'
  <2>1. Kept' = {} /\ win'.start = win.start /\ ~IsData(m) BY <1>7 DEF Carries
  <2>2. ASSUME NEW i \in DOMAIN toClient', IsAck(toClient'[i]), toClient'[i].ack >= base PROVE FALSE
    BY <1>5, <1>6, <1>7, <2>1, <2>2 DEF CurrentEcho
  <2>3. \A i \in DOMAIN toClient' : (CurrentEcho(toClient[i]))' => IsAck(toClient'[i]) /\ toClient'[i].ack >= base
    BY <1>2 DEF CurrentEcho, IsAck
  <2> QED BY <2>1, <2>2, <2>3
<1>8. ASSUME NEW i \in DOMAIN toServer'
      PROVE  /\ ~IsFin(toServer'[i])
             /\ (IsOld(toServer[i]))' =>
                  /\ Kept' = {} /\ win'.start = base /\ received = 0
                  /\ \A j \in 1 .. i - 1 : ~Carries(toServer'[j])
                  /\ \A j \in DOMAIN toClient' : ~(CurrentEcho(toClient[j]))'
             /\ IsFint(toServer'[i]) =>
                  \/ toServer'[i].ack = base - 1
                  \/ pc = "finwait" /\ toServer'[i].ack = lastSequence - 1
             /\ IsFint(toServer'[i]) /\ toServer'[i].ack >= base =>
                  \A j \in i .. Len(toServer') : IsFint(toServer'[j])
  <2>1. i \in Nat /\ i >= 1 /\ i + 1 \in DOMAIN toServer /\ toServer'[i] = toServer[i + 1]
    BY <1>4
  <2>2. /\ ~IsFin(toServer'[i])
        /\ IsFint(toServer'[i]) =>
             \/ toServer'[i].ack = base - 1
             \/ pc = "finwait" /\ toServer'[i].ack = lastSequence - 1
    BY <1>1, <2>1 DEF FinishInv
  <2>3. ASSUME (IsOld(toServer[i]))'
        PROVE  /\ Kept' = {} /\ win'.start = base /\ received = 0
               /\ \A j \in 1 .. i - 1 : ~Carries(toServer'[j])
               /\ \A j \in DOMAIN toClient' : ~(CurrentEcho(toClient[j]))'
    <3>1. IsOld(toServer[i + 1]) BY <1>2, <2>1, <2>3 DEF IsOld, IsSyn, IsFint
    <3>2. /\ Kept = {} /\ win.start = base /\ received = 0
          /\ \A j \in 1 .. i + 1 - 1 : ~Carries(toServer[j])
          /\ \A j \in DOMAIN toClient : ~CurrentEcho(toClient[j])
      BY <1>1, <2>1, <3>1 DEF FinishInv
    <3>3. ~Carries(m) /\ \A j \in 1 .. i - 1 : ~Carries(toServer'[j])
      <4>1. 1 \in 1 .. i + 1 - 1 /\ \A j \in 1 .. i - 1 : j + 1 \in 1 .. i + 1 - 1 BY <2>1
      <4>2. \A j \in 1 .. i - 1 : toServer'[j] = toServer[j + 1] BY <1>4
      <4> QED BY <1>3, <3>2, <4>1, <4>2
    <3> QED BY <1>7, <3>2, <3>3
  <2>4. ASSUME IsFint(toServer'[i]), toServer'[i].ack >= base, NEW j \in i .. Len(toServer')
        PROVE  IsFint(toServer'[j])
    <3>1. /\ Len(toServer') = Len(toServer) - 1 /\ Len(toServer) \in Nat
          /\ DOMAIN toServer' = 1 .. Len(toServer')
      BY <1>1, TailOf DEF Reads
    <3>2. j \in DOMAIN toServer' /\ j + 1 \in i + 1 .. Len(toServer) BY <2>1, <3>1
    <3>3. IsFint(toServer[j + 1]) BY <1>1, <2>1, <2>4, <3>2 DEF FinishInv
    <3> QED BY <1>4, <3>2, <3>3
  <2> QED BY <2>2, <2>3, <2>4
<1>9. ASSUME NEW i \in DOMAIN toClient', IsFint(toClient'[i])
      PROVE  \/ /\ toClient'[i].ack < base /\ received = 0
                /\ \A j \in 1 .. i - 1 : ~(CurrentEcho(toClient[j]))'
             \/ /\ pc = "finwait" /\ toClient'[i].ack = lastSequence - 1
                /\ Kept' = {} /\ win'.start = lastSequence
                /\ \A j \in DOMAIN toServer' : ~Carries(toServer'[j])
  <2>1. CASE i \in DOMAIN toClient /\ toClient'[i] = toClient[i] /\ \A j \in 1 .. i - 1 : j \in DOMAIN toClient
    <3>1. \A j \in 1 .. i - 1 : ~CurrentEcho(toClient[j]) => ~(CurrentEcho(toClient[j]))'
      BY <1>2, <1>5, <2>1 DEF CurrentEcho, IsAck
    <3>2. CASE /\ toClient[i].ack < base /\ received = 0
               /\ \A j \in 1 .. i - 1 : ~CurrentEcho(toClient[j])
      BY <2>1, <3>1, <3>2
    <3>3. CASE /\ pc = "finwait" /\ toClient[i].ack = lastSequence - 1
               /\ Kept = {} /\ win.start = lastSequence
               /\ \A j \in DOMAIN toServer : ~Carries(toServer[j])
      BY <1>3, <1>4, <2>1, <3>3
    <3> QED BY <1>1, <1>9, <2>1, <3>2, <3>3 DEF FinishInv
  <2>2. CASE \E j \in DOMAIN r : toClient'[i] = r[j]
    <3>1. IsFint(m) /\ toClient'[i].ack = m.ack /\ m.ack < base BY <1>6, <1>9, <2>2
    <3>2. IsOld(toServer[1]) BY <1>3, <3>1 DEF IsOld
    <3>3. /\ Kept = {} /\ received = 0 /\ \A j \in DOMAIN toClient : ~CurrentEcho(toClient[j])
      BY <1>1, <1>3, <3>2 DEF FinishInv
    <3>4. ~Carries(m) BY <3>1, OneKind DEF Carries
    <3>5. \A j \in 1 .. i - 1 : j \in DOMAIN toClient'
      <4>1. toClient' \in Seq(Packet) BY DEF TypeInv, TypeOK
      <4> QED BY <4>1
    <3> QED BY <1>7, <3>1, <3>3, <3>4, <3>5
  <2> QED BY <1>5, <2>1, <2>2
<1> QED BY <1>2, <1>8, <1>9 DEF FinishInv

\* A window that begins no later than one that does not wrap.
LEMMA NoWrapBelow ==
  \A a, b, w, s \in Nat : a <= b /\ b + w < s => a + w \in 0 .. s - 1 /\ a \in 0 .. s - 1
  OBVIOUS

\* The window for the next transfer.
LEMMA Prepared ==
  ASSUME lastSequence' \in Nat, lastSequence' + WinSize < SeqSize,
         NEW n \in Int, n + 1 \in 0 .. lastSequence', win' = PrepareNextTransfer(n)
  PROVE  /\ WinInv' /\ Kept' = {} /\ win'.start = n + 1
         /\ \A i \in Seqs : ((Done(i))' <=> i < n + 1) /\ ((Held(i))' <=> i < n + 1)
<1>1. /\ WinSize \in Nat /\ SeqSize \in Nat /\ n + 1 \in Nat /\ n + 1 + WinSize \in 0 .. SeqSize - 1
      /\ n + 1 \in Seqs
  <2>1. WinSize \in Nat /\ SeqSize \in Nat BY Constants
  <2>2. n + 1 \in Nat /\ n + 1 <= lastSequence' OBVIOUS
  <2>3. n + 1 + WinSize \in 0 .. SeqSize - 1 /\ n + 1 \in 0 .. SeqSize - 1
    BY <2>1, <2>2, NoWrapBelow
  <2> QED BY <2>1, <2>2, <2>3 DEF Seqs
<1>2. (n + 1 + WinSize) % SeqSize = n + 1 + WinSize
  BY <1>1, ModSeq DEF Seqs
<1>3. /\ win'.start = n + 1 /\ win'.end = win'.start + WinSize /\ win'.unacked = 0
      /\ \A i \in Seqs : ~win'.ack[i] /\ win'.pkt[i] = NoPkt
  <2>1. win' = [start |-> n + 1, end |-> n + 1 + WinSize, unacked |-> 0,
                ack |-> [i \in Seqs |-> FALSE], pkt |-> [i \in Seqs |-> NoPkt]]
    BY <1>2 DEF PrepareNextTransfer, NewWindow
  <2> QED BY <2>1
<1>4. Kept' = {} BY <1>3 DEF Kept
<1>5. UnackedCounts'
  <2>1. {i \in Seqs : i >= win'.start /\ (win'.pkt[i] # NoPkt \/ win'.ack[i])} = {} BY <1>3
  <2> QED BY <1>3, <2>1, FS_EmptySet DEF UnackedCounts
<1>6. WinInv'
  BY <1>1, <1>3, <1>4, <1>5 DEF WinInv
<1>7. \A i \in Seqs : ((Done(i))' <=> i < n + 1) /\ ((Held(i))' <=> i < n + 1)
  BY <1>3 DEF Done, Held
<1> QED BY <1>3, <1>4, <1>6, <1>7

\* What the server holds when its window keeps nothing.
LEMMA NothingKept ==
  ServerTypeOK /\ WinInv /\ Kept = {} =>
    \A n \in Seqs : (Done(n) <=> n < win.start) /\ (Held(n) <=> n < win.start)
<1> SUFFICES ASSUME ServerTypeOK, WinInv, Kept = {}, NEW n \in Seqs
             PROVE  (Done(n) <=> n < win.start) /\ (Held(n) <=> n < win.start)
  OBVIOUS
<1>1. n < win.start \/ n >= win.start BY DEF ServerTypeOK, WindowType, Seqs
<1>2. n >= win.start => win.pkt[n] = NoPkt /\ ~win.ack[n] BY DEF Kept
<1> QED BY <1>1, <1>2 DEF Done, Held

\* The turn on the first datagram m of the path, in a transfer.
LEMMA TurnInTransfer ==
  ASSUME OneLoss, IInv, TypeInv', UNCHANGED clientVars, Live, toServer # <<>>,
         NEW m \in Packet, m = toServer[1], Handle(m)
  PROVE  \/ /\ connected' /\ WinInv' /\ Served(m)
            /\ Carries(m) \/ (Kept' = Kept /\ win'.start = win.start)
            /\ IsFint(m) /\ Accepts(m) => m.ack < base
         \/ /\ FinishOneTransfer(m) /\ m.ack = lastSequence - 1 /\ pc = "finwait"
            /\ m.ack >= base
<1>1. /\ ClientTypeOK /\ ServerTypeOK /\ ClientInv /\ WinInv /\ connected /\ Busy
      /\ toServer \in Seq(Packet) /\ 1 \in DOMAIN toServer
  <2>1. toServer \in Seq(Packet) BY DEF IInv, TypeInv, TypeOK
  <2>2. 1 \in DOMAIN toServer BY <2>1
  <2> QED BY <2>1, <2>2 DEF IInv, TypeInv, TypeOK, Live
<1>2. /\ lastSequence' = lastSequence /\ lastSequence \in Nat /\ lastSequence + WinSize < SeqSize
      /\ base \in Nat /\ base <= lastSequence /\ \A a \in 0 .. SeqSize - 1 : a % SeqSize = a
  BY <1>1, NoWrap, ClientIdle
<1>3. m.seq \in Seqs /\ m.ack \in Seqs /\ win.start \in Nat /\ WinSize \in Nat
  BY <1>1, Constants DEF Packet, ServerTypeOK, WindowType
<1>4. /\ Known(m) /\ ~IsFin(m)
      /\ IsAck(m) => Held(m.ack) /\ m.rcvw # 0
      /\ IsData(m) => /\ m.rcvw # 0 /\ ChecksumOk(m) /\ ~Settled(m.seq, 1)
                      /\ m.seq \in base .. lastSequence - 1
  BY <1>1 DEF IInv, PathInv, FinishInv, CarryInv
<1>5. UNCHANGED win /\ connected' =>
        WinInv' /\ Kept' = Kept /\ win'.start = win.start
        /\ \A n \in Seqs : ((Done(n))' <=> Done(n)) /\ ((Held(n))' <=> Held(n))
  <2> HAVE UNCHANGED win /\ connected'
  <2>1. Kept' = Kept BY DEF Kept
  <2>2. WinInv'
    <3>1. UnackedCounts' BY <1>1 DEF UnackedCounts, WinInv
    <3> QED BY <1>1, <1>2, <2>1, <3>1 DEF WinInv
  <2> QED BY <2>1, <2>2 DEF Done, Held
<1>6. CASE ConnRequest(m)
  <2>1. IsSyn(m) /\ ~IsData(m) /\ ~IsAck(m) /\ ~IsFint(m) BY <1>6, OneKind DEF ConnRequest, IsSyn
  <2> QED BY <1>3, <1>5, <1>6, <2>1 DEF ConnRequest, Served
<1>7. CASE TransferData(m)
  <2>1. IsData(m) /\ ~IsAck(m) /\ ~IsFint(m) /\ Carries(m)
    BY <1>7, OneKind DEF TransferData, IsData, Carries
  <2>2. /\ ~IsFull(win) /\ win' = AddPacket(win, m.seq, Echo(m)) /\ connected'
    BY <1>1, <1>4, <1>7, <2>1 DEF TransferData, Accepts
  <2>3. m.seq < win.start + WinSize BY <1>1, <2>1, <2>2, DataFits
  <2>4. ~Done(m.seq) /\ m.seq < lastSequence
    BY <1>2, <1>4, <2>1 DEF Settled
  <2>5. Echo(m) \in Packet /\ IsAck(Echo(m)) /\ Echo(m).ack = m.seq
    <3>1. Echo(m) \in Packet BY <1>1, ServerPackets DEF ServerTypeOK
    <3>2. IsAck(Echo(m)) BY KindOf DEF Echo
    <3> QED BY <3>1, <3>2 DEF Echo, Datagram
  <2> DEFINE n == m.seq
             p == Echo(m)
  <2>6. /\ n \in Seqs /\ n < lastSequence /\ ~Done(n) /\ n < win.start + WinSize
        /\ p \in Packet /\ IsAck(p) /\ p.ack = n /\ win' = AddPacket(win, n, p)
    BY <1>3, <2>2, <2>3, <2>4, <2>5
  <2>7. PICK e \in Packet : e = p BY <2>6
  <2> HIDE DEF p
  <2>8. /\ WinInv' /\ win'.start = win.start
        /\ \A i \in Int : (Done(i))' <=> Done(i)
        /\ \A i \in Int : (Held(i))' <=> Held(i) \/ i = n
    BY <1>1, <1>2, <2>6, <2>7, StoreInWindow
  <2>9. Served(m)
    <3>1. \A i \in Seqs : i \in Int BY DEF Seqs
    <3> QED BY <1>3, <2>1, <2>8, <3>1 DEF Served
  <2> QED BY <2>1, <2>2, <2>8, <2>9
<1>8. CASE AckRecvd(m)
  <2>1. IsAck(m) /\ ~IsData(m) /\ ~IsFint(m) /\ Carries(m)
    BY <1>8, OneKind DEF AckRecvd, IsAck, Carries
  <2>2. Held(m.ack) /\ win' \in AckPacket(win, m.ack) /\ connected'
    BY <1>1, <1>4, <1>8, <2>1 DEF AckRecvd
  <2>3. /\ WinInv' /\ win.start <= win'.start
        /\ \A i \in Seqs : (Done(i))' <=> Done(i) \/ i = m.ack
        /\ \A i \in Seqs : (Held(i))' <=> Held(i)
    BY <1>1, <1>2, <1>3, <2>2, AckInWindow
  <2>4. Served(m) BY <1>3, <2>1, <2>3 DEF Served
  <2> QED BY <2>1, <2>2, <2>3, <2>4
<1>9. CASE FinishOneTransfer(m)
  <2>1. IsFint(m) /\ ~IsData(m) /\ ~IsAck(m) /\ ~Carries(m)
    BY <1>9, OneKind DEF FinishOneTransfer, IsFint, Carries
  <2>2. m.ack = base - 1 \/ (pc = "finwait" /\ m.ack = lastSequence - 1)
    BY <1>1, <2>1 DEF IInv, FinishInv
  <2>3. CASE m.ack >= base
    <3>1. ~(m.ack = base - 1) BY <1>2, <2>3
    <3> QED BY <1>9, <2>2, <2>3, <3>1
  <2>4. CASE m.ack < base
    <3>1. IsOld(toServer[1]) BY <2>1, <2>4 DEF IsOld
    <3>2. Kept = {} /\ win.start = base BY <1>1, <3>1 DEF IInv, FinishInv
    <3>3. m.ack = base - 1
      BY <1>2, <1>3, <2>2, <2>4 DEF Seqs
    <3>4. win' = PrepareNextTransfer(m.ack) /\ connected' BY <1>1, <1>9 DEF FinishOneTransfer
    <3>5. m.ack \in Int /\ m.ack + 1 = base /\ m.ack + 1 \in 0 .. lastSequence'
      BY <1>2, <1>3, <3>3 DEF Seqs
    <3>6. /\ WinInv' /\ Kept' = {} /\ win'.start = m.ack + 1
          /\ \A i \in Seqs : ((Done(i))' <=> i < m.ack + 1) /\ ((Held(i))' <=> i < m.ack + 1)
      BY <1>2, <3>4, <3>5, Prepared
    <3>7. \A n \in Seqs : (Done(n) <=> n < base) /\ (Held(n) <=> n < base)
      BY <1>1, <3>2, NothingKept
    <3>8. win'.start = win.start /\ win.start <= win'.start
      BY <1>3, <3>2, <3>5, <3>6
    <3>9. \A n \in Seqs : ((Done(n))' <=> Done(n)) /\ ((Held(n))' <=> Held(n))
      BY <3>5, <3>6, <3>7
    <3>10. Served(m) BY <2>1, <3>8, <3>9 DEF Served
    <3> QED BY <2>4, <3>2, <3>4, <3>6, <3>8, <3>10
  <2> QED BY <1>2, <1>3, <2>3, <2>4 DEF Seqs
<1>10. CASE ServerDisconnect(m)
  BY <1>4, <1>10 DEF ServerDisconnect, IsFin
<1>11. CASE Ignore(m)
  <2>1. ~Accepts(m) /\ UNCHANGED serverVars
    BY <1>4, <1>11 DEF Ignore, Known, Carries, IsData, IsAck, IsSyn, IsFint, IsFin
  <2>2. UNCHANGED win /\ connected' BY <1>1, <2>1 DEF serverVars
  <2>3. ~IsAck(m) BY <1>1, <1>4, <2>1 DEF Accepts, IsAck
  <2>4. IsData(m) => IsFull(win) BY <1>1, <1>4, <2>1 DEF Accepts
  <2>5. IsData(m) => Held(m.seq) \/ m.seq >= win.start + WinSize
    <3>1. m.seq \in Int /\ win.start + WinSize \in Int BY <1>3 DEF Seqs
    <3> QED BY <1>1, <1>3, <2>4, <3>1, FullHolds
  <2>6. Served(m)
    BY <1>3, <1>5, <2>1, <2>2, <2>3, <2>5 DEF Served
  <2> QED BY <1>5, <2>1, <2>2, <2>6
<1> QED BY <1>6, <1>7, <1>8, <1>9, <1>10, <1>11 DEF Handle

\* The FINT of this transfer is read: all the transfer sent has been read.
LEMMA FinishRead ==
  ASSUME OneLoss, IInv, TypeInv', UNCHANGED clientVars, lost' = lost, Live,
         NEW m, NEW r, Reads(m, r), FinishOneTransfer(m), m.ack = lastSequence - 1,
         pc = "finwait", m.ack >= base
  PROVE  IInv'
<1>1. /\ toServer \in Seq(Packet) /\ toClient \in Seq(Packet) /\ ClientTypeOK /\ ClientInv
      /\ FinishInv /\ PathInv /\ connected /\ Live
  BY DEF IInv, TypeInv, TypeOK, Live
<1>2. /\ pc' = pc /\ cli' = cli /\ lastSequence' = lastSequence /\ base' = base /\ received' = received
      /\ Busy /\ Busy' /\ ClientInv' /\ ~Copying'
  BY <1>1, ClientIdle DEF Live, Copying
<1>3. /\ lastSequence \in Nat /\ lastSequence + WinSize < SeqSize
      /\ base \in Nat /\ base <= lastSequence /\ transferred \in Int /\ received \in Int
      /\ m = toServer[1] /\ 1 \in DOMAIN toServer /\ m \in Packet /\ m.ack \in Int /\ m.ack + 1 = lastSequence
  <2>1. /\ lastSequence \in Nat /\ lastSequence + WinSize < SeqSize /\ base \in Nat /\ base <= lastSequence
    BY <1>1, <1>2, NoWrap
  <2>2. m = toServer[1] /\ 1 \in DOMAIN toServer /\ m \in Packet
    BY <1>1, ReadShift DEF Reads
  <2>3. m.ack \in Int BY <2>2 DEF Packet, Seqs
  <2> QED BY <1>1, <2>1, <2>2, <2>3 DEF ClientTypeOK
<1>4. received # 0
  <2>1. transferred <= received /\ (transferred = 0 => received = 0) /\ transferred >= 0
    BY <1>1, <1>2 DEF ClientInv, ClientTypeOK
  <2>2. transferred # 0 BY <1>3 DEF base
  <2> QED BY <1>3, <2>1, <2>2
<1>5. IsFint(m) /\ connected' /\ win' = PrepareNextTransfer(m.ack)
  BY <1>1 DEF FinishOneTransfer, IsFint
<1>6. /\ WinInv' /\ Kept' = {} /\ win'.start = lastSequence
      /\ \A i \in Seqs : (Held(i))' <=> i < lastSequence
  <2>1. m.ack + 1 \in 0 .. lastSequence' BY <1>2, <1>3
  <2> QED BY <1>2, <1>3, <1>5, <2>1, Prepared
<1>7. \A i \in DOMAIN toServer' :
        /\ IsFint(toServer'[i]) /\ i \in Nat /\ i >= 1
        /\ toServer'[i].ack >= base /\ toServer'[i].ack = lastSequence - 1
        /\ toServer'[i].ack < lastSequence
  <2> TAKE i \in DOMAIN toServer'
  <2>1. i \in Nat /\ i >= 1 /\ i + 1 \in DOMAIN toServer /\ toServer'[i] = toServer[i + 1]
    BY <1>1, ReadShift
  <2>2. IsFint(toServer[i + 1])
    <3>1. i + 1 \in 1 .. Len(toServer) BY <1>1, <2>1
    <3> QED BY <1>1, <1>3, <1>5, <3>1 DEF FinishInv
  <2>3. ~IsOld(toServer[i + 1]) BY <1>1, <1>4, <2>1 DEF FinishInv
  <2>4. toServer[i + 1].ack \in Int
    <3>1. toServer[i + 1] \in Packet BY <1>1, <2>1
    <3> QED BY <3>1 DEF Packet, Seqs
  <2>5. toServer[i + 1].ack >= base BY <1>3, <2>2, <2>3, <2>4 DEF IsOld
  <2>6. toServer[i + 1].ack = lastSequence - 1
    BY <1>1, <1>3, <2>1, <2>2, <2>4, <2>5 DEF FinishInv
  <2> QED BY <1>3, <2>1, <2>2, <2>5, <2>6
<1>8. \A i \in DOMAIN toClient' :
        /\ toClient'[i] \in Packet
        /\ IsAck(toClient'[i]) \/ IsFint(toClient'[i]) => toClient'[i].ack < lastSequence
        /\ IsFint(toClient'[i]) => toClient'[i].ack = lastSequence - 1
  <2> TAKE i \in DOMAIN toClient'
  <2>1. toClient'[i] \in Packet
    <3>1. toClient' \in Seq(Packet) BY DEF TypeInv, TypeOK
    <3> QED BY <3>1
  <2>2. CASE i \in DOMAIN toClient /\ toClient'[i] = toClient[i]
    <3>1. IsFint(toClient[i]) => toClient[i].ack = lastSequence - 1
      BY <1>1, <1>4, <2>2 DEF FinishInv
    <3> QED BY <1>1, <2>1, <2>2, <3>1 DEF PathInv
  <2>3. CASE \E j \in DOMAIN r : toClient'[i] = r[j]
    <3>1. PICK j \in DOMAIN r : toClient'[i] = r[j] BY <2>3
    <3>2. r[j] \in Reply(m)
      <4>1. \A n \in Seqs : win'.pkt[n] = NoPkt
        <5> SUFFICES ASSUME NEW n \in Seqs, win'.pkt[n] # NoPkt PROVE n \in Kept'
          BY <1>6
        <5> QED BY <1>6 DEF WinInv, Kept
      <4> QED BY <3>1, <4>1 DEF Reads
    <3>3. /\ IsAck(r[j]) => IsData(m)
          /\ IsFint(r[j]) => r[j].ack = m.ack
      BY <3>2, ReplyKinds
    <3> QED BY <1>3, <1>5, <2>1, <3>1, <3>3, OneKind
  <2> QED BY <1>1, <2>2, <2>3, ReadShift
<1>9. ServedInv'
  BY <1>2, <1>3, <1>5, <1>6 DEF ServedInv, Busy
<1>10. PathInv'
  BY <1>1, <1>2, <1>5, <1>7, <1>8 DEF PathInv, Busy, Known
<1>11. FinishInv'
  <2>1. ASSUME NEW i \in DOMAIN toServer'
        PROVE  ~IsFin(toServer'[i]) /\ ~IsSyn(toServer'[i]) /\ ~Carries(toServer'[i]) /\ ~(IsOld(toServer[i]))'
    <3>1. IsFint(toServer'[i]) /\ toServer'[i].ack >= base BY <1>7
    <3>2. toServer'[i].ack \in Int
      <4>1. toServer' \in Seq(Packet) BY DEF TypeInv, TypeOK
      <4>2. toServer'[i] \in Packet BY <4>1
      <4> QED BY <4>2 DEF Packet, Seqs
    <3>3. ~IsFin(toServer'[i]) /\ ~IsSyn(toServer'[i]) /\ ~Carries(toServer'[i])
      BY <3>1, OneKind DEF Carries
    <3>4. ~(IsOld(toServer[i]))'
      BY <1>2, <1>3, <3>1, <3>2, <3>3 DEF IsOld, IsSyn, IsFint
    <3> QED BY <3>3, <3>4
  <2>2. \A i \in DOMAIN toServer' : \A j \in i .. Len(toServer') : IsFint(toServer'[j])
    <3> TAKE i \in DOMAIN toServer'
    <3> TAKE j \in i .. Len(toServer')
    <3>1. j \in DOMAIN toServer'
      <4>1. toServer' \in Seq(Packet) BY DEF TypeInv, TypeOK
      <4> QED BY <4>1
    <3> QED BY <1>7, <3>1
  <2>3. \A i \in DOMAIN toServer' : toServer'[i].ack = lastSequence' - 1 BY <1>2, <1>7
  <2>4. \A i \in DOMAIN toClient' : IsFint(toClient'[i]) => toClient'[i].ack = lastSequence' - 1
    BY <1>2, <1>8
  <2> QED BY <1>2, <1>6, <2>1, <2>2, <2>3, <2>4 DEF FinishInv
<1>12. /\ \A i \in DOMAIN toServer' : ~IsData(toServer'[i]) /\ ~IsAck(toServer'[i])
  BY <1>7, OneKind
<1>13. CarryInv'
  <2>1. \A i \in DOMAIN toClient' : (CurrentEcho(toClient[i]))' => (Held(toClient[i].ack))'
    <3> TAKE i \in DOMAIN toClient'
    <3> HAVE (CurrentEcho(toClient[i]))'
    <3>1. toClient'[i].ack < lastSequence BY <1>8 DEF CurrentEcho, IsAck
    <3>2. PICK n \in Seqs : n = toClient'[i].ack BY <1>8 DEF Packet
    <3> QED BY <1>6, <3>1, <3>2 DEF Held, Done
  <2> QED BY <1>2, <1>12, <2>1 DEF CarryInv
<1>14. HoleInv'
  <2>1. (AckedBut(-1))' BY <1>2, <1>12 DEF AckedBut
  <2>2. (NoGapsBelow(SeqSize))' BY <1>2, <1>12 DEF NoGapsBelow
  <2> QED BY <2>1, <2>2 DEF HoleInv
<1> QED BY <1>2, <1>6, <1>9, <1>10, <1>11, <1>13, <1>14 DEF IInv

\* A turn on a datagram in a transfer.
LEMMA ReadInTransfer ==
  ASSUME OneLoss, IInv, TypeInv', UNCHANGED clientVars, lost' = lost, Live,
         NEW m \in Packet, NEW r, Reads(m, r), Handle(m)
  PROVE  IInv'
<1>1. toServer # <<>> /\ m = toServer[1] BY DEF Reads
<1>2. ClientInv' BY ClientIdle DEF IInv
<1>3. CASE /\ connected' /\ WinInv' /\ Served(m)
           /\ Carries(m) \/ (Kept' = Kept /\ win'.start = win.start)
           /\ IsFint(m) /\ Accepts(m) => m.ack < base
  <2>1. ServedInv' /\ PathInv' /\ CarryInv' /\ HoleInv' BY <1>3, LiveRead
  <2>2. FinishInv' BY <1>3, LiveFinish
  <2> QED BY <1>2, <1>3, <2>1, <2>2 DEF IInv
<1>4. CASE FinishOneTransfer(m) /\ m.ack = lastSequence - 1 /\ pc = "finwait" /\ m.ack >= base
  BY <1>4, FinishRead
<1> QED BY <1>1, <1>3, <1>4, TurnInTransfer

\* A turn on a datagram outside a transfer, or when the server has given the
\* client up.
LEMMA ReadOutside ==
  ASSUME OneLoss, IInv, TypeInv', UNCHANGED clientVars, ~Live,
         NEW m \in Packet, NEW r, Reads(m, r), Handle(m)
  PROVE  IInv'
<1>1. /\ toServer \in Seq(Packet) /\ toClient \in Seq(Packet) /\ toServer # <<>>
      /\ ClientTypeOK /\ ServerTypeOK /\ ClientInv /\ WinInv /\ ServedInv /\ PathInv
      /\ 1 \in DOMAIN toServer /\ m = toServer[1] /\ toClient' \in Seq(Packet)
  <2>1. /\ toServer \in Seq(Packet) /\ toClient \in Seq(Packet) /\ toServer # <<>>
        /\ m = toServer[1] /\ toClient' \in Seq(Packet)
    BY DEF IInv, TypeInv, TypeOK, Reads
  <2>2. 1 \in DOMAIN toServer BY <2>1
  <2> QED BY <2>1, <2>2 DEF IInv, TypeInv, TypeOK
<1>2. /\ pc' = pc /\ cli' = cli /\ lastSequence' = lastSequence /\ base' = base
      /\ (Busy' <=> Busy) /\ ClientInv'
      /\ lastSequence \in Nat /\ lastSequence + WinSize < SeqSize
  BY <1>1, ClientIdle, NoWrap
<1>3. /\ cli # 0 /\ Known(m) /\ (IsFint(m) => m.ack < lastSequence)
      /\ win.start \in Nat /\ m.ack \in Seqs
  BY <1>1 DEF PathInv, ServerTypeOK, WindowType, Packet
<1>4. /\ \A i \in DOMAIN toServer' : i + 1 \in DOMAIN toServer /\ toServer'[i] = toServer[i + 1]
      /\ \A i \in DOMAIN toClient' :
           \/ i \in DOMAIN toClient /\ toClient'[i] = toClient[i]
           \/ \E j \in DOMAIN r : toClient'[i] = r[j]
  BY <1>1, ReadShift
<1>5. (~Live => FinishInv /\ CarryInv /\ HoleInv)' BY NoTransfer, PTL
<1>6. UNCHANGED serverVars => WinInv' /\ Kept' = Kept /\ win' = win /\ connected' = connected
  <2>1. UNCHANGED serverVars => UNCHANGED <<serverVars, lastSequence>> BY <1>2
  <2> QED BY <1>1, <2>1, ServerIdle
<1>7. ASSUME WinInv', Kept' = {}, NEW j \in DOMAIN r PROVE r[j] \in Reply(m)
  <2>1. \A n \in Seqs : win'.pkt[n] = NoPkt
    <3> SUFFICES ASSUME NEW n \in Seqs, win'.pkt[n] # NoPkt PROVE n \in Kept'
      BY <1>7
    <3> QED BY <1>7 DEF WinInv, Kept
  <2> QED BY <1>7, <2>1 DEF Reads
<1>8. CASE Busy
  <2>1. /\ ~connected /\ pc = "finwait" /\ win = NewWindow /\ toClient = <<>>
        /\ \A i \in DOMAIN toServer : ~IsSyn(toServer[i]) /\ ~IsFin(toServer[i])
    BY <1>1, <1>8 DEF Live, Busy, ServedInv, PathInv
  <2>2. ~Accepts(m) /\ Reply(m) = {}
    <3>1. ~Accepts(m) BY <1>1, <2>1 DEF Accepts, IsSyn, IsFin
    <3> QED BY <3>1 DEF Reply
  <2>3. UNCHANGED serverVars
    BY <2>2 DEF Handle, ConnRequest, TransferData, AckRecvd, FinishOneTransfer, ServerDisconnect, Ignore
  <2>4. WinInv' /\ Kept' = {} /\ win' = win /\ connected' = connected
    BY <1>2, <1>6, <2>1, <2>3, FreshWindow
  <2>5. DOMAIN toClient' = {}
    <3>1. DOMAIN r = {} BY <1>7, <2>2, <2>4
    <3>2. DOMAIN toClient = {} BY <2>1
    <3> QED BY <1>4, <3>1, <3>2
  <2>6. toClient' = <<>> BY <1>1, <2>5
  <2>7. ~Live' BY <2>1, <2>4 DEF Live
  <2>8. ServedInv'
    BY <1>2, <1>8, <2>1, <2>4, <2>7 DEF ServedInv, Live
  <2>9. PathInv'
    BY <1>1, <1>2, <1>3, <1>4, <1>8, <2>1, <2>4, <2>5, <2>6 DEF PathInv, Busy
  <2> QED BY <1>2, <1>5, <2>4, <2>7, <2>8, <2>9 DEF IInv
<1>9. CASE ~Busy
  <2>1. Kept = {} /\ ~IsData(m) /\ ~IsAck(m) /\ ~Live'
    BY <1>1, <1>2, <1>9 DEF ServedInv, PathInv, Carries, Live
  <2>2. /\ WinInv' /\ Kept' = {}
        /\ \/ ~Accepts(m) /\ win' = win /\ connected' = connected
           \/ IsSyn(m) /\ Accepts(m) /\ win' = win /\ connected'
           \/ IsFint(m) /\ Accepts(m) /\ connected /\ connected' /\ win'.start = m.ack + 1
           \/ IsFin(m) /\ Accepts(m) /\ win' = NewWindow /\ ~connected'
    <3>1. CASE ConnRequest(m)
      <4>1. IsSyn(m) /\ Accepts(m) /\ win' = win /\ connected' BY <3>1 DEF ConnRequest, IsSyn
      <4>2. Kept' = Kept BY <4>1 DEF Kept
      <4>3. WinInv'
        <5>1. UnackedCounts' BY <1>1, <4>1 DEF UnackedCounts, WinInv
        <5> QED BY <1>1, <1>2, <4>1, <4>2, <5>1 DEF WinInv
      <4> QED BY <2>1, <4>1, <4>2, <4>3
    <3>2. CASE FinishOneTransfer(m)
      <4>1. IsFint(m) /\ Accepts(m) /\ win' = PrepareNextTransfer(m.ack) /\ connected' = connected
        BY <3>2 DEF FinishOneTransfer, IsFint
      <4>2. connected BY <4>1 DEF Accepts, IsFint
      <4>3. m.ack \in Int /\ m.ack + 1 \in 0 .. lastSequence'
        BY <1>2, <1>3, <4>1 DEF Seqs
      <4>4. WinInv' /\ Kept' = {} /\ win'.start = m.ack + 1
        BY <1>2, <4>1, <4>3, Prepared
      <4> QED BY <4>1, <4>2, <4>4
    <3>3. CASE ServerDisconnect(m)
      <4>1. IsFin(m) /\ Accepts(m) /\ win' = NewWindow /\ ~connected'
        BY <3>3 DEF ServerDisconnect, ClientGone, IsFin
      <4>2. WinInv' /\ Kept' = {}
        <5>1. (win = NewWindow /\ lastSequence \in Nat => WinInv /\ Kept = {} /\ win.start = 0)'
          BY FreshWindow, PTL
        <5>2. (NewWindow)' = NewWindow OBVIOUS
        <5> QED BY <1>2, <4>1, <5>1, <5>2
      <4> QED BY <4>1, <4>2
    <3>4. CASE Ignore(m)
      <4>1. ~Accepts(m) /\ UNCHANGED serverVars
        BY <1>3, <3>4 DEF Ignore, Known, Carries, IsData, IsAck, IsSyn, IsFint, IsFin
      <4> QED BY <1>6, <2>1, <4>1
    <3>5. ~TransferData(m) /\ ~AckRecvd(m) BY <2>1 DEF TransferData, AckRecvd, IsData, IsAck
    <3> QED BY <3>1, <3>2, <3>3, <3>4, <3>5 DEF Handle
  <2>3. \A j \in DOMAIN r :
          /\ Accepts(m) /\ ~IsAck(r[j])
          /\ IsFint(r[j]) => r[j].ack = m.ack /\ IsFint(m)
          /\ IsSyn(m) => r[j].rcvw = FreeByte
    BY <1>7, <2>1, <2>2, ReplyKinds
  <2>4. \A i \in DOMAIN toServer' : ~Carries(toServer'[i])
    BY <1>1, <1>4, <1>9 DEF PathInv
  <2>5. \A i \in DOMAIN toClient' :
          IsAck(toClient'[i]) \/ IsFint(toClient'[i]) => toClient'[i].ack < lastSequence
    BY <1>1, <1>3, <1>4, <2>3 DEF PathInv
  <2>6. CASE pc \in {"synwait", "down"}
    <3>1. /\ win = NewWindow /\ IsSyn(m) /\ ~IsFint(m) /\ ~IsFin(m)
          /\ \A i \in DOMAIN toServer' : IsSyn(toServer'[i])
      BY <1>1, <1>4, <2>6, OneKind DEF ServedInv, PathInv
    <3>2. win' = NewWindow /\ (Accepts(m) => connected') /\ (connected => connected')
      BY <2>2, <3>1
    <3>3. FreeByte = WinSize
      <4>1. win.unacked = 0 BY <3>1 DEF NewWindow
      <4>2. WinSize \in 0 .. ByteSize - 1 /\ ByteSize \in Nat
        BY Constants DEF OneLoss
      <4>3. WinSize - 0 = WinSize /\ WinSize % ByteSize = WinSize BY <4>2
      <4> QED BY <4>1, <4>3 DEF FreeByte, WindowByte, GetFreeWindow
    <3>4. \A i \in DOMAIN toClient' : toClient'[i].rcvw = WinSize
      BY <1>1, <1>4, <2>3, <2>6, <3>1, <3>3 DEF PathInv
    <3>5. toClient' # <<>> => connected'
      <4> HAVE toClient' # <<>>
      <4>1. PICK i \in DOMAIN toClient' : TRUE
        <5>1. \A q \in Seq(Packet) : q # <<>> => 1 \in DOMAIN q OBVIOUS
        <5> QED BY <1>1, <5>1
      <4>2. CASE i \in DOMAIN toClient
        <5>1. toClient # <<>> BY <4>2
        <5> QED BY <1>1, <2>6, <3>2, <5>1 DEF PathInv
      <4>3. CASE \E j \in DOMAIN r : toClient'[i] = r[j]
        BY <2>3, <3>2, <4>3
      <4> QED BY <1>4, <4>2, <4>3
    <3>6. ServedInv'
      BY <1>2, <1>9, <2>1, <2>2, <2>6, <3>2 DEF ServedInv, Live, Busy
    <3>7. PathInv'
      BY <1>1, <1>2, <1>3, <1>4, <1>9, <2>4, <2>5, <2>6, <3>1, <3>4, <3>5 DEF PathInv, Busy
    <3> QED BY <1>2, <1>5, <2>1, <2>2, <3>6, <3>7 DEF IInv
  <2>7. CASE pc = "command"
    <3>1. /\ connected /\ win.start = lastSequence
          /\ IsSyn(m) \/ (IsFint(m) /\ m.ack = lastSequence - 1)
          /\ \A i \in DOMAIN toServer' :
               IsSyn(toServer'[i]) \/ (IsFint(toServer'[i]) /\ toServer'[i].ack = lastSequence - 1)
      BY <1>1, <1>4, <2>7 DEF ServedInv, PathInv
    <3>2. connected' /\ win'.start = lastSequence
      <4>1. IsFint(m) => m.ack = lastSequence - 1 /\ ~IsFin(m) BY <3>1, OneKind
      <4>2. ~IsFin(m) BY <3>1, OneKind
      <4>3. IsFint(m) => m.ack + 1 = lastSequence BY <1>2, <1>3, <4>1 DEF Seqs
      <4> QED BY <2>2, <3>1, <4>2, <4>3
    <3>3. ServedInv'
      BY <1>2, <1>9, <2>1, <2>2, <2>7, <3>2 DEF ServedInv, Live, Busy
    <3>4. \A i \in DOMAIN toServer' :
            IsSyn(toServer'[i]) \/ (IsFint(toServer'[i]) /\ toServer'[i].ack = lastSequence' - 1)
      BY <1>2, <3>1
    <3>5. PathInv'
      BY <1>1, <1>2, <1>3, <1>4, <1>9, <2>4, <2>5, <2>7, <3>4 DEF PathInv
    <3> QED BY <1>2, <1>5, <2>1, <2>2, <3>3, <3>5 DEF IInv
  <2>8. CASE pc \notin {"synwait", "down", "command"}
    <3>1. ~connected' => win' = NewWindow BY <1>1, <2>2 DEF ServedInv
    <3>2. ServedInv'
      BY <1>2, <1>9, <2>1, <2>2, <2>8, <3>1 DEF ServedInv, Live, Busy
    <3>3. PathInv'
      BY <1>1, <1>2, <1>3, <1>4, <1>9, <2>4, <2>5, <2>8 DEF PathInv, Busy
    <3> QED BY <1>2, <1>5, <2>1, <2>2, <3>2, <3>3 DEF IInv
  <2> QED BY <2>6, <2>7, <2>8
<1> QED BY <1>8, <1>9

\* The server's turns on datagrams keep the invariant.
LEMMA ServerReadStep == OneLoss /\ IInv /\ TypeInv' /\ ServerRead => IInv'
<1> SUFFICES ASSUME OneLoss, IInv, TypeInv', ServerRead PROVE IInv'
  OBVIOUS
<1>1. TypeInv BY DEF IInv
<1>2. PICK m \in Packet : \E r : Reads(m, r) /\ Handle(m)
  BY <1>1, ServerReads
<1>3. PICK r : Reads(m, r) /\ Handle(m) BY <1>2
<1>4. UNCHANGED clientVars /\ lost' = lost BY <1>1, ServerReads
<1> QED BY <1>3, <1>4, ReadInTransfer, ReadOutside

-----------------------------------------------------------------------------
(* Timeouts of the server and losses. *)

\* A step that leaves both ends and the path to the server alone.
LEMMA PathToServerIdle ==
  ASSUME UNCHANGED <<clientVars, serverVars, toServer>>
  PROVE  /\ Beyond' = Beyond
         /\ \A n, i : (Settled(n, i))' <=> Settled(n, i)
         /\ \A n, i : (Stored(n, i))' <=> Stored(n, i)
         /\ \A h : AckedBut(h) => (AckedBut(h))'
         /\ \A x : NoGapsBelow(x) => (NoGapsBelow(x))'
<1>1. /\ toServer' = toServer /\ win' = win /\ lastSequence' = lastSequence /\ base' = base
      /\ (Copying' <=> Copying) /\ sendArray' = sendArray
  BY ClientIdle DEF serverVars
<1>2. Beyond' = Beyond BY <1>1 DEF Beyond
<1>3. \A n, i : (Settled(n, i))' <=> Settled(n, i)
  BY <1>1 DEF Settled, Done, AckBefore
<1>4. \A n, i : (Stored(n, i))' <=> Stored(n, i)
  BY <1>1 DEF Stored, Held, Done, DataBefore
<1>5. \A n : /\ (Settled(n, Beyond))' <=> Settled(n, Beyond)
             /\ (Stored(n, Beyond))' <=> Stored(n, Beyond)
  BY <1>1, <1>2 DEF Settled, Stored, Held, Done, AckBefore, DataBefore
<1>6. \A h : AckedBut(h) => (AckedBut(h))'
  BY <1>1, <1>3, <1>5 DEF AckedBut
<1>7. \A x : NoGapsBelow(x) => (NoGapsBelow(x))'
  BY <1>1, <1>4, <1>5 DEF NoGapsBelow
<1> QED BY <1>2, <1>3, <1>4, <1>6, <1>7

\* A step that changes no more than the path to the client.
LEMMA ToClientStep ==
  ASSUME OneLoss, IInv, TypeInv', UNCHANGED <<clientVars, serverVars, toServer>>,
         lost' = lost \/ (lost = 0 /\ lost' # 0),
         \/ /\ \A j \in DOMAIN toClient' : \E k \in DOMAIN toClient :
                 /\ toClient'[j] = toClient[k]
                 /\ \A l \in 1 .. j - 1 : \E p \in 1 .. k - 1 : toClient'[l] = toClient[p]
            /\ toClient' # <<>> => toClient # <<>>
         \/ /\ Kept # {}
            /\ \A j \in DOMAIN toClient' : \E n \in Seqs : toClient'[j] = win.pkt[n] /\ win.pkt[n] # NoPkt
  PROVE  IInv'
<1>1. /\ toServer' = toServer /\ win' = win /\ lastSequence' = lastSequence /\ base' = base
      /\ pc' = pc /\ cli' = cli /\ received' = received /\ connected' = connected
      /\ (Copying' <=> Copying) /\ (Busy' <=> Busy) /\ (Live' <=> Live) /\ sendArray' = sendArray
      /\ ClientInv' /\ WinInv' /\ Kept' = Kept
  <2>1. UNCHANGED <<serverVars, lastSequence>> BY ClientIdle
  <2> QED BY <2>1, ClientIdle, ServerIdle DEF IInv, Live
<1>2. ServedInv' BY <1>1 DEF IInv, ServedInv
<1>3. ASSUME Kept # {} PROVE Busy /\ Live
  <2>1. Busy BY <1>3 DEF IInv, ServedInv
  <2>2. win # NewWindow
    <3>1. lastSequence \in Nat BY Constants DEF IInv, TypeInv, TypeOK, ClientTypeOK, Seqs
    <3> QED BY <1>3, <3>1, FreshWindow
  <2> QED BY <2>1, <2>2 DEF IInv, ServedInv, Live
<1>4. \A n \in Seqs : win.pkt[n] # NoPkt => IsAck(win.pkt[n]) /\ win.pkt[n].ack = n /\ n < lastSequence /\ Held(n)
  <2> TAKE n \in Seqs
  <2> HAVE win.pkt[n] # NoPkt
  <2>1. IsAck(win.pkt[n]) /\ win.pkt[n].ack = n /\ n \in Kept BY DEF IInv, WinInv, Kept
  <2>2. Kept \subseteq 0 .. lastSequence - 1 /\ lastSequence \in Int
    BY Constants DEF IInv, WinInv, TypeInv, TypeOK, ClientTypeOK, Seqs
  <2>3. n < lastSequence BY <2>1, <2>2
  <2> QED BY <2>1, <2>3 DEF Held
<1>5. PathInv'
  <2>1. \A j \in DOMAIN toClient' : IsAck(toClient'[j]) \/ IsFint(toClient'[j]) => toClient'[j].ack < lastSequence
    BY <1>4, OneKind DEF IInv, PathInv
  <2>2. pc \in {"synwait", "down"} =>
          (\A i \in DOMAIN toClient' : toClient'[i].rcvw = WinSize) /\ (toClient' # <<>> => connected)
    BY <1>3 DEF IInv, PathInv, Busy
  <2>3. cli = 0 \/ (pc = "finwait" /\ ~connected) => toClient' = <<>>
    BY <1>3 DEF IInv, PathInv, Live, Busy
  <2>4. /\ cli' = 0 => pc' = "down" /\ toServer' = <<>> /\ toClient' = <<>>
        /\ pc' \in {"synwait", "down"} =>
             /\ \A i \in DOMAIN toServer' : IsSyn(toServer'[i])
             /\ \A i \in DOMAIN toClient' : toClient'[i].rcvw = WinSize
             /\ toClient' # <<>> => connected'
    BY <1>1, <2>2, <2>3 DEF IInv, PathInv
  <2>5. pc' = "finwait" /\ ~connected' =>
           toClient' = <<>> /\ \A i \in DOMAIN toServer' : ~IsSyn(toServer'[i]) /\ ~IsFin(toServer'[i])
    BY <1>1, <2>3 DEF IInv, PathInv
  <2> QED BY <1>1, <2>1, <2>4, <2>5 DEF IInv, PathInv
<1>6. CASE ~Live
  <2>1. (~Live => FinishInv /\ CarryInv /\ HoleInv)' BY NoTransfer, PTL
  <2> QED BY <1>1, <1>2, <1>5, <1>6, <2>1 DEF IInv
<1>7. CASE Live
  <2>1. \A c : (CurrentEcho(c))' <=> IsAck(c) /\ c.ack >= base BY <1>1 DEF CurrentEcho
  <2>2. FinishInv'
    <3>1. ASSUME NEW i \in DOMAIN toServer', (IsOld(toServer[i]))'
          PROVE  /\ Kept' = {} /\ win'.start = base' /\ received' = 0
                 /\ \A j \in 1 .. i - 1 : ~Carries(toServer'[j])
                 /\ \A j \in DOMAIN toClient' : ~(CurrentEcho(toClient[j]))'
      <4>1. i \in DOMAIN toServer /\ IsOld(toServer[i]) BY <1>1, <3>1 DEF IsOld
      <4>2. /\ Kept = {} /\ win.start = base /\ received = 0
            /\ \A j \in 1 .. i - 1 : ~Carries(toServer[j])
            /\ \A j \in DOMAIN toClient : ~CurrentEcho(toClient[j])
        BY <1>7, <4>1 DEF IInv, FinishInv
      <4>3. \A j \in DOMAIN toClient' : ~(CurrentEcho(toClient[j]))'
        BY <1>1, <4>2 DEF CurrentEcho
      <4> QED BY <1>1, <4>2, <4>3
    <3>2. ASSUME NEW i \in DOMAIN toClient', IsFint(toClient'[i])
          PROVE  \/ /\ toClient'[i].ack < base' /\ received' = 0
                    /\ \A j \in 1 .. i - 1 : ~(CurrentEcho(toClient[j]))'
                 \/ /\ pc' = "finwait" /\ toClient'[i].ack = lastSequence' - 1
                    /\ Kept' = {} /\ win'.start = lastSequence'
                    /\ \A j \in DOMAIN toServer' : ~Carries(toServer'[j])
      <4>1. PICK k \in DOMAIN toClient :
               /\ toClient'[i] = toClient[k]
               /\ \A l \in 1 .. i - 1 : \E p \in 1 .. k - 1 : toClient'[l] = toClient[p]
        BY <1>4, <3>2, OneKind
      <4>2. CASE /\ toClient[k].ack < base /\ received = 0
                 /\ \A j \in 1 .. k - 1 : ~CurrentEcho(toClient[j])
        <5>1. \A j \in 1 .. i - 1 : ~(CurrentEcho(toClient[j]))'
          BY <1>1, <4>1, <4>2 DEF CurrentEcho
        <5> QED BY <1>1, <4>1, <4>2, <5>1
      <4>3. CASE /\ pc = "finwait" /\ toClient[k].ack = lastSequence - 1
                 /\ Kept = {} /\ win.start = lastSequence
                 /\ \A j \in DOMAIN toServer : ~Carries(toServer[j])
        <5>1. toClient'[i].ack = lastSequence' - 1 BY <1>1, <4>1, <4>3
        <5> QED BY <1>1, <4>1, <4>3, <5>1
      <4> QED BY <1>7, <3>2, <4>1, <4>2, <4>3 DEF IInv, FinishInv
    <3>3. ASSUME NEW i \in DOMAIN toServer'
          PROVE  /\ ~IsFin(toServer'[i])
                 /\ IsFint(toServer'[i]) =>
                      \/ toServer'[i].ack = base' - 1
                      \/ pc' = "finwait" /\ toServer'[i].ack = lastSequence' - 1
                 /\ IsFint(toServer'[i]) /\ toServer'[i].ack >= base' =>
                      \A j \in i .. Len(toServer') : IsFint(toServer'[j])
      <4>1. base' - 1 = base - 1 /\ lastSequence' - 1 = lastSequence - 1 BY <1>1
      <4> QED BY <1>1, <1>7, <4>1 DEF IInv, FinishInv
    <3> QED BY <3>1, <3>2, <3>3 DEF FinishInv
  <2>3. CarryInv'
    <3>1. \A i \in DOMAIN toClient' : (CurrentEcho(toClient[i]))' => (Held(toClient[i].ack))'
      <4> TAKE i \in DOMAIN toClient'
      <4> HAVE (CurrentEcho(toClient[i]))'
      <4>1. IsAck(toClient'[i]) /\ toClient'[i].ack >= base BY <1>1 DEF CurrentEcho, IsAck
      <4>2. Held(toClient'[i].ack) BY <1>4, <1>7, <4>1 DEF IInv, CarryInv, CurrentEcho
      <4> QED BY <1>1, <4>2 DEF Held, Done
    <3>2. \A i \in DOMAIN toServer' : IsAck(toServer'[i]) =>
            toServer'[i].ack \in base' .. lastSequence' - 1 /\ (Held(toServer[i].ack))' /\ toServer'[i].rcvw # 0
      <4>1. \A i \in DOMAIN toServer : IsAck(toServer[i]) =>
              toServer[i].ack \in base .. lastSequence - 1 /\ Held(toServer[i].ack) /\ toServer[i].rcvw # 0
        BY <1>7 DEF IInv, CarryInv
      <4>2. base' .. lastSequence' - 1 = base .. lastSequence - 1 BY <1>1
      <4> QED BY <1>1, <4>1, <4>2 DEF Held, Done
    <3>3. \A i \in DOMAIN toServer' : IsData(toServer'[i]) =>
            /\ toServer'[i].seq \in base' .. lastSequence' - 1
            /\ toServer'[i].rcvw # 0 /\ ChecksumOk(toServer'[i])
            /\ ~(Settled(toServer[i].seq, i))'
      <4>1. \A i \in DOMAIN toServer : IsData(toServer[i]) =>
              /\ toServer[i].seq \in base .. lastSequence - 1
              /\ toServer[i].rcvw # 0 /\ ChecksumOk(toServer[i])
              /\ ~Settled(toServer[i].seq, i)
        BY <1>7 DEF IInv, CarryInv
      <4>2. base' .. lastSequence' - 1 = base .. lastSequence - 1 BY <1>1
      <4> QED BY <1>1, <4>1, <4>2 DEF Settled, Done, AckBefore
    <3>4. Copying' => \A n \in base' .. lastSequence' - 1 :
            IF sendArray'[n] THEN (Held(n))' ELSE ~(Settled(n, Beyond))'
      <4>1. Copying => \A n \in base .. lastSequence - 1 :
              IF sendArray[n] THEN Held(n) ELSE ~Settled(n, Beyond)
        BY <1>7 DEF IInv, CarryInv
      <4>2. base' .. lastSequence' - 1 = base .. lastSequence - 1 BY <1>1
      <4>3. \A n : ((Held(n))' <=> Held(n)) /\ ((Settled(n, Beyond))' <=> Settled(n, Beyond))
        <5>1. Beyond' = Beyond BY PathToServerIdle
        <5> QED BY <1>1, <5>1 DEF Settled, Held, Done, AckBefore
      <4> QED BY <1>1, <4>1, <4>2, <4>3
    <3> QED BY <3>1, <3>2, <3>3, <3>4 DEF CarryInv
  <2>4. HoleInv'
    <3>1. CASE lost = 0
      <4>1. AckedBut(-1) /\ NoGapsBelow(SeqSize) BY <1>7, <3>1 DEF IInv, HoleInv
      <4>2. (AckedBut(-1))' /\ (NoGapsBelow(SeqSize))' BY <4>1, PathToServerIdle
      <4> QED BY <4>2 DEF HoleInv
    <3>2. CASE lost # 0
      <4>1. AckedBut(-1) \/ \E h \in Seqs : AckedBut(h) /\ NoGapsBelow(h + WinSize)
        BY <1>7 DEF IInv, HoleInv
      <4>2. (AckedBut(-1))' \/ \E h \in Seqs : (AckedBut(h))' /\ (NoGapsBelow(h + WinSize))'
        BY <4>1, PathToServerIdle
      <4> QED BY <3>2, <4>2 DEF HoleInv
    <3> QED BY <3>1, <3>2
  <2> QED BY <1>1, <1>2, <1>5, <2>2, <2>3, <2>4 DEF IInv
<1> QED BY <1>6, <1>7

\* The server's resending, a datagram to the client lost, and stuttering.
LEMMA ResendStep == OneLoss /\ IInv /\ TypeInv' /\ ServerResend => IInv'
<1> SUFFICES ASSUME OneLoss, IInv, TypeInv', ServerResend PROVE IInv'
  OBVIOUS
<1>1. /\ Resendable(win) # {} /\ toClient = <<>> /\ SocketTimeout("short") /\ EndServerTurn(<<>>)
      /\ UNCHANGED <<clientVars, toServer>> /\ lost' = lost
  BY DEF ServerResend
<1>2. UNCHANGED serverVars
  <2>1. ~ClientCrashed("short") BY DEF ClientCrashed
  <2> QED BY <1>1, <2>1 DEF SocketTimeout
<1>3. win \in WindowType /\ win' = win BY <1>2 DEF serverVars, IInv, TypeInv, TypeOK, ServerTypeOK
<1>4. Kept # {}
  <2>1. PICK n \in Resendable(win) : TRUE BY <1>1
  <2>2. n \in Seqs /\ win.pkt[n] # NoPkt
    BY <1>3, Constants DEF Resendable, WindowType, Seqs
  <2>3. n \in Kept BY <2>2 DEF IInv, WinInv, Kept
  <2> QED BY <2>3
<1>5. \A j \in DOMAIN toClient' : \E n \in Seqs : toClient'[j] = win.pkt[n] /\ win.pkt[n] # NoPkt
  <2>1. <<>> \in Seq(Packet) /\ DOMAIN <<>> = {} OBVIOUS
  <2>2. PICK r \in Seq(Packet) :
          /\ toClient' = toClient \o r
          /\ \A i \in DOMAIN r :
               \/ i \in DOMAIN <<>> /\ r[i] = <<>>[i]
               \/ \E n \in Seqs : r[i] = win'.pkt[n] /\ win'.pkt[n] # NoPkt
    BY <1>1, <1>3, <2>1, ServerTurnEnds
  <2>3. toClient' = r BY <1>1, <2>2
  <2> QED BY <1>3, <2>1, <2>2, <2>3
<1> QED BY <1>1, <1>2, <1>4, <1>5, ToClientStep

\* A step that changes nothing.
LEMMA StutterStep == OneLoss /\ IInv /\ TypeInv' /\ UNCHANGED vars => IInv'
<1> SUFFICES ASSUME OneLoss, IInv, TypeInv', UNCHANGED vars PROVE IInv'
  OBVIOUS
<1>1. UNCHANGED <<clientVars, serverVars, toServer>> /\ lost' = lost /\ toClient' = toClient
  BY DEF vars
<1>2. \A j \in DOMAIN toClient' : \E k \in DOMAIN toClient :
         /\ toClient'[j] = toClient[k]
         /\ \A l \in 1 .. j - 1 : \E p \in 1 .. k - 1 : toClient'[l] = toClient[p]
  BY <1>1
<1> QED BY <1>1, <1>2, ToClientStep

\* Where a datagram was before the one at i was lost.
Was(i, l) == IF l < i THEN l ELSE l + 1

\* The path after a loss, place by place, as the path before.
LEMMA LossShift ==
  ASSUME NEW q \in Seq(Packet), NEW i \in DOMAIN q, NEW p \in Seq(Packet), p = RemoveAt(q, i)
  PROVE  /\ Len(q) \in Nat /\ i \in 1 .. Len(q) /\ Len(p) = Len(q) - 1
         /\ \A l \in DOMAIN p : l \in 1 .. Len(p) /\ Was(i, l) \in DOMAIN q /\ p[l] = q[Was(i, l)]
         /\ Was(i, Len(p) + 1) = Len(q) + 1
         /\ \A l \in 1 .. Len(p) + 1 : \A j \in 1 .. l - 1 :
              j \in DOMAIN p /\ Was(i, j) \in 1 .. Was(i, l) - 1
         /\ \A l \in 1 .. Len(p) + 1 : \A j \in 1 .. Was(i, l) - 1 :
              j = i \/ \E k \in 1 .. l - 1 : k \in DOMAIN p /\ j = Was(i, k)
<1>1. /\ Len(q) \in Nat /\ i \in 1 .. Len(q) /\ Len(p) = Len(q) - 1
      /\ DOMAIN q = 1 .. Len(q) /\ DOMAIN p = 1 .. Len(q) - 1
      /\ \A j \in 1 .. Len(q) - 1 : p[j] = q[IF j < i THEN j ELSE j + 1]
  BY Removed
<1>2. \A l \in DOMAIN p : l \in 1 .. Len(p) /\ Was(i, l) \in DOMAIN q /\ p[l] = q[Was(i, l)]
  BY <1>1 DEF Was
<1>3. Was(i, Len(p) + 1) = Len(q) + 1 BY <1>1 DEF Was
<1>4. \A l \in 1 .. Len(p) + 1 : \A j \in 1 .. l - 1 :
        j \in DOMAIN p /\ Was(i, j) \in 1 .. Was(i, l) - 1
  BY <1>1 DEF Was
<1>5. ASSUME NEW l \in 1 .. Len(p) + 1, NEW j \in 1 .. Was(i, l) - 1
      PROVE  j = i \/ \E k \in 1 .. l - 1 : k \in DOMAIN p /\ j = Was(i, k)
  <2>1. CASE j < i
    <3>1. j \in 1 .. l - 1 /\ j \in DOMAIN p /\ j = Was(i, j) BY <1>1, <2>1 DEF Was
    <3> QED BY <3>1
  <2>2. CASE j > i
    <3>1. j - 1 \in 1 .. l - 1 /\ j - 1 \in DOMAIN p /\ j = Was(i, j - 1) BY <1>1, <2>2 DEF Was
    <3> QED BY <3>1
  <2> QED BY <1>1, <2>1, <2>2
<1> QED BY <1>1, <1>2, <1>3, <1>4, <1>5

\* The loss of an echo or of another answer of the server: nothing that the
\* invariant says of the way to the client asks for a datagram to be there.
LEMMA LoseToClient ==
  ASSUME OneLoss, IInv, TypeInv', lost = 0, lost' # 0, UNCHANGED <<clientVars, serverVars, toServer>>,
         NEW i \in DOMAIN toClient, toClient' = RemoveAt(toClient, i)
  PROVE  IInv'
<1>1. toClient \in Seq(Packet) /\ toClient' \in Seq(Packet)
  BY DEF IInv, TypeInv, TypeOK
<1>2. \A j \in DOMAIN toClient' : \E k \in DOMAIN toClient :
         /\ toClient'[j] = toClient[k]
         /\ \A l \in 1 .. j - 1 : \E p \in 1 .. k - 1 : toClient'[l] = toClient[p]
  <2> TAKE j \in DOMAIN toClient'
  <2>1. /\ \A l \in DOMAIN toClient' : l \in 1 .. Len(toClient') /\ Was(i, l) \in DOMAIN toClient
                                       /\ toClient'[l] = toClient[Was(i, l)]
        /\ \A l \in 1 .. Len(toClient') + 1 : \A k \in 1 .. l - 1 :
              k \in DOMAIN toClient' /\ Was(i, k) \in 1 .. Was(i, l) - 1
    BY <1>1, LossShift
  <2>2. j \in 1 .. Len(toClient') + 1
    <3>1. Len(toClient') \in Nat BY <1>1
    <3> QED BY <2>1, <3>1
  <2> QED BY <2>1, <2>2
<1>3. toClient # <<>> BY <1>1
<1> QED BY <1>2, <1>3, ToClientStep

\* What is ahead of a datagram after a loss.
LEMMA LossBefore ==
  ASSUME toServer \in Seq(Packet), toServer' \in Seq(Packet),
         NEW i \in DOMAIN toServer, toServer' = RemoveAt(toServer, i)
  PROVE  \A n : \A l \in 1 .. Len(toServer') + 1 :
           /\ (AckBefore(n, l))' => AckBefore(n, Was(i, l))
           /\ AckBefore(n, Was(i, l)) =>
                (AckBefore(n, l))' \/ (IsAck(toServer[i]) /\ toServer[i].ack = n)
           /\ (DataBefore(n, l))' => DataBefore(n, Was(i, l))
           /\ DataBefore(n, Was(i, l)) =>
                (DataBefore(n, l))' \/ (IsData(toServer[i]) /\ toServer[i].seq = n)
<1> TAKE n
<1> TAKE l \in 1 .. Len(toServer') + 1
<1>1. /\ \A j \in 1 .. l - 1 : j \in DOMAIN toServer' /\ Was(i, j) \in 1 .. Was(i, l) - 1
      /\ \A j \in 1 .. Was(i, l) - 1 : j = i \/ \E k \in 1 .. l - 1 : k \in DOMAIN toServer' /\ j = Was(i, k)
      /\ \A j \in DOMAIN toServer' : toServer'[j] = toServer[Was(i, j)]
  BY LossShift
<1>2. \A j \in 1 .. l - 1 : Was(i, j) \in 1 .. Was(i, l) - 1 /\ toServer'[j] = toServer[Was(i, j)]
  BY <1>1
<1>3. \A j \in 1 .. Was(i, l) - 1 : j = i \/ \E k \in 1 .. l - 1 : toServer'[k] = toServer[j]
  BY <1>1
<1>4. (AckBefore(n, l))' => AckBefore(n, Was(i, l))
  <2>1. (AckBefore(n, l))' => \E j \in 1 .. l - 1 : IsAck(toServer'[j]) /\ toServer'[j].ack = n
    BY DEF AckBefore
  <2> QED BY <1>2, <2>1 DEF AckBefore
<1>5. (DataBefore(n, l))' => DataBefore(n, Was(i, l))
  <2>1. (DataBefore(n, l))' => \E j \in 1 .. l - 1 : IsData(toServer'[j]) /\ toServer'[j].seq = n
    BY DEF DataBefore
  <2> QED BY <1>2, <2>1 DEF DataBefore
<1>6. AckBefore(n, Was(i, l)) => (AckBefore(n, l))' \/ (IsAck(toServer[i]) /\ toServer[i].ack = n)
  <2> SUFFICES ASSUME NEW j \in 1 .. Was(i, l) - 1, IsAck(toServer[j]), toServer[j].ack = n, j # i
               PROVE  (AckBefore(n, l))'
    BY DEF AckBefore
  <2>1. \E k \in 1 .. l - 1 : IsAck(toServer'[k]) /\ toServer'[k].ack = n BY <1>3
  <2> QED BY <2>1 DEF AckBefore, IsAck
<1>7. DataBefore(n, Was(i, l)) => (DataBefore(n, l))' \/ (IsData(toServer[i]) /\ toServer[i].seq = n)
  <2> SUFFICES ASSUME NEW j \in 1 .. Was(i, l) - 1, IsData(toServer[j]), toServer[j].seq = n, j # i
               PROVE  (DataBefore(n, l))'
    BY DEF DataBefore
  <2>1. \E k \in 1 .. l - 1 : IsData(toServer'[k]) /\ toServer'[k].seq = n BY <1>3
  <2> QED BY <2>1 DEF DataBefore, IsData
<1> QED BY <1>4, <1>5, <1>6, <1>7

\* A datagram to the server lost: the first loss, so nothing was missing.
LEMMA LoseToServer ==
  ASSUME OneLoss, IInv, TypeInv', lost = 0, lost' # 0, UNCHANGED <<clientVars, serverVars, toClient>>,
         NEW i \in DOMAIN toServer, toServer' = RemoveAt(toServer, i)
  PROVE  IInv'
<1> DEFINE x == toServer[i]
<1>1. /\ toServer \in Seq(Packet) /\ toServer' \in Seq(Packet) /\ ClientTypeOK /\ ClientInv
      /\ toClient' = toClient
  BY DEF IInv, TypeInv, TypeOK
<1>2. /\ win' = win /\ lastSequence' = lastSequence /\ base' = base
      /\ pc' = pc /\ cli' = cli /\ received' = received /\ connected' = connected
      /\ (Copying' <=> Copying) /\ (Busy' <=> Busy) /\ (Live' <=> Live) /\ sendArray' = sendArray
      /\ ClientInv' /\ WinInv' /\ Kept' = Kept
  <2>1. UNCHANGED <<serverVars, lastSequence>> BY ClientIdle
  <2> QED BY <2>1, ClientIdle, ServerIdle DEF IInv, Live
<1>3. /\ Len(toServer) \in Nat /\ Len(toServer') \in Nat /\ i \in 1 .. Len(toServer)
      /\ Len(toServer') = Len(toServer) - 1 /\ DOMAIN toServer' = 1 .. Len(toServer')
      /\ \A l \in DOMAIN toServer' :
            /\ l \in 1 .. Len(toServer') + 1 /\ Was(i, l) \in DOMAIN toServer
            /\ toServer'[l] = toServer[Was(i, l)]
      /\ Was(i, Beyond') = Beyond /\ Beyond' \in 1 .. Len(toServer') + 1
  <2>1. Len(toServer') \in Nat /\ DOMAIN toServer' = 1 .. Len(toServer') BY <1>1
  <2>2. /\ Len(toServer) \in Nat /\ i \in 1 .. Len(toServer) /\ Len(toServer') = Len(toServer) - 1
        /\ \A l \in DOMAIN toServer' : Was(i, l) \in DOMAIN toServer /\ toServer'[l] = toServer[Was(i, l)]
        /\ Was(i, Len(toServer') + 1) = Len(toServer) + 1
    BY <1>1, LossShift
  <2>3. \A l \in 1 .. Len(toServer') : l \in 1 .. Len(toServer') + 1 BY <2>1
  <2>4. Beyond' = Len(toServer') + 1 /\ Beyond = Len(toServer) + 1 BY DEF Beyond
  <2>5. Len(toServer') + 1 \in 1 .. Len(toServer') + 1 BY <2>1
  <2> QED BY <2>1, <2>2, <2>3, <2>4, <2>5
<1>4. \A n : \A l \in 1 .. Len(toServer') + 1 :
        /\ (Settled(n, l))' => Settled(n, Was(i, l))
        /\ Settled(n, Was(i, l)) => (Settled(n, l))' \/ (IsAck(x) /\ x.ack = n)
        /\ Stored(n, Was(i, l)) => (Stored(n, l))' \/ (IsData(x) /\ x.seq = n)
  <2> TAKE n
  <2> TAKE l \in 1 .. Len(toServer') + 1
  <2>1. /\ (AckBefore(n, l))' => AckBefore(n, Was(i, l))
        /\ AckBefore(n, Was(i, l)) => (AckBefore(n, l))' \/ (IsAck(x) /\ x.ack = n)
        /\ DataBefore(n, Was(i, l)) => (DataBefore(n, l))' \/ (IsData(x) /\ x.seq = n)
    BY <1>1, LossBefore
  <2>2. ((Done(n))' <=> Done(n)) /\ ((Held(n))' <=> Held(n)) BY <1>2 DEF Done, Held
  <2>3. ((Settled(n, l))' <=> (Done(n))' \/ (AckBefore(n, l))') /\ ((Stored(n, l))' <=> (Held(n))' \/ (DataBefore(n, l))')
    BY DEF Settled, Stored
  <2> HIDE DEF x
  <2>4. /\ Settled(n, Was(i, l)) <=> Done(n) \/ AckBefore(n, Was(i, l))
        /\ Stored(n, Was(i, l)) <=> Held(n) \/ DataBefore(n, Was(i, l))
    BY DEF Settled, Stored
  <2> QED BY <2>1, <2>2, <2>3, <2>4
<1>5. \A n : /\ (Settled(n, Beyond))' => Settled(n, Beyond)
             /\ Settled(n, Beyond) => (Settled(n, Beyond))' \/ (IsAck(x) /\ x.ack = n)
             /\ Stored(n, Beyond) => (Stored(n, Beyond))' \/ (IsData(x) /\ x.seq = n)
  <2> TAKE n
  <2>1. PICK b \in 1 .. Len(toServer') + 1 : b = Beyond' /\ Was(i, b) = Beyond BY <1>3
  <2>2. (Settled(n, Beyond))' <=> (Settled(n, b))' BY <2>1 DEF Settled, AckBefore, Done
  <2>3. (Stored(n, Beyond))' <=> (Stored(n, b))' BY <2>1 DEF Stored, DataBefore, Held, Done
  <2> HIDE DEF x
  <2> QED BY <1>4, <2>1, <2>2, <2>3
<1>6. base' .. lastSequence' - 1 = base .. lastSequence - 1 /\ \A a : base' .. a = base .. a
      /\ base' - 1 = base - 1 /\ lastSequence' - 1 = lastSequence - 1
  BY <1>2
<1>7. ServedInv' BY <1>2 DEF IInv, ServedInv
<1>8. PathInv'
  <2>1. toServer # <<>> BY <1>1
  <2> QED BY <1>1, <1>2, <1>3, <2>1 DEF IInv, PathInv, Known
<1>9. CASE ~Live
  <2>1. (~Live => FinishInv /\ CarryInv /\ HoleInv)' BY NoTransfer, PTL
  <2> QED BY <1>2, <1>7, <1>8, <1>9, <2>1 DEF IInv
<1>10. CASE Live
  <2>1. FinishInv'
    <3>1. ASSUME NEW l \in DOMAIN toServer'
          PROVE  /\ ~IsFin(toServer'[l])
                 /\ (IsOld(toServer[l]))' =>
                      /\ Kept' = {} /\ win'.start = base' /\ received' = 0
                      /\ \A j \in 1 .. l - 1 : ~Carries(toServer'[j])
                      /\ \A j \in DOMAIN toClient' : ~(CurrentEcho(toClient[j]))'
                 /\ IsFint(toServer'[l]) =>
                      \/ toServer'[l].ack = base' - 1
                      \/ pc' = "finwait" /\ toServer'[l].ack = lastSequence' - 1
                 /\ IsFint(toServer'[l]) /\ toServer'[l].ack >= base' =>
                      \A j \in l .. Len(toServer') : IsFint(toServer'[j])
      <4>1. PICK k \in DOMAIN toServer : k = Was(i, l) /\ toServer'[l] = toServer[k] BY <1>3
      <4>2. \A j \in 1 .. l - 1 : j \in DOMAIN toServer' /\ Was(i, j) \in 1 .. k - 1
        BY <1>1, <1>3, <4>1, LossShift
      <4>3. \A j \in l .. Len(toServer') : j \in DOMAIN toServer' /\ Was(i, j) \in k .. Len(toServer)
        BY <1>3, <4>1 DEF Was
      <4>4. ~IsFin(toServer[k]) /\ (IsFint(toServer[k]) => toServer[k].ack = base - 1
                                       \/ (pc = "finwait" /\ toServer[k].ack = lastSequence - 1))
        BY <1>10 DEF IInv, FinishInv
      <4>5. ASSUME (IsOld(toServer[l]))'
            PROVE  /\ Kept' = {} /\ win'.start = base' /\ received' = 0
                   /\ \A j \in 1 .. l - 1 : ~Carries(toServer'[j])
                   /\ \A j \in DOMAIN toClient' : ~(CurrentEcho(toClient[j]))'
        <5>1. IsOld(toServer[k]) BY <1>2, <4>1, <4>5 DEF IsOld, IsSyn, IsFint
        <5>2. /\ Kept = {} /\ win.start = base /\ received = 0
              /\ \A j \in 1 .. k - 1 : ~Carries(toServer[j])
              /\ \A j \in DOMAIN toClient : ~CurrentEcho(toClient[j])
          BY <1>10, <5>1 DEF IInv, FinishInv
        <5>3. \A j \in 1 .. l - 1 : ~Carries(toServer'[j]) BY <1>3, <4>2, <5>2
        <5>4. \A j \in DOMAIN toClient' : ~(CurrentEcho(toClient[j]))'
          BY <1>1, <1>2, <5>2 DEF CurrentEcho
        <5> QED BY <1>2, <5>2, <5>3, <5>4
      <4>6. IsFint(toServer[k]) /\ toServer[k].ack >= base =>
              \A j \in k .. Len(toServer) : IsFint(toServer[j])
        BY <1>10 DEF IInv, FinishInv
      <4>7. IsFint(toServer'[l]) /\ toServer'[l].ack >= base =>
              \A j \in l .. Len(toServer') : IsFint(toServer'[j])
        BY <1>3, <4>1, <4>3, <4>6
      <4> QED BY <1>2, <1>6, <4>1, <4>4, <4>5, <4>7
    <3>2. ASSUME NEW j \in DOMAIN toClient', IsFint(toClient'[j])
          PROVE  \/ /\ toClient'[j].ack < base' /\ received' = 0
                    /\ \A l \in 1 .. j - 1 : ~(CurrentEcho(toClient[l]))'
                 \/ /\ pc' = "finwait" /\ toClient'[j].ack = lastSequence' - 1
                    /\ Kept' = {} /\ win'.start = lastSequence'
                    /\ \A l \in DOMAIN toServer' : ~Carries(toServer'[l])
      <4>1. j \in DOMAIN toClient /\ IsFint(toClient[j]) BY <1>1, <3>2
      <4>2. CASE /\ toClient[j].ack < base /\ received = 0
                 /\ \A l \in 1 .. j - 1 : ~CurrentEcho(toClient[l])
        <5>1. \A l \in 1 .. j - 1 : ~(CurrentEcho(toClient[l]))'
          BY <1>1, <1>2, <4>2 DEF CurrentEcho
        <5> QED BY <1>1, <1>2, <4>2, <5>1
      <4>3. CASE /\ pc = "finwait" /\ toClient[j].ack = lastSequence - 1
                 /\ Kept = {} /\ win.start = lastSequence
                 /\ \A l \in DOMAIN toServer : ~Carries(toServer[l])
        <5>1. \A l \in DOMAIN toServer' : ~Carries(toServer'[l]) BY <1>3, <4>3
        <5> QED BY <1>1, <1>2, <1>6, <4>3, <5>1
      <4> QED BY <1>10, <4>1, <4>2, <4>3 DEF IInv, FinishInv
    <3> QED BY <3>1, <3>2 DEF FinishInv
  <2>2. CarryInv'
    <3>1. \A j \in DOMAIN toClient' : (CurrentEcho(toClient[j]))' => (Held(toClient[j].ack))'
      <4> TAKE j \in DOMAIN toClient'
      <4> HAVE (CurrentEcho(toClient[j]))'
      <4>1. j \in DOMAIN toClient /\ CurrentEcho(toClient[j]) BY <1>1, <1>2 DEF CurrentEcho, IsAck
      <4>2. Held(toClient[j].ack) BY <1>10, <4>1 DEF IInv, CarryInv
      <4> QED BY <1>1, <1>2, <4>2 DEF Held, Done
    <3>2. \A l \in DOMAIN toServer' : IsAck(toServer'[l]) =>
            toServer'[l].ack \in base' .. lastSequence' - 1 /\ (Held(toServer[l].ack))' /\ toServer'[l].rcvw # 0
      <4> TAKE l \in DOMAIN toServer'
      <4> HAVE IsAck(toServer'[l])
      <4>1. PICK k \in DOMAIN toServer : k = Was(i, l) /\ toServer'[l] = toServer[k] BY <1>3
      <4>2. toServer[k].ack \in base .. lastSequence - 1 /\ Held(toServer[k].ack) /\ toServer[k].rcvw # 0
        BY <1>10, <4>1 DEF IInv, CarryInv
      <4> QED BY <1>2, <1>6, <4>1, <4>2 DEF Held, Done
    <3>3. \A l \in DOMAIN toServer' : IsData(toServer'[l]) =>
            /\ toServer'[l].seq \in base' .. lastSequence' - 1
            /\ toServer'[l].rcvw # 0 /\ ChecksumOk(toServer'[l])
            /\ ~(Settled(toServer[l].seq, l))'
      <4> TAKE l \in DOMAIN toServer'
      <4> HAVE IsData(toServer'[l])
      <4>1. PICK k \in DOMAIN toServer : k = Was(i, l) /\ toServer'[l] = toServer[k] BY <1>3
      <4>2. /\ toServer[k].seq \in base .. lastSequence - 1 /\ toServer[k].rcvw # 0
            /\ ChecksumOk(toServer[k]) /\ ~Settled(toServer[k].seq, k)
        BY <1>10, <4>1 DEF IInv, CarryInv
      <4>3. PICK n \in {toServer[k].seq} : TRUE OBVIOUS
      <4>4. ~(Settled(n, l))' BY <1>3, <1>4, <4>1, <4>2, <4>3
      <4>5. ~(Settled(toServer[l].seq, l))' BY <4>1, <4>3, <4>4 DEF Settled, Done, AckBefore
      <4> QED BY <1>6, <4>1, <4>2, <4>5
    <3>4. Copying' => \A n \in base' .. lastSequence' - 1 :
            IF sendArray'[n] THEN (Held(n))' ELSE ~(Settled(n, Beyond))'
      <4>1. Copying => \A n \in base .. lastSequence - 1 :
              IF sendArray[n] THEN Held(n) ELSE ~Settled(n, Beyond)
        BY <1>10 DEF IInv, CarryInv
      <4>2. \A n : (Held(n))' <=> Held(n) BY <1>2 DEF Held, Done
      <4> QED BY <1>2, <1>5, <1>6, <4>1, <4>2
    <3> QED BY <3>1, <3>2, <3>3, <3>4 DEF CarryInv
  <2>3. AckedBut(-1) /\ NoGapsBelow(SeqSize) BY <1>10 DEF IInv, HoleInv
  <2>4. ASSUME NEW h, IsAck(x) => x.ack = h PROVE (AckedBut(h))'
    <3>1. ASSUME Copying, NEW n \in base .. lastSequence - 1, sendArray[n], n # h
          PROVE  (Settled(n, Beyond))'
      <4>1. n # -1 BY <1>1, <1>2, NoWrap, <1>10 DEF Live
      <4>2. Settled(n, Beyond) BY <2>3, <3>1, <4>1 DEF AckedBut
      <4> QED BY <1>5, <2>4, <3>1, <4>2
    <3>2. ASSUME NEW l \in DOMAIN toServer', IsData(toServer'[l]),
                 NEW n \in base .. toServer'[l].seq - WinSize, n # h
          PROVE  (Settled(n, l))'
      <4>1. PICK k \in DOMAIN toServer : k = Was(i, l) /\ toServer'[l] = toServer[k] BY <1>3
      <4>2. n # -1 BY <1>1, <1>2, NoWrap, <1>10 DEF Live
      <4>3. Settled(n, k) BY <2>3, <3>2, <4>1, <4>2 DEF AckedBut
      <4> QED BY <1>3, <1>4, <2>4, <3>2, <4>1, <4>3
    <3> QED BY <1>2, <1>6, <3>1, <3>2 DEF AckedBut
  <2>5. ASSUME NEW h, ~IsData(x) PROVE (NoGapsBelow(h))'
    <3>1. ASSUME Copying, NEW n \in base .. lastSequence - 1
          PROVE  (Stored(n, Beyond))'
      <4>1. n < SeqSize BY <1>1, NoWrap, <1>10, Constants DEF Live
      <4>2. Stored(n, Beyond) BY <2>3, <3>1, <4>1 DEF NoGapsBelow
      <4> QED BY <1>5, <2>5, <3>1, <4>2
    <3>2. ASSUME NEW l \in DOMAIN toServer', IsData(toServer'[l]),
                 NEW n \in base .. toServer'[l].seq - 1
          PROVE  (Stored(n, l))'
      <4>1. PICK k \in DOMAIN toServer : k = Was(i, l) /\ toServer'[l] = toServer[k] BY <1>3
      <4>2. n < SeqSize
        <5>1. toServer[k].seq \in Seqs
          <6>1. toServer[k] \in Packet BY <1>1
          <6> QED BY <6>1 DEF Packet
        <5> QED BY <3>2, <4>1, <5>1, Constants DEF Seqs
      <4>3. Stored(n, k) BY <2>3, <3>2, <4>1, <4>2 DEF NoGapsBelow
      <4> QED BY <1>3, <1>4, <2>5, <3>2, <4>1, <4>3
    <3> QED BY <1>2, <1>6, <3>1, <3>2 DEF NoGapsBelow
  <2>6. HoleInv'
    <3>1. CASE IsAck(x)
      <4>1. PICK h \in Seqs : h = x.ack
        <5>1. x \in Packet BY <1>1
        <5> QED BY <5>1 DEF Packet
      <4>2. (AckedBut(h))' BY <2>4, <4>1
      <4>3. (NoGapsBelow(h + WinSize))' BY <2>5, <3>1, OneKind
      <4> QED BY <4>2, <4>3 DEF HoleInv
    <3>2. CASE ~IsAck(x)
      <4>1. (AckedBut(-1))' BY <2>4, <3>2
      <4> QED BY <4>1 DEF HoleInv
    <3> QED BY <3>1, <3>2
  <2> QED BY <1>2, <1>7, <1>8, <2>1, <2>2, <2>6 DEF IInv
<1> QED BY <1>9, <1>10

\* The one loss, on either way.
LEMMA LoseStep == OneLoss /\ IInv /\ TypeInv' /\ Lose => IInv'
<1> SUFFICES ASSUME OneLoss, IInv, TypeInv', Lose PROVE IInv'
  OBVIOUS
<1>1. lost = 0 /\ lost' # 0
  <2>1. lost \in Nat /\ lost < MaxLoss /\ MaxLoss \in Nat /\ MaxLoss <= 1 /\ lost' = lost + 1
    BY FifoAssumption DEF Lose, OneLoss, IInv, TypeInv, TypeOK, FifoAssumption
  <2> QED BY <2>1
<1>2. UNCHANGED <<clientVars, serverVars>> BY DEF Lose
<1>3. CASE \E i \in DOMAIN toServer : toServer' = RemoveAt(toServer, i) /\ UNCHANGED toClient
  <2>1. PICK i \in DOMAIN toServer : toServer' = RemoveAt(toServer, i) /\ UNCHANGED toClient BY <1>3
  <2> QED BY <1>1, <1>2, <2>1, LoseToServer
<1>4. CASE \E i \in DOMAIN toClient : toClient' = RemoveAt(toClient, i) /\ UNCHANGED toServer
  <2>1. PICK i \in DOMAIN toClient : toClient' = RemoveAt(toClient, i) /\ UNCHANGED toServer BY <1>4
  <2> QED BY <1>1, <1>2, <2>1, LoseToClient
<1> QED BY <1>3, <1>4 DEF Lose

\* The server gives a client up only while that client announces the end of
\* a transfer: a full window holds the echo at its start, which checktimeout
\* would send again.
LEMMA GiveUpStep == OneLoss /\ IInv /\ TypeInv' /\ ServerGivesUp => IInv'
<1> SUFFICES ASSUME OneLoss, IInv, TypeInv', ServerGivesUp PROVE IInv'
  OBVIOUS
<1>1. /\ IsFull(win) /\ toClient = <<>> /\ SocketTimeout("long")
      /\ pc = "finwait" \/ Resendable(win) = {}
      /\ UNCHANGED <<clientVars, toServer, toClient>> /\ lost' = lost
  BY DEF ServerGivesUp
<1>2. /\ ServerTypeOK /\ WinInv /\ ServedInv /\ PathInv /\ FinishInv /\ ClientTypeOK
      /\ win.start \in Nat /\ WinSize \in Nat /\ WinSize > 0 /\ win.start \in Int
  BY Constants DEF IInv, TypeInv, TypeOK, ServerTypeOK, WindowType
<1>3. win.start \in Kept /\ win.start \in Seqs
  <2>1. win.start \in win.start .. win.start + WinSize - 1 BY <1>2
  <2>2. Kept = win.start .. win.start + WinSize - 1 BY <1>1, <1>2, KeptSize
  <2> QED BY <2>1, <2>2 DEF Kept
<1>4. Live /\ lastSequence \in Nat
  <2>1. Busy BY <1>2, <1>3 DEF ServedInv
  <2>2. lastSequence \in Nat BY <1>2, Constants DEF ClientTypeOK, Seqs
  <2>3. win # NewWindow BY <1>3, <2>2, FreshWindow
  <2> QED BY <1>2, <2>1, <2>2, <2>3 DEF ServedInv, Live
<1>5. pc = "finwait"
  <2>1. win.pkt[win.start] # NoPkt BY <1>2, <1>3 DEF WinInv, Kept
  <2>2. win.start < win.end /\ win.start \in win.start .. win.end - 1
    BY <1>2 DEF WinInv
  <2>3. win.start \in Resendable(win) BY <2>1, <2>2 DEF Resendable
  <2> QED BY <1>1, <2>3
<1>6. CASE UNCHANGED serverVars
  <2>1. UNCHANGED vars BY <1>1, <1>6 DEF vars
  <2> QED BY <2>1, StutterStep
<1>7. CASE ClientGone
  <2>1. /\ pc' = pc /\ cli' = cli /\ lastSequence' = lastSequence
        /\ (Busy' <=> Busy) /\ ClientInv' /\ win' = NewWindow /\ ~connected' /\ ~Live'
    BY <1>1, <1>7, ClientIdle DEF IInv, ClientGone, Live
  <2>2. WinInv' /\ Kept' = {}
    <3>1. (win = NewWindow /\ lastSequence \in Nat => WinInv /\ Kept = {} /\ win.start = 0)'
      BY FreshWindow, PTL
    <3>2. (NewWindow)' = NewWindow OBVIOUS
    <3> QED BY <1>4, <2>1, <3>1, <3>2
  <2>3. ServedInv' BY <1>4, <1>5, <2>1, <2>2 DEF ServedInv, Live
  <2>4. \A i \in DOMAIN toServer : ~IsSyn(toServer[i]) /\ ~IsFin(toServer[i])
    BY <1>2, <1>3, <1>4 DEF FinishInv, IsOld
  <2>5. PathInv'
    BY <1>1, <1>2, <1>4, <1>5, <2>1, <2>4 DEF PathInv, Live, Known
  <2>6. (~Live => FinishInv /\ CarryInv /\ HoleInv)' BY NoTransfer, PTL
  <2> QED BY <2>1, <2>2, <2>3, <2>5, <2>6 DEF IInv
<1> QED BY <1>1, <1>6, <1>7 DEF SocketTimeout

-----------------------------------------------------------------------------
(* The invariant holds, and what follows from it. *)

\* The invariant holds before the first process is started.
LEMMA InvInit == OneLoss /\ Init => IInv
<1> SUFFICES ASSUME OneLoss, Init PROVE IInv
  OBVIOUS
<1>1. TypeInv BY TypeInit
<1>2. /\ pc = "down" /\ cli = 0 /\ xfer = 0 /\ lastSequence = 0 /\ toServer = <<>> /\ toClient = <<>>
      /\ win = NewWindow /\ ~connected /\ ~Busy /\ ~Live /\ ~Copying
  BY DEF Init, ClientInit, ServerInit, Busy, Live, Copying
<1>3. ClientInv
  <2>1. MaxTransfers \in Nat /\ MaxChunks \in Nat BY Constants
  <2>2. Room = MaxTransfers * MaxChunks BY <1>2, <2>1 DEF Room
  <2>3. \A a, b \in Nat : a * b \in Nat OBVIOUS
  <2>4. MaxTransfers * MaxChunks \in Nat BY <2>1, <2>3
  <2> DEFINE all == MaxTransfers * MaxChunks
  <2>5. lastSequence + Room <= all BY <1>2, <2>2, <2>4
  <2> HIDE DEF all
  <2> QED BY <1>2, <2>5 DEF ClientInv, all
<1>4. WinInv /\ Kept = {} BY <1>2, FreshWindow
<1>5. ServedInv BY <1>2, <1>4 DEF ServedInv
<1>6. PathInv
  <2>1. DOMAIN toServer = {} /\ DOMAIN toClient = {} BY <1>2
  <2> QED BY <1>2, <2>1 DEF PathInv
<1> QED BY <1>1, <1>2, <1>3, <1>4, <1>5, <1>6, NoTransfer DEF IInv

\* Every step of either end and of the path keeps the invariant.
LEMMA InvNext == OneLoss /\ IInv /\ [Next]_vars => IInv'
<1> SUFFICES ASSUME OneLoss, IInv, [Next]_vars PROVE IInv'
  OBVIOUS
<1>1. TypeInv /\ ClientInv /\ PathInv BY DEF IInv
<1>2. TypeInv' BY <1>1, TypeStep
<1>3. CASE ClientNext
  <2>1. ClientTypeOK' BY <1>2 DEF TypeInv, TypeOK
  <2>2. ClientInv' BY <1>1, <1>3, <2>1, ClientInvStep
  <2> QED BY <1>2, <1>3, <2>2, ClientStep
<1>4. CASE ServerRead BY <1>2, <1>4, ServerReadStep
<1>5. CASE ServerResend BY <1>2, <1>5, ResendStep
<1>6. CASE ServerGivesUp BY <1>2, <1>6, GiveUpStep
<1>7. CASE Lose BY <1>2, <1>7, LoseStep
<1>8. CASE UNCHANGED vars BY <1>2, <1>8, StutterStep
<1> QED BY <1>3, <1>4, <1>5, <1>6, <1>7, <1>8 DEF Next

\* With one loss at most, the strengthened invariant holds always: what the
\* server reads of a transfer lies in its window, or finds it full.
THEOREM OneLossInvariant == OneLoss => (Spec => []IInv)
<1> SUFFICES ASSUME OneLoss PROVE Spec => []IInv
  OBVIOUS
<1>1. Init => IInv BY InvInit
<1>2. IInv /\ [Next]_vars => IInv' BY InvNext
<1> QED BY <1>1, <1>2, PTL DEF Spec

\* The counter unacked of Window.java, which addpacket, ackpacket, moveWindow
\* and prepareNextTransfer each change by hand, is exactly the number of echoes
\* that the window holds: isfull and getfreewindow, which read it, do not lie.
THEOREM CounterExact == OneLoss => (Spec => []UnackedCounts)
<1> SUFFICES ASSUME OneLoss PROVE Spec => []UnackedCounts
  OBVIOUS
<1>1. IInv => UnackedCounts BY DEF IInv, WinInv
<1>2. Spec => []IInv BY OneLossInvariant
<1> QED BY <1>1, <1>2, PTL

\* The server never holds more echoes than its window has room for, and when
\* the client waits for a command and nothing is on the way to the server, the
\* whole window is free: no transfer leaves the next one with less room.
THEOREM FlowControl == OneLoss => (Spec => []WindowRespected)
<1> SUFFICES ASSUME OneLoss PROVE Spec => []WindowRespected
  OBVIOUS
<1>1. IInv => WindowRespected
  <2> SUFFICES ASSUME IInv PROVE WindowRespected
    OBVIOUS
  <2>1. ServerTypeOK /\ WinInv /\ ServedInv BY DEF IInv, TypeInv, TypeOK
  <2>2. win.unacked = Cardinality(Kept) BY <2>1 DEF WinInv, UnackedCounts, Kept
  <2>3. Cardinality(Kept) \in 0 .. WinSize BY <2>1, KeptSize
  <2>4. pc = "command" => win.unacked = 0
    <3>1. pc = "command" => Kept = {} BY <2>1 DEF ServedInv, Busy
    <3> QED BY <2>2, <3>1, FS_EmptySet
  <2> QED BY <2>2, <2>3, <2>4 DEF WindowRespected
<1>2. Spec => []IInv BY OneLossInvariant
<1> QED BY <1>1, <1>2, PTL

\* Between transfers the client has no echo marked.
Unmarked == ~Copying => sendArray = Unset

\* Every step keeps the marks of one transfer out of the next.
LEMMA UnmarkedStep == OneLoss /\ IInv /\ Unmarked /\ [Next]_vars => Unmarked'
<1> SUFFICES ASSUME OneLoss, IInv, Unmarked, [Next]_vars PROVE Unmarked'
  OBVIOUS
<1>1. TypeInv /\ TypeInv' /\ ClientInv BY TypeStep DEF IInv
<1>2. CASE UNCHANGED clientVars
  BY <1>2, ClientIdle DEF Unmarked
<1>3. CASE ClientNext
  <2>1. CASE ClientStart
    BY <2>1 DEF ClientStart, Unmarked, Unset
  <2>2. CASE FinishTransfer
    BY <2>2 DEF FinishTransfer, Unmarked, Unset
  <2>3. CASE Copying /\ Copying'
    BY <2>3 DEF Unmarked
  <2>4. CASE \/ ConnectFail \/ ConnectRetry \/ (\E m : ConnectReply(m))
             \/ (\E L \in 0 .. MaxChunks : Transform(L))
             \/ Disconnect \/ DisconnectRetry \/ (\E m : DisconnectReply(m))
             \/ FinishRetry \/ (\E m : FinishReply(m))
    <3>1. sendArray' = sendArray /\ ~Copying
      BY <2>4 DEF ConnectFail, ConnectRetry, ConnectReply, Transform, Disconnect, DisconnectRetry,
                  DisconnectReply, FinishRetry, FinishReply, clientVars, arrayVars, Copying
    <3> QED BY <3>1 DEF Unmarked, Unset
  <2> QED BY <1>1, <1>3, <2>1, <2>2, <2>3, <2>4, ClientMoves
<1>4. ClientNext \/ UNCHANGED clientVars
  BY DEF Next, ServerRead, ServerResend, ServerGivesUp, Lose, vars
<1> QED BY <1>2, <1>3, <1>4

\* moveWindow never leaves the start of the server's window at an echo that the
\* client has and has acknowledged: with one loss the slide that moveWindow can
\* forget (it looks only at the echoes before the window's end) is not missed.
THEOREM StartWaits == OneLoss => (Spec => []StartIsUnacked)
<1> SUFFICES ASSUME OneLoss PROVE Spec => []StartIsUnacked
  OBVIOUS
<1>1. IInv /\ Unmarked => StartIsUnacked
  <2> SUFFICES ASSUME IInv, Unmarked, win.start < SeqSize, win.pkt[win.start] = NoPkt, sendArray[win.start]
               PROVE  FALSE
    BY DEF StartIsUnacked
  <2>1. win.start \in Nat /\ win.start \in Seqs
    BY Constants DEF IInv, TypeInv, TypeOK, ServerTypeOK, WindowType, Seqs
  <2>2. Copying
    <3> QED BY <2>1 DEF Unmarked, Unset
  <2>3. Live BY <2>2 DEF Copying, Live, Busy, IInv, ServedInv
  <2>4. win.start \in base .. lastSequence - 1 BY <2>1, <2>2 DEF IInv, ClientInv
  <2>5. Held(win.start) BY <2>2, <2>3, <2>4 DEF IInv, CarryInv
  <2>6. ~Held(win.start) BY <2>1 DEF IInv, WinInv, Held, Done
  <2> QED BY <2>5, <2>6
<1>2. Init => IInv /\ Unmarked
  <2>1. Init => Unmarked BY DEF Init, ClientInit, Unmarked
  <2> QED BY <2>1, InvInit
<1>3. IInv /\ Unmarked /\ [Next]_vars => (IInv /\ Unmarked)' BY InvNext, UnmarkedStep
<1> QED BY <1>1, <1>2, <1>3, PTL DEF Spec
=============================================================================
