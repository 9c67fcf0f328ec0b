----------------------------- MODULE CrpProofs -----------------------------
(***************************************************************************)
(* Proofs about CrpTransfer, for every value of its constants.             *)
(***************************************************************************)
EXTENDS CrpTransfer, TLAPS

\* An end between two steps: it has a command when it is about one, a request
\* when it answers one, and its window out while packets are unsent.
Fits(h) ==
  /\ h \in Host
  /\ h.pc # "overrun"
  /\ h.pc \notin {"idle", "dead"} => h.job \in Job
  /\ h.pc = "listen" => h.request \in Message
  /\ h.pc = "sending" /\ h.unsent > 0 =>
       h.i - h.j = h.win /\ h.i + h.unsent = Packets(h.job.file)

EndsFit ==
  /\ host \in [End -> Host]
  /\ \A e \in End : Fits(host[e])
  /\ net \subseteq Message

\* Whatever of ms can be packed is a message.
WellFormed(ms) == \A m \in ms : m.seq >= 0 /\ m.ack >= 0 => m \in Message

-----------------------------------------------------------------------------
(* What the operators on the state of an end keep. *)

LEMMA PacketsNat == ASSUME NEW f \in File PROVE Packets(f) \in Nat
<1> DEFINE a == f.len + MaxData - 1
<1>1. f.len \in Nat \ {0} /\ MaxData \in Nat \ {0} BY CrpAssumption DEF File
<1>2. a \in Nat BY <1>1
<1> HIDE DEF a
<1>3. (a \div MaxData) \in Nat BY <1>1, <1>2
<1> QED BY <1>3 DEF Packets, a

LEMMA SizeInt == ASSUME NEW f \in File, NEW k \in Nat PROVE Size(f, k) \in Int
<1>1. f.len \in Nat /\ MaxData \in Nat BY CrpAssumption DEF File
<1> DEFINE a == k * MaxData
<1>2. a \in Int BY <1>1
<1> HIDE DEF a
<1>3. f.len - a \in Int BY <1>1, <1>2
<1> QED BY <1>1, <1>3 DEF Size, a

LEMMA AtRestFits == Fits(AtRest)
  BY TransferAssumption DEF Fits, AtRest, Host

LEMMA ResetFits == ASSUME NEW h \in Host PROVE Fits(Reset(h))
<1>1. AtRest \in Host /\ AtRest.pc = "idle" BY AtRestFits DEF Fits, AtRest
<1>2. [AtRest EXCEPT !.saved = h.saved] \in Host
  BY <1>1 DEF Host
<1>3. [AtRest EXCEPT !.saved = h.saved].pc = "idle"
  BY <1>1 DEF Host
<1> QED BY <1>2, <1>3 DEF Fits, Reset

LEMMA DeadFits == ASSUME NEW h \in Host PROVE Fits(Dead(h))
  BY DEF Fits, Dead, Host

\* A step of end e that leads to h and sends ms.
LEMMA Becoming ==
  ASSUME EndsFit, NEW e \in End, NEW h, Fits(h), NEW ms, WellFormed(ms), Becomes(e, h, ms)
  PROVE  EndsFit'
<1> DEFINE packed == {m \in ms : m.seq >= 0 /\ m.ack >= 0}
<1> DEFINE g == IF packed = ms THEN h ELSE Dead(h)
<1>1. host' = [host EXCEPT ![e] = g] /\ net' = net \cup packed
  BY DEF Becomes
<1>2. Fits(g)
  BY DeadFits DEF Fits
<1>3. g \in Host
  BY <1>2 DEF Fits
<1> HIDE DEF g
<1>4. host' \in [End -> Host] /\ \A f \in End : Fits(host'[f])
  BY <1>1, <1>2, <1>3 DEF EndsFit
<1>5. net' \subseteq Message
  BY <1>1 DEF EndsFit, WellFormed
<1> QED BY <1>4, <1>5 DEF EndsFit, Fits

LEMMA AckForWellFormed ==
  ASSUME NEW e \in End, NEW m \in Message, NEW s \in Int, NEW x \in Int
  PROVE  WellFormed(AckFor(e, m, s, x))
  BY CrpAssumption DEF WellFormed, AckFor, Ack, Peer, End, Message

\* The counters are of no consequence to the rest.
LEMMA CountersFit ==
  ASSUME NEW h, Fits(h), NEW s \in Int, NEW x \in Int
  PROVE  Fits([h EXCEPT !.seq = s, !.ack = x])
  BY DEF Fits, Host

LEMMA CountedFits ==
  ASSUME NEW h, Fits(h), NEW m \in Message, NEW s \in Int, NEW x \in Int
  PROVE  Fits(Counted(h, m, s, x))
<1>1. s + 1 \in Int /\ x + 1 \in Int OBVIOUS
<1> QED BY <1>1, CountersFit DEF Counted

LEMMA PackedWellFormed ==
  ASSUME NEW e \in End, NEW h \in Host, h.job \in Job, NEW a \in Nat, NEW b \in Nat
  PROVE  WellFormed(Packed(e, h, a, b))
<1> SUFFICES ASSUME NEW m \in Packed(e, h, a, b), m.seq >= 0, m.ack >= 0
             PROVE  m \in Message
  BY DEF WellFormed
<1>1. PICK k \in a .. b - 1 : m = Data(e, h.job.file, k, h.seq + (k - a), h.ack)
  BY DEF Packed
<1> DEFINE s == h.seq + (k - a)
<1>2. k \in Nat BY <1>1
<1>3. s \in Int /\ h.ack \in Int BY <1>2 DEF Host
<1>4. h.job.file \in File BY DEF Job
<1> HIDE DEF s
<1>5. m.seq = s /\ m.ack = h.ack BY <1>1 DEF Data, s
<1>6. s \in Nat /\ h.ack \in Nat BY <1>3, <1>5
<1>7. m = [type |-> "data", to |-> Peer(e), seq |-> s, ack |-> h.ack,
           file |-> h.job.file, k |-> k]
  BY <1>1 DEF Data, s
<1> QED BY <1>2, <1>4, <1>6, <1>7 DEF Message, Peer, End

LEMMA SenderLoopFits == ASSUME NEW h, Fits(h) PROVE Fits(SenderLoop(h))
  BY ResetFits DEF Fits, SenderLoop

-----------------------------------------------------------------------------
(* The client asks, and the server answers. *)

Inv == EndsFit /\ given \in 0 .. MaxCommands /\ served \in 0 .. MaxServed

LEMMA CommandFits ==
  ASSUME Inv, NEW kind \in {"get", "post"}, NEW len \in Lengths, Command(kind, len)
  PROVE  Inv'
<1> DEFINE h == host["client"]
<1> DEFINE w == [kind |-> kind, file |-> [id |-> given + 1, len |-> len]]
<1> DEFINE g == [h EXCEPT !.pc = "request", !.job = w, !.seq = @ + 1]
<1> DEFINE ms == {Request(w, h.seq, h.ack)}
<1>1. given' \in 0 .. MaxCommands /\ served' = served
  BY CrpAssumption DEF Inv, Command
<1>2. w \in Job
  BY CrpAssumption DEF Inv, Command, Job, File
<1>3. Fits(h) BY DEF Inv, EndsFit, End
<1>4. Fits(g)
  <2> DEFINE s == h.seq + 1
  <2>1. s \in Int BY <1>3 DEF Fits, Host
  <2> HIDE DEF s, w
  <2> QED BY <1>2, <1>3, <2>1 DEF Fits, Host, s
<1>5. WellFormed(ms)
  BY <1>2, <1>3, CrpAssumption DEF WellFormed, Request, Message, End, Fits, Host
<1>6. Becomes("client", g, ms)
  BY DEF Command
<1> QED
  BY <1>1, <1>4, <1>5, <1>6, Becoming DEF Inv, End

LEMMA GrantedFits ==
  ASSUME Inv, NEW m \in net, Granted(m) PROVE Inv'
<1> DEFINE h == host["client"]
<1>1. Fits(h) /\ m \in Message BY DEF Inv, EndsFit, End
<1>2. m.type = "ack" /\ m.window \in Nat
  BY <1>1 DEF Granted, IsExpectedAck, Message
<1> DEFINE a == h.ack + 1
<1>3. a \in Int /\ 1 \in 0 .. MaxTries + MoreTries
  BY <1>1, TransferAssumption DEF Fits, Host
<1>4. h.job \in Job BY <1>1 DEF Fits, Granted
<1>5. Fits([h EXCEPT !.pc = "first", !.ack = a, !.tries = 1])
      /\ Fits([h EXCEPT !.pc = "pause", !.ack = a, !.win = m.window])
  <2> HIDE DEF a
  <2> QED BY <1>1, <1>2, <1>3, <1>4 DEF Fits, Host
<1>6. WellFormed({}) BY DEF WellFormed
<1> QED
  BY <1>5, <1>6, Becoming DEF Inv, End, Granted

LEMMA NotGrantedFits == ASSUME Inv, NotGranted PROVE Inv'
<1>1. WellFormed({}) BY DEF WellFormed
<1> QED
  BY <1>1, ResetFits, Becoming DEF Inv, EndsFit, End, NotGranted

LEMMA ServeFits == ASSUME Inv, NEW m \in net, Serve(m) PROVE Inv'
<1> DEFINE h == host["server"]
<1> DEFINE g == [h EXCEPT !.pc = "listen", !.job = m.job, !.request = m, !.win = m.window]
<1>1. Fits(h) /\ m \in Message BY DEF Inv, EndsFit, End
<1>2. m.job \in Job /\ m.window \in Nat
  BY <1>1 DEF Serve, Message
<1>3. Fits(g) BY <1>1, <1>2 DEF Fits, Host
<1>4. h.seq \in Int /\ h.ack \in Int BY <1>1 DEF Fits, Host
<1>5. Fits(Counted(g, m, h.seq, h.ack))
  BY <1>1, <1>3, <1>4, CountedFits
<1>6. WellFormed(AckFor("server", m, h.seq, h.ack))
  BY <1>1, <1>4, AckForWellFormed DEF End
<1>7. Becomes("server", Counted(g, m, h.seq, h.ack), AckFor("server", m, h.seq, h.ack))
  BY DEF Serve
<1>8. given' = given /\ served' \in 0 .. MaxServed
  BY TransferAssumption DEF Serve, Inv
<1> QED
  BY <1>5, <1>6, <1>7, <1>8, Becoming DEF Inv, End

LEMMA ServeAgainFits == ASSUME Inv, NEW m \in net, ServeAgain(m) PROVE Inv'
<1> DEFINE h == host["server"]
<1> DEFINE r == h.request
<1> DEFINE s == h.seq - 1
<1> DEFINE x == h.ack - 1
<1>1. Fits(h) BY DEF Inv, EndsFit, End
<1>2. r \in Message BY <1>1 DEF Fits, ServeAgain
<1>3. s \in Int /\ x \in Int BY <1>1 DEF Fits, Host
<1>4. Becomes("server", Counted(h, r, s, x), AckFor("server", r, s, x))
      /\ UNCHANGED <<given, served>>
  BY DEF ServeAgain
<1> HIDE DEF r, s, x
<1>5. Fits(Counted(h, r, s, x)) BY <1>1, <1>2, <1>3, CountedFits
<1>6. WellFormed(AckFor("server", r, s, x)) BY <1>2, <1>3, AckForWellFormed DEF End
<1> QED
  BY <1>4, <1>5, <1>6, Becoming DEF Inv, End

LEMMA LeftoverFits == ASSUME Inv, NEW m \in net, Leftover(m) PROVE Inv'
<1> DEFINE h == host["server"]
<1>1. Fits(h) BY DEF Inv, EndsFit, End
<1>2. Fits([h EXCEPT !.ack = @ + 1])
  <2> DEFINE a == h.ack + 1
  <2>1. a \in Int BY <1>1 DEF Fits, Host
  <2> HIDE DEF a
  <2>2. Fits([h EXCEPT !.ack = a]) BY <1>1, <2>1 DEF Fits, Host
  <2> QED BY <2>2 DEF a
<1>3. WellFormed({}) BY DEF WellFormed
<1> QED BY <1>2, <1>3, Becoming DEF Inv, End, Leftover

LEMMA UndecodableFits == ASSUME Inv, NEW m \in net, Undecodable(m) PROVE Inv'
<1>1. WellFormed({}) BY DEF WellFormed
<1> QED
  BY <1>1, DeadFits, Becoming DEF Inv, EndsFit, End, Undecodable

-----------------------------------------------------------------------------
(* The sender. *)

LEMMA StartSendingFits == ASSUME Inv, NEW e \in End, StartSending(e) PROVE Inv'
<1> DEFINE h == host[e]
<1> DEFINE n == Smaller(h.win, Packets(h.job.file))
<1> DEFINE p == Packets(h.job.file)
<1> DEFINE g == [h EXCEPT !.pc = "sending", !.seq = @ + n, !.i = n, !.j = 0,
                          !.unsent = p - n, !.tries = 0]
<1>1. Fits(h) /\ h \in Host BY DEF Inv, EndsFit, Fits
<1>2. h.job \in Job BY <1>1 DEF Fits, StartSending
<1>3. p \in Nat BY <1>2, PacketsNat DEF Job
<1>4. h.win \in Nat BY <1>1 DEF Host
<1>5. n \in Nat /\ p - n \in Nat /\ (p - n > 0 => n = h.win)
  BY <1>3, <1>4 DEF Smaller
<1>6. Becomes(e, g, Packed(e, h, 0, n)) /\ UNCHANGED <<given, served>>
  BY DEF StartSending
<1>7. WellFormed(Packed(e, h, 0, n))
  BY <1>1, <1>2, <1>5, PackedWellFormed
<1>8. g \in Host /\ g.pc = "sending" /\ g.job \in Job
  <2> DEFINE s == h.seq + n
  <2> DEFINE u == p - n
  <2>1. s \in Int /\ 0 \in 0 .. MaxTries + MoreTries
    BY <1>1, <1>5, TransferAssumption DEF Host
  <2> HIDE DEF n, p, s, u
  <2>2. u \in Nat BY <1>5 DEF u
  <2>3. g = [h EXCEPT !.pc = "sending", !.seq = s, !.i = n, !.j = 0, !.unsent = u, !.tries = 0]
    BY DEF s, u
  <2> HIDE DEF g
  <2> QED BY <1>1, <1>2, <1>5, <2>1, <2>2, <2>3 DEF Host
<1>9. g.unsent > 0 => g.i - g.j = g.win /\ g.i + g.unsent = Packets(g.job.file)
  <2>1. g.unsent = p - n /\ g.i = n /\ g.j = 0 /\ g.win = h.win /\ g.job = h.job
    <3> HIDE DEF n, p
    <3> QED BY <1>1 DEF Host
  <2> QED BY <2>1, <1>3, <1>4, <1>5
<1>10. Fits(g) BY <1>8, <1>9 DEF Fits
<1> QED BY <1>6, <1>7, <1>10, Becoming DEF Inv

LEMMA AckedAndSendFits ==
  ASSUME Inv, NEW e \in End, NEW m \in net, AckedAndSend(e, m) PROVE Inv'
<1> DEFINE h == host[e]
<1> DEFINE g == [h EXCEPT !.ack = @ + 1]
<1> DEFINE k == [g EXCEPT !.seq = @ + 1, !.i = @ + 1, !.j = @ + 1,
                          !.unsent = @ - 1, !.tries = 0]
<1>1. Fits(h) /\ h \in Host BY DEF Inv, EndsFit, Fits
<1>2. h.pc = "sending" /\ h.unsent > 0 /\ h.job \in Job
  BY <1>1 DEF AckedAndSend, Fits
<1>3. Packets(h.job.file) \in Nat BY <1>2, PacketsNat DEF Job
<1>4. Becomes(e, SenderLoop(k), Packed(e, g, h.i, h.i + 1)) /\ UNCHANGED <<given, served>>
  BY DEF AckedAndSend
<1>5. k \in Host /\ k.pc = "sending" /\ k.job = h.job
  <2> DEFINE a == h.ack + 1
  <2> DEFINE q == h.seq + 1
  <2> DEFINE i1 == h.i + 1
  <2> DEFINE j1 == h.j + 1
  <2> DEFINE u == h.unsent - 1
  <2>1. a \in Int /\ q \in Int /\ i1 \in Nat /\ j1 \in Nat /\ u \in Nat
        /\ 0 \in 0 .. MaxTries + MoreTries
    <3>1. h.ack \in Int /\ h.seq \in Int /\ h.i \in Nat /\ h.j \in Nat /\ h.unsent \in Nat
      BY <1>1 DEF Host
    <3>2. h.unsent > 0 BY <1>2
    <3>3. 0 \in 0 .. MaxTries + MoreTries BY TransferAssumption
    <3> HIDE DEF h
    <3> QED BY <3>1, <3>2, <3>3
  <2>2. k = [h EXCEPT !.ack = a, !.seq = q, !.i = i1, !.j = j1, !.unsent = u, !.tries = 0]
    BY <1>1 DEF Host
  <2> HIDE DEF a, q, i1, j1, u, k
  <2> QED BY <1>1, <1>2, <2>1, <2>2 DEF Host
<1>6. k.i = h.i + 1 /\ k.j = h.j + 1 /\ k.unsent = h.unsent - 1 /\ k.win = h.win
  BY <1>1 DEF Host
<1>7. h.i - h.j = h.win /\ h.i + h.unsent = Packets(h.job.file)
  BY <1>1, <1>2 DEF Fits
<1>8. Fits(k)
  <2> HIDE DEF k
  <2>1. h.i \in Nat /\ h.j \in Nat /\ h.unsent \in Nat /\ h.win \in Nat BY <1>1 DEF Host
  <2> QED BY <1>2, <1>3, <1>5, <1>6, <1>7, <2>1 DEF Fits
<1>9. g \in Host /\ g.job \in Job
  <2> DEFINE a == h.ack + 1
  <2>1. a \in Int BY <1>1 DEF Host
  <2>2. g = [h EXCEPT !.ack = a] OBVIOUS
  <2> HIDE DEF a, g
  <2> QED BY <1>1, <1>2, <2>1, <2>2 DEF Host
<1>10. h.i \in Nat /\ h.i + 1 \in Nat BY <1>1 DEF Host
<1>11. WellFormed(Packed(e, g, h.i, h.i + 1))
  <2> HIDE DEF g
  <2> QED BY <1>9, <1>10, PackedWellFormed
<1>12. Fits(SenderLoop(k)) BY <1>8, SenderLoopFits
<1> QED BY <1>4, <1>11, <1>12, Becoming DEF Inv

LEMMA AckedFits == ASSUME Inv, NEW e \in End, NEW m \in net, Acked(e, m) PROVE Inv'
<1> DEFINE h == host[e]
<1> DEFINE g == [h EXCEPT !.ack = @ + 1, !.j = @ + 1]
<1>1. Fits(h) BY DEF Inv, EndsFit
<1>2. Fits(g)
  <2> DEFINE a == h.ack + 1
  <2> DEFINE j1 == h.j + 1
  <2>1. a \in Int /\ j1 \in Nat BY <1>1 DEF Fits, Host
  <2>2. h.pc = "sending" /\ h.unsent = 0 BY DEF Acked
  <2>3. g = [h EXCEPT !.ack = a, !.j = j1] OBVIOUS
  <2>4. h \in Host /\ h.job \in Job BY <1>1, <2>2 DEF Fits
  <2> HIDE DEF a, j1, g
  <2>5. g \in Host /\ g.pc = "sending" /\ g.unsent = 0 /\ g.job \in Job
    BY <2>1, <2>2, <2>3, <2>4 DEF Host
  <2> QED BY <2>5 DEF Fits
<1>3. Fits(SenderLoop(g)) BY <1>2, SenderLoopFits
<1>4. WellFormed({}) BY DEF WellFormed
<1> QED BY <1>3, <1>4, Becoming DEF Inv, Acked

LEMMA SendAgainFits == ASSUME Inv, NEW e \in End, SendAgain(e) PROVE Inv'
<1> DEFINE h == host[e]
<1> DEFINE t == Tries(h)
<1> DEFINE g == [h EXCEPT !.tries = t, !.seq = @ - (h.i - h.j), !.i = h.j]
<1> DEFINE b == Smaller(h.j + h.win, Packets(h.job.file))
<1>1. Fits(h) /\ h \in Host BY DEF Inv, EndsFit, Fits
<1>2. h.pc = "sending" /\ h.job \in Job /\ t <= MaxTries
  BY <1>1 DEF SendAgain, Fits
<1>3. h.i \in Nat /\ h.j \in Nat /\ h.unsent \in Nat /\ h.win \in Nat /\ h.seq \in Int
      /\ h.tries \in Nat
  BY <1>1, TransferAssumption DEF Host
<1>4. t \in 0 .. MaxTries + MoreTries
  BY <1>2, <1>3, TransferAssumption DEF Tries
<1>5. UNCHANGED <<given, served>> BY DEF SendAgain
<1>6. CASE h.unsent = 0
  <2>1. Becomes(e, g, {}) BY <1>6 DEF SendAgain
  <2>2. Fits(g)
    <3> DEFINE q == h.seq - (h.i - h.j)
    <3>1. q \in Int BY <1>3
    <3> HIDE DEF t, q
    <3>2. g = [h EXCEPT !.tries = t, !.seq = q, !.i = h.j] BY DEF q
    <3> HIDE DEF g
    <3>3. g \in Host /\ g.pc = "sending" /\ g.unsent = 0 /\ g.job \in Job
      BY <1>1, <1>2, <1>3, <1>4, <1>6, <3>1, <3>2 DEF Host
    <3> QED BY <3>3 DEF Fits
  <2>3. WellFormed({}) BY DEF WellFormed
  <2> QED BY <1>5, <2>1, <2>2, <2>3, Becoming DEF Inv
<1>7. CASE h.unsent > 0
  <2> DEFINE k == [g EXCEPT !.seq = @ + (b - h.j), !.i = b,
                            !.pc = IF b = h.j + h.win THEN @ ELSE "overrun"]
  <2>1. Becomes(e, k, Packed(e, g, h.j, b)) BY <1>3, <1>7 DEF SendAgain
  <2>2. h.i - h.j = h.win /\ h.i + h.unsent = Packets(h.job.file)
    BY <1>1, <1>2, <1>7 DEF Fits
  \* The window goes no further than it has been.
  <2>3. b = h.i /\ b = h.j + h.win
    BY <1>3, <2>2 DEF Smaller
  <2>4. g \in Host /\ g.job \in Job
    <3> DEFINE q == h.seq - (h.i - h.j)
    <3>1. q \in Int BY <1>3
    <3>2. g = [h EXCEPT !.tries = t, !.seq = q, !.i = h.j] OBVIOUS
    <3> HIDE DEF t, q, g
    <3> QED BY <1>1, <1>2, <1>3, <1>4, <3>1, <3>2 DEF Host
  <2>5. k \in Host /\ k.pc = "sending" /\ k.i = h.i /\ k.j = h.j /\ k.win = h.win
        /\ k.unsent = h.unsent /\ k.job = h.job
    <3> DEFINE q == h.seq - (h.i - h.j) + (b - h.j)
    <3>1. q \in Int BY <1>3, <2>3
    <3> HIDE DEF t, b
    <3>2. k = [h EXCEPT !.tries = t, !.seq = q, !.i = b]
      BY <1>1, <1>2, <2>3 DEF Host
    <3> HIDE DEF q, k
    <3> QED BY <1>1, <1>2, <1>3, <1>4, <2>3, <3>1, <3>2 DEF Host
  <2>6. Fits(k)
    <3> HIDE DEF k
    <3> QED BY <1>2, <2>2, <2>5 DEF Fits
  <2>7. WellFormed(Packed(e, g, h.j, b))
    <3> HIDE DEF g, b
    <3> QED BY <1>3, <2>3, <2>4, PackedWellFormed
  <2> QED BY <1>5, <2>1, <2>6, <2>7, Becoming DEF Inv
<1> QED BY <1>3, <1>6, <1>7

LEMMA SenderEndsFits ==
  ASSUME Inv, NEW e \in End, Unsure(e) \/ DamagedAck(e) PROVE Inv'
<1>1. WellFormed({}) BY DEF WellFormed
<1> QED
  BY <1>1, ResetFits, DeadFits, Becoming DEF Inv, EndsFit, Unsure, DamagedAck

-----------------------------------------------------------------------------
(* The receiver. *)

LEMMA ReceiverLoopFits ==
  ASSUME NEW h, Fits(h), h.job \in Job PROVE Fits(ReceiverLoop(h))
<1> DEFINE r == Reset(h)
<1> DEFINE v == [job |-> h.job, content |-> h.content]
<1>1. h \in Host BY DEF Fits
<1>2. r \in Host /\ r.pc = "idle"
  BY <1>1, ResetFits DEF Fits, Reset, AtRest
<1>3. v \in [job : Job, content : Seq(File \X Nat)]
  BY <1>1 DEF Host
<1>4. [r EXCEPT !.saved = v] \in Host /\ [r EXCEPT !.saved = v].pc = "idle"
  <2> HIDE DEF r, v
  <2> QED BY <1>2, <1>3 DEF Host
<1>5. Fits([r EXCEPT !.saved = v])
  BY <1>4 DEF Fits
<1> QED BY <1>5 DEF ReceiverLoop

\* Another try, or none.
LEMMA TriedFits ==
  ASSUME NEW h, Fits(h), NEW t \in 0 .. MaxTries + MoreTries
  PROVE  Fits([h EXCEPT !.tries = t])
  BY DEF Fits, Host

LEMMA TryFits == ASSUME NEW h, Fits(h) PROVE Fits(TryFirst(h)) /\ Fits(TryData(h))
<1> DEFINE t == h.tries + 1
<1>1. h \in Host BY DEF Fits
<1>2. h.tries \in 0 .. MaxTries + MoreTries BY <1>1 DEF Host
<1>3. h.tries < MaxTries \/ h.tries < MaxTries + MoreTries => t \in 0 .. MaxTries + MoreTries
  BY <1>2, TransferAssumption
<1> HIDE DEF t
<1>4. h.tries < MaxTries \/ h.tries < MaxTries + MoreTries => Fits([h EXCEPT !.tries = t])
  BY <1>3, TriedFits
<1> QED BY <1>1, <1>4, ResetFits DEF TryFirst, TryData, t

LEMMA StartReceivingFits == ASSUME Inv, StartReceiving PROVE Inv'
<1> DEFINE h == host["server"]
<1> DEFINE g == [h EXCEPT !.pc = "first", !.tries = 1]
<1>1. Fits(h) /\ h \in Host BY DEF Inv, EndsFit, End, Fits
<1>2. h.job \in Job BY <1>1 DEF Fits, StartReceiving
<1>3. 1 \in 0 .. MaxTries + MoreTries BY TransferAssumption
<1>4. Fits(g) BY <1>1, <1>2, <1>3 DEF Fits, Host
<1>5. WellFormed({}) BY DEF WellFormed
<1> QED BY <1>4, <1>5, Becoming DEF Inv, End, StartReceiving

LEMMA NothingReceivedFits == ASSUME Inv, NEW e \in End, NothingReceived(e) PROVE Inv'
<1>1. Fits(TryFirst(host[e])) /\ Fits(TryData(host[e])) BY TryFits DEF Inv, EndsFit
<1>2. WellFormed({}) BY DEF WellFormed
<1> QED BY <1>1, <1>2, Becoming DEF Inv, NothingReceived

\* What send_ack makes of a datagram that has come.
LEMMA CountedAndAcked ==
  ASSUME Inv, NEW e \in End, NEW m \in net
  PROVE  /\ m \in Message
         /\ Fits(host[e])
         /\ Fits(Counted(host[e], m, host[e].seq, host[e].ack))
         /\ WellFormed(AckFor(e, m, host[e].seq, host[e].ack))
<1>1. Fits(host[e]) /\ m \in Message BY DEF Inv, EndsFit
<1>2. host[e].seq \in Int /\ host[e].ack \in Int BY <1>1 DEF Fits, Host
<1> QED BY <1>1, <1>2, CountedFits, AckForWellFormed

LEMMA UnexpectedFits == ASSUME Inv, NEW e \in End, NEW m \in net, Unexpected(e, m) PROVE Inv'
  BY CountedAndAcked, TryFits, Becoming DEF Inv, Unexpected

LEMMA FirstPacketFits == ASSUME Inv, NEW e \in End, NEW m \in net, FirstPacket(e, m) PROVE Inv'
<1> DEFINE h == host[e]
<1> DEFINE g == Counted(h, m, h.seq, h.ack)
<1> DEFINE ms == AckFor(e, m, h.seq, h.ack)
<1>1. m \in Message /\ Fits(h) /\ Fits(g) /\ WellFormed(ms)
  BY CountedAndAcked
<1>2. g \in Host BY <1>1 DEF Fits
<1>3. h.job \in Job BY <1>1 DEF Fits, FirstPacket
<1>4. g.job = h.job BY <1>1 DEF Counted, Fits, Host
<1>5. UNCHANGED <<given, served>> BY DEF FirstPacket
<1>6. CASE m.type # "data"
  <2>1. Becomes(e, Dead(g), ms) BY <1>6 DEF FirstPacket
  <2> HIDE DEF g, ms
  <2> QED BY <1>1, <1>2, <1>5, <2>1, DeadFits, Becoming DEF Inv
<1>7. CASE m.type = "data"
  <2>1. m.file \in File /\ m.k \in Nat BY <1>1, <1>7 DEF Message
  <2>2. PICK n \in Announced(m) :
          Becomes(e, ReceiverLoop([g EXCEPT !.pc = "data", !.tries = 0,
                                            !.content = <<<<m.file, m.k>>>>,
                                            !.unread = n - (1 + Size(m.file, m.k))]), ms)
    BY <1>7 DEF FirstPacket
  <2> DEFINE u == n - (1 + Size(m.file, m.k))
  <2> DEFINE c == <<<<m.file, m.k>>>>
  <2> DEFINE k == [g EXCEPT !.pc = "data", !.tries = 0, !.content = c, !.unread = u]
  <2>3. n \in Int
    <3>1. m.file.len \in Lengths BY <2>1 DEF File
    <3>2. n \in Lengths BY <2>2, <3>1 DEF Announced
    <3> QED BY <3>2, CrpAssumption
  <2>4. u \in Int BY <2>1, <2>3, SizeInt
  <2>5. c \in Seq(File \X Nat) BY <2>1
  <2>6. 0 \in 0 .. MaxTries + MoreTries BY TransferAssumption
  <2>7. Becomes(e, ReceiverLoop(k), ms) BY <2>2
  <2> HIDE DEF g, u, c, ms
  <2>8. k \in Host /\ k.pc = "data" /\ k.job \in Job
    BY <1>2, <1>3, <1>4, <2>4, <2>5, <2>6 DEF Host
  <2> HIDE DEF k
  <2>9. Fits(ReceiverLoop(k)) BY <2>8, ReceiverLoopFits DEF Fits
  <2> QED BY <1>1, <1>5, <2>7, <2>9, Becoming DEF Inv
<1> QED BY <1>6, <1>7

LEMMA NextPacketFits == ASSUME Inv, NEW e \in End, NEW m \in net, NextPacket(e, m) PROVE Inv'
<1> DEFINE h == host[e]
<1> DEFINE f == Counted(h, m, h.seq, h.ack)
<1> DEFINE g == [f EXCEPT !.tries = 0]
<1> DEFINE ms == AckFor(e, m, h.seq, h.ack)
<1>1. m \in Message /\ Fits(h) /\ Fits(f) /\ WellFormed(ms)
  BY CountedAndAcked
<1>2. Fits(g) /\ g \in Host
  BY <1>1, TriedFits, TransferAssumption DEF Fits
<1>3. f \in Host BY <1>1 DEF Fits
<1>4. h.job \in Job /\ h.pc = "data" BY <1>1 DEF Fits, NextPacket
<1>5. f.job = h.job /\ f.pc = h.pc BY <1>1 DEF Counted, Fits, Host
<1>6. g.job = h.job /\ g.pc = "data"
  <2> HIDE DEF f
  <2> QED BY <1>3, <1>4, <1>5 DEF Host
<1>7. UNCHANGED <<given, served>> BY DEF NextPacket
<1>8. CASE m.type # "data"
  <2>1. Becomes(e, g, ms) BY <1>8 DEF NextPacket
  <2> HIDE DEF g, ms
  <2> QED BY <1>1, <1>2, <1>7, <2>1, Becoming DEF Inv
<1>9. CASE m.type = "data"
  <2>1. m.file \in File /\ m.k \in Nat BY <1>1, <1>9 DEF Message
  <2> DEFINE c == Append(g.content, <<m.file, m.k>>)
  <2> DEFINE u == g.unread - Size(m.file, m.k)
  <2> DEFINE k == [g EXCEPT !.content = c, !.unread = u]
  <2>2. Becomes(e, ReceiverLoop(k), ms) BY <1>9 DEF NextPacket
  <2> HIDE DEF g
  <2>3. g.content \in Seq(File \X Nat) /\ g.unread \in Int BY <1>2 DEF Host
  <2>4. c \in Seq(File \X Nat)
    <3>1. <<m.file, m.k>> \in File \X Nat BY <2>1
    <3> QED BY <2>3, <3>1
  <2>5. u \in Int BY <2>1, <2>3, SizeInt
  <2> HIDE DEF c, u, ms
  <2>6. k \in Host /\ k.pc = "data" /\ k.job \in Job
    BY <1>2, <1>4, <1>6, <2>4, <2>5 DEF Host
  <2> HIDE DEF k
  <2>7. Fits(ReceiverLoop(k)) BY <2>6, ReceiverLoopFits DEF Fits
  <2> QED BY <1>1, <1>7, <2>2, <2>7, Becoming DEF Inv
<1> QED BY <1>8, <1>9

-----------------------------------------------------------------------------

LEMMA InvInit == Init => Inv
  BY AtRestFits, CrpAssumption, TransferAssumption DEF Init, Inv, EndsFit, Fits

LEMMA ReceiveFits == ASSUME Inv, NEW e \in End, NEW m \in net, Receive(e, m) PROVE Inv'
  BY AckedAndSendFits, AckedFits, UnexpectedFits, FirstPacketFits, NextPacketFits DEF Receive

LEMMA TimeoutFits == ASSUME Inv, NEW e \in End, Timeout(e) \/ DamagedAck(e) PROVE Inv'
  BY SendAgainFits, SenderEndsFits, NothingReceivedFits DEF Timeout

LEMMA InvStep == ASSUME Inv, [Next]_vars PROVE Inv'
<1>1. CASE ClientNext
  <2>1. CASE \E kind \in {"get", "post"}, len \in Lengths : Command(kind, len)
    BY <2>1, CommandFits
  <2>2. CASE \E m \in net : m.to = "client" /\ (Granted(m) \/ Receive("client", m))
    BY <2>2, GrantedFits, ReceiveFits DEF End
  <2>3. CASE NotGranted \/ StartSending("client")
    BY <2>3, NotGrantedFits, StartSendingFits DEF End
  <2>4. CASE Timeout("client") \/ DamagedAck("client")
    BY <2>4, TimeoutFits DEF End
  <2> QED BY <1>1, <2>1, <2>2, <2>3, <2>4 DEF ClientNext
<1>2. CASE ServerNext
  <2>1. ASSUME NEW m \in net, m.to = "server",
               \/ Serve(m) \/ ServeAgain(m) \/ Leftover(m) \/ Undecodable(m)
               \/ Receive("server", m)
        PROVE  Inv'
    BY <2>1, ServeFits, ServeAgainFits, LeftoverFits, UndecodableFits, ReceiveFits DEF End
  <2>2. CASE StartSending("server") \/ StartReceiving
    BY <2>2, StartSendingFits, StartReceivingFits DEF End
  <2>3. CASE Timeout("server") \/ DamagedAck("server")
    BY <2>3, TimeoutFits DEF End
  <2> QED BY <1>2, <2>1, <2>2, <2>3 DEF ServerNext
<1>3. CASE UNCHANGED vars
  BY <1>3 DEF vars, Inv, EndsFit, Fits
<1> QED BY <1>1, <1>2, <1>3 DEF Next

\* Between two steps each end is as Fits says, whatever the network and the
\* other end do.
THEOREM Invariance == Spec => []Inv
  BY InvInit, InvStep, PTL DEF Spec

\* The types, and that only well-formed datagrams are about: a header whose
\* number is below zero is not packed.
THEOREM TypeCorrect == Spec => []TypeOK
<1>1. Inv => TypeOK BY DEF Inv, EndsFit, TypeOK
<1> QED BY <1>1, Invariance, PTL

\* The sender's loops (api.get_server, api.post_client) never run past their
\* list of packets, for any windows and any files.
THEOREM WindowNeverLeft == Spec => []WindowKept
<1>1. Inv => WindowKept BY DEF Inv, EndsFit, WindowKept, Fits
<1> QED BY <1>1, Invariance, PTL
=============================================================================
