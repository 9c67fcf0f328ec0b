--------------------------- MODULE CrpFileProofs ---------------------------
(***************************************************************************)
(* What a receiver of CrpTransfer gets, when one command is given and      *)
(* served once: proofs for every window, file and number of tries.  With   *)
(* more commands it is not so (RightFile).                                 *)
(***************************************************************************)
EXTENDS CrpProofs

Once == MaxCommands = 1 /\ MaxServed = 1

\* No stream's last segment is of one byte.
NoOneByteTail == \A len \in Lengths, n \in Nat : n * MaxData # len - 1

Receiver(w) == IF w.kind = "get" THEN "client" ELSE "server"

\* The first n segments of the file f.
FirstOf(f, c) ==
  Len(c) <= Packets(f) /\ \A n \in 1 .. Len(c) : c[n] = <<f, n - 1>>

\* What remains to be read after n segments, less the byte too many that is
\* taken off with the first.
Remains(f, n) == IF n * MaxData <= f.len THEN f.len - 1 - n * MaxData ELSE -1

\* A datagram of the command w: the data has the number of its segment, plus
\* one for the request; nothing else that the receiver gets has one as high.
Numbered(w, m) ==
  /\ m.type = "request" => m.job = w /\ m.seq = 0 /\ m.ack = 0
  /\ m.type = "data" =>
       /\ m.file = w.file /\ m.to = Receiver(w)
       /\ m.k < Packets(w.file) /\ m.seq = m.k + 1
  /\ m.type = "ack" /\ m.to = Receiver(w) => m.seq = 0

\* An end that has to do with the command w.
Placed(e, w, h) ==
  /\ h.pc \notin {"idle", "dead"} => h.job = w
  /\ h.pc = "request" => e = "client" /\ h.seq = 1 /\ h.ack = 0
  /\ h.pc = "listen" =>
       e = "server" /\ h.seq = 1 /\ h.ack = 1 /\ h.request.seq = 0 /\ h.request.ack = 0
  /\ h.pc = "pause" => e = "client" /\ w.kind = "post" /\ h.seq = 1
  /\ h.pc = "sending" => e # Receiver(w) /\ h.seq = h.i + 1
  /\ h.pc \in {"first", "data"} => e = Receiver(w)
  /\ h.pc = "first" => h.ack = 1
  /\ h.pc \notin {"data", "dead"} => h.content = <<>>
  /\ h.pc = "data" =>
       /\ h.ack = Len(h.content) + 1 /\ Len(h.content) > 0 /\ FirstOf(w.file, h.content)
       /\ h.unread = Remains(w.file, Len(h.content))
  /\ h.saved # None =>
       /\ FirstOf(h.saved.job.file, h.saved.content)
       /\ Remains(h.saved.job.file, Len(h.saved.content)) <= 0

Single(w) ==
  /\ \A e \in End : Placed(e, w, host[e])
  /\ \A m \in net : Numbered(w, m)

Untouched == net = {} /\ host = [e \in End |-> AtRest]

\* Before the request is served there is nothing but the request.
Unserved ==
  /\ host["server"] = AtRest
  /\ host["client"].pc \in {"idle", "request", "dead"}
  /\ \A m \in net : m.type = "request"

OneInv ==
  /\ Inv
  /\ given = 0 => Untouched
  /\ served = 0 => Unserved
  /\ given # 0 => \E w \in Job : Single(w)

-----------------------------------------------------------------------------
(* What the operators on the state of an end keep. *)

LEMMA AtRestPlaced == ASSUME NEW e, NEW w PROVE Placed(e, w, AtRest)
  BY DEF Placed, AtRest

LEMMA ResetPlaced ==
  ASSUME NEW e, NEW w, NEW h \in Host, Placed(e, w, h) PROVE Placed(e, w, Reset(h))
<1>1. Reset(h).pc = "idle" /\ Reset(h).saved = h.saved /\ Reset(h).content = <<>>
  BY DEF Reset, AtRest
<1> QED BY <1>1 DEF Placed

LEMMA DeadPlaced ==
  ASSUME NEW e, NEW w, NEW h \in Host, Placed(e, w, h) PROVE Placed(e, w, Dead(h))
<1>1. Dead(h).pc = "dead" /\ Dead(h).saved = h.saved BY DEF Dead, Host
<1> QED BY <1>1 DEF Placed

\* A step of end e that leads to h and sends ms.
LEMMA SingleBecoming ==
  ASSUME Inv, NEW w \in Job, Single(w), NEW e \in End, NEW h \in Host, Placed(e, w, h),
         NEW ms, \A m \in ms : m.seq >= 0 /\ m.ack >= 0 => Numbered(w, m), Becomes(e, h, ms)
  PROVE  Single(w)'
<1> DEFINE packed == {m \in ms : m.seq >= 0 /\ m.ack >= 0}
<1> DEFINE g == IF packed = ms THEN h ELSE Dead(h)
<1>1. host' = [host EXCEPT ![e] = g] /\ net' = net \cup packed
  BY DEF Becomes
<1>2. Placed(e, w, g)
  BY DeadPlaced
<1>3. \A m \in net' : Numbered(w, m)
  BY <1>1 DEF Single
<1> HIDE DEF g
<1>4. \A f \in End : Placed(f, w, host'[f])
  BY <1>1, <1>2 DEF Single, Inv, EndsFit
<1> QED BY <1>3, <1>4 DEF Single

LEMMA EndOf ==
  ASSUME Inv, NEW w, Single(w), NEW e \in End
  PROVE  /\ host[e] \in Host /\ Fits(host[e]) /\ Placed(e, w, host[e])
         /\ host[e].seq \in Int /\ host[e].ack \in Int
         /\ host[e].i \in Nat /\ host[e].j \in Nat /\ host[e].win \in Nat /\ host[e].unsent \in Nat
<1>1. Fits(host[e]) /\ Placed(e, w, host[e]) BY DEF Inv, EndsFit, Single
<1> QED BY <1>1 DEF Fits, Host

\* What the receiver answers goes to the sender.
LEMMA AcksNumbered ==
  ASSUME NEW w \in Job, NEW e \in End, e = Receiver(w), NEW m, NEW s, NEW x,
         NEW a \in AckFor(e, m, s, x)
  PROVE  Numbered(w, a)
  BY DEF AckFor, Ack, Numbered, Receiver, Peer, End

LEMMA CountedKeeps ==
  ASSUME NEW h \in Host, NEW m, NEW g, g = Counted(h, m, h.seq, h.ack)
  PROVE  /\ g \in Host /\ g.ack = IF m.seq = h.ack THEN h.ack + 1 ELSE h.ack
         /\ g.pc = h.pc /\ g.job = h.job /\ g.content = h.content
         /\ g.unread = h.unread /\ g.saved = h.saved
<1> DEFINE s == h.seq + 1
<1> DEFINE x == h.ack + 1
<1>1. h.seq \in Int /\ h.ack \in Int /\ s \in Int /\ x \in Int BY DEF Host
<1>2. CASE m.seq = h.ack
  <2>1. g = [h EXCEPT !.seq = s, !.ack = x] BY <1>2 DEF Counted
  <2> HIDE DEF s, x
  <2>2. /\ g \in Host /\ g.ack = x
        /\ g.pc = h.pc /\ g.job = h.job /\ g.content = h.content
        /\ g.unread = h.unread /\ g.saved = h.saved
    BY <1>1, <2>1 DEF Host
  <2> QED BY <1>2, <2>2 DEF x
<1>3. CASE m.seq # h.ack
  <2>1. g = [h EXCEPT !.seq = h.seq, !.ack = h.ack] BY <1>3 DEF Counted
  <2> QED BY <1>1, <1>3, <2>1 DEF Host
<1> QED BY <1>2, <1>3

LEMMA TryPlaced ==
  ASSUME NEW e, NEW w, NEW h \in Host, Fits(h), Placed(e, w, h)
  PROVE  /\ TryFirst(h) \in Host /\ Placed(e, w, TryFirst(h))
         /\ TryData(h) \in Host /\ Placed(e, w, TryData(h))
<1> DEFINE t == h.tries + 1
<1>1. TryFirst(h) \in Host /\ TryData(h) \in Host BY TryFits DEF Fits
<1> HIDE DEF t
<1>2. Placed(e, w, [h EXCEPT !.tries = t]) BY DEF Placed, Host
<1> QED BY <1>1, <1>2, ResetPlaced DEF TryFirst, TryData, t

-----------------------------------------------------------------------------
(* The request. *)

LEMMA CommandSingle ==
  ASSUME Once, Inv, given = 0, Untouched,
         NEW kind \in {"get", "post"}, NEW len \in Lengths, Command(kind, len)
  PROVE  \E w \in Job : Single(w)'
<1> DEFINE h == host["client"]
<1> DEFINE w == [kind |-> kind, file |-> [id |-> 1, len |-> len]]
<1> DEFINE g == [h EXCEPT !.pc = "request", !.job = w, !.seq = @ + 1]
<1> DEFINE ms == {Request(w, h.seq, h.ack)}
<1>1. w \in Job /\ given + 1 = 1 BY CrpAssumption DEF Once, Job, File
<1>2. h = AtRest /\ h.seq = 0 /\ h.ack = 0 BY DEF Untouched, AtRest, End
<1>3. Becomes("client", g, ms) BY <1>1 DEF Command
<1>4. Single(w)
  BY AtRestPlaced DEF Single, Untouched
<1>5. g \in Host
  <2>1. Inv' BY CommandFits
  <2>2. h \in Host BY EndOf, <1>1, <1>4 DEF End
  <2> DEFINE q == h.seq + 1
  <2>3. q \in Int BY <1>2
  <2> HIDE DEF q, w, h
  <2>4. [h EXCEPT !.pc = "request", !.job = w, !.seq = q] \in Host
    BY <1>1, <2>2, <2>3 DEF Host
  <2> QED BY <2>4 DEF q, h
<1>6. g.pc = "request" /\ g.job = w /\ g.seq = 1 /\ g.ack = 0 /\ g.saved = None
      /\ g.content = <<>>
  <2> HIDE DEF w
  <2> QED BY <1>2 DEF AtRest
<1>7. Placed("client", w, g) BY <1>6 DEF Placed
<1>8. \A m \in ms : Numbered(w, m) BY <1>2 DEF Request, Numbered
<1>9. Single(w)'
  <2> HIDE DEF w, g, ms
  <2> QED BY <1>1, <1>3, <1>4, <1>5, <1>7, <1>8, SingleBecoming DEF End
<1> QED BY <1>1, <1>9

LEMMA GrantedSingle ==
  ASSUME Inv, NEW w \in Job, Single(w), NEW m \in net, Granted(m) PROVE Single(w)'
<1> DEFINE h == host["client"]
<1> DEFINE a == h.ack + 1
<1> DEFINE g == [h EXCEPT !.pc = "first", !.ack = a, !.tries = 1]
<1> DEFINE p == [h EXCEPT !.pc = "pause", !.ack = a, !.win = m.window]
<1>1. h \in Host /\ Placed("client", w, h) /\ h.ack \in Int BY EndOf DEF End
<1>2. h.pc = "request" /\ h.job = w /\ h.seq = 1 /\ h.ack = 0
  BY <1>1 DEF Granted, Placed
<1>3. m \in Message BY DEF Inv, EndsFit
<1>4. m.window \in Nat BY <1>3 DEF Granted, IsExpectedAck, Message
<1>5. a = 1 /\ a \in Int /\ 1 \in 0 .. MaxTries + MoreTries BY <1>2, TransferAssumption
<1>6. CASE w.kind = "get"
  <2>1. Becomes("client", g, {}) BY <1>2, <1>6 DEF Granted
  <2> HIDE DEF a, h
  <2>2. g \in Host /\ g.pc = "first" /\ g.job = w /\ g.ack = 1 /\ g.saved = h.saved
        /\ g.content = h.content
    BY <1>1, <1>2, <1>5 DEF Host
  <2> HIDE DEF g
  <2>3. Placed("client", w, g) BY <1>1, <1>2, <1>6, <2>2 DEF Placed, Receiver
  <2> QED BY <2>1, <2>2, <2>3, SingleBecoming DEF End
<1>7. CASE w.kind = "post"
  <2>1. Becomes("client", p, {}) BY <1>2, <1>7 DEF Granted
  <2> HIDE DEF a, h
  <2>2. p \in Host /\ p.pc = "pause" /\ p.job = w /\ p.seq = 1 /\ p.saved = h.saved
        /\ p.content = h.content
    BY <1>1, <1>2, <1>4, <1>5 DEF Host
  <2> HIDE DEF p
  <2>3. Placed("client", w, p) BY <1>1, <1>2, <1>7, <2>2 DEF Placed, Receiver
  <2> QED BY <2>1, <2>2, <2>3, SingleBecoming DEF End
<1> QED BY <1>6, <1>7 DEF Job

LEMMA NotGrantedSingle ==
  ASSUME Inv, NEW w \in Job, Single(w), NotGranted PROVE Single(w)'
<1>1. host["client"] \in Host /\ Placed("client", w, host["client"]) BY EndOf DEF End
<1>2. Reset(host["client"]) \in Host /\ Placed("client", w, Reset(host["client"]))
  BY <1>1, ResetFits, ResetPlaced DEF Fits
<1> QED BY <1>2, SingleBecoming DEF NotGranted, End

LEMMA ServeSingle ==
  ASSUME Inv, NEW w \in Job, Single(w), host["server"] = AtRest, NEW m \in net, Serve(m)
  PROVE  Single(w)'
<1> DEFINE g == [AtRest EXCEPT !.pc = "listen", !.job = m.job, !.request = m, !.win = m.window]
<1> DEFINE c == Counted(g, m, 0, 0)
<1> DEFINE ms == AckFor("server", m, 0, 0)
<1>1. m \in Message /\ m.type = "request" /\ Numbered(w, m)
  BY DEF Inv, EndsFit, Single, Serve
<1>2. m.seq = 0 /\ m.ack = 0 /\ m.job = w /\ m.window \in Nat
  BY <1>1 DEF Numbered, Message
<1>3. AtRest.seq = 0 /\ AtRest.ack = 0 BY DEF AtRest
<1>4. Becomes("server", c, ms) BY <1>3 DEF Serve
<1>5. AtRest \in Host BY AtRestFits DEF Fits
<1>6. g \in Host /\ g.pc = "listen" /\ g.job = w /\ g.request = m
  BY <1>1, <1>2, <1>5 DEF Host
<1>7. g.saved = None /\ g.content = <<>> BY <1>5 DEF Host, AtRest
<1> HIDE DEF g
<1>8. c = [g EXCEPT !.seq = 1, !.ack = 1] BY <1>2 DEF Counted
<1>9. c \in Host /\ c.pc = "listen" /\ c.job = w /\ c.request = m /\ c.saved = None
      /\ c.seq = 1 /\ c.ack = 1 /\ c.content = <<>>
  <2> DEFINE one == 1
  <2>1. g \in Host /\ one \in Int /\ c = [g EXCEPT !.seq = one, !.ack = one] BY <1>6, <1>8
  <2> HIDE DEF c, one
  <2>2. c \in Host /\ c.pc = g.pc /\ c.job = g.job /\ c.request = g.request
        /\ c.saved = g.saved /\ c.content = g.content /\ c.seq = one /\ c.ack = one
    BY <2>1 DEF Host
  <2> QED BY <1>6, <1>7, <2>2 DEF one
<1> HIDE DEF c
<1>10. Placed("server", w, c) BY <1>2, <1>9 DEF Placed
<1>11. \A a \in ms : Numbered(w, a) BY <1>2 DEF AckFor, Ack, Numbered
<1> HIDE DEF ms
<1> QED BY <1>4, <1>9, <1>10, <1>11, SingleBecoming DEF End

LEMMA ServeAgainSingle ==
  ASSUME Inv, NEW w \in Job, Single(w), NEW m \in net, ServeAgain(m) PROVE Single(w)'
<1> DEFINE h == host["server"]
<1> DEFINE r == h.request
<1> DEFINE c == Counted(h, r, 0, 0)
<1> DEFINE ms == AckFor("server", r, 0, 0)
<1>1. h \in Host /\ Placed("server", w, h) BY EndOf DEF End
<1>2. h.pc = "listen" /\ h.job = w /\ h.seq = 1 /\ h.ack = 1 /\ r.seq = 0 /\ r.ack = 0
  BY <1>1 DEF ServeAgain, Placed
<1>3. h.seq - 1 = 0 /\ h.ack - 1 = 0 BY <1>2
<1>4. Becomes("server", c, ms) BY <1>3 DEF ServeAgain
<1>5. c = [h EXCEPT !.seq = 1, !.ack = 1] BY <1>2 DEF Counted
<1>6. c \in Host /\ c.pc = "listen" /\ c.job = w /\ c.request = r /\ c.saved = h.saved
      /\ c.seq = 1 /\ c.ack = 1 /\ c.content = h.content
  BY <1>1, <1>2, <1>5 DEF Host
<1> HIDE DEF c
<1>7. Placed("server", w, c) BY <1>1, <1>2, <1>6 DEF Placed
<1>8. \A a \in ms : Numbered(w, a) BY <1>2 DEF AckFor, Ack, Numbered
<1> HIDE DEF ms
<1> QED BY <1>4, <1>6, <1>7, <1>8, SingleBecoming DEF End

LEMMA LeftoverSingle ==
  ASSUME Inv, NEW w \in Job, Single(w), NEW m \in net, Leftover(m) PROVE Single(w)'
<1> DEFINE h == host["server"]
<1> DEFINE a == h.ack + 1
<1>1. h \in Host /\ Placed("server", w, h) /\ h.seq \in Int /\ h.ack \in Int BY EndOf DEF End
<1>2. a \in Int BY <1>1
<1>3. h.pc = "idle" BY DEF Leftover
<1>4. Becomes("server", [h EXCEPT !.ack = a], {}) BY DEF Leftover
<1> HIDE DEF a, h
<1>5. [h EXCEPT !.ack = a] \in Host /\ [h EXCEPT !.ack = a].pc = "idle"
      /\ [h EXCEPT !.ack = a].saved = h.saved /\ [h EXCEPT !.ack = a].content = h.content
  BY <1>1, <1>2, <1>3 DEF Host
<1>6. Placed("server", w, [h EXCEPT !.ack = a]) BY <1>1, <1>3, <1>5 DEF Placed
<1> QED BY <1>4, <1>5, <1>6, SingleBecoming DEF End

LEMMA DeadSingle ==
  ASSUME Inv, NEW w \in Job, Single(w), NEW e \in End, Becomes(e, Dead(host[e]), {})
  PROVE  Single(w)'
<1>1. host[e] \in Host /\ Placed(e, w, host[e]) BY EndOf
<1>2. Dead(host[e]) \in Host /\ Placed(e, w, Dead(host[e]))
  BY <1>1, DeadFits, DeadPlaced DEF Fits
<1> QED BY <1>2, SingleBecoming

-----------------------------------------------------------------------------
(* The sender. *)

LEMMA PackedNumbered ==
  ASSUME NEW w \in Job, NEW e \in End, e # Receiver(w), NEW h \in Host, h.job = w,
         NEW a \in Nat, NEW b \in Nat, b <= Packets(w.file), h.seq = a + 1
  PROVE  \A m \in Packed(e, h, a, b) : Numbered(w, m)
<1> SUFFICES ASSUME NEW m \in Packed(e, h, a, b) PROVE Numbered(w, m)
  OBVIOUS
<1>1. PICK k \in a .. b - 1 : m = Data(e, h.job.file, k, h.seq + (k - a), h.ack)
  BY DEF Packed
<1>2. h.seq + (k - a) = k + 1 BY <1>1
<1>3. m.type = "data" /\ m.file = w.file /\ m.k = k /\ m.seq = k + 1 /\ m.to = Peer(e)
  BY <1>1, <1>2 DEF Data
<1>4. Packets(w.file) \in Nat BY PacketsNat DEF Job
<1>5. k < Packets(w.file) BY <1>1, <1>4
<1>6. Peer(e) = Receiver(w) BY DEF Peer, Receiver, End
<1> QED BY <1>3, <1>5, <1>6 DEF Numbered

LEMMA StartSendingSingle ==
  ASSUME Inv, NEW w \in Job, Single(w), NEW e \in End, StartSending(e) PROVE Single(w)'
<1> DEFINE h == host[e]
<1> DEFINE p == Packets(h.job.file)
<1> DEFINE n == Smaller(h.win, p)
<1> DEFINE s == h.seq + n
<1> DEFINE u == p - n
<1> DEFINE g == [h EXCEPT !.pc = "sending", !.seq = s, !.i = n, !.j = 0,
                          !.unsent = u, !.tries = 0]
<1>1. h \in Host /\ Placed(e, w, h) /\ h.win \in Nat BY EndOf
<1>2. h.job = w /\ h.seq = 1 /\ e # Receiver(w)
  BY <1>1 DEF StartSending, Placed, Receiver, Job
<1>3. p \in Nat BY <1>2, PacketsNat DEF Job
<1>4. n \in Nat /\ n <= p BY <1>1, <1>3 DEF Smaller
<1>5. Becomes(e, g, Packed(e, h, 0, n)) BY DEF StartSending
<1>6. \A m \in Packed(e, h, 0, n) : Numbered(w, m)
  <2>1. h.seq = 0 + 1 /\ n <= Packets(w.file) BY <1>2, <1>4
  <2> HIDE DEF n, h
  <2> QED BY <1>1, <1>2, <1>4, <2>1, PackedNumbered
<1>7. s \in Int /\ s = n + 1 /\ u \in Nat /\ 0 \in 0 .. MaxTries + MoreTries
  BY <1>2, <1>3, <1>4, TransferAssumption
<1> HIDE DEF n, p, s, u, h
<1>8. g \in Host /\ g.pc = "sending" /\ g.job = w /\ g.seq = s /\ g.i = n /\ g.saved = h.saved
      /\ g.content = h.content /\ h.content = <<>>
  <2>1. g \in Host /\ g.pc = "sending" /\ g.job = w /\ g.seq = s /\ g.i = n /\ g.saved = h.saved
        /\ g.content = h.content
    BY <1>1, <1>2, <1>4, <1>7 DEF Host
  <2>2. h.pc \in {"pause", "listen"} BY DEF StartSending, h
  <2>3. h.content = <<>> BY <1>1, <2>2 DEF Placed
  <2> QED BY <2>1, <2>3
<1> HIDE DEF g
<1>9. Placed(e, w, g) BY <1>1, <1>2, <1>7, <1>8 DEF Placed
<1> QED BY <1>5, <1>6, <1>8, <1>9, SingleBecoming

LEMMA SenderLoopPlaced ==
  ASSUME NEW e, NEW w, NEW h \in Host, Placed(e, w, h)
  PROVE  SenderLoop(h) \in Host /\ Placed(e, w, SenderLoop(h))
  BY ResetFits, ResetPlaced DEF SenderLoop, Fits

LEMMA AckedAndSendSingle ==
  ASSUME Inv, NEW w \in Job, Single(w), NEW e \in End, NEW m \in net, AckedAndSend(e, m)
  PROVE  Single(w)'
<1> DEFINE h == host[e]
<1> DEFINE a == h.ack + 1
<1> DEFINE s == h.seq + 1
<1> DEFINE i1 == h.i + 1
<1> DEFINE j1 == h.j + 1
<1> DEFINE u == h.unsent - 1
<1> DEFINE g == [h EXCEPT !.ack = a]
<1> DEFINE k == [g EXCEPT !.seq = s, !.i = i1, !.j = j1, !.unsent = u, !.tries = 0]
<1>1. h \in Host /\ Placed(e, w, h) /\ Fits(h) /\ h.seq \in Int /\ h.ack \in Int
      /\ h.i \in Nat /\ h.j \in Nat /\ h.unsent \in Nat
  BY EndOf
<1>2. h.pc = "sending" /\ h.unsent > 0 BY DEF AckedAndSend
<1>3. h.job = w /\ e # Receiver(w) /\ h.seq = h.i + 1 BY <1>1, <1>2 DEF Placed
<1>4. h.i + h.unsent = Packets(w.file) BY <1>1, <1>2, <1>3 DEF Fits
<1>5. Packets(w.file) \in Nat BY PacketsNat DEF Job
<1>6. i1 \in Nat /\ i1 <= Packets(w.file) BY <1>1, <1>2, <1>4, <1>5
<1>7. a \in Int /\ s \in Int /\ s = i1 + 1 /\ j1 \in Nat /\ u \in Nat /\ 0 \in 0 .. MaxTries + MoreTries
  BY <1>1, <1>2, <1>3, TransferAssumption
<1>9. g.seq = h.seq /\ g.i = h.i /\ g.j = h.j /\ g.unsent = h.unsent BY <1>1 DEF Host
<1>10. Becomes(e, SenderLoop(k), Packed(e, g, h.i, i1)) BY <1>9 DEF AckedAndSend
<1> HIDE DEF a, s, i1, j1, u, h
<1>11. g \in Host /\ g.job = w /\ g.seq = h.i + 1 BY <1>1, <1>3, <1>7 DEF Host
<1>12. \A d \in Packed(e, g, h.i, i1) : Numbered(w, d)
  <2> HIDE DEF g
  <2> QED BY <1>1, <1>3, <1>6, <1>11, PackedNumbered
<1>13. k = [h EXCEPT !.ack = a, !.seq = s, !.i = i1, !.j = j1, !.unsent = u, !.tries = 0]
  BY <1>1 DEF Host
<1> HIDE DEF g, k
<1>14. k \in Host /\ k.pc = "sending" /\ k.job = w /\ k.seq = s /\ k.i = i1 /\ k.saved = h.saved
       /\ k.content = h.content
  BY <1>1, <1>2, <1>3, <1>6, <1>7, <1>13 DEF Host
<1>15. Placed(e, w, k) BY <1>1, <1>2, <1>3, <1>7, <1>14 DEF Placed
<1>16. SenderLoop(k) \in Host /\ Placed(e, w, SenderLoop(k))
  BY <1>14, <1>15, SenderLoopPlaced
<1> QED BY <1>10, <1>12, <1>16, SingleBecoming

LEMMA AckedSingle ==
  ASSUME Inv, NEW w \in Job, Single(w), NEW e \in End, NEW m \in net, Acked(e, m)
  PROVE  Single(w)'
<1> DEFINE h == host[e]
<1> DEFINE a == h.ack + 1
<1> DEFINE j1 == h.j + 1
<1> DEFINE g == [h EXCEPT !.ack = a, !.j = j1]
<1>1. h \in Host /\ Placed(e, w, h) /\ h.ack \in Int /\ h.j \in Nat BY EndOf
<1>2. h.pc = "sending" BY DEF Acked
<1>3. Becomes(e, SenderLoop(g), {}) BY DEF Acked
<1>4. a \in Int /\ j1 \in Nat BY <1>1
<1> HIDE DEF a, j1, h
<1>5. g \in Host /\ g.pc = h.pc /\ g.job = h.job /\ g.seq = h.seq /\ g.i = h.i /\ g.saved = h.saved
      /\ g.content = h.content
  BY <1>1, <1>4 DEF Host
<1> HIDE DEF g
<1>6. Placed(e, w, g) BY <1>1, <1>2, <1>5 DEF Placed
<1>7. SenderLoop(g) \in Host /\ Placed(e, w, SenderLoop(g))
  BY <1>5, <1>6, SenderLoopPlaced
<1> QED BY <1>3, <1>7, SingleBecoming

LEMMA SendAgainSingle ==
  ASSUME Inv, NEW w \in Job, Single(w), NEW e \in End, SendAgain(e) PROVE Single(w)'
<1> DEFINE h == host[e]
<1> DEFINE t == Tries(h)
<1> DEFINE q == h.seq - (h.i - h.j)
<1> DEFINE g == [h EXCEPT !.tries = t, !.seq = q, !.i = h.j]
<1>1. h \in Host /\ Placed(e, w, h) /\ Fits(h) /\ h.seq \in Int
      /\ h.i \in Nat /\ h.j \in Nat /\ h.unsent \in Nat /\ h.win \in Nat
  BY EndOf
<1>2. h.tries \in 0 .. MaxTries + MoreTries BY <1>1 DEF Host
<1>3. h.pc = "sending" /\ t <= MaxTries BY DEF SendAgain
<1>4. t \in 0 .. MaxTries + MoreTries BY <1>2, <1>3, TransferAssumption DEF Tries
<1>5. h.job = w /\ e # Receiver(w) /\ h.seq = h.i + 1 BY <1>1, <1>3 DEF Placed
<1>6. q \in Int /\ q = h.j + 1 BY <1>1, <1>5
<1>7. g \in Host /\ g.pc = "sending" /\ g.job = w /\ g.seq = q /\ g.i = h.j /\ g.saved = h.saved
      /\ g.content = h.content
  <2> HIDE DEF t, q, h
  <2> QED BY <1>1, <1>3, <1>4, <1>5, <1>6 DEF Host
<1>8. CASE h.unsent = 0
  <2>1. Becomes(e, g, {}) BY <1>8 DEF SendAgain
  <2> HIDE DEF g, q, h
  <2>2. Placed(e, w, g) BY <1>1, <1>3, <1>5, <1>6, <1>7 DEF Placed, h
  <2> QED BY <1>7, <2>1, <2>2, SingleBecoming
<1>9. CASE h.unsent > 0
  <2> DEFINE b == Smaller(h.j + h.win, Packets(h.job.file))
  <2> DEFINE k == [g EXCEPT !.seq = @ + (b - h.j), !.i = b,
                            !.pc = IF b = h.j + h.win THEN @ ELSE "overrun"]
  <2>1. Becomes(e, k, Packed(e, g, h.j, b)) BY <1>1, <1>9 DEF SendAgain
  <2>2. h.i - h.j = h.win /\ h.i + h.unsent = Packets(w.file)
    BY <1>1, <1>3, <1>5, <1>9 DEF Fits
  <2>3. Packets(w.file) \in Nat BY PacketsNat DEF Job
  <2>4. b = h.i /\ b = h.j + h.win /\ b <= Packets(w.file)
    BY <1>1, <1>5, <1>9, <2>2, <2>3 DEF Smaller
  <2>5. q + (b - h.j) = h.seq BY <1>1, <2>4
  <2> HIDE DEF t, q, b, h
  <2>6. k = [h EXCEPT !.tries = t, !.seq = h.seq, !.i = h.i]
    BY <1>1, <1>7, <2>4, <2>5 DEF Host
  <2>7. \A d \in Packed(e, g, h.j, b) : Numbered(w, d)
    <3> HIDE DEF g
    <3> QED BY <1>1, <1>5, <1>6, <1>7, <2>4, PackedNumbered
  <2> HIDE DEF g, k
  <2>8. k \in Host /\ k.pc = "sending" /\ k.job = w /\ k.seq = h.seq /\ k.i = h.i /\ k.saved = h.saved
        /\ k.content = h.content
    BY <1>1, <1>3, <1>4, <1>5, <2>6 DEF Host
  <2>9. Placed(e, w, k) BY <1>1, <1>3, <1>5, <2>8 DEF Placed
  <2> QED BY <2>1, <2>7, <2>8, <2>9, SingleBecoming
<1> QED BY <1>1, <1>8, <1>9

LEMMA UnsureSingle ==
  ASSUME Inv, NEW w \in Job, Single(w), NEW e \in End, Unsure(e) PROVE Single(w)'
<1>1. host[e] \in Host /\ Placed(e, w, host[e]) BY EndOf
<1>2. Reset(host[e]) \in Host /\ Placed(e, w, Reset(host[e]))
  BY <1>1, ResetFits, ResetPlaced DEF Fits
<1> QED BY <1>2, SingleBecoming DEF Unsure

-----------------------------------------------------------------------------
(* What remains to be read. *)

\* A segment begins before the end of the stream.
LEMMA PacketsBound ==
  ASSUME NEW f \in File, NEW n \in Nat PROVE n < Packets(f) <=> n * MaxData < f.len
<1> DEFINE a == f.len + MaxData - 1
<1> DEFINE q == a \div MaxData
<1>1. f.len \in Nat \ {0} /\ MaxData \in Nat \ {0} BY CrpAssumption DEF File
<1>2. a \in Nat BY <1>1
<1>3. q \in Nat /\ q * MaxData <= a /\ a < (q + 1) * MaxData
  <2> HIDE DEF a
  <2> QED BY <1>1, <1>2
<1> HIDE DEF q
<1>4. (q + 1) * MaxData = q * MaxData + MaxData BY <1>1, <1>3
<1>5. CASE n < q
  <2>1. PICK d \in Nat : q = n + 1 + d
    <3>1. q - n - 1 \in Nat /\ q = n + 1 + (q - n - 1) BY <1>3, <1>5
    <3> QED BY <3>1
  <2>2. q * MaxData = n * MaxData + MaxData + d * MaxData /\ d * MaxData >= 0
    BY <1>1, <2>1
  <2>3. n * MaxData \in Nat /\ d * MaxData \in Nat BY <1>1, <2>1
  <2> QED BY <1>1, <1>3, <1>5, <2>2, <2>3 DEF Packets, q
<1>6. CASE ~(n < q)
  <2>1. PICK d \in Nat : n = q + d
    <3>1. n - q \in Nat /\ n = q + (n - q) BY <1>3, <1>6
    <3> QED BY <3>1
  <2>2. n * MaxData = q * MaxData + d * MaxData /\ d * MaxData >= 0 BY <1>1, <1>3, <2>1
  <2>3. q * MaxData \in Nat /\ d * MaxData \in Nat BY <1>1, <1>3, <2>1
  <2> QED BY <1>1, <1>3, <1>4, <1>6, <2>2, <2>3 DEF Packets, q
<1> QED BY <1>5, <1>6

LEMMA RemainsFirst ==
  ASSUME NEW f \in File PROVE f.len - (1 + Size(f, 0)) = Remains(f, 1)
<1>1. f.len \in Nat \ {0} /\ MaxData \in Nat \ {0} BY CrpAssumption DEF File
<1>2. (0 + 1) * MaxData = MaxData /\ 0 * MaxData = 0 /\ 1 * MaxData = MaxData BY <1>1
<1> QED BY <1>1, <1>2 DEF Size, Remains

LEMMA RemainsNext ==
  ASSUME NEW f \in File, NEW n \in Nat, n < Packets(f)
  PROVE  Remains(f, n) - Size(f, n) = Remains(f, n + 1)
<1> DEFINE a == n * MaxData
<1>1. f.len \in Nat \ {0} /\ MaxData \in Nat \ {0} BY CrpAssumption DEF File
<1>2. a \in Nat /\ (n + 1) * MaxData = a + MaxData BY <1>1
<1>3. a < f.len BY PacketsBound
<1> HIDE DEF a
<1>4. Remains(f, n) = f.len - 1 - a BY <1>1, <1>2, <1>3 DEF Remains, a
<1>5. Size(f, n) = IF a + MaxData <= f.len THEN MaxData ELSE f.len - a
  BY <1>2 DEF Size, a
<1>6. Remains(f, n + 1) = IF a + MaxData <= f.len THEN f.len - 1 - (a + MaxData) ELSE -1
  BY <1>2 DEF Remains
<1> QED BY <1>1, <1>2, <1>4, <1>5, <1>6

-----------------------------------------------------------------------------
(* The receiver. *)

LEMMA StartReceivingSingle ==
  ASSUME Inv, NEW w \in Job, Single(w), StartReceiving PROVE Single(w)'
<1> DEFINE h == host["server"]
<1> DEFINE one == 1
<1> DEFINE g == [h EXCEPT !.pc = "first", !.tries = one]
<1>1. h \in Host /\ Placed("server", w, h) BY EndOf DEF End
<1>2. h.job = w /\ h.ack = 1 /\ w.kind = "post" /\ h.content = <<>> BY <1>1 DEF StartReceiving, Placed
<1>3. one \in 0 .. MaxTries + MoreTries BY TransferAssumption
<1>4. Becomes("server", g, {}) BY DEF StartReceiving
<1> HIDE DEF one, h
<1>5. g \in Host /\ g.pc = "first" /\ g.job = h.job /\ g.ack = h.ack /\ g.saved = h.saved
      /\ g.content = h.content
  BY <1>1, <1>3 DEF Host
<1> HIDE DEF g
<1>6. Placed("server", w, g) BY <1>1, <1>2, <1>5 DEF Placed, Receiver
<1> QED BY <1>4, <1>5, <1>6, SingleBecoming DEF End

LEMMA NothingReceivedSingle ==
  ASSUME Inv, NEW w \in Job, Single(w), NEW e \in End, NothingReceived(e) PROVE Single(w)'
<1>1. host[e] \in Host /\ Fits(host[e]) /\ Placed(e, w, host[e]) BY EndOf
<1> QED BY <1>1, TryPlaced, SingleBecoming DEF NothingReceived

LEMMA UnexpectedSingle ==
  ASSUME Inv, NEW w \in Job, Single(w), NEW e \in End, NEW m \in net, Unexpected(e, m)
  PROVE  Single(w)'
<1> DEFINE h == host[e]
<1> DEFINE g == Counted(h, m, h.seq, h.ack)
<1> DEFINE ms == AckFor(e, m, h.seq, h.ack)
<1>1. h \in Host /\ Placed(e, w, h) BY EndOf
<1>2. Fits(g) BY CountedAndAcked
<1>3. h.pc \in {"first", "data"} /\ m.seq # h.ack BY DEF Unexpected
<1>4. e = Receiver(w) BY <1>1, <1>3 DEF Placed
<1>5. /\ g \in Host /\ g.ack = h.ack
      /\ g.pc = h.pc /\ g.job = h.job /\ g.content = h.content
      /\ g.unread = h.unread /\ g.saved = h.saved
  <2>1. g = Counted(h, m, h.seq, h.ack) OBVIOUS
  <2> HIDE DEF g, h
  <2> QED BY <1>1, <1>3, <2>1, CountedKeeps
<1>6. \A a \in ms : Numbered(w, a) BY <1>4, AcksNumbered
<1>7. \/ h.pc = "first" /\ Becomes(e, TryFirst(g), ms)
      \/ h.pc = "data" /\ Becomes(e, g, ms)
  BY DEF Unexpected
<1> HIDE DEF g, ms, h
<1>8. Placed(e, w, g) BY <1>1, <1>3, <1>5 DEF Placed
<1>9. TryFirst(g) \in Host /\ Placed(e, w, TryFirst(g)) BY <1>2, <1>5, <1>8, TryPlaced
<1> QED BY <1>5, <1>6, <1>7, <1>8, <1>9, SingleBecoming

\* When nothing remains the file is written.
LEMMA ReceiverLoopPlaced ==
  ASSUME NEW w \in Job, NEW e \in End, NEW h \in Host, h.pc = "data", h.job = w, Placed(e, w, h)
  PROVE  ReceiverLoop(h) \in Host /\ Placed(e, w, ReceiverLoop(h))
<1> DEFINE v == [job |-> h.job, content |-> h.content]
<1> DEFINE r == Reset(h)
<1> DEFINE g == [r EXCEPT !.saved = v]
<1>1. CASE h.unread > 0
  BY <1>1 DEF ReceiverLoop
<1>2. CASE ~(h.unread > 0)
  <2>1. ReceiverLoop(h) = g BY <1>2 DEF ReceiverLoop
  <2>2. r \in Host /\ r.pc = "idle" /\ r.content = <<>> BY ResetFits DEF Fits, Reset, AtRest
  <2>3. v \in [job : Job, content : Seq(File \X Nat)] BY DEF Host
  <2>4. v.job = w /\ v.content = h.content OBVIOUS
  <2>5. g \in Host /\ g.pc = "idle" /\ g.saved = v /\ g.content = <<>>
    <3> HIDE DEF r, v
    <3> QED BY <2>2, <2>3 DEF Host
  <2>6. FirstOf(w.file, h.content) /\ Remains(w.file, Len(h.content)) <= 0
    <3>1. h.unread \in Int BY DEF Host
    <3>2. h.unread = Remains(w.file, Len(h.content)) /\ FirstOf(w.file, h.content) BY DEF Placed
    <3> QED BY <1>2, <3>1, <3>2
  <2> HIDE DEF g, v
  <2> QED BY <2>1, <2>4, <2>5, <2>6 DEF Placed
<1> QED BY <1>1, <1>2

LEMMA SizesInt ==
  ASSUME NEW f \in File
  PROVE  f.len \in Int /\ Size(f, 0) \in Int
<1>1. f.len \in Lengths BY DEF File
<1>2. f.len \in Nat BY <1>1, CrpAssumption
<1>3. Size(f, 0) \in Int BY SizeInt
<1> QED BY <1>2, <1>3

LEMMA FirstPacketSingle ==
  ASSUME Inv, NEW w \in Job, Single(w), NEW e \in End, NEW m \in net, FirstPacket(e, m)
  PROVE  Single(w)'
<1> DEFINE h == host[e]
<1> DEFINE g == Counted(h, m, h.seq, h.ack)
<1> DEFINE ms == AckFor(e, m, h.seq, h.ack)
<1>1. h \in Host /\ Placed(e, w, h) BY EndOf
<1>2. h.pc = "first" /\ m.seq = h.ack BY DEF FirstPacket
<1>3. e = Receiver(w) /\ h.ack = 1 /\ h.job = w BY <1>1, <1>2 DEF Placed
<1>4. /\ g \in Host /\ g.ack = 2 /\ g.pc = h.pc /\ g.job = w /\ g.saved = h.saved
  <2>1. h.ack + 1 = 2 BY <1>3
  <2>2. g = Counted(h, m, h.seq, h.ack) OBVIOUS
  <2> HIDE DEF g, h
  <2> QED BY <1>1, <1>2, <1>3, <2>1, <2>2, CountedKeeps
<1>5. \A a \in ms : Numbered(w, a) BY <1>3, AcksNumbered
<1>6. Numbered(w, m) /\ m \in Message BY DEF Single, Inv, EndsFit
<1>7. CASE m.type # "data"
  <2>1. Becomes(e, Dead(g), ms) BY <1>7 DEF FirstPacket
  <2> HIDE DEF g, ms, h
  <2>2. Dead(g) \in Host /\ Dead(g).pc = "dead" /\ Dead(g).saved = h.saved
    BY <1>4 DEF Dead, Host
  <2>3. Placed(e, w, Dead(g)) BY <1>1, <2>2 DEF Placed
  <2> QED BY <1>5, <2>1, <2>2, <2>3, SingleBecoming
<1>8. CASE m.type = "data"
  <2>1. m.file = w.file /\ m.k \in Nat /\ m.seq = m.k + 1 /\ m.k < Packets(w.file)
    BY <1>6, <1>8 DEF Numbered, Message
  <2>2. m.k = 0 BY <1>2, <1>3, <2>1
  <2>3. w.file \in File BY DEF Job
  <2> DEFINE u == w.file.len - (1 + Size(w.file, 0))
  <2> DEFINE c == <<<<w.file, 0>>>>
  <2> DEFINE z == 0
  <2> DEFINE k == [g EXCEPT !.pc = "data", !.tries = z, !.content = c, !.unread = u]
  <2>4. Becomes(e, ReceiverLoop(k), ms)
    BY <1>8, <2>1, <2>2 DEF FirstPacket, Announced
  <2>5. u = Remains(w.file, 1) /\ u \in Int
    <3>1. w.file.len \in Int /\ Size(w.file, 0) \in Int BY <2>3, SizesInt
    <3> QED BY <2>3, <3>1, RemainsFirst
  <2>6. c \in Seq(File \X Nat) /\ Len(c) = 1 /\ c[1] = <<w.file, 0>> BY <2>3
  <2>7. z \in 0 .. MaxTries + MoreTries BY TransferAssumption
  <2>8. Packets(w.file) \in Nat BY <2>3, PacketsNat
  <2>9. FirstOf(w.file, c) BY <2>1, <2>2, <2>6, <2>8 DEF FirstOf
  <2> HIDE DEF g, u, c, z, ms, h
  <2>10. k \in Host /\ k.pc = "data" /\ k.job = g.job /\ k.ack = g.ack /\ k.content = c
        /\ k.unread = u /\ k.saved = g.saved
    BY <1>4, <2>5, <2>6, <2>7 DEF Host
  <2> HIDE DEF k
  <2>11. /\ k.ack = Len(k.content) + 1 /\ Len(k.content) > 0
         /\ FirstOf(w.file, k.content) /\ k.unread = Remains(w.file, Len(k.content))
    <3>1. k.content = c /\ Len(k.content) = 1 BY <2>6, <2>10
    <3>2. k.ack = 2 BY <1>4, <2>10
    <3>3. k.ack = Len(k.content) + 1 /\ Len(k.content) > 0 BY <3>1, <3>2
    <3>4. k.unread = Remains(w.file, Len(k.content)) BY <2>5, <2>10, <3>1
    <3> QED BY <2>9, <3>1, <3>3, <3>4
  <2>12. Placed(e, w, k)
    BY <1>1, <1>3, <1>4, <2>10, <2>11 DEF Placed
  <2>13. ReceiverLoop(k) \in Host /\ Placed(e, w, ReceiverLoop(k))
    BY <1>4, <2>10, <2>12, ReceiverLoopPlaced
  <2> QED BY <1>5, <2>4, <2>13, SingleBecoming
<1> QED BY <1>7, <1>8

LEMMA NextPacketSingle ==
  ASSUME Inv, NEW w \in Job, Single(w), NEW e \in End, NEW m \in net, m.to = e, NextPacket(e, m)
  PROVE  Single(w)'
<1> DEFINE h == host[e]
<1> DEFINE f == Counted(h, m, h.seq, h.ack)
<1> DEFINE z == 0
<1> DEFINE g == [f EXCEPT !.tries = z]
<1> DEFINE ms == AckFor(e, m, h.seq, h.ack)
<1> DEFINE n == Len(h.content)
<1>1. h \in Host /\ Placed(e, w, h) /\ h.content \in Seq(File \X Nat) /\ h.unread \in Int
  BY EndOf DEF Host
<1>2. h.pc = "data" /\ m.seq = h.ack BY DEF NextPacket
<1>3. e = Receiver(w) /\ h.ack = n + 1 /\ n > 0 /\ h.job = w
      /\ FirstOf(w.file, h.content) /\ h.unread = Remains(w.file, n)
  BY <1>1, <1>2 DEF Placed
<1>4. n \in Nat BY <1>1
<1>5. Numbered(w, m) /\ m \in Message BY DEF Single, Inv, EndsFit
<1>6. m.type = "data"
  <2>1. m.seq # 0 BY <1>2, <1>3, <1>4
  <2> QED BY <1>3, <1>5, <2>1 DEF Numbered, Message
<1>7. m.file = w.file /\ m.k = n /\ n < Packets(w.file)
  <2>1. m.k \in Nat BY <1>5, <1>6 DEF Message
  <2> QED BY <1>2, <1>3, <1>4, <1>5, <1>6, <2>1 DEF Numbered
<1>8. w.file \in File BY DEF Job
<1>9. /\ f \in Host /\ f.ack = n + 2 /\ f.pc = "data" /\ f.job = w /\ f.saved = h.saved
      /\ f.content = h.content /\ f.unread = h.unread
  <2>1. h.ack + 1 = n + 2 BY <1>3, <1>4
  <2>2. f = Counted(h, m, h.seq, h.ack) OBVIOUS
  <2> HIDE DEF f, n, h
  <2> QED BY <1>1, <1>2, <1>3, <2>1, <2>2, CountedKeeps
<1>10. \A a \in ms : Numbered(w, a) BY <1>3, AcksNumbered
<1>11. z \in 0 .. MaxTries + MoreTries BY TransferAssumption
<1> DEFINE c == Append(h.content, <<w.file, n>>)
<1> DEFINE u == h.unread - Size(w.file, n)
<1> DEFINE k == [f EXCEPT !.tries = z, !.content = c, !.unread = u]
<1>12. g.content = h.content /\ g.unread = h.unread
  <2> HIDE DEF f, h, z
  <2> QED BY <1>9 DEF Host
<1>13. Becomes(e, ReceiverLoop([g EXCEPT !.content = c, !.unread = u]), ms)
  BY <1>6, <1>7, <1>12 DEF NextPacket
<1>14. u = Remains(w.file, n + 1) /\ u \in Int
  <2>1. Size(w.file, n) \in Int BY <1>4, <1>8, SizeInt
  <2> QED BY <1>1, <1>3, <1>4, <1>7, <1>8, <2>1, RemainsNext
<1>15. c \in Seq(File \X Nat) /\ Len(c) = n + 1 /\ FirstOf(w.file, c)
  <2>1. Packets(w.file) \in Nat BY <1>8, PacketsNat
  <2>2. <<w.file, n>> \in File \X Nat BY <1>4, <1>8
  <2>3. c \in Seq(File \X Nat) /\ Len(c) = n + 1 BY <1>1, <2>2
  <2>4. \A i \in 1 .. n + 1 : c[i] = <<w.file, i - 1>>
    <3> SUFFICES ASSUME NEW i \in 1 .. n + 1 PROVE c[i] = <<w.file, i - 1>>
      OBVIOUS
    <3>1. CASE i = n + 1
      <4>1. i - 1 = n BY <1>4, <3>1
      <4> QED BY <1>1, <3>1, <4>1
    <3>2. CASE i \in 1 .. n
      BY <1>1, <1>3, <3>2 DEF FirstOf
    <3> QED BY <1>4, <3>1, <3>2
  <2>5. n + 1 <= Packets(w.file) BY <1>4, <1>7, <2>1
  <2> HIDE DEF c
  <2> QED BY <2>3, <2>4, <2>5 DEF FirstOf
<1>16. [g EXCEPT !.content = c, !.unread = u] = k
  <2> HIDE DEF f, c, u, z
  <2> QED BY <1>9 DEF Host
<1> HIDE DEF f, c, u, z, ms, h, g
<1>17. k \in Host /\ k.pc = "data" /\ k.job = f.job /\ k.ack = f.ack /\ k.content = c
      /\ k.unread = u /\ k.saved = f.saved
  BY <1>9, <1>11, <1>14, <1>15 DEF Host
<1> HIDE DEF k
<1>18. k.ack = Len(c) + 1 /\ Len(c) > 0 BY <1>4, <1>9, <1>15, <1>17
<1> HIDE DEF n
<1>19. Placed(e, w, k)
  BY <1>1, <1>3, <1>9, <1>14, <1>15, <1>17, <1>18 DEF Placed
<1>20. ReceiverLoop(k) \in Host /\ Placed(e, w, ReceiverLoop(k))
  BY <1>9, <1>17, <1>19, ReceiverLoopPlaced
<1> QED BY <1>10, <1>13, <1>16, <1>20, SingleBecoming

-----------------------------------------------------------------------------
(* The steps. *)

LEMMA ReceiveSingle ==
  ASSUME Inv, NEW w \in Job, Single(w), NEW e \in End, NEW m \in net, m.to = e, Receive(e, m)
  PROVE  Single(w)'
  BY AckedAndSendSingle, AckedSingle, UnexpectedSingle, FirstPacketSingle, NextPacketSingle
  DEF Receive

LEMMA TimeoutSingle ==
  ASSUME Inv, NEW w \in Job, Single(w), NEW e \in End, Timeout(e) \/ DamagedAck(e)
  PROVE  Single(w)'
  BY SendAgainSingle, UnsureSingle, NothingReceivedSingle, DeadSingle DEF Timeout, DamagedAck

LEMMA SingleStep ==
  ASSUME Once, OneInv, given # 0, NEW w \in Job, Single(w), [Next]_vars PROVE Single(w)'
<1> USE DEF OneInv
<1>1. CASE ClientNext
  <2>1. CASE \E kind \in {"get", "post"}, len \in Lengths : Command(kind, len)
    BY <2>1 DEF Command, Once, Inv
  <2>2. CASE \E m \in net : m.to = "client" /\ (Granted(m) \/ Receive("client", m))
    BY <2>2, GrantedSingle, ReceiveSingle DEF End
  <2>3. CASE NotGranted \/ StartSending("client")
    BY <2>3, NotGrantedSingle, StartSendingSingle DEF End
  <2>4. CASE Timeout("client") \/ DamagedAck("client")
    BY <2>4, TimeoutSingle DEF End
  <2> QED BY <1>1, <2>1, <2>2, <2>3, <2>4 DEF ClientNext
<1>2. CASE ServerNext
  <2>1. ASSUME NEW m \in net, m.to = "server", Serve(m) PROVE Single(w)'
    <3>1. served = 0 BY <2>1 DEF Serve, Once, Inv
    <3> QED BY <2>1, <3>1, ServeSingle DEF Unserved
  <2>2. ASSUME NEW m \in net, m.to = "server",
               ServeAgain(m) \/ Leftover(m) \/ Undecodable(m) \/ Receive("server", m)
        PROVE  Single(w)'
    BY <2>2, ServeAgainSingle, LeftoverSingle, DeadSingle, ReceiveSingle DEF End, Undecodable
  <2>3. CASE StartSending("server") \/ StartReceiving
    BY <2>3, StartSendingSingle, StartReceivingSingle DEF End
  <2>4. CASE Timeout("server") \/ DamagedAck("server")
    BY <2>4, TimeoutSingle DEF End
  <2> QED BY <1>2, <2>1, <2>2, <2>3, <2>4 DEF ServerNext
<1>3. CASE UNCHANGED vars
  BY <1>3 DEF vars, Single, Placed, Numbered
<1> QED BY <1>1, <1>2, <1>3 DEF Next

\* What a client that has no answer yet may do, and what it sends.
LEMMA UnservedClient ==
  ASSUME Inv, Unserved, NEW h \in Host, h.pc \in {"idle", "request", "dead"},
         NEW ms, \A m \in ms : m.type = "request", Becomes("client", h, ms)
  PROVE  Unserved'
<1> DEFINE packed == {m \in ms : m.seq >= 0 /\ m.ack >= 0}
<1> DEFINE g == IF packed = ms THEN h ELSE Dead(h)
<1>1. host' = [host EXCEPT !["client"] = g] /\ net' = net \cup packed
  BY DEF Becomes
<1>2. g.pc \in {"idle", "request", "dead"}
  <2>1. Dead(h).pc = "dead" BY DEF Dead, Host
  <2> QED BY <2>1
<1>3. \A m \in net' : m.type = "request" BY <1>1 DEF Unserved
<1> HIDE DEF g
<1>4. host'["client"] = g /\ host'["server"] = host["server"] BY <1>1 DEF Inv, EndsFit, End
<1> QED BY <1>2, <1>3, <1>4 DEF Unserved, AtRest

LEMMA UnservedStep ==
  ASSUME Inv, served = 0, Unserved, [Next]_vars PROVE served' = 0 => Unserved'
<1>1. host["server"].pc = "idle" BY DEF Unserved, AtRest
<1>2. host["client"] \in Host BY DEF Inv, EndsFit, End
<1>3. CASE ClientNext
  <2>1. ASSUME NEW kind \in {"get", "post"}, NEW len \in Lengths, Command(kind, len)
        PROVE  Unserved'
    <3>1. Inv' BY <2>1, CommandFits
    <3>2. host["client"].pc = "idle" BY <2>1 DEF Command
    <3> DEFINE w == [kind |-> kind, file |-> [id |-> given + 1, len |-> len]]
    <3> DEFINE q == host["client"].seq + 1
    <3> DEFINE g == [host["client"] EXCEPT !.pc = "request", !.job = w, !.seq = q]
    <3> DEFINE ms == {Request(w, host["client"].seq, host["client"].ack)}
    <3>3. Becomes("client", g, ms) BY <2>1 DEF Command
    <3>4. w \in Job BY <2>1, CrpAssumption DEF Command, Inv, Job, File
    <3>5. q \in Int BY <1>2 DEF Host
    <3>6. \A m \in ms : m.type = "request" BY DEF Request
    <3> HIDE DEF w, q, ms
    <3>7. g \in Host /\ g.pc = "request" BY <1>2, <3>4, <3>5 DEF Host
    <3> HIDE DEF g
    <3> QED BY <3>3, <3>6, <3>7, UnservedClient
  <2>2. ASSUME NotGranted PROVE Unserved'
    <3>1. Reset(host["client"]) \in Host /\ Reset(host["client"]).pc = "idle"
      BY <1>2, ResetFits DEF Fits, Reset, AtRest
    <3> QED BY <2>2, <3>1, UnservedClient DEF NotGranted
  <2>3. ~ \E m \in net : m.to = "client" /\ (Granted(m) \/ Receive("client", m))
    BY DEF Unserved, Granted, IsExpectedAck, Receive, AckedAndSend, Acked, Unexpected,
           FirstPacket, NextPacket
  <2>4. ~(StartSending("client") \/ Timeout("client") \/ DamagedAck("client"))
    BY DEF Unserved, StartSending, Timeout, SendAgain, Unsure, NothingReceived, DamagedAck
  <2> QED BY <1>3, <2>1, <2>2, <2>3, <2>4 DEF ClientNext
<1>4. CASE ServerNext
  <2>1. ASSUME NEW m \in net, Serve(m) PROVE served' # 0
    BY <2>1 DEF Serve
  <2>2. ASSUME NEW m \in net, Leftover(m) \/ Undecodable(m) PROVE FALSE
    BY <2>2 DEF Unserved, Leftover, Undecodable
  <2>3. ASSUME NEW m \in net, ServeAgain(m) \/ Receive("server", m) PROVE FALSE
    BY <1>1, <2>3 DEF ServeAgain, Receive, AckedAndSend, Acked, Unexpected, FirstPacket, NextPacket
  <2>4. ~(StartSending("server") \/ StartReceiving \/ Timeout("server") \/ DamagedAck("server"))
    BY <1>1 DEF StartSending, StartReceiving, Timeout, SendAgain, Unsure, NothingReceived, DamagedAck
  <2> QED BY <1>4, <2>1, <2>2, <2>3, <2>4 DEF ServerNext
<1>5. CASE UNCHANGED vars
  BY <1>5 DEF vars, Unserved, AtRest
<1> QED BY <1>3, <1>4, <1>5 DEF Next

\* Until a command is given nothing happens.
LEMMA UntouchedStep ==
  ASSUME Once, Inv, given = 0, Untouched, [Next]_vars
  PROVE  \/ Untouched' /\ given' = 0
         \/ given' # 0 /\ \E w \in Job : Single(w)'
<1>1. \A e \in End : host[e].pc = "idle" BY DEF Untouched, AtRest
<1>2. net = {} BY DEF Untouched
<1>3. ASSUME NEW kind \in {"get", "post"}, NEW len \in Lengths, Command(kind, len)
      PROVE  given' # 0 /\ \E w \in Job : Single(w)'
  <2>1. given' = 1 BY <1>3 DEF Command
  <2>2. \E w \in Job : Single(w)' BY <1>3, CommandSingle
  <2> QED BY <2>1, <2>2
<1>4. ~(NotGranted \/ StartReceiving) BY <1>1 DEF NotGranted, StartReceiving, End
<1>5. \A e \in End : ~(StartSending(e) \/ Timeout(e) \/ DamagedAck(e))
  BY <1>1 DEF StartSending, Timeout, SendAgain, Unsure, NothingReceived, DamagedAck
<1>6. CASE UNCHANGED vars
  BY <1>6 DEF vars, Untouched, AtRest
<1> QED BY <1>2, <1>3, <1>4, <1>5, <1>6 DEF Next, ClientNext, ServerNext, End

\* Commands given and requests served are not forgotten.
LEMMA CountsGrow ==
  ASSUME [Next]_vars
  PROVE  (given' = given \/ given' = given + 1) /\ (served' = served \/ served' = served + 1)
<1>1. ASSUME NEW e \in End, StartSending(e) \/ Timeout(e) \/ DamagedAck(e)
      PROVE  UNCHANGED <<given, served>>
  BY <1>1 DEF StartSending, Timeout, SendAgain, Unsure, NothingReceived, DamagedAck
<1>2. ASSUME NEW e \in End, NEW m \in net, Receive(e, m) PROVE UNCHANGED <<given, served>>
  BY <1>2 DEF Receive, AckedAndSend, Acked, Unexpected, FirstPacket, NextPacket
<1>3. ASSUME NEW m \in net, ServeAgain(m) \/ Leftover(m) \/ Undecodable(m) \/ Granted(m)
      PROVE  UNCHANGED <<given, served>>
  BY <1>3 DEF ServeAgain, Leftover, Undecodable, Granted
<1>4. ASSUME NotGranted \/ StartReceiving PROVE UNCHANGED <<given, served>>
  BY <1>4 DEF NotGranted, StartReceiving
<1>5. ASSUME NEW kind, NEW len, Command(kind, len)
      PROVE  given' = given + 1 /\ served' = served
  BY <1>5 DEF Command
<1>6. ASSUME NEW m, Serve(m) PROVE given' = given /\ served' = served + 1
  BY <1>6 DEF Serve
<1>7. CASE ClientNext BY <1>1, <1>2, <1>3, <1>4, <1>5, <1>7 DEF ClientNext, End
<1>8. CASE ServerNext BY <1>1, <1>2, <1>3, <1>4, <1>6, <1>8 DEF ServerNext, End
<1>9. CASE UNCHANGED vars BY <1>9 DEF vars
<1> QED BY <1>7, <1>8, <1>9 DEF Next

LEMMA OneInit == Init => OneInv
<1>1. ASSUME Init PROVE Untouched /\ Unserved
  BY <1>1 DEF Init, Untouched, Unserved, AtRest, End
<1> QED BY <1>1, InvInit DEF OneInv, Init

LEMMA OneStep == ASSUME Once, OneInv, [Next]_vars PROVE OneInv'
<1>1. Inv' BY InvStep DEF OneInv
<1>2. served' = 0 => Unserved'
  <2>1. served \in Nat BY TransferAssumption DEF OneInv, Inv
  <2>2. CASE served = 0 BY <2>2, UnservedStep DEF OneInv
  <2>3. CASE served # 0
    <3>1. served' # 0
      BY <2>1, <2>3, CountsGrow
    <3> QED BY <3>1
  <2> QED BY <2>2, <2>3
<1>3. CASE given = 0
  <2>1. Untouched BY <1>3 DEF OneInv
  <2>2. \/ Untouched' /\ given' = 0
        \/ given' # 0 /\ \E w \in Job : Single(w)'
    BY <1>3, <2>1, UntouchedStep DEF OneInv
  <2> QED BY <1>1, <1>2, <2>2 DEF OneInv
<1>4. CASE given # 0
  <2>1. PICK w \in Job : Single(w) BY <1>4 DEF OneInv
  <2>2. Single(w)' BY <1>4, <2>1, SingleStep
  <2>3. given' # 0
    <3>1. given \in Nat BY CrpAssumption DEF OneInv, Inv
    <3> QED BY <1>4, <3>1, CountsGrow
  <2> QED BY <1>1, <1>2, <2>2, <2>3 DEF OneInv
<1> QED BY <1>3, <1>4

-----------------------------------------------------------------------------

\* What a receiver holds is the first segments of the file it is after, for any
\* windows, files and tries (send_ack, get_client, post_server): of one command
\* that is served once.
THEOREM Prefix == ASSUME Once PROVE Spec => []ContentIsPrefix
<1>1. ASSUME OneInv PROVE ContentIsPrefix
  <2> SUFFICES ASSUME NEW e \in End, host[e].pc \in {"first", "data"}
               PROVE  FirstOf(host[e].job.file, host[e].content)
    BY DEF ContentIsPrefix, FirstOf
  <2>1. given # 0 BY <1>1 DEF OneInv, Untouched, AtRest
  <2>2. PICK w \in Job : Single(w) BY <1>1, <2>1 DEF OneInv
  <2>3. Placed(e, w, host[e]) BY <2>2 DEF Single
  <2>4. host[e].job = w BY <2>3 DEF Placed
  <2>5. Packets(w.file) \in Nat BY PacketsNat DEF Job
  <2> QED BY <2>3, <2>4, <2>5 DEF Placed, FirstOf
<1> QED BY <1>1, OneInit, OneStep, PTL DEF Spec

\* A file is written only when all of its packets have come, if no last segment
\* is of one byte, which the count of what remains would take for read.
THEOREM Complete ==
  ASSUME Once, NoOneByteTail
  PROVE  Spec => []Whole
<1>1. ASSUME OneInv PROVE Whole
  <2> SUFFICES ASSUME NEW e \in End, host[e].saved # None
               PROVE  Len(host[e].saved.content) = Packets(host[e].saved.job.file)
    BY DEF Whole
  <2>1. given # 0 BY <1>1 DEF OneInv, Untouched, AtRest
  <2>2. PICK w \in Job : Single(w) BY <1>1, <2>1 DEF OneInv
  <2> DEFINE f == host[e].saved.job.file
  <2> DEFINE n == Len(host[e].saved.content)
  <2>3. FirstOf(f, host[e].saved.content) /\ Remains(f, n) <= 0
    BY <2>2 DEF Single, Placed
  <2>4. host[e].saved \in [job : Job, content : Seq(File \X Nat)]
    BY <1>1 DEF OneInv, Inv, EndsFit, Host
  <2>5. f \in File /\ n \in Nat BY <2>4 DEF Job
  <2>6. n <= Packets(f) BY <2>3 DEF FirstOf
  <2> HIDE DEF f, n
  <2> DEFINE a == n * MaxData
  <2>7. f.len \in Lengths /\ f.len \in Nat BY <2>5, CrpAssumption DEF File
  <2>8. a \in Nat /\ a # f.len - 1 BY <2>5, <2>7, CrpAssumption DEF NoOneByteTail
  <2>9. ~(a < f.len)
    <3>1. Remains(f, n) = IF a <= f.len THEN f.len - 1 - a ELSE -1 BY DEF Remains
    <3> HIDE DEF a
    <3> QED BY <2>3, <2>7, <2>8, <3>1
  <2>10. ~(n < Packets(f)) BY <2>5, <2>9, PacketsBound
  <2> QED BY <2>5, <2>6, <2>10, PacketsNat DEF f, n
<1> QED BY <1>1, OneInit, OneStep, PTL DEF Spec
=============================================================================
