------------------------- MODULE CrpDeliveryProofs --------------------------
(***************************************************************************)
(* CrpTransfer implements FileDelivery, for one command that is served     *)
(* once and streams whose last segment is not of one byte: proofs for      *)
(* every window, file and number of tries.                                 *)
(*                                                                         *)
(* What FileDelivery sees of an end is local to it, and so is the step     *)
(* correspondence: Moves(h, g) says that an end that was as h and is as g  *)
(* has made a step of FileDelivery, or none.                               *)
(***************************************************************************)
EXTENDS CrpFileProofs

\* What an end holds with the next segment.
HeldNext(h) == Append(Held(h), <<Pursued(h).file, Len(Held(h))>>)

Moves(h, g) ==
  \/ Pursued(g) = Pursued(h) /\ Held(g) = Held(h) /\ g.saved = h.saved
  \/ /\ Pursued(h) = None /\ Pursued(g) \in Job
     /\ Held(g) = Held(h) /\ g.saved = h.saved
  \/ /\ Pursued(h) # None /\ Len(Held(h)) + 1 < Packets(Pursued(h).file)
     /\ Pursued(g) = Pursued(h) /\ Held(g) = HeldNext(h) /\ g.saved = h.saved
  \/ /\ Pursued(h) # None /\ Len(Held(h)) + 1 = Packets(Pursued(h).file)
     /\ Pursued(g) = None /\ Held(g) = <<>>
     /\ g.saved = [job |-> Pursued(h), content |-> HeldNext(h)]
  \/ /\ Pursued(h) # None
     /\ Pursued(g) = None /\ Held(g) = <<>> /\ g.saved = h.saved

-----------------------------------------------------------------------------

\* FileDelivery's files and commands are those of CrpTransfer.
LEMMA SameFiles ==
  /\ Delivery!End = End /\ Delivery!Job = Job
  /\ \A f : Delivery!Packets(f) = Packets(f)
  BY DEF Delivery!End, End, Delivery!Job, Job, Delivery!File, File, Delivery!Packets, Packets

\* A move of one end is a step of FileDelivery.
LEMMA MoveDelivers ==
  ASSUME EndsFit, NEW e \in End, NEW g, Moves(host[e], g), host' = [host EXCEPT ![e] = g]
  PROVE  [Delivery!Next]_(Delivery!vars)
<1> DEFINE h == host[e]
<1> DEFINE jobs == [f \in End |-> Pursued(host[f])]
<1> DEFINE gots == [f \in End |-> Held(host[f])]
<1> DEFINE saves == [f \in End |-> host[f].saved]
<1>1. \A f \in End : host'[f] = IF f = e THEN g ELSE host[f] BY DEF EndsFit
<1>2. /\ jobs' = [f \in End |-> IF f = e THEN Pursued(g) ELSE Pursued(host[f])]
      /\ gots' = [f \in End |-> IF f = e THEN Held(g) ELSE Held(host[f])]
      /\ saves' = [f \in End |-> IF f = e THEN g.saved ELSE host[f].saved]
  BY <1>1 DEF Pursued, Held
<1>3. /\ jobs' = [jobs EXCEPT ![e] = Pursued(g)]
      /\ gots' = [gots EXCEPT ![e] = Held(g)]
      /\ saves' = [saves EXCEPT ![e] = g.saved]
  BY <1>2
<1>4. /\ Pursued(g) = Pursued(h) => jobs' = jobs
      /\ Held(g) = Held(h) => gots' = gots
      /\ g.saved = h.saved => saves' = saves
  BY <1>3
<1>5. jobs[e] = Pursued(h) /\ gots[e] = Held(h) /\ saves[e] = h.saved OBVIOUS
<1>6. Delivery!WithNext(e) = HeldNext(h) BY <1>5 DEF Delivery!WithNext, HeldNext
<1>7. CASE Pursued(g) = Pursued(h) /\ Held(g) = Held(h) /\ g.saved = h.saved
  BY <1>4, <1>7 DEF Delivery!vars
<1>8. CASE /\ Pursued(h) = None /\ Pursued(g) \in Job
           /\ Held(g) = Held(h) /\ g.saved = h.saved
  <2>1. Delivery!Await(e, Pursued(g)) BY <1>3, <1>4, <1>5, <1>8 DEF Delivery!Await
  <2> QED BY <1>8, <2>1, SameFiles DEF Delivery!Next
<1>9. CASE /\ Pursued(h) # None /\ Len(Held(h)) + 1 < Packets(Pursued(h).file)
           /\ Pursued(g) = Pursued(h) /\ Held(g) = HeldNext(h) /\ g.saved = h.saved
  <2>1. Delivery!Take(e) BY <1>3, <1>4, <1>5, <1>6, <1>9, SameFiles DEF Delivery!Take
  <2> QED BY <2>1, SameFiles DEF Delivery!Next
<1>10. CASE /\ Pursued(h) # None /\ Len(Held(h)) + 1 = Packets(Pursued(h).file)
            /\ Pursued(g) = None /\ Held(g) = <<>>
            /\ g.saved = [job |-> Pursued(h), content |-> HeldNext(h)]
  <2>1. Delivery!Deliver(e) BY <1>3, <1>5, <1>6, <1>10, SameFiles DEF Delivery!Deliver
  <2> QED BY <2>1, SameFiles DEF Delivery!Next
<1>11. CASE /\ Pursued(h) # None
            /\ Pursued(g) = None /\ Held(g) = <<>> /\ g.saved = h.saved
  <2>1. Delivery!GiveUp(e) BY <1>3, <1>4, <1>5, <1>11 DEF Delivery!GiveUp
  <2> QED BY <2>1, SameFiles DEF Delivery!Next
<1> QED BY <1>7, <1>8, <1>9, <1>10, <1>11 DEF Moves

\* An end that has nothing to do with receiving, and one that is dead.
LEMMA NotPursuing ==
  ASSUME NEW h, h.pc \notin {"first", "data"} PROVE Pursued(h) = None /\ Held(h) = <<>>
  BY DEF Pursued, Held

LEMMA DeadView ==
  ASSUME NEW h \in Host
  PROVE  Pursued(Dead(h)) = None /\ Held(Dead(h)) = <<>> /\ Dead(h).saved = h.saved
<1>1. Dead(h).pc = "dead" /\ Dead(h).saved = h.saved BY DEF Dead, Host
<1> QED BY <1>1, NotPursuing

LEMMA ResetView ==
  ASSUME NEW h \in Host
  PROVE  Pursued(Reset(h)) = None /\ Held(Reset(h)) = <<>> /\ Reset(h).saved = h.saved
<1>1. Reset(h).pc = "idle" /\ Reset(h).saved = h.saved BY DEF Reset, AtRest
<1> QED BY <1>1, NotPursuing

\* An end that pursues nothing holds nothing.
LEMMA HoldsNothing ==
  ASSUME NEW h \in Host, Fits(h), Pursued(h) = None PROVE Held(h) = <<>>
<1>1. h.pc \in {"first", "data"} => h.job \in Job BY DEF Fits
<1> QED BY <1>1, TransferAssumption DEF Pursued, Held

\* An end that ends up with nothing pursued and nothing more written.
LEMMA Drops ==
  ASSUME NEW h \in Host, Fits(h), NEW g, Pursued(g) = None, Held(g) = <<>>, g.saved = h.saved
  PROVE  Moves(h, g)
  BY HoldsNothing DEF Moves

\* A step of end e towards g: the exception of packing leaves it dead instead.
LEMMA Became ==
  ASSUME EndsFit, EndsFit', NEW e \in End, NEW g, NEW ms, Becomes(e, g, ms)
  PROVE  \/ host' = [host EXCEPT ![e] = g]
         \/ /\ host' = [host EXCEPT ![e] = Dead(g)]
            /\ Dead(g).pc = "dead" /\ Dead(g).saved = g.saved
<1>1. CASE host' = [host EXCEPT ![e] = Dead(g)]
  <2>1. Dead(g) \in Host
    <3>1. host'[e] = Dead(g) BY <1>1 DEF EndsFit
    <3> QED BY <3>1 DEF EndsFit
  <2>2. DOMAIN Dead(g) = DOMAIN g BY DEF Dead
  <2>3. "pc" \in DOMAIN g /\ "saved" \in DOMAIN g BY <2>1, <2>2 DEF Host
  <2> QED BY <1>1, <2>3 DEF Dead
<1> QED BY <1>1 DEF Becomes

\* A dead end has given up, or has written the file before it died.
LEMMA DeadMoves ==
  ASSUME NEW h \in Host, Fits(h), NEW g, Moves(h, g),
         NEW d, d.pc = "dead", d.saved = g.saved
  PROVE  Moves(h, d)
<1>1. Pursued(d) = None /\ Held(d) = <<>> BY NotPursuing
<1>2. CASE g.saved = h.saved BY <1>1, <1>2, Drops
<1>3. CASE g.saved # h.saved
  <2>1. /\ Pursued(h) # None /\ Len(Held(h)) + 1 = Packets(Pursued(h).file)
        /\ g.saved = [job |-> Pursued(h), content |-> HeldNext(h)]
    BY <1>3 DEF Moves
  <2> QED BY <1>1, <2>1 DEF Moves
<1> QED BY <1>2, <1>3

\* A step of end e towards a state it may move to.
LEMMA BecomingDelivers ==
  ASSUME EndsFit, EndsFit', NEW e \in End, NEW g, Moves(host[e], g), NEW ms, Becomes(e, g, ms)
  PROVE  [Delivery!Next]_(Delivery!vars)
<1>1. host[e] \in Host /\ Fits(host[e]) BY DEF EndsFit, Fits
<1>2. CASE host' = [host EXCEPT ![e] = g] BY <1>2, MoveDelivers
<1>3. CASE /\ host' = [host EXCEPT ![e] = Dead(g)]
           /\ Dead(g).pc = "dead" /\ Dead(g).saved = g.saved
  <2>1. Moves(host[e], Dead(g)) BY <1>1, <1>3, DeadMoves
  <2> QED BY <1>3, <2>1, MoveDelivers
<1> QED BY <1>2, <1>3, Became

\* An end that does not receive, before or after, writes nothing.
LEMMA QuietDelivers ==
  ASSUME EndsFit, EndsFit', NEW e \in End, NEW g, NEW ms, Becomes(e, g, ms),
         g.pc \notin {"first", "data"}, g.saved = host[e].saved
  PROVE  [Delivery!Next]_(Delivery!vars)
<1>1. host[e] \in Host /\ Fits(host[e]) BY DEF EndsFit, Fits
<1>2. Moves(host[e], g) BY <1>1, NotPursuing, Drops
<1> QED BY <1>2, BecomingDelivers

-----------------------------------------------------------------------------
(* The request, and the sender: nothing is received. *)

LEMMA CountedView ==
  ASSUME NEW h \in Host, NEW m, NEW s, NEW x
  PROVE  Counted(h, m, s, x).pc = h.pc /\ Counted(h, m, s, x).saved = h.saved
  BY DEF Counted, Host

LEMMA AskingDelivers ==
  ASSUME EndsFit, EndsFit',
         \/ \E kind \in {"get", "post"}, len \in Lengths : Command(kind, len)
         \/ NotGranted
  PROVE  [Delivery!Next]_(Delivery!vars)
<1>1. host["client"] \in Host BY DEF EndsFit, End
<1>2. ASSUME NEW kind, NEW len, Command(kind, len) PROVE [Delivery!Next]_(Delivery!vars)
  <2> DEFINE h == host["client"]
  <2> DEFINE w == [kind |-> kind, file |-> [id |-> given + 1, len |-> len]]
  <2> DEFINE g == [h EXCEPT !.pc = "request", !.job = w, !.seq = @ + 1]
  <2>1. Becomes("client", g, {Request(w, h.seq, h.ack)}) BY <1>2 DEF Command
  <2>2. g.pc = "request" /\ g.saved = h.saved
    <3> HIDE DEF w
    <3> QED BY <1>1 DEF Host
  <2> HIDE DEF g
  <2> QED BY <2>1, <2>2, QuietDelivers DEF End
<1>3. ASSUME NotGranted PROVE [Delivery!Next]_(Delivery!vars)
  <2>1. Reset(host["client"]).pc = "idle" /\ Reset(host["client"]).saved = host["client"].saved
    BY DEF Reset, AtRest
  <2> QED BY <1>3, <2>1, QuietDelivers DEF NotGranted, End
<1> QED BY <1>2, <1>3

\* The client begins to wait for the first packet of a get.
LEMMA GrantedDelivers ==
  ASSUME EndsFit, EndsFit', NEW w \in Job, Single(w), NEW m \in net, Granted(m)
  PROVE  [Delivery!Next]_(Delivery!vars)
<1> DEFINE h == host["client"]
<1> DEFINE g == [h EXCEPT !.pc = "first", !.ack = @ + 1, !.tries = 1]
<1> DEFINE p == [h EXCEPT !.pc = "pause", !.ack = @ + 1, !.win = m.window]
<1>1. h \in Host /\ Fits(h) /\ Placed("client", w, h) BY DEF EndsFit, Fits, Single, End
<1>2. h.pc = "request" /\ h.job = w /\ h.content = <<>>
  BY <1>1 DEF Granted, Placed
<1>3. Becomes("client", g, {}) \/ Becomes("client", p, {}) BY DEF Granted
<1> HIDE DEF h
<1>4. g.pc = "first" /\ g.job = w /\ g.content = <<>> /\ g.saved = h.saved
  BY <1>1, <1>2 DEF Host
<1>5. p.pc = "pause" /\ p.saved = h.saved BY <1>1 DEF Host
<1> HIDE DEF g, p
<1>6. Moves(h, g) BY <1>2, <1>4 DEF Moves, Pursued, Held
<1> QED BY <1>3, <1>5, <1>6, BecomingDelivers, QuietDelivers DEF End, h

LEMMA AnsweringDelivers ==
  ASSUME EndsFit, EndsFit', NEW m \in net,
         Serve(m) \/ ServeAgain(m) \/ Leftover(m) \/ Undecodable(m)
  PROVE  [Delivery!Next]_(Delivery!vars)
<1> DEFINE h == host["server"]
<1>1. h \in Host BY DEF EndsFit, End
<1>2. ASSUME Serve(m) PROVE [Delivery!Next]_(Delivery!vars)
  <2> DEFINE g == [h EXCEPT !.pc = "listen", !.job = m.job, !.request = m, !.win = m.window]
  <2>1. g.pc = "listen" /\ g.saved = h.saved BY <1>1 DEF Host
  <2>2. Counted(g, m, h.seq, h.ack).pc = "listen" /\ Counted(g, m, h.seq, h.ack).saved = h.saved
    <3>1. {"pc", "saved", "seq", "ack"} \subseteq DOMAIN g BY <1>1 DEF Host
    <3> HIDE DEF g, h
    <3> QED BY <2>1, <3>1 DEF Counted
  <2>3. Becomes("server", Counted(g, m, h.seq, h.ack), AckFor("server", m, h.seq, h.ack))
    BY <1>2 DEF Serve
  <2> HIDE DEF g
  <2> QED BY <2>2, <2>3, QuietDelivers DEF End
<1>3. ASSUME ServeAgain(m) PROVE [Delivery!Next]_(Delivery!vars)
  <2>1. h.pc = "listen" BY <1>3 DEF ServeAgain
  <2> QED BY <1>1, <1>3, <2>1, CountedView, QuietDelivers DEF ServeAgain, End
<1>4. ASSUME Leftover(m) PROVE [Delivery!Next]_(Delivery!vars)
  <2> DEFINE g == [h EXCEPT !.ack = @ + 1]
  <2>1. g.pc = "idle" /\ g.saved = h.saved BY <1>1, <1>4 DEF Leftover, Host
  <2>2. Becomes("server", g, {}) BY <1>4 DEF Leftover
  <2> HIDE DEF g
  <2> QED BY <2>1, <2>2, QuietDelivers DEF End
<1>5. ASSUME Undecodable(m) PROVE [Delivery!Next]_(Delivery!vars)
  <2>1. Dead(h).pc = "dead" /\ Dead(h).saved = h.saved BY <1>1 DEF Dead, Host
  <2> QED BY <1>5, <2>1, QuietDelivers DEF Undecodable, End
<1> QED BY <1>2, <1>3, <1>4, <1>5

\* A sender is no receiver.
LEMMA SenderLoopView ==
  ASSUME NEW h, h.pc \notin {"first", "data"}
  PROVE  SenderLoop(h).pc \notin {"first", "data"} /\ SenderLoop(h).saved = h.saved
<1>1. Reset(h).pc = "idle" /\ Reset(h).saved = h.saved BY DEF Reset, AtRest
<1> QED BY <1>1 DEF SenderLoop

LEMMA StartSendingDelivers ==
  ASSUME EndsFit, EndsFit', NEW e \in End, StartSending(e)
  PROVE  [Delivery!Next]_(Delivery!vars)
<1> DEFINE h == host[e]
<1> DEFINE n == Smaller(h.win, Packets(h.job.file))
<1> DEFINE u == Packets(h.job.file) - n
<1> DEFINE g == [h EXCEPT !.pc = "sending", !.seq = @ + n, !.i = n, !.j = 0,
                          !.unsent = u, !.tries = 0]
<1>1. h \in Host BY DEF EndsFit
<1>2. Becomes(e, g, Packed(e, h, 0, n)) BY DEF StartSending
<1>3. g.pc = "sending" /\ g.saved = h.saved
  <2> HIDE DEF n, u, h
  <2> QED BY <1>1 DEF Host
<1> HIDE DEF g
<1> QED BY <1>2, <1>3, QuietDelivers

LEMMA AckedDelivers ==
  ASSUME EndsFit, EndsFit', NEW e \in End, NEW m \in net, AckedAndSend(e, m) \/ Acked(e, m)
  PROVE  [Delivery!Next]_(Delivery!vars)
<1> DEFINE h == host[e]
<1> DEFINE g == [h EXCEPT !.ack = @ + 1]
<1> DEFINE k == [g EXCEPT !.seq = @ + 1, !.i = @ + 1, !.j = @ + 1, !.unsent = @ - 1, !.tries = 0]
<1> DEFINE l == [h EXCEPT !.ack = @ + 1, !.j = @ + 1]
<1>1. h \in Host BY DEF EndsFit
<1>2. h.pc = "sending" BY DEF AckedAndSend, Acked
<1>3. CASE AckedAndSend(e, m)
  <2>1. Becomes(e, SenderLoop(k), Packed(e, g, h.i, h.i + 1)) BY <1>3 DEF AckedAndSend
  <2> HIDE DEF h
  <2>2. k.pc = "sending" /\ k.saved = h.saved BY <1>1, <1>2 DEF Host
  <2> HIDE DEF g, k
  <2> QED BY <2>1, <2>2, SenderLoopView, QuietDelivers DEF h
<1>4. CASE Acked(e, m)
  <2>1. Becomes(e, SenderLoop(l), {}) BY <1>4 DEF Acked
  <2> HIDE DEF h
  <2>2. l.pc = "sending" /\ l.saved = h.saved BY <1>1, <1>2 DEF Host
  <2> HIDE DEF l
  <2> QED BY <2>1, <2>2, SenderLoopView, QuietDelivers DEF h
<1> QED BY <1>3, <1>4

LEMMA SendAgainDelivers ==
  ASSUME EndsFit, EndsFit', NEW e \in End, SendAgain(e) \/ Unsure(e) \/ DamagedAck(e)
  PROVE  [Delivery!Next]_(Delivery!vars)
<1> DEFINE h == host[e]
<1>1. h \in Host BY DEF EndsFit
<1>2. h.pc = "sending" BY DEF SendAgain, Unsure, DamagedAck
<1>3. CASE SendAgain(e)
  <2> DEFINE t == Tries(h)
  <2> DEFINE q == h.seq - (h.i - h.j)
  <2> DEFINE g == [h EXCEPT !.tries = t, !.seq = q, !.i = h.j]
  <2> DEFINE b == Smaller(h.j + h.win, Packets(h.job.file))
  <2> DEFINE k == [g EXCEPT !.seq = @ + (b - h.j), !.i = b,
                            !.pc = IF b = h.j + h.win THEN @ ELSE "overrun"]
  <2>1. Becomes(e, g, {}) \/ Becomes(e, k, Packed(e, g, h.j, b))
    BY <1>3 DEF SendAgain
  <2> HIDE DEF t, q, b, h
  <2>2. g.pc = "sending" /\ g.saved = h.saved BY <1>1, <1>2 DEF Host
  <2>3. k.pc \in {"sending", "overrun"} /\ k.saved = h.saved BY <1>1, <1>2 DEF Host
  <2> HIDE DEF g, k
  <2> QED BY <2>1, <2>2, <2>3, QuietDelivers DEF h
<1>4. CASE Unsure(e)
  <2>1. Reset(h).pc = "idle" /\ Reset(h).saved = h.saved BY DEF Reset, AtRest
  <2> QED BY <1>4, <2>1, QuietDelivers DEF Unsure
<1>5. CASE DamagedAck(e)
  <2>1. Dead(h).pc = "dead" /\ Dead(h).saved = h.saved BY <1>1 DEF Dead, Host
  <2> QED BY <1>5, <2>1, QuietDelivers DEF DamagedAck
<1> QED BY <1>3, <1>4, <1>5

-----------------------------------------------------------------------------
(* The receiver. *)

LEMMA StartReceivingDelivers ==
  ASSUME EndsFit, EndsFit', NEW w \in Job, Single(w), StartReceiving
  PROVE  [Delivery!Next]_(Delivery!vars)
<1> DEFINE h == host["server"]
<1> DEFINE g == [h EXCEPT !.pc = "first", !.tries = 1]
<1>1. h \in Host /\ Placed("server", w, h) BY DEF EndsFit, Single, End
<1>2. h.pc = "listen" /\ h.job = w /\ h.content = <<>> BY <1>1 DEF StartReceiving, Placed
<1>3. Becomes("server", g, {}) BY DEF StartReceiving
<1> HIDE DEF h
<1>4. g.pc = "first" /\ g.job = w /\ g.content = <<>> /\ g.saved = h.saved
  BY <1>1, <1>2 DEF Host
<1> HIDE DEF g
<1>5. Moves(h, g) BY <1>2, <1>4 DEF Moves, Pursued, Held
<1> QED BY <1>3, <1>5, BecomingDelivers DEF End, h

\* Another try changes nothing of what has come, or there is none and it goes.
LEMMA TryMoves ==
  ASSUME NEW h \in Host, Fits(h), NEW g \in Host, g.pc = h.pc, g.job = h.job,
         g.content = h.content, g.saved = h.saved
  PROVE  Moves(h, g) /\ Moves(h, TryFirst(g)) /\ Moves(h, TryData(g))
<1> DEFINE t == g.tries + 1
<1> DEFINE k == [g EXCEPT !.tries = t]
<1>1. k.pc = g.pc /\ k.job = g.job /\ k.content = g.content /\ k.saved = g.saved
  <2> HIDE DEF t
  <2> QED BY DEF Host
<1>2. Moves(h, g) BY DEF Moves, Pursued, Held
<1> HIDE DEF k
<1>3. Moves(h, k) BY <1>1 DEF Moves, Pursued, Held
<1>4. Moves(h, Reset(g)) BY ResetView, Drops
<1> QED BY <1>2, <1>3, <1>4 DEF TryFirst, TryData, k, t

LEMMA NothingReceivedDelivers ==
  ASSUME EndsFit, EndsFit', NEW e \in End, NothingReceived(e)
  PROVE  [Delivery!Next]_(Delivery!vars)
<1>1. host[e] \in Host /\ Fits(host[e]) BY DEF EndsFit, Fits
<1> QED BY <1>1, TryMoves, BecomingDelivers DEF NothingReceived

LEMMA UnexpectedDelivers ==
  ASSUME EndsFit, EndsFit', NEW e \in End, NEW m \in net, Unexpected(e, m)
  PROVE  [Delivery!Next]_(Delivery!vars)
<1> DEFINE h == host[e]
<1> DEFINE g == Counted(h, m, h.seq, h.ack)
<1>1. h \in Host /\ Fits(h) BY DEF EndsFit, Fits
<1>2. g \in Host /\ g.pc = h.pc /\ g.job = h.job /\ g.content = h.content /\ g.saved = h.saved
  <2>1. g = Counted(h, m, h.seq, h.ack) OBVIOUS
  <2> HIDE DEF g, h
  <2> QED BY <1>1, <2>1, CountedKeeps
<1>3. Moves(h, g) /\ Moves(h, TryFirst(g))
  <2> HIDE DEF g, h
  <2> QED BY <1>1, <1>2, TryMoves
<1> QED BY <1>3, BecomingDelivers DEF Unexpected

\* The next segment: it is the last exactly when nothing remains to be read.
LEMMA ReceiverLoopMoves ==
  ASSUME NoOneByteTail, NEW w \in Job, NEW h \in Host, NEW g \in Host,
         h.pc \in {"first", "data"}, h.job = w, Len(h.content) \in Nat,
         Len(h.content) < Packets(w.file),
         g.pc = "data", g.job = w, g.saved = h.saved,
         g.content = Append(h.content, <<w.file, Len(h.content)>>),
         g.unread = Remains(w.file, Len(h.content) + 1)
  PROVE  Moves(h, ReceiverLoop(g))
<1> DEFINE n == Len(h.content)
<1> DEFINE f == w.file
<1>1. w # None /\ f \in File BY TransferAssumption DEF Job
<1>2. n + 1 \in Nat /\ Packets(f) \in Nat BY <1>1, PacketsNat
<1>3. Pursued(h) = w /\ Held(h) = h.content /\ HeldNext(h) = g.content
  BY DEF Pursued, Held, HeldNext
<1> DEFINE a == (n + 1) * MaxData
<1>4. a \in Nat /\ f.len \in Nat /\ a # f.len - 1
  <2>1. f.len \in Lengths /\ f.len \in Nat /\ MaxData \in Nat
    BY <1>1, CrpAssumption DEF File
  <2>2. a \in Nat BY <1>2, <2>1
  <2>3. \A k \in Nat : k * MaxData # f.len - 1 BY <2>1 DEF NoOneByteTail
  <2> QED BY <1>2, <2>1, <2>2, <2>3
<1>5. n + 1 < Packets(f) <=> a < f.len BY <1>1, <1>2, PacketsBound
<1>6. g.unread = IF a <= f.len THEN f.len - 1 - a ELSE -1 BY DEF Remains
<1> HIDE DEF a
<1>7. g.unread > 0 <=> n + 1 < Packets(f) BY <1>4, <1>5, <1>6
<1> HIDE DEF n, f
<1>8. CASE g.unread > 0
  <2>1. ReceiverLoop(g) = g BY <1>8 DEF ReceiverLoop
  <2>2. Pursued(g) = w /\ Held(g) = g.content BY DEF Pursued, Held
  <2> QED BY <1>1, <1>3, <1>7, <1>8, <2>1, <2>2 DEF Moves, n, f
<1>9. CASE ~(g.unread > 0)
  <2> DEFINE v == [job |-> g.job, content |-> g.content]
  <2> DEFINE r == [Reset(g) EXCEPT !.saved = v]
  <2>1. ReceiverLoop(g) = r BY <1>9 DEF ReceiverLoop
  <2>2. r.pc = "idle" /\ r.saved = v
    <3>1. Reset(g) \in Host /\ Reset(g).pc = "idle"
      BY ResetFits DEF Fits, Reset, AtRest
    <3> HIDE DEF v
    <3> QED BY <3>1 DEF Host
  <2> HIDE DEF r
  <2>3. Pursued(r) = None /\ Held(r) = <<>> BY <2>2, NotPursuing
  <2>4. n + 1 = Packets(f) BY <1>2, <1>7, <1>9 DEF n, f
  <2> QED BY <1>1, <1>3, <2>1, <2>2, <2>3, <2>4 DEF Moves, n, f
<1> QED BY <1>8, <1>9

LEMMA FirstPacketDelivers ==
  ASSUME NoOneByteTail, EndsFit, EndsFit', NEW w \in Job, Single(w), NEW e \in End,
         NEW m \in net, FirstPacket(e, m)
  PROVE  [Delivery!Next]_(Delivery!vars)
<1> DEFINE h == host[e]
<1> DEFINE g == Counted(h, m, h.seq, h.ack)
<1> DEFINE ms == AckFor(e, m, h.seq, h.ack)
<1>1. h \in Host /\ Fits(h) /\ Placed(e, w, h) BY DEF EndsFit, Fits, Single
<1>2. h.pc = "first" /\ m.seq = h.ack BY DEF FirstPacket
<1>3. h.ack = 1 /\ h.job = w /\ h.content = <<>> BY <1>1, <1>2 DEF Placed
<1>4. g \in Host /\ g.pc = h.pc /\ g.job = w /\ g.saved = h.saved
  <2>1. g = Counted(h, m, h.seq, h.ack) OBVIOUS
  <2> HIDE DEF g, h
  <2> QED BY <1>1, <1>3, <2>1, CountedKeeps
<1>5. Numbered(w, m) /\ m \in Message BY DEF Single, EndsFit
<1>6. CASE m.type # "data"
  <2>1. Becomes(e, Dead(g), ms) BY <1>6 DEF FirstPacket
  <2> HIDE DEF g, h
  <2>2. Dead(g).pc = "dead" /\ Dead(g).saved = h.saved BY <1>4 DEF Dead, Host
  <2> QED BY <2>1, <2>2, QuietDelivers DEF h
<1>7. CASE m.type = "data"
  <2>1. m.file = w.file /\ m.k \in Nat /\ m.seq = m.k + 1 /\ m.k < Packets(w.file)
    BY <1>5, <1>7 DEF Numbered, Message
  <2>2. m.k = 0 BY <1>2, <1>3, <2>1
  <2>3. w.file \in File BY DEF Job
  <2> DEFINE u == w.file.len - (1 + Size(w.file, 0))
  <2> DEFINE c == <<<<w.file, 0>>>>
  <2> DEFINE z == 0
  <2> DEFINE k == [g EXCEPT !.pc = "data", !.tries = z, !.content = c, !.unread = u]
  <2>4. Becomes(e, ReceiverLoop(k), ms) BY <1>7, <2>1, <2>2 DEF FirstPacket, Announced
  <2>5. u = Remains(w.file, 1) /\ u \in Int
    <3>1. w.file.len \in Int /\ Size(w.file, 0) \in Int BY <2>3, SizesInt
    <3> QED BY <2>3, <3>1, RemainsFirst
  <2>6. Len(h.content) = 0 /\ c = Append(h.content, <<w.file, 0>>) BY <1>3
  <2>7. c \in Seq(File \X Nat) BY <2>3
  <2>8. z \in 0 .. MaxTries + MoreTries BY TransferAssumption
  <2> HIDE DEF g, u, c, z, ms, h
  <2>9. k \in Host /\ k.pc = "data" /\ k.job = g.job /\ k.content = c
        /\ k.unread = u /\ k.saved = g.saved
    BY <1>4, <2>5, <2>7, <2>8 DEF Host
  <2> HIDE DEF k
  <2>10. Moves(h, ReceiverLoop(k))
    <3>1. Len(h.content) \in Nat /\ Len(h.content) < Packets(w.file)
      BY <2>1, <2>2, <2>6
    <3>2. k.unread = Remains(w.file, Len(h.content) + 1) BY <2>5, <2>6, <2>9
    <3>3. k.content = Append(h.content, <<w.file, Len(h.content)>>) BY <2>6, <2>9
    <3> QED BY <1>1, <1>2, <1>3, <1>4, <2>9, <3>1, <3>2, <3>3, ReceiverLoopMoves
  <2> QED BY <2>4, <2>10, BecomingDelivers DEF h
<1> QED BY <1>6, <1>7

LEMMA NextPacketDelivers ==
  ASSUME NoOneByteTail, EndsFit, EndsFit', NEW w \in Job, Single(w), NEW e \in End,
         NEW m \in net, m.to = e, NextPacket(e, m)
  PROVE  [Delivery!Next]_(Delivery!vars)
<1> DEFINE h == host[e]
<1> DEFINE f == Counted(h, m, h.seq, h.ack)
<1> DEFINE z == 0
<1> DEFINE g == [f EXCEPT !.tries = z]
<1> DEFINE ms == AckFor(e, m, h.seq, h.ack)
<1> DEFINE n == Len(h.content)
<1>1. h \in Host /\ Fits(h) /\ Placed(e, w, h) BY DEF EndsFit, Fits, Single
<1>2. h.content \in Seq(File \X Nat) /\ h.unread \in Int BY <1>1 DEF Host
<1>3. h.pc = "data" /\ m.seq = h.ack BY DEF NextPacket
<1>4. e = Receiver(w) /\ h.ack = n + 1 /\ n > 0 /\ h.job = w /\ h.unread = Remains(w.file, n)
  BY <1>1, <1>3 DEF Placed
<1>5. n \in Nat BY <1>2
<1>6. Numbered(w, m) /\ m \in Message BY DEF Single, EndsFit
<1>7. m.type = "data"
  <2>1. m.seq # 0 BY <1>3, <1>4, <1>5
  <2> QED BY <1>4, <1>6, <2>1 DEF Numbered, Message
<1>8. m.file = w.file /\ m.k = n /\ n < Packets(w.file)
  <2>1. m.k \in Nat BY <1>6, <1>7 DEF Message
  <2> QED BY <1>3, <1>4, <1>5, <1>6, <1>7, <2>1 DEF Numbered
<1>9. w.file \in File BY DEF Job
<1>10. /\ f \in Host /\ f.pc = "data" /\ f.job = w /\ f.saved = h.saved
       /\ f.content = h.content /\ f.unread = h.unread
  <2>1. f = Counted(h, m, h.seq, h.ack) OBVIOUS
  <2> HIDE DEF f, h
  <2> QED BY <1>1, <1>3, <1>4, <2>1, CountedKeeps
<1>11. z \in 0 .. MaxTries + MoreTries BY TransferAssumption
<1> DEFINE c == Append(h.content, <<w.file, n>>)
<1> DEFINE u == h.unread - Size(w.file, n)
<1> DEFINE k == [f EXCEPT !.tries = z, !.content = c, !.unread = u]
<1>12. g.content = h.content /\ g.unread = h.unread
  <2> HIDE DEF f, h, z
  <2> QED BY <1>10 DEF Host
<1>13. Becomes(e, ReceiverLoop([g EXCEPT !.content = c, !.unread = u]), ms)
  BY <1>7, <1>8, <1>12 DEF NextPacket
<1>14. u = Remains(w.file, n + 1) /\ u \in Int
  <2>1. Size(w.file, n) \in Int BY <1>5, <1>9, SizeInt
  <2> QED BY <1>2, <1>4, <1>5, <1>8, <1>9, <2>1, RemainsNext
<1>15. c \in Seq(File \X Nat)
  <2>1. <<w.file, n>> \in File \X Nat BY <1>5, <1>9
  <2> QED BY <1>2, <2>1
<1>16. [g EXCEPT !.content = c, !.unread = u] = k
  <2> HIDE DEF f, c, u, z
  <2> QED BY <1>10 DEF Host
<1> HIDE DEF f, u, z, ms, g, h
<1>17. k \in Host /\ k.pc = "data" /\ k.job = w /\ k.content = c
       /\ k.unread = u /\ k.saved = h.saved
  <2> HIDE DEF c
  <2> QED BY <1>10, <1>11, <1>14, <1>15 DEF Host
<1> HIDE DEF k
<1>18. Moves(h, ReceiverLoop(k))
  BY <1>1, <1>3, <1>4, <1>5, <1>8, <1>14, <1>17, ReceiverLoopMoves
<1> QED BY <1>13, <1>16, <1>18, BecomingDelivers DEF h

-----------------------------------------------------------------------------
(* The steps. *)

LEMMA ReceiveDelivers ==
  ASSUME NoOneByteTail, EndsFit, EndsFit', NEW w \in Job, Single(w), NEW e \in End,
         NEW m \in net, m.to = e, Receive(e, m)
  PROVE  [Delivery!Next]_(Delivery!vars)
  BY AckedDelivers, UnexpectedDelivers, FirstPacketDelivers, NextPacketDelivers DEF Receive

LEMMA TimeoutDelivers ==
  ASSUME EndsFit, EndsFit', NEW e \in End, StartSending(e) \/ Timeout(e) \/ DamagedAck(e)
  PROVE  [Delivery!Next]_(Delivery!vars)
  BY StartSendingDelivers, SendAgainDelivers, NothingReceivedDelivers DEF Timeout

LEMMA DeliveryStep ==
  ASSUME Once, NoOneByteTail, OneInv, EndsFit', [Next]_vars
  PROVE  [Delivery!Next]_(Delivery!vars)
<1>1. EndsFit BY DEF OneInv, Inv
<1>2. CASE UNCHANGED vars
  BY <1>2 DEF vars, Delivery!vars, Pursued, Held
<1>3. CASE \/ \E kind \in {"get", "post"}, len \in Lengths : Command(kind, len)
           \/ NotGranted
  BY <1>1, <1>3, AskingDelivers
<1>4. ASSUME NEW e \in End, StartSending(e) \/ Timeout(e) \/ DamagedAck(e)
      PROVE  [Delivery!Next]_(Delivery!vars)
  BY <1>1, <1>4, TimeoutDelivers
<1>5. ASSUME given = 0, NEW m \in net PROVE FALSE
  BY <1>5 DEF OneInv, Untouched
<1>6. ASSUME given = 0, StartReceiving PROVE FALSE
  BY <1>6 DEF OneInv, Untouched, AtRest, StartReceiving, End
<1>7. given # 0 => \E w \in Job : Single(w) BY DEF OneInv
<1>8. ASSUME NEW m \in net, m.to = "client", Granted(m) \/ Receive("client", m)
      PROVE  [Delivery!Next]_(Delivery!vars)
  <2>1. PICK w \in Job : Single(w) BY <1>5, <1>7
  <2> QED BY <1>1, <1>8, <2>1, GrantedDelivers, ReceiveDelivers DEF End
<1>9. ASSUME NEW m \in net, m.to = "server",
             Serve(m) \/ ServeAgain(m) \/ Leftover(m) \/ Undecodable(m) \/ Receive("server", m)
      PROVE  [Delivery!Next]_(Delivery!vars)
  <2>1. PICK w \in Job : Single(w) BY <1>5, <1>7
  <2> QED BY <1>1, <1>9, <2>1, AnsweringDelivers, ReceiveDelivers DEF End
<1>10. ASSUME StartReceiving PROVE [Delivery!Next]_(Delivery!vars)
  <2>1. PICK w \in Job : Single(w) BY <1>6, <1>7, <1>10
  <2> QED BY <1>1, <1>10, <2>1, StartReceivingDelivers
<1>11. CASE ClientNext BY <1>3, <1>4, <1>8, <1>11 DEF ClientNext, End
<1>12. CASE ServerNext BY <1>4, <1>9, <1>10, <1>12 DEF ServerNext, End
<1> QED BY <1>2, <1>11, <1>12 DEF Next

\* Both ends implement FileDelivery, for any windows, files, number of tries
\* and whatever the network does: a receiver takes the segments one by one and
\* in order and writes the file with the last (get_client, post_server), if one
\* command is served once and no last segment is of one byte.
THEOREM Refinement ==
  ASSUME Once, NoOneByteTail
  PROVE  Spec => ImplementsFileDelivery
<1>1. Init => Delivery!Init
  <2> SUFFICES ASSUME Init PROVE Delivery!Init
    OBVIOUS
  <2>1. \A e \in End : Pursued(host[e]) = None /\ Held(host[e]) = <<>> /\ host[e].saved = None
    BY DEF Init, AtRest, Pursued, Held
  <2> QED BY <2>1, SameFiles DEF Delivery!Init
<1>2. ASSUME OneInv, OneInv', [Next]_vars PROVE [Delivery!Next]_(Delivery!vars)
  <2>1. EndsFit' BY <1>2 DEF OneInv, Inv
  <2> QED BY <1>2, <2>1, DeliveryStep
<1> QED
  BY <1>1, <1>2, OneInit, OneStep, PTL DEF Spec, ImplementsFileDelivery, Delivery!Spec
=============================================================================
