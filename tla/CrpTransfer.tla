---------------------------- MODULE CrpTransfer ----------------------------
(***************************************************************************)
(* get and post over an open CRP connection: the go-back-N loops of        *)
(* api.fta at both ends, and the counters that send, receive, receive_ack  *)
(* and send_ack keep.  The server sends a get, the client sends a post;    *)
(* the source has each loop twice, here it is once, for an end e.          *)
(*                                                                         *)
(* The network is UDP at its worst: net holds every datagram ever sent,    *)
(* and any of them may arrive at any time, any number of times, whole or   *)
(* damaged.  A datagram sent again is therefore a step only if it, or the  *)
(* sender, is not as before.  Any read may time out and any deadline pass. *)
(***************************************************************************)
EXTENDS CrpPacket, Sequences

CONSTANTS
  MaxTries,   \* MAX_RETRIES_SAME_PACKET
  MoreTries,  \* the 20 more the data loop allows
  MaxDrift,   \* bound: how far leftover packets may drive an idle ack_nbr
  MaxServed,  \* bound: requests the server serves
  None        \* no command, no request

ASSUME TransferAssumption ==
  /\ MaxTries \in Nat \ {0} /\ MoreTries \in Nat /\ MaxDrift \in Nat /\ MaxServed \in Nat
  /\ None \notin Job /\ None \notin Message

VARIABLES
  host,   \* the state of each end, below
  given,  \* commands the user has given
  served, \* requests the server has begun to serve
  net     \* every datagram sent

vars == <<host, given, served, net>>

(* pc: where the end is in its program.  seq and ack: seq_nbr and ack_nbr. *)
(* job: the command; request: the packet the server answers.  tries:       *)
(* num_retries_same_packet.  i, j, unsent, win: the sender's loop, with    *)
(* unsent for remaining_to_send.  content, unread: the receiver's loop,    *)
(* with unread for remaining - i.  saved: what was last written to disk.   *)
Host ==
  [pc : {"idle", "request", "listen", "pause", "sending", "first", "data",
         "dead", "overrun"},
   seq : Int, ack : Int,
   job : Job \cup {None}, request : Message \cup {None},
   tries : 0 .. MaxTries + MoreTries,
   i : Nat, j : Nat, unsent : Nat, win : Nat,
   content : Seq(File \X Nat), unread : Int,
   saved : {None} \cup [job : Job, content : Seq(File \X Nat)]]

TypeOK ==
  /\ host \in [End -> Host]
  /\ given \in 0 .. MaxCommands
  /\ served \in 0 .. MaxServed
  /\ net \subseteq Message

AtRest ==
  [pc |-> "idle", seq |-> 0, ack |-> 0, job |-> None, request |-> None,
   tries |-> 0, i |-> 0, j |-> 0, unsent |-> 0, win |-> 0,
   content |-> <<>>, unread |-> 0, saved |-> None]

Init ==
  /\ host = [e \in End |-> AtRest]
  /\ given = 0 /\ served = 0
  /\ net = {}


\* The command is over: FTA-client's get and post, or Server_run, reset the
\* counters.
Reset(h) == [AtRest EXCEPT !.saved = h.saved]

Dead(h) == [h EXCEPT !.pc = "dead"]

\* End e goes on as h and sends ms.  The header's numbers are packed as
\* unsigned: one below zero raises struct.error, which nothing catches.
Becomes(e, h, ms) ==
  LET packed == {m \in ms : m.seq >= 0 /\ m.ack >= 0}
  IN  /\ host' = [host EXCEPT ![e] = IF packed = ms THEN h ELSE Dead(h)]
      /\ net' = net \cup packed

-----------------------------------------------------------------------------
(* The counters. *)

\* receive_ack's answer for m.  When it is false, ack_nbr is as it was.
IsExpectedAck(h, m) == m.type = "ack" /\ m.seq = h.ack

\* send_ack for packet m when seq_nbr is s and ack_nbr is x + 1: the answer
\* for a packet already received carries the number the peer waits for.
AckFor(e, m, s, x) ==
  IF m.seq = x THEN {Ack(e, s, x + 1)}
  ELSE IF m.seq < x THEN {Ack(e, m.ack, x + 1)}
  ELSE {}

\* Slip: ack_nbr is not taken back after a packet ahead of its turn.
CountedAhead(h, m, s, x) ==
  IF m.seq >= x THEN [h EXCEPT !.seq = s + 1, !.ack = x + 1]
  ELSE [h EXCEPT !.seq = s, !.ack = x]

\* The counters send_ack leaves.
Counted(h, m, s, x) ==
  IF m.seq = x THEN [h EXCEPT !.seq = s + 1, !.ack = x + 1]
  ELSE [h EXCEPT !.seq = s, !.ack = x]

-----------------------------------------------------------------------------
(* The client asks. *)

Command(kind, len) ==
  LET h == host["client"]
      w == [kind |-> kind, file |-> [id |-> given + 1, len |-> len]]
  IN  /\ h.pc = "idle" /\ given < MaxCommands
      /\ given' = given + 1 /\ UNCHANGED served
      /\ Becomes("client",
                 [h EXCEPT !.pc = "request", !.job = w, !.seq = @ + 1],
                 {Request(w, h.seq, h.ack)})

\* The request is acknowledged: wait for the first packet of a get, or wait
\* until the server has finished listening for a second post.
Granted(m) ==
  LET h == host["client"]
  IN  /\ h.pc = "request" /\ IsExpectedAck(h, m)
      /\ \/ /\ h.job.kind = "get"
            /\ Becomes("client",
                       [h EXCEPT !.pc = "first", !.ack = @ + 1, !.tries = 1], {})
         \/ /\ h.job.kind = "post"
            /\ Becomes("client",
                       [h EXCEPT !.pc = "pause", !.ack = @ + 1, !.win = m.window], {})
      /\ UNCHANGED <<given, served>>

\* Seven seconds without the acknowledgement.
NotGranted ==
  /\ host["client"].pc = "request"
  /\ Becomes("client", Reset(host["client"]), {})
  /\ UNCHANGED <<given, served>>

-----------------------------------------------------------------------------
(* The server answers. *)

Serve(m) ==
  LET h == host["server"]
      g == [h EXCEPT !.pc = "listen", !.job = m.job, !.request = m,
                     !.win = m.window]
  IN  /\ h.pc = "idle" /\ m.type = "request" /\ served < MaxServed
      /\ Becomes("server", Counted(g, m, h.seq, h.ack), AckFor("server", m, h.seq, h.ack))
      /\ served' = served + 1 /\ UNCHANGED given

\* Whatever comes while get_server or post_server listens for the request
\* once more is taken for it, and the request is acknowledged again.
ServeAgain(m) ==
  LET h == host["server"]
      s == h.seq - 1
      x == h.ack - 1
  IN  /\ h.pc = "listen"
      /\ Becomes("server", Counted(h, h.request, s, x),
                 AckFor("server", h.request, s, x))
      /\ UNCHANGED <<given, served>>

\* Server_run drops a packet without a semicolon, but counts one with data.
Leftover(m) ==
  LET h == host["server"]
  IN  /\ h.pc = "idle" /\ m.type = "data" /\ h.ack < MaxDrift
      /\ Becomes("server", [h EXCEPT !.ack = @ + 1], {})
      /\ UNCHANGED <<given, served>>

\* Data that is not UTF-8 ends the server's thread where it is decoded.
Undecodable(m) ==
  LET h == host["server"]
  IN  /\ \/ h.pc = "idle"
         \/ h.pc = "listen" /\ h.job.kind = "get"
      /\ m.type = "data"
      /\ Becomes("server", Dead(h), {})
      /\ UNCHANGED <<given, served>>

-----------------------------------------------------------------------------
(* The sender: get_server and post_client. *)

\* Packets a to b - 1, numbered from seq_nbr.
Packed(e, h, a, b) ==
  {Data(e, h.job.file, k, h.seq + (k - a), h.ack) : k \in a .. b - 1}

Smaller(a, b) == IF a <= b THEN a ELSE b

\* The seven seconds of listening, or of waiting, are over: the first window.
StartSending(e) ==
  LET h == host[e]
      n == Smaller(h.win, Packets(h.job.file))
  IN  /\ \/ h.pc = "pause"
         \/ h.pc = "listen" /\ h.job.kind = "get"
      /\ Becomes(e, [h EXCEPT !.pc = "sending", !.seq = @ + n, !.i = n, !.j = 0,
                              !.unsent = Packets(h.job.file) - n, !.tries = 0],
                 Packed(e, h, 0, n))
      /\ UNCHANGED <<given, served>>

\* while j < num_packets
SenderLoop(h) == IF h.j < Packets(h.job.file) THEN h ELSE Reset(h)

\* Slip: the next packet is sent, and not counted as sent.
AckedAndSendUncounted(e, m) ==
  LET h == host[e]
      g == [h EXCEPT !.ack = @ + 1]
  IN  /\ h.pc = "sending" /\ IsExpectedAck(h, m) /\ h.unsent > 0
      /\ Becomes(e, SenderLoop([g EXCEPT !.seq = @ + 1, !.i = @ + 1, !.j = @ + 1,
                                         !.tries = 0]),
                 Packed(e, g, h.i, h.i + 1))
      /\ UNCHANGED <<given, served>>

\* An acknowledgement while packets are unsent: send the next.
AckedAndSend(e, m) ==
  LET h == host[e]
      g == [h EXCEPT !.ack = @ + 1]
  IN  /\ h.pc = "sending" /\ IsExpectedAck(h, m) /\ h.unsent > 0
      /\ Becomes(e, SenderLoop([g EXCEPT !.seq = @ + 1, !.i = @ + 1, !.j = @ + 1,
                                         !.unsent = @ - 1, !.tries = 0]),
                 Packed(e, g, h.i, h.i + 1))
      /\ UNCHANGED <<given, served>>

Acked(e, m) ==
  LET h == host[e]
  IN  /\ h.pc = "sending" /\ IsExpectedAck(h, m) /\ h.unsent = 0
      /\ Becomes(e, SenderLoop([h EXCEPT !.ack = @ + 1, !.j = @ + 1]), {})
      /\ UNCHANGED <<given, served>>

\* Slip: tries are counted only when all is sent.
TriesAtEnd(h) == IF h.unsent = 0 THEN h.tries + 1 ELSE h.tries

\* The tries a timeout leaves: counted when the window is out, or all is sent.
Tries(h) == IF h.i - h.win = h.j \/ h.unsent = 0 THEN h.tries + 1 ELSE h.tries

\* A timeout: go back to the first packet not acknowledged, and send the
\* window again, but only while there are packets never sent.  Past the end
\* of the list of packets the loop raises IndexError.
SendAgain(e) ==
  LET h == host[e]
      g == [h EXCEPT !.tries = Tries(h), !.seq = @ - (h.i - h.j), !.i = h.j]
      b == Smaller(h.j + h.win, Packets(h.job.file))
  IN  /\ h.pc = "sending" /\ Tries(h) <= MaxTries
      /\ \/ /\ h.unsent = 0
            /\ Becomes(e, g, {})
         \/ /\ h.unsent > 0
            /\ Becomes(e, [g EXCEPT !.seq = @ + (b - h.j), !.i = b,
                                    !.pc = IF b = h.j + h.win THEN @ ELSE "overrun"],
                       Packed(e, g, h.j, b))
      /\ UNCHANGED <<given, served>>

\* "GET success unsure", "POST success unsure".
Unsure(e) ==
  /\ host[e].pc = "sending" /\ Tries(host[e]) > MaxTries
  /\ Becomes(e, Reset(host[e]), {})
  /\ UNCHANGED <<given, served>>

\* A damaged datagram: receive returns None, and receive_ack subscripts it.
DamagedAck(e) ==
  /\ host[e].pc = "sending"
  /\ \E m \in net : m.to = e
  /\ Becomes(e, Dead(host[e]), {})
  /\ UNCHANGED <<given, served>>

-----------------------------------------------------------------------------
(* The receiver: get_client and post_server. *)

\* The seven seconds in which post_server listens are over.
StartReceiving ==
  LET h == host["server"]
  IN  /\ h.pc = "listen" /\ h.job.kind = "post"
      /\ Becomes("server", [h EXCEPT !.pc = "first", !.tries = 1], {})
      /\ UNCHANGED <<given, served>>

\* Slip: the last byte does not count.
ReceiverLoopShort(h) ==
  IF h.unread > 1
  THEN h
  ELSE [Reset(h) EXCEPT !.saved = [job |-> h.job, content |-> h.content]]

\* while i < remaining; then the file is written.
ReceiverLoop(h) ==
  IF h.unread > 0
  THEN h
  ELSE [Reset(h) EXCEPT !.saved = [job |-> h.job, content |-> h.content]]

\* Another try for the first packet, if there is one left.
TryFirst(h) == IF h.tries < MaxTries THEN [h EXCEPT !.tries = @ + 1] ELSE Reset(h)

\* Slip: one try too many.
TryDataMore(h) ==
  IF h.tries <= MaxTries + MoreTries THEN [h EXCEPT !.tries = @ + 1] ELSE Reset(h)

\* Slip: what has come is written all the same when no try is left.
TryDataOrSave(h) ==
  IF h.tries < MaxTries + MoreTries THEN [h EXCEPT !.tries = @ + 1]
  ELSE [Reset(h) EXCEPT !.saved = [job |-> h.job, content |-> h.content]]

\* Another try in the data loop, if there is one left.
TryData(h) ==
  IF h.tries < MaxTries + MoreTries THEN [h EXCEPT !.tries = @ + 1] ELSE Reset(h)

\* A timeout or a damaged datagram.
NothingReceived(e) ==
  LET h == host[e]
  IN  /\ \/ h.pc = "first" /\ Becomes(e, TryFirst(h), {})
         \/ h.pc = "data" /\ Becomes(e, TryData(h), {})
      /\ UNCHANGED <<given, served>>

\* send_ack is false: a packet already received, or one ahead of its turn.
Unexpected(e, m) ==
  LET h == host[e]
      g == Counted(h, m, h.seq, h.ack)
  IN  /\ m.seq # h.ack
      /\ \/ h.pc = "first" /\ Becomes(e, TryFirst(g), AckFor(e, m, h.seq, h.ack))
         \/ h.pc = "data" /\ Becomes(e, g, AckFor(e, m, h.seq, h.ack))
      /\ UNCHANGED <<given, served>>

FirstPacket(e, m) ==
  LET h == host[e]
      g == Counted(h, m, h.seq, h.ack)
  IN  /\ h.pc = "first" /\ m.seq = h.ack
      /\ \/ /\ m.type = "data"
            /\ \E n \in Announced(m) :
                 Becomes(e, ReceiverLoop([g EXCEPT
                              !.pc = "data", !.tries = 0,
                              !.content = <<<<m.file, m.k>>>>,
                              !.unread = n - (1 + Size(m.file, m.k))]),
                         AckFor(e, m, h.seq, h.ack))
         \/ \* No length to unpack.
            /\ m.type # "data"
            /\ Becomes(e, Dead(g), AckFor(e, m, h.seq, h.ack))
      /\ UNCHANGED <<given, served>>

\* Neither loop asks whether the packet is one of data.
NextPacket(e, m) ==
  LET h == host[e]
      g == [Counted(h, m, h.seq, h.ack) EXCEPT !.tries = 0]
  IN  /\ h.pc = "data" /\ m.seq = h.ack
      /\ \/ /\ m.type = "data"
            /\ Becomes(e, ReceiverLoop([g EXCEPT
                                          !.content = Append(@, <<m.file, m.k>>),
                                          !.unread = @ - Size(m.file, m.k)]),
                       AckFor(e, m, h.seq, h.ack))
         \/ /\ m.type # "data"
            /\ Becomes(e, g, AckFor(e, m, h.seq, h.ack))
      /\ UNCHANGED <<given, served>>

-----------------------------------------------------------------------------

Receive(e, m) ==
  \/ AckedAndSend(e, m) \/ Acked(e, m)
  \/ Unexpected(e, m) \/ FirstPacket(e, m) \/ NextPacket(e, m)

Timeout(e) == SendAgain(e) \/ Unsure(e) \/ NothingReceived(e)

ClientNext ==
  \/ \E kind \in {"get", "post"}, len \in Lengths : Command(kind, len)
  \/ \E m \in net : m.to = "client" /\ (Granted(m) \/ Receive("client", m))
  \/ NotGranted \/ StartSending("client")
  \/ Timeout("client") \/ DamagedAck("client")

ServerNext ==
  \/ \E m \in net :
       /\ m.to = "server"
       /\ \/ Serve(m) \/ ServeAgain(m) \/ Leftover(m) \/ Undecodable(m)
          \/ Receive("server", m)
  \/ StartSending("server") \/ StartReceiving
  \/ Timeout("server") \/ DamagedAck("server")

Next == ClientNext \/ ServerNext

\* A finite number of datagrams is sent in a command and none comes for ever:
\* the client's deadlines pass, and its reads time out.
Spec ==
  /\ Init /\ [][Next]_vars
  /\ WF_vars(NotGranted) /\ WF_vars(StartSending("client"))
  /\ WF_vars(Timeout("client"))
-----------------------------------------------------------------------------
(* Properties. *)

\* What a receiver holds is the first segments of the file it is after, each
\* once and in order, whatever the network does with packets and
\* acknowledgements: the two counters of each end and the numbers the sender
\* goes back to agree (api.send_ack, the loops of get_client and post_server).
ContentIsPrefix ==
  \A e \in End :
    host[e].pc \in {"first", "data"} =>
      /\ Len(host[e].content) <= Packets(host[e].job.file)
      /\ \A n \in 1 .. Len(host[e].content) :
           host[e].content[n] = <<host[e].job.file, n - 1>>

\* While packets are unsent a sender has exactly its peer's window out, and
\* what it counts as unsent is what follows in its list: so neither the resend
\* loop, which does not count, nor the next packet runs past the end of the
\* list, which nothing in api.get_server and api.post_client checks.
WindowKept ==
  \A e \in End :
    LET h == host[e]
    IN  /\ h.pc = "sending" /\ h.unsent > 0 =>
             /\ h.i - h.j = h.win
             /\ h.i + h.unsent = Packets(h.job.file)
        /\ h.pc # "overrun"

\* A file is written ("Downloaded ... successfully" in FTA-client.get,
\* "uploaded successfully" in FTA-server.Server_run) only when all of its
\* packets have come, although the receiver counts bytes, and counts those of
\* the first packet in its own way (remaining, in get_client and post_server).
Whole ==
  \A e \in End :
    host[e].saved # None =>
      Len(host[e].saved.content) = Packets(host[e].saved.job.file)

\* The file written under a name is the file of that name: the acknowledgement
\* that starts a transfer is one of this request (get_server takes all it hears
\* in seven seconds for the same request again).
RightFile ==
  \A e \in End :
    host[e].saved # None =>
      \A n \in DOMAIN host[e].saved.content :
        host[e].saved.content[n] = <<host[e].saved.job.file, n - 1>>

\* What a receiver is after, and what it has of it.
Pursued(h) == IF h.pc \in {"first", "data"} THEN h.job ELSE None
Held(h)    == IF h.pc \in {"first", "data"} THEN h.content ELSE <<>>

\* Both receiving loops (get_client, post_server) implement FileDelivery: a
\* retransmission, a late packet or an early one takes nothing from what has
\* come and adds nothing to it, and a transfer that is given up writes nothing.
Delivery == INSTANCE FileDelivery WITH
  job   <- [e \in End |-> Pursued(host[e])],
  got   <- [e \in End |-> Held(host[e])],
  saved <- [e \in End |-> host[e].saved]

ImplementsFileDelivery == Delivery!Spec

\* A get or a post comes back to the user, or ends the client, whatever
\* becomes of the server.
CommandEnds ==
  host["client"].pc \notin {"idle", "dead"} ~> host["client"].pc \in {"idle", "dead"}
=============================================================================
