---------------------------- MODULE RelDatWindow ----------------------------
(***************************************************************************)
(* The server's buffer of echoed packets (server/Window.java), as pure     *)
(* operators on a record:                                                  *)
(*   start, end  the window, a ring segment of the sequence numbers        *)
(*   unacked     the counter that isfull and getfreewindow read            *)
(*   ack         per sequence number, whether its echo was acknowledged    *)
(*   pkt         the echo kept for resending, or NoPkt; timer[n] is set    *)
(*               and cleared together with pkt[n] and is not kept apart    *)
(* The unread fields (lastAck, senderWindowSize) are left out.             *)
(***************************************************************************)
EXTENDS RelDatPacket

CONSTANT WinSize   \* the window size of the server's command line

ASSUME WindowAssumption == WinSize \in Nat /\ 0 < WinSize /\ WinSize < SeqSize

WindowType ==
  [start : 0 .. SeqSize, end : Seqs, unacked : Int,
   ack : [Seqs -> BOOLEAN], pkt : [Seqs -> Packet \cup {NoPkt}]]

\* The constructor.
NewWindow ==
  [start |-> 0, end |-> WinSize, unacked |-> 0,
   ack |-> [n \in Seqs |-> FALSE], pkt |-> [n \in Seqs |-> NoPkt]]

HasUnackedPkt(w) == w.unacked > 0

\* Slip: one packet too many.
IsFullLate(w) == w.unacked > WinSize

IsFull(w) == w.unacked >= WinSize

GetFreeWindow(w) == WinSize - w.unacked

\* inrange: both ends of the window count as inside.
InRange(w, n) ==
  IF w.start < w.end
  THEN ~(n < w.start \/ n > w.end)
  ELSE ~(n > w.end /\ n < w.start)

\* Slip: a duplicate is counted again.
AddPacketTwice(w, n, p) ==
  [w EXCEPT !.unacked = @ + (IF InRange(w, n) THEN 1 ELSE 0),
            !.ack[n] = FALSE,
            !.pkt[n] = p]

\* addpacket: count a packet in range, take back the count if its slot was
\* already occupied, then store it as not acknowledged.
AddPacket(w, n, p) ==
  [w EXCEPT !.unacked = @ + (IF InRange(w, n) THEN 1 ELSE 0)
                          - (IF w.pkt[n] # NoPkt THEN 1 ELSE 0),
            !.ack[n] = FALSE,
            !.pkt[n] = p]

\* The marks moveWindow has reset after k turns of its loop: one per turn,
\* at the end the window had before that turn.
ResetBySlide(w, k) == {(w.end + j) % SeqSize : j \in 0 .. k - 1}

\* Slip: "if" for "while".
SlidesOnce(w, k) ==
  k = IF w.start < SeqSize /\ w.ack[w.start] THEN 1 ELSE 0

\* moveWindow's loop runs exactly k times.  Its index is not wrapped: past
\* the last slot the array access throws, which the caller catches, and what
\* the loop has done so far stands.
SlidesBy(w, k) ==
  LET Marked(j) == /\ w.start + j < SeqSize
                   /\ w.ack[w.start + j]
                   /\ w.start + j \notin ResetBySlide(w, j)
  IN  /\ \A j \in 0 .. k - 1 : Marked(j)
      /\ ~Marked(k)

\* Slip: the end is not reduced modulo the sequence size.
SlideUnreduced(w, k) ==
  [w EXCEPT !.start = (@ + k) % SeqSize, !.end = @ + k, !.unacked = @ - k,
            !.ack = [n \in Seqs |-> w.ack[n] /\ n \notin ResetBySlide(w, k)]]

Slide(w, k) ==
  [w EXCEPT !.start = (@ + k) % SeqSize,
            !.end = (@ + k) % SeqSize,
            !.unacked = @ - k,
            !.ack = [n \in Seqs |-> w.ack[n] /\ n \notin ResetBySlide(w, k)]]

\* moveWindow, as the set of its results (there is exactly one).
MoveWindow(w) ==
  {IF k = 0 THEN w ELSE Slide(w, k) :
     k \in {k \in 0 .. SeqSize : SlidesBy(w, k)}}

\* Slip: an acknowledgement stands for all before it.
AckPacketCumulative(w, n) ==
  IF w.ack[n] \/ w.pkt[n] = NoPkt
  THEN {w}
  ELSE MoveWindow([w EXCEPT !.ack = [i \in Seqs |-> w.ack[i] \/ i \in w.start .. n],
                            !.pkt[n] = NoPkt])

\* ackpacket: nothing if already acknowledged or not stored.
AckPacket(w, n) ==
  IF w.ack[n] \/ w.pkt[n] = NoPkt
  THEN {w}
  ELSE MoveWindow([w EXCEPT !.ack[n] = TRUE, !.pkt[n] = NoPkt])

\* Slip: one sequence number too far.
PrepareNextTransferFar(n) ==
  [NewWindow EXCEPT !.start = n + 2, !.end = (n + 2 + WinSize) % SeqSize]

\* prepareNextTransfer: start is not reduced modulo the sequence size.
PrepareNextTransfer(n) ==
  [NewWindow EXCEPT !.start = n + 1, !.end = (n + 1 + WinSize) % SeqSize]

\* The slots checktimeout visits that check_resend would send again once
\* their timer is two seconds old.
Resendable(w) ==
  {n \in IF w.start < w.end
         THEN w.start .. w.end - 1
         ELSE (w.start .. SeqSize - 1) \cup (0 .. w.end - 1) :
     w.pkt[n] # NoPkt}
=============================================================================
