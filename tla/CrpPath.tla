------------------------------ MODULE CrpPath ------------------------------
(***************************************************************************)
(* The datagrams that open and close a CRP connection (accept, connect,    *)
(* close_sender_client, check_and_close_receive, close_sender_server of    *)
(* api.py), by what their readers look at, and the path they take between  *)
(* a client's socket and the server's: it keeps their order, and loses or  *)
(* damages a few of them.                                                  *)
(***************************************************************************)
EXTENDS Integers, Sequences

CONSTANTS
  Tries,      \* reads of two seconds in MAX_TIME_RECV_CONNECTION, 5 s
  CloseTries, \* reads of two seconds in MAX_RETRIES, 3 s, a deadline of closing
  Acks,       \* acknowledgements sent at the end of a handshake, one each second
  MaxLoss,   \* bound: datagrams lost in one behaviour
  MaxDamage  \* bound: datagrams damaged in one behaviour

ASSUME PathAssumption ==
  /\ Tries \in Nat \ {0} /\ CloseTries \in Nat \ {0} /\ Acks \in Nat \ {0}
  /\ MaxLoss \in Nat /\ MaxDamage \in Nat

VARIABLES
  toServer, toClient, \* datagrams on the way or in a socket, oldest first
  up,                 \* the server's process is alive
  port,               \* the client's socket: a new one has a new port
  lost, damaged       \* how many have been

pathVars == <<toServer, toClient, up, port, lost, damaged>>

\* zero: the sequence number is 0.  body: what follows the header, if any.
\* from: the client's port, that of the sender or that of the addressee.
Datagram ==
  [ack : BOOLEAN, syn : BOOLEAN, fin : BOOLEAN, zero : BOOLEAN,
   body : {"none", "CLOSE", "request"}, from : Nat]

Plain(p) == [ack |-> FALSE, syn |-> FALSE, fin |-> FALSE, zero |-> TRUE,
             body |-> "none", from |-> p]

Syn(p)       == [Plain(p) EXCEPT !.syn = TRUE]
SynAck(p)    == [Plain(p) EXCEPT !.syn = TRUE, !.ack = TRUE]
Ack(p)       == [Plain(p) EXCEPT !.ack = TRUE]
Request(p)   == [Plain(p) EXCEPT !.body = "request"]
Fin(p)       == [Plain(p) EXCEPT !.fin = TRUE, !.body = "CLOSE"]
FinAck(p, z) == [Fin(p) EXCEPT !.ack = TRUE, !.zero = z]

PathTypeOK ==
  /\ toServer \in Seq(Datagram) /\ toClient \in Seq(Datagram)
  /\ up \in BOOLEAN /\ port \in Nat
  /\ lost \in 0 .. MaxLoss /\ damaged \in 0 .. MaxDamage

PathInit ==
  /\ toServer = <<>> /\ toClient = <<>>
  /\ up = TRUE /\ port = 0
  /\ lost = 0 /\ damaged = 0

-----------------------------------------------------------------------------

\* What q becomes when the server has sent m, or the client has: a socket
\* that is closed receives nothing.
WithReply(q, m) == IF m.from = port THEN Append(q, m) ELSE q
WithCall(q, m)  == IF up THEN Append(q, m) ELSE q

ServerSends(m) == toClient' = WithReply(toClient, m) /\ UNCHANGED toServer
ClientSends(m) == toServer' = WithCall(toServer, m) /\ UNCHANGED toClient

NoneSent == UNCHANGED <<toServer, toClient>>

\* The client's socket is closed; should it go on, it makes a new one.
ClientSocketCloses == toClient' = <<>> /\ port' = port + 1

-----------------------------------------------------------------------------

Lose ==
  /\ lost < MaxLoss /\ lost' = lost + 1
  /\ \/ toServer # <<>> /\ toServer' = Tail(toServer) /\ UNCHANGED toClient
     \/ toClient # <<>> /\ toClient' = Tail(toClient) /\ UNCHANGED toServer
  /\ UNCHANGED <<up, port, damaged>>
=============================================================================
