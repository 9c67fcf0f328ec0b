----------------------------- MODULE FtaServer -----------------------------
(***************************************************************************)
(* FTA-server.py: the server thread (Server_run, with listening and close, *)
(* and accept and check_and_close_receive of api.py), and the two threads  *)
(* that may ask for the end: the user interface (terminate) and the main   *)
(* thread (Ctrl-C, graceful_close).  Both send FIN on the socket of the    *)
(* server thread, through close_sender_server.                             *)
(*                                                                         *)
(* Get and post are in CrpTransfer; here they are a phase in which the     *)
(* server thread reads whatever comes.  Only the IPv4 socket is modelled.  *)
(***************************************************************************)
EXTENDS CrpPath

CONSTANT Fins  \* FINs sent by close_sender_server, one each second

ASSUME ServerAssumption == Fins \in Nat \ {0}

\* The threads that may ask for the end.
Asker == {"ui", "chief"}

VARIABLES
  server,        \* the server thread's place in its program
  connectedSet,  \* the event self.connected is set
  isServing,     \* self.isConnected
  sockSet,       \* self.sock is not None
  client,        \* self.client_address
  stries,        \* the server thread's reads, or its acknowledgements sent
  szeroed,       \* seq_nbr is 0
  asker,         \* the place of each thread of Asker
  fins           \* the FINs it has sent

askerVars == <<asker, fins>>
serverVars == <<server, connectedSet, isServing, sockSet, client, stries, szeroed, askerVars>>

ServerTypeOK ==
  /\ server \in {"listen", "accept", "idle", "serving", "closing", "cleared", "unset",
                 "ackExit", "dead"}
  /\ connectedSet \in BOOLEAN /\ isServing \in BOOLEAN /\ sockSet \in BOOLEAN
  /\ szeroed \in BOOLEAN
  /\ client \in Nat
  /\ stries \in 0 .. Tries + CloseTries + Acks
  /\ asker \in [Asker -> {"ready", "checked", "fins", "waits", "over", "dead"}]
  /\ fins \in [Asker -> 0 .. Fins]

ServerInit ==
  /\ server = "listen"
  /\ connectedSet = FALSE /\ isServing = FALSE /\ sockSet = FALSE
  /\ szeroed = TRUE
  /\ client = 0 /\ stries = 0
  /\ asker = [t \in Asker |-> "ready"] /\ fins = [t \in Asker |-> 0]

-----------------------------------------------------------------------------
(* The server thread. *)

\* It reads the next datagram, and answers with s (at most one datagram).
HasRead == up /\ toServer # <<>>
Incoming == Head(toServer)
Reads == toServer' = Tail(toServer)
Replies(m) == toClient' = WithReply(toClient, m)
NoReply == UNCHANGED toClient

ServerGoes(place) == server' = place /\ stries' = 0

\* listening(): anything but a SYN is discarded.
ListeningDrops ==
  /\ server = "listen" /\ HasRead /\ ~Incoming.syn
  /\ Reads /\ NoReply
  /\ UNCHANGED <<serverVars, up, port>>

ListeningSyn ==
  /\ server = "listen" /\ HasRead /\ Incoming.syn
  /\ sockSet' = TRUE /\ client' = Incoming.from
  /\ ServerGoes("accept")
  /\ Reads /\ Replies(SynAck(Incoming.from))
  /\ UNCHANGED <<connectedSet, isServing, szeroed, askerVars, up, port>>

\* accept: whatever comes is answered by one more SYN-ACK, since temp is
\* never true, and ends the loop, since ack is set.
Accepted ==
  /\ server = "accept" /\ HasRead
  /\ isServing' = TRUE /\ connectedSet' = TRUE /\ szeroed' = TRUE
  /\ ServerGoes("idle")
  /\ Reads /\ Replies(SynAck(client))
  /\ UNCHANGED <<sockSet, client, askerVars, up, port>>

\* Nothing comes: the SYN-ACK is sent again, the last time too.
AcceptTimeout ==
  /\ up /\ server = "accept"
  /\ \/ stries + 1 < Tries /\ stries' = stries + 1 /\ UNCHANGED server
     \/ stries + 1 = Tries /\ ServerGoes("listen")
  /\ ServerSends(SynAck(client))
  /\ UNCHANGED <<connectedSet, isServing, sockSet, client, szeroed, askerVars, up, port>>

\* Server_run, connected: a datagram without a body is left over from before.
IdleDrops ==
  /\ server = "idle" /\ HasRead /\ Incoming.body = "none"
  /\ Reads /\ NoReply
  /\ UNCHANGED <<serverVars, up, port>>

\* A get or a post, of which get_server and post_server read all that comes.
Serve ==
  /\ server = "idle" /\ HasRead /\ Incoming.body = "request"
  /\ ServerGoes("serving")
  /\ Reads /\ NoReply
  /\ UNCHANGED <<connectedSet, isServing, sockSet, client, szeroed, askerVars, up, port>>

ServingReads ==
  /\ server = "serving" /\ HasRead
  /\ Reads /\ NoReply
  /\ UNCHANGED <<serverVars, up, port>>

ServingEnds ==
  /\ up /\ server = "serving"
  /\ ServerGoes("idle") /\ szeroed' = TRUE
  /\ NoneSent
  /\ UNCHANGED <<connectedSet, isServing, sockSet, client, askerVars, up, port>>

\* Slip: any FIN is taken for the answer to a FIN of the server.
AnswersOursAlways(m) == m.fin

\* Slip: the field next to FIN is read.
AnswersOursBySyn(m) == m.ack /\ m.syn

\* close: FIN and ACK answer a FIN of the server.
AnswersOurs(m) == m.ack /\ m.fin

ClosingAnswered ==
  /\ server = "idle" /\ HasRead /\ Incoming.body = "CLOSE" /\ AnswersOurs(Incoming)
  /\ ServerGoes("ackExit")
  /\ Reads /\ NoReply
  /\ UNCHANGED <<connectedSet, isServing, sockSet, client, szeroed, askerVars, up, port>>

SendExitAck ==
  /\ up /\ server = "ackExit" /\ stries < Acks
  /\ stries' = stries + 1
  /\ ServerSends(Ack(client))
  /\ UNCHANGED <<server, connectedSet, isServing, sockSet, client, szeroed, askerVars, up, port>>

\* os._exit
ExitAcked ==
  /\ up /\ server = "ackExit" /\ stries = Acks
  /\ up' = FALSE
  /\ NoneSent
  /\ UNCHANGED <<serverVars, port>>

\* A FIN of the client: check_and_close_receive sends the FIN-ACK.
CloseRequested ==
  /\ server = "idle" /\ HasRead /\ Incoming.body = "CLOSE" /\ ~AnswersOurs(Incoming)
  /\ ServerGoes("closing")
  /\ Reads /\ Replies(FinAck(client, szeroed))
  /\ UNCHANGED <<connectedSet, isServing, sockSet, client, szeroed, askerVars, up, port>>

\* Not an acknowledgement: the FIN-ACK is sent again.
ClosingUnacked ==
  /\ server = "closing" /\ HasRead /\ ~Incoming.ack
  /\ Reads /\ Replies(FinAck(client, szeroed))
  /\ UNCHANGED <<serverVars, up, port>>

\* The deadline has passed: the connection stays, and seq_nbr has moved.
ClosingTimeout ==
  /\ up /\ server = "closing"
  /\ \/ /\ stries + 1 < CloseTries
        /\ stries' = stries + 1 /\ UNCHANGED <<server, szeroed>>
     \/ /\ stries + 1 = CloseTries
        /\ ServerGoes("idle") /\ szeroed' = FALSE
  /\ ServerSends(FinAck(client, szeroed))
  /\ UNCHANGED <<connectedSet, isServing, sockSet, client, askerVars, up, port>>

\* The acknowledgement: self.connected.clear(), then init() in two steps that
\* another thread may come between: self.sock, and the rest.
ClosingAcked ==
  /\ server = "closing" /\ HasRead /\ Incoming.ack
  /\ ServerGoes("cleared") /\ connectedSet' = FALSE
  /\ Reads /\ NoReply
  /\ UNCHANGED <<isServing, sockSet, client, szeroed, askerVars, up, port>>

Unset ==
  /\ up /\ server = "cleared"
  /\ ServerGoes("unset") /\ sockSet' = FALSE
  /\ NoneSent
  /\ UNCHANGED <<connectedSet, isServing, client, szeroed, askerVars, up, port>>

\* Slip: the flag is not reset.
ReinitServing ==
  /\ up /\ server = "unset"
  /\ ServerGoes(IF \E t \in Asker : asker[t] = "fins" THEN "dead" ELSE "listen")
  /\ szeroed' = TRUE
  /\ toServer' = <<>> /\ UNCHANGED toClient
  /\ UNCHANGED <<isServing, connectedSet, sockSet, client, askerVars, up, port>>

\* The old socket closes when nothing refers to it; a thread that sends FINs
\* on it does.  The new one then cannot be bound to the port, and bind ends
\* the server thread (sys.exit).
Reinit ==
  /\ up /\ server = "unset"
  /\ ServerGoes(IF \E t \in Asker : asker[t] = "fins" THEN "dead" ELSE "listen")
  /\ isServing' = FALSE /\ szeroed' = TRUE
  /\ toServer' = <<>> /\ UNCHANGED toClient
  /\ UNCHANGED <<connectedSet, sockSet, client, askerVars, up, port>>

-----------------------------------------------------------------------------
(* The threads that ask for the end. *)

Becomes(t, place) == asker' = [asker EXCEPT ![t] = place]

\* What these threads leave alone.
ServerThreadKept ==
  UNCHANGED <<server, connectedSet, isServing, sockSet, client, stries, szeroed, port>>

\* terminate, or Ctrl-C.  Not connected, the process ends.
Ask(t) ==
  /\ up /\ asker[t] = "ready"
  /\ \/ isServing /\ Becomes(t, "checked") /\ UNCHANGED up
     \/ ~isServing /\ Becomes(t, "over") /\ up' = FALSE
  /\ NoneSent
  /\ ServerThreadKept /\ UNCHANGED fins

\* close_sender_server(self, self.sock, ...): None has no sendto.  The user
\* interface dies of it; the main thread's death is that of the process.
CallClose(t) ==
  /\ up /\ asker[t] = "checked"
  /\ \/ sockSet /\ Becomes(t, "fins") /\ UNCHANGED up
     \/ ~sockSet /\ Becomes(t, "dead") /\ up' = (t = "ui")
  /\ NoneSent
  /\ ServerThreadKept /\ UNCHANGED fins

SendFin(t) ==
  /\ up /\ asker[t] = "fins" /\ fins[t] < Fins
  /\ fins' = [fins EXCEPT ![t] = @ + 1]
  /\ ServerSends(Fin(client))
  /\ ServerThreadKept /\ UNCHANGED <<asker, up>>

\* The user interface ends; the main thread waits to be disconnected.
FinsSent(t) ==
  /\ up /\ asker[t] = "fins" /\ fins[t] = Fins
  /\ Becomes(t, IF t = "ui" THEN "over" ELSE "waits")
  /\ NoneSent
  /\ ServerThreadKept /\ UNCHANGED <<fins, up>>

\* sys.exit in the main thread: the others are daemons.
ChiefExits ==
  /\ up /\ asker["chief"] = "waits" /\ ~isServing
  /\ Becomes("chief", "over") /\ up' = FALSE
  /\ NoneSent
  /\ ServerThreadKept /\ UNCHANGED fins

-----------------------------------------------------------------------------

\* A damaged datagram: receive returns None.  Server_run goes on; listening
\* and accept die with their thread, of which Server_run starts another; in
\* check_and_close_receive it is the server thread that dies, and in a
\* transfer it may be.
ServerReadsDamage ==
  /\ HasRead /\ damaged < MaxDamage /\ damaged' = damaged + 1
  /\ \/ server \in {"listen", "idle", "serving"} /\ UNCHANGED <<server, stries>>
     \/ server = "accept" /\ ServerGoes("listen")
     \/ server \in {"closing", "serving"} /\ ServerGoes("dead")
  /\ Reads /\ NoReply
  /\ UNCHANGED <<connectedSet, isServing, sockSet, client, szeroed, askerVars, up, port>>

ServerStep ==
  \/ ListeningDrops \/ ListeningSyn \/ Accepted
  \/ IdleDrops \/ Serve \/ ServingReads \/ ServingEnds
  \/ ClosingAnswered \/ SendExitAck \/ ExitAcked
  \/ CloseRequested \/ ClosingUnacked \/ ClosingAcked \/ Unset \/ Reinit

ServerTimeout == AcceptTimeout \/ ClosingTimeout

AskerStep(t) == CallClose(t) \/ SendFin(t) \/ FinsSent(t) \/ (t = "chief" /\ ChiefExits)
=============================================================================
