----------------------------- MODULE FtaSession -----------------------------
(***************************************************************************)
(* The FTA client and the FTA server, with all of their threads, and the   *)
(* path between them: connections are opened, used and closed, by either   *)
(* end.                                                                    *)
(*                                                                         *)
(* With Prompt, a read times out only when there is nothing to read and    *)
(* the other end will not send without waiting itself, and a transfer that *)
(* one end has left is soon over at the other; without, at any time: the   *)
(* path, or a program, is slower than the timeouts.                        *)
(***************************************************************************)
EXTENDS FtaClient, FtaServer

vars == <<pathVars, clientVars, serverVars>>

TypeOK == PathTypeOK /\ ClientTypeOK /\ ServerTypeOK

Init == PathInit /\ ClientInit /\ ServerInit

-----------------------------------------------------------------------------

\* A thread of the client reads its socket, or is about to.
ClientReads ==
  \/ main \in Waits \cup {"transfer"}
  \/ listener \in {"loop", "recv", "closing"}
  \/ main = "prompt" /\ waiting > 0 /\ isConnected

\* An end does nothing more before it has waited.
ClientQuiet ==
  /\ main \notin {"ackOpen", "ackClose"}
  /\ main \in {"acquire", "interrupted"} => lock # "free"
  /\ ClientReads => toClient = <<>>

ServerQuiet ==
  \/ ~up \/ server = "dead"
  \/ toServer = <<>> /\ server \notin {"serving", "ackExit", "cleared", "unset"}

ClientMayWait == Prompt => toClient = <<>> /\ ServerQuiet
ServerMayWait == Prompt => toServer = <<>> /\ ClientQuiet

\* get_client and post_client do not give up a request that is on its way.
MayEnd ==
  Prompt /\ up /\ server # "dead" => \A i \in DOMAIN toServer : toServer[i].body # "request"

-----------------------------------------------------------------------------

ServerRests == UNCHANGED <<serverVars, up, lost, damaged>>
ClientRests == UNCHANGED <<clientVars, lost, damaged>>

MainMoves     == (MainStep \/ (ClientMayWait /\ MainTimeout)) /\ ServerRests
ListenerMoves == (ListenerStep \/ (ClientMayWait /\ (ListenerTimeout \/ CloseTimeout)))
                   /\ ServerRests
TransferMoves == MayEnd /\ TransferEnds /\ ServerRests
UserMoves     == User /\ ServerRests

ServerMoves   == (ServerStep \/ (ServerMayWait /\ ServerTimeout)) /\ ClientRests
AskerMoves(t) == AskerStep(t) /\ ClientRests
AskerAsks     == (\E t \in Asker : Ask(t)) /\ ClientRests

Damage ==
  \/ ClientReadsDamage /\ UNCHANGED <<serverVars, up, lost>>
  \/ ServerReadsDamage /\ UNCHANGED <<clientVars, lost>>

Next ==
  \/ MainMoves \/ ListenerMoves \/ TransferMoves \/ UserMoves
  \/ ServerMoves \/ (\E t \in Asker : AskerMoves(t)) \/ AskerAsks
  \/ (Lose /\ UNCHANGED <<clientVars, serverVars>>)
  \/ Damage

\* The threads run; reads time out where they may; a transfer ends while the
\* socket has a timeout.  Nothing is assumed of the users and the path.
Fairness ==
  /\ WF_vars(MainMoves) /\ WF_vars(ListenerMoves)
  /\ WF_vars(armed /\ TransferMoves)
  /\ WF_vars(ServerMoves) /\ \A t \in Asker : WF_vars(AskerMoves(t))

Spec == Init /\ [][Next]_vars
LiveSpec == Spec /\ Fairness

-----------------------------------------------------------------------------
(* Properties. *)

\* Neither end is in the middle of something, and there is nothing to read.
BothIdle ==
  /\ up /\ server \in {"listen", "idle"} /\ toServer = <<>>
  /\ main = "prompt" /\ listener \in {"none", "loop", "recv"}
  /\ isConnected => toClient = <<>>

\* Neither terminate nor Ctrl-C at the server.
NobodyAsked == \A t \in Asker : asker[t] = "ready"

\* When both ends are idle they agree on whether they are connected, and the
\* server has the socket the client has now, whichever datagram of a
\* handshake was lost (accept, connect, close_sender_client,
\* check_and_close_receive).  It is not so once the server has sent FIN: the
\* client may take that for the FIN-ACK of its own FIN, which the server has
\* not seen.
EndsAgree ==
  BothIdle /\ NobodyAsked =>
    /\ isConnected = isServing
    /\ isConnected => client = port

\* A command and a listening thread never use the socket at the same time:
\* the thread would take the answer to the command, or replace its socket
\* (cli.lock, held from the prompt's return to the end of the command).
SocketExclusive ==
  main \in OnSocket => listener = "none"

\* The server ends only when its user, or Ctrl-C, has asked for it
\* (FTA-server.close ends the process on FIN and ACK).  It is not so with a
\* user ahead of the listening thread: the SYN-ACKs that it has not read are
\* taken for later answers, and a FIN-ACK that is left over is then answered.
ServerEndsWhenAsked ==
  ~up => ~NobodyAsked

\* A command that waits for an answer has a timeout to wait with: post leaves
\* the socket without one, and the listening thread of the next turn gives it
\* back.  It is not so after a closing by the server that has failed.
WaitsWithTimeout ==
  NobodyAsked => (main \in Waits \cup {"transfer"} => armed)

\* The main thread gets the lock from the listening threads, and a command
\* that has it, and a timeout, comes back, unless Ctrl-C or terminate end the
\* client.
CommandReturns ==
  /\ main = "acquire" ~> main # "acquire"
  /\ (main \in OnSocket /\ armed) ~> main \in {"prompt", "interrupted", "exit", "ended"}

\* terminate, or Ctrl-C, ends the server of a client that is connected and does
\* nothing, though a datagram of the closing may be lost.
ShutdownEnds ==
  \A t \in Asker :
    (BothIdle /\ isConnected /\ isServing /\ asker[t] = "fins" /\ fins[t] = 0)
      ~> (~up \/ main # "prompt")

\* Ctrl-C ends the client, unless it comes during a command, which holds the
\* lock that its handler waits for, or a datagram was damaged, or FIN is sent
\* on a socket without a timeout.
InterruptEnds ==
  (main = "interrupted" /\ lock # "main")
    ~> (main = "ended" \/ damaged > 0 \/ (main = "fin" /\ ~armed))
=============================================================================
