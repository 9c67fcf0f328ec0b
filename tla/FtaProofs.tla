----------------------------- MODULE FtaProofs -----------------------------
(***************************************************************************)
(* Proofs about FtaSession, for every value of its constants.              *)
(***************************************************************************)
EXTENDS FtaSession, TLAPS

-----------------------------------------------------------------------------
(* The lock of the client. *)

\* A listening thread that has begun has the lock until it is over, or dies
\* with it; so has a command that uses the socket.
LockOwned ==
  /\ listener # "none" => lock = "listener"
  /\ main \in OnSocket => lock = "main"

\* Nobody has the lock at the start.
LEMMA LockInit == Init => LockOwned
  BY DEF Init, ClientInit, LockOwned, OnSocket, Waits

\* A step of the main thread.
LEMMA LockMain == ASSUME LockOwned, MainStep \/ MainTimeout \/ TransferEnds PROVE LockOwned'
<1> USE DEF LockOwned, OnSocket, Waits, mainVars, listenerVars, Goes, Done, ProcessEnds
<1>1. CASE Refuse BY <1>1 DEF Refuse
<1>2. CASE TerminateUnconnected BY <1>2 DEF TerminateUnconnected
<1>3. CASE Begin BY <1>3 DEF Begin
<1>4. CASE Answered BY <1>4 DEF Answered
<1>5. CASE SendAck BY <1>5 DEF SendAck
<1>6. CASE Connected BY <1>6 DEF Connected
<1>7. CASE Disconnected BY <1>7 DEF Disconnected
<1>8. CASE TransferReads BY <1>8 DEF TransferReads, clientVars
<1>9. CASE ShutDown BY <1>9 DEF ShutDown
<1>10. CASE Exit BY <1>10 DEF Exit
<1>11. CASE CallAgain BY <1>11 DEF CallAgain
<1>12. CASE GiveUp BY <1>12 DEF GiveUp
<1>13. CASE TransferEnds BY <1>13 DEF TransferEnds
<1> QED
  BY <1>1, <1>2, <1>3, <1>4, <1>5, <1>6, <1>7, <1>8, <1>9, <1>10, <1>11, <1>12, <1>13
  DEF MainStep, MainTimeout

\* A step of a listening thread.
LEMMA LockListener ==
  ASSUME LockOwned, ListenerStep \/ ListenerTimeout \/ CloseTimeout PROVE LockOwned'
<1> USE DEF LockOwned, OnSocket, Waits, MainWaits, listenerVars
<1>1. CASE ListenerStarts BY <1>1 DEF ListenerStarts
<1>2. CASE ListenerLoop BY <1>2 DEF ListenerLoop
<1>3. CASE ListenerDrops BY <1>3 DEF ListenerDrops
<1>4. CASE ListenerAnswersFin BY <1>4 DEF ListenerAnswersFin
<1>5. CASE ClosedByServer BY <1>5 DEF ClosedByServer
<1>6. CASE CloseAgain BY <1>6 DEF CloseAgain
<1>7. CASE ListenerTimeout BY <1>7 DEF ListenerTimeout
<1>8. CASE CloseTimeout BY <1>8 DEF CloseTimeout
<1> QED
  BY <1>1, <1>2, <1>3, <1>4, <1>5, <1>6, <1>7, <1>8 DEF ListenerStep

\* Every step keeps the lock with the thread that uses the socket.
LEMMA LockStep == ASSUME LockOwned, [Next]_vars PROVE LockOwned'
<1>1. CASE MainMoves BY <1>1, LockMain DEF MainMoves
<1>2. CASE ListenerMoves BY <1>2, LockListener DEF ListenerMoves
<1>3. CASE TransferMoves BY <1>3, LockMain DEF TransferMoves
<1>4. CASE UserMoves
  BY <1>4 DEF UserMoves, User, Interrupt, Type, LockOwned, OnSocket, Waits, Goes, listenerVars
<1>5. CASE UNCHANGED clientVars
  BY <1>5 DEF clientVars, mainVars, listenerVars, LockOwned
<1>6. CASE ServerMoves \/ (\E t \in Asker : AskerMoves(t)) \/ AskerAsks
  BY <1>5, <1>6 DEF ServerMoves, AskerMoves, AskerAsks, ClientRests
<1>7. CASE Lose /\ UNCHANGED <<clientVars, serverVars>>
  BY <1>5, <1>7
<1>8. CASE Damage
  <2>1. CASE ClientReadsDamage
    BY <2>1 DEF ClientReadsDamage, LockOwned, OnSocket, Waits
  <2>2. CASE UNCHANGED clientVars BY <1>5, <2>2
  <2> QED BY <1>8, <2>1, <2>2 DEF Damage
<1>9. CASE UNCHANGED vars BY <1>5, <1>9 DEF vars
<1> QED
  BY <1>1, <1>2, <1>3, <1>4, <1>6, <1>7, <1>8, <1>9 DEF Next

\* The command and the listening thread do not use the socket together, for
\* any timing, any losses, and a thread that dies.
THEOREM SocketExclusion == Spec => []SocketExclusive
<1>1. LockOwned => SocketExclusive BY DEF LockOwned, SocketExclusive
<1> QED BY LockInit, LockStep, <1>1, PTL DEF Spec

-----------------------------------------------------------------------------
(* Types. *)

\* The part of PathTypeOK that the threads change.
QueuesOK ==
  /\ toServer \in Seq(Datagram) /\ toClient \in Seq(Datagram)
  /\ port \in Nat

\* The two parts of ClientTypeOK and of ServerTypeOK.
ClientFlagsOK ==
  /\ userInput \in BOOLEAN /\ isConnected \in BOOLEAN
  /\ armed \in BOOLEAN /\ zeroed \in BOOLEAN

ClientPlacesOK ==
  /\ main \in MainPlace
  /\ command \in Command \cup {"interrupt", "none"}
  /\ given \in 0 .. MaxCommands /\ interrupts \in 0 .. MaxInterrupts
  /\ lock \in {"free", "main", "listener"}
  /\ waiting \in Nat
  /\ listener \in {"none", "loop", "recv", "closing", "died"}
  /\ tries \in 0 .. Tries + Acks /\ ltries \in 0 .. CloseTries

ServerFlagsOK ==
  /\ connectedSet \in BOOLEAN /\ isServing \in BOOLEAN
  /\ sockSet \in BOOLEAN /\ szeroed \in BOOLEAN

ServerPlacesOK ==
  /\ server \in {"listen", "accept", "idle", "serving", "closing", "cleared", "unset",
                 "ackExit", "dead"}
  /\ client \in Nat
  /\ stries \in 0 .. Tries + CloseTries + Acks
  /\ asker \in [Asker -> {"ready", "checked", "fins", "waits", "over", "dead"}]
  /\ fins \in [Asker -> 0 .. Fins]

\* The types of an end, its flags apart from its places and counters.
LEMMA TypeParts ==
  /\ ClientTypeOK <=> ClientFlagsOK /\ ClientPlacesOK
  /\ ServerTypeOK <=> ServerFlagsOK /\ ServerPlacesOK
  /\ ClientTypeOK' <=> ClientFlagsOK' /\ ClientPlacesOK'
  /\ ServerTypeOK' <=> ServerFlagsOK' /\ ServerPlacesOK'
  BY DEF ClientTypeOK, ClientFlagsOK, ClientPlacesOK,
         ServerTypeOK, ServerFlagsOK, ServerPlacesOK

\* What either end sends is a datagram.
LEMMA DatagramTypes ==
  ASSUME NEW p \in Nat
  PROVE  /\ Syn(p) \in Datagram /\ SynAck(p) \in Datagram /\ Ack(p) \in Datagram
         /\ Request(p) \in Datagram /\ Fin(p) \in Datagram
         /\ \A z \in BOOLEAN : FinAck(p, z) \in Datagram
  BY DEF Syn, SynAck, Ack, Request, Fin, FinAck, Plain, Datagram

\* A datagram that joins a path.
LEMMA SendTypes ==
  ASSUME NEW q \in Seq(Datagram), NEW m \in Datagram
  PROVE  WithReply(q, m) \in Seq(Datagram) /\ WithCall(q, m) \in Seq(Datagram)
  BY DEF WithReply, WithCall

\* A datagram that is read.
LEMMA ReadTypes ==
  ASSUME NEW q \in Seq(Datagram), q # <<>>
  PROVE  Head(q) \in Datagram /\ Tail(q) \in Seq(Datagram)
  OBVIOUS

\* What the client sends leaves the path well formed.
LEMMA ClientSendTypes ==
  ASSUME QueuesOK, NEW m \in Datagram, ClientSends(m)
  PROVE  toServer' \in Seq(Datagram) /\ toClient' \in Seq(Datagram)
  BY SendTypes DEF QueuesOK, ClientSends

\* What the server sends leaves the path well formed.
LEMMA ServerSendTypes ==
  ASSUME QueuesOK, NEW m \in Datagram, ServerSends(m)
  PROVE  toServer' \in Seq(Datagram) /\ toClient' \in Seq(Datagram)
  BY SendTypes DEF QueuesOK, ServerSends

\* An empty path.
LEMMA NothingTypes == <<>> \in Seq(Datagram)
  OBVIOUS

\* A port stays a port when the client takes a new socket.
LEMMA PortTypes ==
  ASSUME port \in Nat, ClientSocketCloses \/ port' = port
  PROVE  port' \in Nat
  BY DEF ClientSocketCloses

\* The types hold at the start.
LEMMA TypeInit == Init => TypeOK
<1> USE PathAssumption, ClientAssumption, ServerAssumption
<1>1. Init => PathTypeOK BY DEF Init, PathInit, PathTypeOK
<1>2. Init => ClientFlagsOK BY DEF Init, ClientInit, ClientFlagsOK
<1>3. Init => ClientPlacesOK BY DEF Init, ClientInit, ClientPlacesOK, MainPlace
<1>4. Init => ServerFlagsOK BY DEF Init, ServerInit, ServerFlagsOK
<1>5. Init => ServerPlacesOK BY DEF Init, ServerInit, ServerPlacesOK
<1> QED BY <1>1, <1>2, <1>3, <1>4, <1>5, TypeParts DEF TypeOK

\* The flags of the client after a step of the main thread.
LEMMA FlagsMain ==
  ASSUME ClientFlagsOK, MainStep \/ MainTimeout \/ TransferEnds \/ Interrupt
  PROVE  ClientFlagsOK'
<1> USE DEF ClientFlagsOK, mainVars, listenerVars, clientVars, MainWaits
<1>1. CASE Refuse BY <1>1 DEF Refuse, Done
<1>2. CASE TerminateUnconnected BY <1>2 DEF TerminateUnconnected
<1>3. CASE Begin BY <1>3 DEF Begin
<1>4. CASE Answered BY <1>4 DEF Answered
<1>5. CASE SendAck BY <1>5 DEF SendAck
<1>6. CASE Connected BY <1>6 DEF Connected, Done
<1>7. CASE Disconnected BY <1>7 DEF Disconnected, Done, ProcessEnds
<1>8. CASE TransferReads BY <1>8 DEF TransferReads
<1>9. CASE ShutDown BY <1>9 DEF ShutDown, ProcessEnds
<1>10. CASE Exit BY <1>10 DEF Exit, ProcessEnds
<1>11. CASE CallAgain BY <1>11 DEF CallAgain
<1>12. CASE GiveUp BY <1>12 DEF GiveUp, Done, ProcessEnds
<1>13. CASE TransferEnds BY <1>13 DEF TransferEnds, Done
<1>14. CASE Interrupt BY <1>14 DEF Interrupt
<1> QED
  BY <1>1, <1>2, <1>3, <1>4, <1>5, <1>6, <1>7, <1>8, <1>9, <1>10, <1>11, <1>12, <1>13, <1>14 DEF MainStep, MainTimeout

\* What else it changes.
LEMMA PlacesMain ==
  ASSUME ClientPlacesOK, MainStep \/ MainTimeout \/ TransferEnds \/ Interrupt
  PROVE  ClientPlacesOK'
<1> USE PathAssumption, ClientAssumption DEF ClientPlacesOK, MainPlace, OnSocket, Waits, Command, mainVars, listenerVars, clientVars, MainWaits, Goes
<1>1. CASE Refuse BY <1>1 DEF Refuse, Done
<1>2. CASE TerminateUnconnected BY <1>2 DEF TerminateUnconnected
<1>3. CASE Begin BY <1>3 DEF Begin
<1>4. CASE Answered BY <1>4 DEF Answered
<1>5. CASE SendAck BY <1>5 DEF SendAck
<1>6. CASE Connected BY <1>6 DEF Connected, Done
<1>7. CASE Disconnected BY <1>7 DEF Disconnected, Done, ProcessEnds
<1>8. CASE TransferReads BY <1>8 DEF TransferReads
<1>9. CASE ShutDown BY <1>9 DEF ShutDown, ProcessEnds
<1>10. CASE Exit BY <1>10 DEF Exit, ProcessEnds
<1>11. CASE CallAgain BY <1>11 DEF CallAgain
<1>12. CASE GiveUp BY <1>12 DEF GiveUp, Done, ProcessEnds
<1>13. CASE TransferEnds BY <1>13 DEF TransferEnds, Done
<1>14. CASE Interrupt BY <1>14 DEF Interrupt
<1> QED
  BY <1>1, <1>2, <1>3, <1>4, <1>5, <1>6, <1>7, <1>8, <1>9, <1>10, <1>11, <1>12, <1>13, <1>14 DEF MainStep, MainTimeout

\* The same of a listening thread.
LEMMA FlagsListener ==
  ASSUME ClientFlagsOK, ListenerStep \/ ListenerTimeout \/ CloseTimeout
  PROVE  ClientFlagsOK'
<1> USE DEF ClientFlagsOK, mainVars, listenerVars, clientVars, MainWaits
<1>1. CASE ListenerStarts BY <1>1 DEF ListenerStarts
<1>2. CASE ListenerLoop BY <1>2 DEF ListenerLoop
<1>3. CASE ListenerDrops BY <1>3 DEF ListenerDrops
<1>4. CASE ListenerAnswersFin BY <1>4 DEF ListenerAnswersFin
<1>5. CASE ClosedByServer BY <1>5 DEF ClosedByServer
<1>6. CASE CloseAgain BY <1>6 DEF CloseAgain
<1>7. CASE ListenerTimeout BY <1>7 DEF ListenerTimeout
<1>8. CASE CloseTimeout BY <1>8 DEF CloseTimeout
<1> QED
  BY <1>1, <1>2, <1>3, <1>4, <1>5, <1>6, <1>7, <1>8 DEF ListenerStep

\* What else it changes.
LEMMA PlacesListener ==
  ASSUME ClientPlacesOK, ListenerStep \/ ListenerTimeout \/ CloseTimeout
  PROVE  ClientPlacesOK'
<1> USE PathAssumption, ClientAssumption DEF ClientPlacesOK, MainPlace, OnSocket, Waits, Command, mainVars, listenerVars, clientVars, MainWaits, Goes
<1>1. CASE ListenerStarts BY <1>1 DEF ListenerStarts
<1>2. CASE ListenerLoop BY <1>2 DEF ListenerLoop
<1>3. CASE ListenerDrops BY <1>3 DEF ListenerDrops
<1>4. CASE ListenerAnswersFin BY <1>4 DEF ListenerAnswersFin
<1>5. CASE ClosedByServer BY <1>5 DEF ClosedByServer
<1>6. CASE CloseAgain BY <1>6 DEF CloseAgain
<1>7. CASE ListenerTimeout BY <1>7 DEF ListenerTimeout
<1>8. CASE CloseTimeout BY <1>8 DEF CloseTimeout
<1> QED
  BY <1>1, <1>2, <1>3, <1>4, <1>5, <1>6, <1>7, <1>8 DEF ListenerStep

\* The same of the server thread.
LEMMA FlagsServer ==
  ASSUME up \in BOOLEAN, ServerFlagsOK, ServerStep \/ ServerTimeout
  PROVE  ServerFlagsOK' /\ up' \in BOOLEAN
<1> USE DEF ServerFlagsOK, serverVars, askerVars
<1>1. CASE ListeningDrops BY <1>1 DEF ListeningDrops
<1>2. CASE ListeningSyn BY <1>2 DEF ListeningSyn
<1>3. CASE Accepted BY <1>3 DEF Accepted
<1>4. CASE IdleDrops BY <1>4 DEF IdleDrops
<1>5. CASE Serve BY <1>5 DEF Serve
<1>6. CASE ServingReads BY <1>6 DEF ServingReads
<1>7. CASE ServingEnds BY <1>7 DEF ServingEnds
<1>8. CASE ClosingAnswered BY <1>8 DEF ClosingAnswered
<1>9. CASE SendExitAck BY <1>9 DEF SendExitAck
<1>10. CASE ExitAcked BY <1>10 DEF ExitAcked
<1>11. CASE CloseRequested BY <1>11 DEF CloseRequested
<1>12. CASE ClosingUnacked BY <1>12 DEF ClosingUnacked
<1>13. CASE ClosingAcked BY <1>13 DEF ClosingAcked
<1>14. CASE Unset BY <1>14 DEF Unset
<1>15. CASE Reinit BY <1>15 DEF Reinit
<1>16. CASE AcceptTimeout BY <1>16 DEF AcceptTimeout
<1>17. CASE ClosingTimeout BY <1>17 DEF ClosingTimeout
<1> QED
  BY <1>1, <1>2, <1>3, <1>4, <1>5, <1>6, <1>7, <1>8, <1>9, <1>10, <1>11, <1>12, <1>13, <1>14, <1>15, <1>16, <1>17 DEF ServerStep, ServerTimeout

\* What else it changes.
LEMMA PlacesServer ==
  ASSUME QueuesOK, ServerPlacesOK, ServerStep \/ ServerTimeout
  PROVE  ServerPlacesOK'
<1> USE PathAssumption, ServerAssumption, ReadTypes DEF QueuesOK, ServerPlacesOK, serverVars, askerVars, ServerGoes, HasRead, Incoming
<1>1. CASE ListeningDrops BY <1>1 DEF ListeningDrops
<1>2. CASE ListeningSyn BY <1>2 DEF ListeningSyn, Datagram
<1>3. CASE Accepted BY <1>3 DEF Accepted
<1>4. CASE IdleDrops BY <1>4 DEF IdleDrops
<1>5. CASE Serve BY <1>5 DEF Serve
<1>6. CASE ServingReads BY <1>6 DEF ServingReads
<1>7. CASE ServingEnds BY <1>7 DEF ServingEnds
<1>8. CASE ClosingAnswered BY <1>8 DEF ClosingAnswered
<1>9. CASE SendExitAck BY <1>9 DEF SendExitAck
<1>10. CASE ExitAcked BY <1>10 DEF ExitAcked
<1>11. CASE CloseRequested BY <1>11 DEF CloseRequested
<1>12. CASE ClosingUnacked BY <1>12 DEF ClosingUnacked
<1>13. CASE ClosingAcked BY <1>13 DEF ClosingAcked
<1>14. CASE Unset BY <1>14 DEF Unset
<1>15. CASE Reinit BY <1>15 DEF Reinit
<1>16. CASE AcceptTimeout BY <1>16 DEF AcceptTimeout
<1>17. CASE ClosingTimeout BY <1>17 DEF ClosingTimeout
<1> QED
  BY <1>1, <1>2, <1>3, <1>4, <1>5, <1>6, <1>7, <1>8, <1>9, <1>10, <1>11, <1>12, <1>13, <1>14, <1>15, <1>16, <1>17 DEF ServerStep, ServerTimeout

\* What the main thread sends are datagrams.
LEMMA QueuesMain ==
  ASSUME QueuesOK, MainStep \/ MainTimeout \/ TransferEnds \/ Interrupt
  PROVE  QueuesOK'
<1> USE DatagramTypes, SendTypes, ReadTypes, NothingTypes, ClientSendTypes DEF QueuesOK
<1>1. CASE Refuse BY <1>1 DEF Refuse, NoneSent
<1>2. CASE TerminateUnconnected BY <1>2 DEF TerminateUnconnected, NoneSent
<1>3. CASE Begin BY <1>3 DEF Begin
<1>4. CASE Answered BY <1>4 DEF Answered
<1>5. CASE SendAck BY <1>5 DEF SendAck
<1>6. CASE Connected BY <1>6 DEF Connected, NoneSent
<1>7. CASE Disconnected
  <2>1. toServer' \in Seq(Datagram) BY <1>7 DEF Disconnected, NoneSent, ProcessEnds, ClientSocketCloses
  <2>2. toClient' \in Seq(Datagram) BY <1>7 DEF Disconnected, NoneSent, ProcessEnds, ClientSocketCloses
  <2>3. ClientSocketCloses \/ port' = port BY <1>7 DEF Disconnected, NoneSent, ProcessEnds
  <2>4. port' \in Nat BY <2>3, PortTypes
  <2> QED BY <2>1, <2>2, <2>4
<1>8. CASE TransferReads BY <1>8 DEF TransferReads
<1>9. CASE ShutDown
  <2>1. toServer' \in Seq(Datagram) BY <1>9 DEF ShutDown, ProcessEnds, ClientSocketCloses
  <2>2. toClient' \in Seq(Datagram) BY <1>9 DEF ShutDown, ProcessEnds, ClientSocketCloses
  <2>3. ClientSocketCloses \/ port' = port BY <1>9 DEF ShutDown, ProcessEnds
  <2>4. port' \in Nat BY <2>3, PortTypes
  <2> QED BY <2>1, <2>2, <2>4
<1>10. CASE Exit BY <1>10 DEF Exit, ProcessEnds, ClientSocketCloses
<1>11. CASE CallAgain BY <1>11 DEF CallAgain, Call
<1>12. CASE GiveUp
  <2>1. toServer' \in Seq(Datagram) BY <1>12 DEF GiveUp, Call, ProcessEnds, ClientSocketCloses
  <2>2. toClient' \in Seq(Datagram) BY <1>12 DEF GiveUp, Call, ProcessEnds, ClientSocketCloses
  <2>3. ClientSocketCloses \/ port' = port BY <1>12 DEF GiveUp, Call, ProcessEnds
  <2>4. port' \in Nat BY <2>3, PortTypes
  <2> QED BY <2>1, <2>2, <2>4
<1>13. CASE TransferEnds BY <1>13 DEF TransferEnds, NoneSent
<1>14. CASE Interrupt BY <1>14 DEF Interrupt, NoneSent
<1> QED
  BY <1>1, <1>2, <1>3, <1>4, <1>5, <1>6, <1>7, <1>8, <1>9, <1>10, <1>11, <1>12, <1>13, <1>14 DEF MainStep, MainTimeout

\* The same of a listening thread.
LEMMA QueuesListener ==
  ASSUME QueuesOK, ClientTypeOK, ListenerStep \/ ListenerTimeout \/ CloseTimeout
  PROVE  QueuesOK'
<1> USE DatagramTypes, SendTypes, ReadTypes, NothingTypes, ClientSendTypes DEF QueuesOK, ClientTypeOK
<1>1. CASE ListenerStarts BY <1>1 DEF ListenerStarts, NoneSent
<1>2. CASE ListenerLoop BY <1>2 DEF ListenerLoop, NoneSent
<1>3. CASE ListenerDrops BY <1>3 DEF ListenerDrops
<1>4. CASE ListenerAnswersFin BY <1>4 DEF ListenerAnswersFin
<1>5. CASE ClosedByServer BY <1>5 DEF ClosedByServer, ClientSocketCloses
<1>6. CASE CloseAgain BY <1>6 DEF CloseAgain
<1>7. CASE ListenerTimeout BY <1>7 DEF ListenerTimeout, NoneSent
<1>8. CASE CloseTimeout BY <1>8 DEF CloseTimeout
<1> QED
  BY <1>1, <1>2, <1>3, <1>4, <1>5, <1>6, <1>7, <1>8 DEF ListenerStep

\* The same of the server thread.
LEMMA QueuesServer ==
  ASSUME QueuesOK, ServerTypeOK, ServerStep \/ ServerTimeout
  PROVE  QueuesOK'
<1> USE DatagramTypes, SendTypes, ReadTypes, NothingTypes, ServerSendTypes DEF QueuesOK, ServerTypeOK, HasRead, Reads, Replies, NoReply
<1>1. CASE ListeningDrops BY <1>1 DEF ListeningDrops
<1>2. CASE ListeningSyn BY <1>2 DEF ListeningSyn, Incoming, Datagram
<1>3. CASE Accepted BY <1>3 DEF Accepted
<1>4. CASE IdleDrops BY <1>4 DEF IdleDrops
<1>5. CASE Serve BY <1>5 DEF Serve
<1>6. CASE ServingReads BY <1>6 DEF ServingReads
<1>7. CASE ServingEnds BY <1>7 DEF ServingEnds, NoneSent
<1>8. CASE ClosingAnswered BY <1>8 DEF ClosingAnswered
<1>9. CASE SendExitAck BY <1>9 DEF SendExitAck
<1>10. CASE ExitAcked BY <1>10 DEF ExitAcked, NoneSent
<1>11. CASE CloseRequested BY <1>11 DEF CloseRequested
<1>12. CASE ClosingUnacked BY <1>12 DEF ClosingUnacked
<1>13. CASE ClosingAcked BY <1>13 DEF ClosingAcked
<1>14. CASE Unset BY <1>14 DEF Unset, NoneSent
<1>15. CASE Reinit BY <1>15 DEF Reinit
<1>16. CASE AcceptTimeout BY <1>16 DEF AcceptTimeout
<1>17. CASE ClosingTimeout BY <1>17 DEF ClosingTimeout
<1> QED
  BY <1>1, <1>2, <1>3, <1>4, <1>5, <1>6, <1>7, <1>8, <1>9, <1>10, <1>11, <1>12, <1>13, <1>14, <1>15, <1>16, <1>17 DEF ServerStep, ServerTimeout

-----------------------------------------------------------------------------

\* The types of the path, what is on the way apart from the counters.
LEMMA PathParts ==
  /\ PathTypeOK <=> /\ QueuesOK /\ up \in BOOLEAN
                    /\ lost \in 0 .. MaxLoss /\ damaged \in 0 .. MaxDamage
  /\ PathTypeOK' <=> /\ QueuesOK' /\ up' \in BOOLEAN
                     /\ lost' \in 0 .. MaxLoss /\ damaged' \in 0 .. MaxDamage
  BY DEF PathTypeOK, QueuesOK

\* The user types.
LEMMA TypeUser ==
  ASSUME ClientTypeOK, QueuesOK, NEW c \in Command, Type(c)
  PROVE  ClientTypeOK' /\ QueuesOK'
<1> USE ClientAssumption, PathAssumption
<1>1. ClientFlagsOK' BY TypeParts DEF Type, ClientFlagsOK
<1>2. ClientPlacesOK'
  BY TypeParts DEF Type, ClientPlacesOK, MainPlace, Goes, listenerVars
<1>3. QueuesOK' BY DEF Type, QueuesOK, NoneSent
<1> QED BY <1>1, <1>2, <1>3, TypeParts

\* A thread of the server asks for the end, or goes on with it.
LEMMA TypeAsker ==
  ASSUME ServerTypeOK, QueuesOK, up \in BOOLEAN, NEW t \in Asker, Ask(t) \/ AskerStep(t)
  PROVE  ServerTypeOK' /\ QueuesOK' /\ up' \in BOOLEAN
<1>1. ServerFlagsOK'
  BY TypeParts DEF Ask, AskerStep, CallClose, SendFin, FinsSent, ChiefExits,
                   ServerThreadKept, ServerFlagsOK
<1>2. ServerPlacesOK'
  <2> USE ServerAssumption, TypeParts
      DEF ServerPlacesOK, ServerThreadKept, Becomes, Asker
  <2>1. CASE Ask(t) BY <2>1 DEF Ask
  <2>2. CASE CallClose(t) BY <2>2 DEF CallClose
  <2>3. CASE SendFin(t) BY <2>3 DEF SendFin
  <2>4. CASE FinsSent(t) BY <2>4 DEF FinsSent
  <2>5. CASE t = "chief" /\ ChiefExits BY <2>5 DEF ChiefExits
  <2> QED BY <2>1, <2>2, <2>3, <2>4, <2>5 DEF AskerStep
<1>3. QueuesOK'
  <2>1. CASE SendFin(t)
    <3>1. Fin(client) \in Datagram BY DatagramTypes DEF ServerTypeOK
    <3> QED BY <2>1, <3>1, ServerSendTypes DEF SendFin, ServerThreadKept, QueuesOK
  <2>2. CASE ~SendFin(t)
    BY <2>2 DEF Ask, AskerStep, CallClose, FinsSent, ChiefExits, NoneSent,
                ServerThreadKept, QueuesOK
  <2> QED BY <2>1, <2>2
<1>4. up' \in BOOLEAN
  BY DEF Ask, AskerStep, CallClose, SendFin, FinsSent, ChiefExits
<1> QED BY <1>1, <1>2, <1>3, <1>4, TypeParts

\* A loss keeps the types of the path.
LEMMA TypeLose ==
  ASSUME PathTypeOK, Lose PROVE PathTypeOK'
<1>1. lost' \in 0 .. MaxLoss BY PathAssumption DEF Lose, PathTypeOK
<1>2. QueuesOK' BY ReadTypes DEF Lose, PathTypeOK, QueuesOK
<1>3. UNCHANGED <<up, damaged>> BY DEF Lose
<1> QED BY <1>1, <1>2, <1>3, PathParts

\* Damage does to the queue what a read does.
LEMMA TypeDamage ==
  ASSUME TypeOK, Damage PROVE TypeOK'
<1>1. damaged' \in 0 .. MaxDamage
  BY PathAssumption DEF Damage, ClientReadsDamage, ServerReadsDamage, TypeOK, PathTypeOK
<1>2. QueuesOK'
  BY ReadTypes DEF Damage, ClientReadsDamage, ServerReadsDamage, HasRead, Reads, NoReply,
                   TypeOK, PathTypeOK, QueuesOK
<1>3. UNCHANGED <<up, lost>>
  BY DEF Damage, ClientReadsDamage, ServerReadsDamage
<1>4. CASE ClientReadsDamage /\ UNCHANGED <<serverVars, up, lost>>
  <2>1. ClientFlagsOK' BY <1>4, TypeParts DEF TypeOK, ClientFlagsOK, ClientReadsDamage
  <2>2. ClientPlacesOK'
    BY <1>4, TypeParts DEF TypeOK, ClientPlacesOK, ClientReadsDamage, MainPlace
  <2>3. ServerTypeOK' BY <1>4 DEF TypeOK, ServerTypeOK, serverVars, askerVars
  <2> QED BY <1>1, <1>2, <1>3, <2>1, <2>2, <2>3, TypeParts, PathParts DEF TypeOK
<1>5. CASE ServerReadsDamage /\ UNCHANGED <<clientVars, lost>>
  <2>1. ServerFlagsOK' BY <1>5, TypeParts DEF TypeOK, ServerFlagsOK, ServerReadsDamage
  <2>2. ServerPlacesOK'
    BY <1>5, TypeParts, PathAssumption
    DEF TypeOK, ServerPlacesOK, ServerReadsDamage, ServerGoes, askerVars
  <2>3. ClientTypeOK' BY <1>5 DEF TypeOK, ClientTypeOK, clientVars, mainVars, listenerVars
  <2> QED BY <1>1, <1>2, <1>3, <2>1, <2>2, <2>3, TypeParts, PathParts DEF TypeOK
<1> QED BY <1>4, <1>5 DEF Damage

\* Every step keeps the types.
LEMMA TypeStep == ASSUME TypeOK, [Next]_vars PROVE TypeOK'
<1> USE DEF TypeOK
<1>1. ClientTypeOK /\ UNCHANGED clientVars => ClientTypeOK'
  BY DEF ClientTypeOK, clientVars, mainVars, listenerVars
<1>2. ServerTypeOK /\ UNCHANGED serverVars => ServerTypeOK'
  BY DEF ServerTypeOK, serverVars, askerVars
<1>3. QueuesOK /\ up \in BOOLEAN BY PathParts
<1>4. CASE MainMoves \/ TransferMoves \/ (Interrupt /\ ServerRests)
  <2>1. (MainStep \/ MainTimeout \/ TransferEnds \/ Interrupt) /\ ServerRests
    BY <1>4 DEF MainMoves, TransferMoves
  <2>2. ClientTypeOK' BY <2>1, FlagsMain, PlacesMain, TypeParts
  <2>3. QueuesOK' BY <1>3, <2>1, QueuesMain
  <2> QED BY <1>2, <2>1, <2>2, <2>3, PathParts DEF ServerRests
<1>5. CASE ListenerMoves
  <2>1. (ListenerStep \/ ListenerTimeout \/ CloseTimeout) /\ ServerRests
    BY <1>5 DEF ListenerMoves
  <2>2. ClientTypeOK' BY <2>1, FlagsListener, PlacesListener, TypeParts
  <2>3. QueuesOK' BY <1>3, <2>1, QueuesListener
  <2> QED BY <1>2, <2>1, <2>2, <2>3, PathParts DEF ServerRests
<1>6. CASE (\E c \in Command : Type(c)) /\ ServerRests
  <2>1. ClientTypeOK' /\ QueuesOK' BY <1>3, <1>6, TypeUser
  <2> QED BY <1>2, <1>6, <2>1, PathParts DEF ServerRests
<1>7. CASE ServerMoves
  <2>1. (ServerStep \/ ServerTimeout) /\ ClientRests BY <1>7 DEF ServerMoves
  <2>2. ServerTypeOK' /\ up' \in BOOLEAN
    BY <1>3, <2>1, FlagsServer, PlacesServer, TypeParts
  <2>3. QueuesOK' BY <1>3, <2>1, QueuesServer
  <2> QED BY <1>1, <2>1, <2>2, <2>3, PathParts DEF ClientRests
<1>8. CASE (\E t \in Asker : AskerMoves(t)) \/ AskerAsks
  <2>1. PICK t \in Asker : Ask(t) \/ AskerStep(t)
    BY <1>8 DEF AskerMoves, AskerAsks
  <2>2. ClientRests BY <1>8 DEF AskerMoves, AskerAsks
  <2>3. ServerTypeOK' /\ QueuesOK' /\ up' \in BOOLEAN BY <1>3, <2>1, TypeAsker
  <2> QED BY <1>1, <2>2, <2>3, PathParts DEF ClientRests
<1>9. CASE Lose /\ UNCHANGED <<clientVars, serverVars>>
  BY <1>1, <1>2, <1>9, TypeLose
<1>10. CASE Damage BY <1>10, TypeDamage
<1>11. CASE UNCHANGED vars
  BY <1>1, <1>2, <1>11 DEF vars, pathVars, PathTypeOK
<1> QED
  BY <1>4, <1>5, <1>6, <1>7, <1>8, <1>9, <1>10, <1>11 DEF Next, UserMoves, User

\* Every counter of reads and of acknowledgements stays within its deadline,
\* and every thread at a place of its program.
THEOREM TypeCorrect == Spec => []TypeOK
  BY TypeInit, TypeStep, PTL DEF Spec

-----------------------------------------------------------------------------
(* One datagram lost or damaged: what the handshakes of connect and        *)
(* accept, and of close_sender_client and check_and_close_receive, promise *)
(* for any number of commands, when the path and the programs are quicker  *)
(* than the timeouts.                                                      *)
(*                                                                         *)
(* The invariant (InStep) has one part per place of the server thread:     *)
(* what the client may be doing meanwhile, and which datagrams are on the  *)
(* way.  Where damage or Ctrl-C has broken the step of the two ends,       *)
(* Broken says why no FIN is answered that nobody has sent.                *)

Faults == lost + damaged

\* At most one datagram lost or damaged, and a user who waits for the
\* listening thread.  The code's numbers are 3, 2 and 2 (Tries, CloseTries,
\* Acks); with a smaller one the ends disagree.
OneFault ==
  /\ MaxLoss + MaxDamage <= 1
  /\ Prompt /\ ~QuickUser
  /\ Tries >= 3 /\ CloseTries >= 2 /\ Acks >= 2

\* ... lost, and no Ctrl-C at the client.
OneLoss == OneFault /\ MaxDamage = 0 /\ MaxInterrupts = 0

-----------------------------------------------------------------------------
(* Datagrams on the way to the server. *)

IsAck(m) == m.ack /\ ~m.syn /\ ~m.fin /\ m.body = "none"

OnlyAcks(q) == \A i \in DOMAIN q : IsAck(q[i])

AcksThen(q, m) ==
  /\ q # <<>> /\ q[Len(q)] = m
  /\ \A i \in 1 .. Len(q) - 1 : IsAck(q[i])

\* What tells the datagrams of the handshakes apart.
LEMMA Kinds ==
  ASSUME NEW p
  PROVE  /\ IsAck(Ack(p))
         /\ Syn(p).syn /\ Syn(p).body = "none" /\ ~Syn(p).fin /\ ~Syn(p).ack /\ Syn(p).from = p
         /\ SynAck(p).syn /\ SynAck(p).ack /\ SynAck(p).body = "none" /\ SynAck(p).from = p
         /\ Request(p).body = "request" /\ ~Request(p).ack /\ ~Request(p).syn
         /\ Fin(p).fin /\ ~Fin(p).ack /\ ~Fin(p).syn /\ Fin(p).body = "CLOSE"
         /\ \A z : FinAck(p, z).from = p
  BY DEF IsAck, Ack, Syn, SynAck, Request, Fin, FinAck, Plain

\* A path with one datagram.
LEMMA OneElement ==
  ASSUME NEW S, NEW q \in Seq(S), Len(q) = 1
  PROVE  q = <<q[1]>> /\ Head(q) = q[1] /\ Tail(q) = <<>> /\ q # <<>>
<1>1. q = <<q[1]>> OBVIOUS
<1>2. Tail(<<q[1]>>) = <<>> /\ Head(<<q[1]>>) = q[1] /\ <<q[1]>> # <<>> OBVIOUS
<1> QED BY <1>1, <1>2, Zenon

\* A path with datagrams on it is not empty.
LEMMA NotEmpty == \A q : Len(q) # 0 => q # <<>>
  OBVIOUS

\* An empty path carries acknowledgements only.
LEMMA NoAcks == OnlyAcks(<<>>)
  BY DEF OnlyAcks

\* A datagram sent after acknowledgements.
LEMMA OneMore ==
  ASSUME NEW q \in Seq(Datagram), OnlyAcks(q), NEW m \in Datagram
  PROVE  /\ AcksThen(Append(q, m), m) /\ Len(Append(q, m)) = Len(q) + 1
         /\ IsAck(m) => OnlyAcks(Append(q, m))
  BY DEF OnlyAcks, AcksThen

\* An acknowledgement read, the rest of them still on the way.
LEMMA FirstAck ==
  ASSUME NEW q \in Seq(Datagram), OnlyAcks(q), q # <<>>
  PROVE  IsAck(Head(q)) /\ OnlyAcks(Tail(q)) /\ Len(Tail(q)) = Len(q) - 1
<1>1. Tail(q) \in Seq(Datagram) /\ Len(Tail(q)) = Len(q) - 1 /\ Len(q) \in Nat \ {0} OBVIOUS
<1>2. \A i \in 1 .. Len(Tail(q)) : Tail(q)[i] = q[i + 1] OBVIOUS
<1> QED BY <1>1, <1>2 DEF OnlyAcks

\* The first datagram read when m is the last behind acknowledgements.
LEMMA FirstOfAcksThen ==
  ASSUME NEW q \in Seq(Datagram), NEW m \in Datagram, AcksThen(q, m)
  PROVE  /\ q # <<>>
         /\ \/ q = <<m>> /\ Head(q) = m /\ Tail(q) = <<>> /\ Len(q) = 1
            \/ IsAck(Head(q)) /\ AcksThen(Tail(q), m) /\ Len(Tail(q)) = Len(q) - 1
<1>1. Tail(q) \in Seq(Datagram) /\ Len(Tail(q)) = Len(q) - 1 /\ Len(q) \in Nat \ {0}
  BY DEF AcksThen
<1>2. \A i \in 1 .. Len(Tail(q)) : Tail(q)[i] = q[i + 1] OBVIOUS
<1>3. CASE Len(q) = 1
  <2>1. q[1] = m BY <1>3 DEF AcksThen
  <2> QED BY <1>3, <2>1, OneElement
<1>4. CASE Len(q) # 1
  <2>1. Head(q) = q[1] /\ IsAck(q[1]) BY <1>1, <1>4 DEF AcksThen
  <2>2. Len(Tail(q)) \in Nat \ {0} BY <1>1, <1>4
  <2>3. Tail(q)[Len(Tail(q))] = m BY <1>1, <1>2, <2>2 DEF AcksThen
  <2>4. \A i \in 1 .. Len(Tail(q)) - 1 : IsAck(Tail(q)[i])
    BY <1>1, <1>2, <2>2 DEF AcksThen
  <2>5. Tail(q) # <<>> BY <2>2, NotEmpty
  <2> QED BY <1>1, <2>1, <2>3, <2>4, <2>5 DEF AcksThen
<1> QED BY <1>3, <1>4 DEF AcksThen

\* If no request is on the way, the last datagram is none.
LEMMA NoRequest ==
  ASSUME NEW q \in Seq(Datagram), NEW m \in Datagram,
         \A i \in DOMAIN q : q[i].body # "request", AcksThen(q, m)
  PROVE  m.body # "request"
  BY DEF AcksThen

-----------------------------------------------------------------------------
(* The invariant. *)

\* The user is at the prompt, or just not there any more.
Out == main \in {"prompt", "acquire", "exit", "ended"} /\ ~isConnected
In  == main \in {"prompt", "acquire"} /\ isConnected

\* A command that has been typed cannot begin: the thread that has the lock
\* reads on.
HeldUp == main = "acquire" => listener = "recv"

\* The client by itself.
ClientPart ==
  /\ listener \in {"none", "loop", "recv"}
  /\ main \notin {"dead", "interrupted"} /\ command # "interrupt"
  /\ main \in {"connect", "ackOpen", "exit", "ended"} => ~isConnected
  /\ main \in {"fin", "ackClose", "transfer"} => isConnected
  /\ main = "prompt" => ~userInput /\ (isConnected => waiting > 0 \/ listener # "none")
  /\ listener = "recv" \/ main \in {"connect", "fin", "transfer"} => armed
  /\ main = "acquire" /\ isConnected => armed

\* A Syn that the server has thrown away with its old socket costs the client
\* a try, as a lost one does.
AtListen ==
  /\ server = "listen" /\ ~isServing /\ toClient = <<>>
  /\ \/ main = "connect" /\ OnlyAcks(toServer) /\ tries <= Faults
     \/ main = "connect" /\ AcksThen(toServer, Syn(port)) /\ tries <= 1 + Faults
     \/ (main = "ackClose" \/ Out) /\ OnlyAcks(toServer)

AtAccept ==
  /\ server = "accept" /\ ~isServing /\ client = port
  /\ \/ /\ main = "connect" /\ toServer = <<>> /\ toClient = <<SynAck(port)>>
        /\ tries <= 1 + Faults /\ stries <= Faults
     \/ main = "connect" /\ toServer = <<>> /\ toClient = <<>>
        /\ Faults = 1 /\ tries <= 1 /\ stries = 0
     \/ main = "connect" /\ toServer = <<Syn(port)>> /\ toClient = <<>> /\ Faults = 1
     \/ main = "ackOpen" /\ OnlyAcks(toServer) /\ Len(toServer) + Faults >= tries
        /\ toClient = <<>>
     \/ In /\ HeldUp /\ OnlyAcks(toServer) /\ Len(toServer) + Faults >= 2 /\ toClient = <<>>

AtIdle ==
  /\ server = "idle" /\ isServing /\ client = port
  /\ \/ main = "connect" /\ toServer = <<>> /\ toClient = <<SynAck(port)>> /\ Faults = 1
     \/ (main = "ackOpen" \/ (In /\ HeldUp)) /\ OnlyAcks(toServer)
        /\ toClient = <<SynAck(port)>>
     \/ (main = "ackOpen" \/ In) /\ OnlyAcks(toServer) /\ toClient = <<>>
     \/ main = "transfer" /\ toClient = <<>>
        /\ (OnlyAcks(toServer) \/ AcksThen(toServer, Request(port)))
     \/ main = "fin" /\ OnlyAcks(toServer) /\ toClient = <<>> /\ Faults = 1 /\ tries = 0
     \/ main = "fin" /\ AcksThen(toServer, Fin(port)) /\ toClient = <<>> /\ tries <= Faults

AtServing ==
  /\ server = "serving" /\ isServing /\ client = port
  /\ toServer = <<>> /\ toClient = <<>>
  /\ main = "transfer" \/ (In /\ HeldUp)

AtClosing ==
  /\ server = "closing" /\ isServing
  /\ \/ /\ main = "fin" /\ client = port
        /\ toServer = <<>> /\ toClient = <<FinAck(port, szeroed)>>
        /\ tries <= Faults /\ stries <= Faults
     \/ main = "fin" /\ client = port /\ toServer = <<>> /\ toClient = <<>>
        /\ Faults = 1 /\ tries = 0 /\ stries = 0
     \/ main = "fin" /\ client = port /\ toServer = <<Fin(port)>> /\ toClient = <<>>
        /\ Faults = 1 /\ tries = 1 /\ stries = 0
     \/ main = "ackClose" /\ OnlyAcks(toServer) /\ Len(toServer) + Faults >= tries
        /\ toClient = <<>>
     \/ Out /\ OnlyAcks(toServer) /\ Len(toServer) + Faults >= 2 /\ toClient = <<>>
     \/ main = "connect" /\ AcksThen(toServer, Syn(port)) /\ Len(toServer) + Faults >= 3
        /\ toClient = <<>> /\ tries = 0

AtInit ==
  /\ server \in {"cleared", "unset"} /\ isServing /\ toClient = <<>>
  /\ \/ (main = "ackClose" \/ Out) /\ OnlyAcks(toServer)
     \/ main = "connect" /\ tries = 0 /\ OnlyAcks(toServer) /\ Faults = 1
     \/ main = "connect" /\ tries = 0 /\ AcksThen(toServer, Syn(port))

Places == AtListen \/ AtAccept \/ AtIdle \/ AtServing \/ AtClosing \/ AtInit

\* Once a thread of the server has asked for the end nothing is said.
InStep == NobodyAsked => up /\ ClientPart /\ Places

-----------------------------------------------------------------------------
(* The client by itself. *)

\* What is used of the types.
Typed ==
  /\ toServer \in Seq(Datagram) /\ toClient \in Seq(Datagram) /\ port \in Nat
  /\ tries \in Nat /\ stries \in Nat /\ waiting \in Nat /\ Faults \in {0, 1}

\* The types as the proof uses them.
LEMMA TypedHere ==
  ASSUME OneFault, TypeOK
  PROVE  Typed /\ (lost < MaxLoss \/ damaged < MaxDamage => Faults = 0)
<1>1. /\ lost \in Nat /\ damaged \in Nat /\ MaxLoss \in Nat /\ MaxDamage \in Nat
      /\ lost <= MaxLoss /\ damaged <= MaxDamage /\ MaxLoss + MaxDamage <= 1
  BY PathAssumption DEF OneFault, TypeOK, PathTypeOK
<1>2. Faults \in {0, 1} /\ (lost < MaxLoss \/ damaged < MaxDamage => Faults = 0)
  BY <1>1 DEF Faults
<1>3. tries \in Nat /\ stries \in Nat
  BY PathAssumption DEF TypeOK, ClientTypeOK, ServerTypeOK
<1> QED BY <1>2, <1>3 DEF Typed, TypeOK, PathTypeOK, ClientTypeOK

\* Steps of the main thread keep what the client is by itself.
LEMMA ClientMain ==
  ASSUME Typed, LockOwned, ClientPart, MainStep \/ CallAgain \/ TransferEnds
  PROVE  ClientPart'
<1> USE DEF Typed, LockOwned, OnSocket, Waits, ClientPart, mainVars, listenerVars, Goes, Done, ProcessEnds
<1>1. CASE Refuse BY <1>1 DEF Refuse
<1>2. CASE TerminateUnconnected BY <1>2 DEF TerminateUnconnected
<1>3. CASE Begin BY <1>3 DEF Begin
<1>4. CASE Answered BY <1>4 DEF Answered
<1>5. CASE SendAck BY <1>5 DEF SendAck
<1>6. CASE Connected BY <1>6 DEF Connected
<1>7. CASE Disconnected BY <1>7 DEF Disconnected
<1>8. CASE TransferReads BY <1>8 DEF TransferReads, clientVars
<1>9. CASE ShutDown BY <1>9 DEF ShutDown
<1>10. CASE Exit BY <1>10 DEF Exit
<1>11. CASE CallAgain BY <1>11 DEF CallAgain
<1>12. CASE TransferEnds BY <1>12 DEF TransferEnds
<1> QED
  BY <1>1, <1>2, <1>3, <1>4, <1>5, <1>6, <1>7, <1>8, <1>9, <1>10, <1>11, <1>12 DEF MainStep

\* The user types only when the thread that will listen has begun to.
LEMMA ClientTypes ==
  ASSUME OneFault, Typed, ClientPart, NEW c \in Command, Type(c)
  PROVE  ClientPart'
  BY DEF OneFault, Typed, ClientPart, Type, ThreadsSettled, Goes, Command, listenerVars

\* The listening threads as they are while the server sends no FIN.
LEMMA ClientListens ==
  ASSUME Typed, ClientPart, ListenerStarts \/ ListenerLoop \/ ListenerDrops \/ ListenerTimeout
  PROVE  ClientPart'
<1> USE DEF Typed, ClientPart, MainWaits, listenerVars
<1>1. CASE ListenerStarts BY <1>1 DEF ListenerStarts
<1>2. CASE ListenerLoop BY <1>2 DEF ListenerLoop
<1>3. CASE ListenerDrops BY <1>3 DEF ListenerDrops
<1>4. CASE ListenerTimeout BY <1>4 DEF ListenerTimeout
<1> QED BY <1>1, <1>2, <1>3, <1>4

-----------------------------------------------------------------------------
(* The steps of the client. *)

\* A command refused, or the process ended by one: nothing is sent.
LEMMA RefusePlaces ==
  ASSUME Typed, ClientPart, Places, Refuse \/ TerminateUnconnected \/ Exit, ServerRests
  PROVE  Places'
<1> USE DEF Refuse, TerminateUnconnected, Exit, Done, ProcessEnds, ClientSocketCloses, Goes, Faults, ServerRests, NoneSent, serverVars, Typed,
        ClientPart, Out, In, HeldUp
<1>1. CASE AtListen
  <2>1. AtListen' BY <1>1 DEF AtListen
  <2> QED BY <2>1 DEF Places
<1>2. CASE AtAccept
  <2>1. AtAccept' BY <1>2 DEF AtAccept
  <2> QED BY <2>1 DEF Places
<1>3. CASE AtIdle
  <2>1. AtIdle' BY <1>3 DEF AtIdle
  <2> QED BY <2>1 DEF Places
<1>4. CASE AtServing
  <2>1. AtServing' BY <1>4 DEF AtServing
  <2> QED BY <2>1 DEF Places
<1>5. CASE AtClosing
  <2>1. AtClosing' BY <1>5 DEF AtClosing
  <2> QED BY <2>1 DEF Places
<1>6. CASE AtInit
  <2>1. AtInit' BY <1>6 DEF AtInit
  <2> QED BY <2>1 DEF Places
<1> QED BY <1>1, <1>2, <1>3, <1>4, <1>5, <1>6 DEF Places

\* A command that begins, with the Syn, the request or the FIN it sends.
LEMMA BeginPlaces ==
  ASSUME Typed, LockOwned, ClientPart, Places, up, Begin, ServerRests
  PROVE  Places'
<1> USE DEF Faults, ServerRests, serverVars, Goes
<1>1. /\ Syn(port) \in Datagram /\ Request(port) \in Datagram /\ Fin(port) \in Datagram
      /\ toServer \in Seq(Datagram)
  BY DatagramTypes DEF Typed
<1>2. /\ main = "acquire" /\ listener = "none" /\ ~HeldUp
      /\ port' = port /\ isConnected' = isConnected /\ toClient' = toClient
  BY DEF Begin, LockOwned, ClientSends, HeldUp
<1>3. CASE Out
  <2>1. /\ main' = "connect" /\ ~isConnected' /\ tries' = 0
        /\ toServer' = Append(toServer, Syn(port))
    BY <1>3 DEF Begin, Out, ClientSends, WithCall
  <2>2. OnlyAcks(toServer) =>
          AcksThen(toServer', Syn(port)) /\ Len(toServer') = Len(toServer) + 1
    BY <1>1, <2>1, OneMore
  <2>3. CASE AtListen
    <3>1. AtListen' BY <1>2, <1>3, <2>1, <2>2, <2>3 DEF AtListen, Out, Typed
    <3> QED BY <3>1 DEF Places
  <2>4. CASE AtClosing
    <3>1. OnlyAcks(toServer) /\ Len(toServer) + Faults >= 2 /\ toClient = <<>>
      BY <1>2, <2>4 DEF AtClosing
    <3>2. AtClosing' BY <1>1, <1>2, <2>1, <2>2, <2>4, <3>1 DEF AtClosing, Typed
    <3> QED BY <3>2 DEF Places
  <2>5. CASE AtInit
    <3>1. AtInit' BY <1>2, <1>3, <2>1, <2>2, <2>5 DEF AtInit, Out
    <3> QED BY <3>1 DEF Places
  <2> QED BY <1>2, <1>3, <2>3, <2>4, <2>5 DEF Places, AtAccept, AtIdle, AtServing, Out, In
<1>4. CASE In
  <2>1. AtIdle /\ OnlyAcks(toServer) /\ toClient = <<>>
    BY <1>2, <1>4 DEF Places, AtListen, AtAccept, AtIdle, AtServing, AtClosing, AtInit, Out, In
  <2>2. /\ \/ main' = "transfer" /\ toServer' = Append(toServer, Request(port))
           \/ main' = "fin" /\ toServer' = Append(toServer, Fin(port))
        /\ tries' = 0
    BY <1>4 DEF Begin, In, ClientSends, WithCall
  <2>3. \/ main' = "transfer" /\ AcksThen(toServer', Request(port))
        \/ main' = "fin" /\ AcksThen(toServer', Fin(port))
    BY <1>1, <2>1, <2>2, OneMore
  <2>4. AtIdle' BY <1>2, <2>1, <2>2, <2>3 DEF AtIdle, Typed
  <2> QED BY <2>4 DEF Places
<1> QED BY <1>2, <1>3, <1>4 DEF Out, In

\* The answer that the main thread waits for is read.
LEMMA AnsweredPlaces ==
  ASSUME Typed, ClientPart, Places, Answered, ServerRests
  PROVE  Places'
<1> USE DEF Faults, ServerRests, serverVars, Goes, Answered, Waits
<1>1. \A m : Tail(<<m>>) = <<>> /\ <<m>> # <<>> OBVIOUS
<1>2. OnlyAcks(<<>>) /\ Len(<<>>) = 0 BY NoAcks
<1>3. CASE AtAccept
  <2>1. AtAccept' BY <1>1, <1>2, <1>3 DEF AtAccept, In, Typed
  <2> QED BY <2>1 DEF Places
<1>4. CASE AtIdle
  <2>1. AtIdle' BY <1>1, <1>2, <1>4 DEF AtIdle, In
  <2> QED BY <2>1 DEF Places
<1>5. CASE AtClosing
  <2>1. AtClosing' BY <1>1, <1>2, <1>5 DEF AtClosing, Out, Typed
  <2> QED BY <2>1 DEF Places
<1> QED BY <1>3, <1>4, <1>5 DEF Places, AtListen, AtServing, AtInit

\* One more acknowledgement, of the SYN-ACK or of the FIN.
LEMMA SendAckPlaces ==
  ASSUME Typed, ClientPart, Places, up, SendAck, ServerRests
  PROVE  Places'
<1>1. /\ main \in {"ackOpen", "ackClose"} /\ main' = main /\ tries' = tries + 1
      /\ isConnected' = isConnected /\ toClient' = toClient /\ port' = port
      /\ toServer' = Append(toServer, Ack(port))
  BY DEF SendAck, ClientSends, WithCall
<1>2. Ack(port) \in Datagram /\ IsAck(Ack(port)) /\ toServer \in Seq(Datagram)
  BY DatagramTypes, Kinds DEF Typed
<1>3. OnlyAcks(toServer) => OnlyAcks(toServer') /\ Len(toServer') = Len(toServer) + 1
  BY <1>1, <1>2, OneMore
<1> USE DEF Faults, ServerRests, serverVars
<1>4. CASE AtListen
  <2>1. AtListen' BY <1>1, <1>3, <1>4 DEF AtListen, Out
  <2> QED BY <2>1 DEF Places
<1>5. CASE AtAccept
  <2>1. main = "ackOpen" /\ OnlyAcks(toServer) /\ Len(toServer) + Faults >= tries /\ toClient = <<>>
    BY <1>1, <1>5 DEF AtAccept, In
  <2>2. Len(toServer') + Faults >= tries' BY <1>1, <1>3, <2>1, <1>2 DEF Typed
  <2>3. AtAccept' BY <1>1, <1>3, <1>5, <2>1, <2>2 DEF AtAccept
  <2> QED BY <2>3 DEF Places
<1>6. CASE AtIdle
  <2>1. AtIdle' BY <1>1, <1>3, <1>6 DEF AtIdle, In
  <2> QED BY <2>1 DEF Places
<1>7. CASE AtClosing
  <2>1. main = "ackClose" /\ OnlyAcks(toServer) /\ Len(toServer) + Faults >= tries /\ toClient = <<>>
    BY <1>1, <1>7 DEF AtClosing, Out
  <2>2. Len(toServer') + Faults >= tries' BY <1>1, <1>3, <2>1, <1>2 DEF Typed
  <2>3. AtClosing' BY <1>1, <1>3, <1>7, <2>1, <2>2 DEF AtClosing
  <2> QED BY <2>3 DEF Places
<1>8. CASE AtInit
  <2>1. AtInit' BY <1>1, <1>3, <1>8 DEF AtInit, Out
  <2> QED BY <2>1 DEF Places
<1> QED BY <1>1, <1>4, <1>5, <1>6, <1>7, <1>8 DEF Places, AtServing, In

\* All acknowledgements are sent; of two or more, one is still there.
LEMMA ConnectedPlaces ==
  ASSUME OneFault, Typed, ClientPart, Places, Connected, ServerRests
  PROVE  Places'
<1> USE PathAssumption DEF Faults, ServerRests, serverVars, Connected, Done, NoneSent, OneFault, Typed, In, HeldUp
<1>1. CASE AtAccept
  <2>1. AtAccept' BY <1>1 DEF AtAccept
  <2> QED BY <2>1 DEF Places
<1>2. CASE AtIdle
  <2>1. AtIdle' BY <1>2 DEF AtIdle
  <2> QED BY <2>1 DEF Places
<1> QED BY <1>1, <1>2 DEF Places, AtListen, AtServing, AtClosing, AtInit, Out

\* The client has sent its last acknowledgement of the FIN.
LEMMA DisconnectedPlaces ==
  ASSUME OneFault, Typed, ClientPart, Places, Disconnected, ServerRests
  PROVE  Places'
<1> USE PathAssumption DEF Faults, ServerRests, serverVars, Done, NoneSent, Goes, ClientPart, Typed, Out
<1>1. /\ main = "ackClose" /\ tries = Acks /\ Out' /\ main' # "ackClose" /\ toServer' = toServer
      /\ toClient' = toClient /\ port' = port
  BY DEF Disconnected
<1>2. CASE AtListen
  <2>1. AtListen' BY <1>1, <1>2 DEF AtListen
  <2> QED BY <2>1 DEF Places
<1>3. CASE AtClosing
  <2>1. Len(toServer) + Faults >= 2 /\ OnlyAcks(toServer) /\ toClient = <<>>
    BY <1>1, <1>3 DEF AtClosing, OneFault
  <2>2. AtClosing' BY <1>1, <1>3, <2>1 DEF AtClosing
  <2> QED BY <2>2 DEF Places
<1>4. CASE AtInit
  <2>1. AtInit' BY <1>1, <1>4 DEF AtInit
  <2> QED BY <2>1 DEF Places
<1> QED BY <1>1, <1>2, <1>3, <1>4 DEF Places, AtAccept, AtIdle, AtServing, In

\* A transfer ends, and the user is back at the prompt.
LEMMA TransferPlaces ==
  ASSUME OneFault, Typed, LockOwned, ClientPart, Places, up, ServerRests,
         MayEnd /\ TransferEnds
  PROVE  Places'
<1> USE DEF Faults, ServerRests, serverVars, Done, NoneSent, Typed
<1>1. /\ main = "transfer" /\ main' = "prompt" /\ toServer' = toServer /\ toClient' = toClient
      /\ port' = port /\ isConnected' /\ In'
  BY DEF TransferEnds, ClientPart, In
<1>2. CASE AtIdle
  <2>1. \A i \in DOMAIN toServer : toServer[i].body # "request"
    BY <1>2 DEF MayEnd, OneFault, AtIdle
  <2>2. Request(port) \in Datagram /\ Request(port).body = "request" BY DatagramTypes, Kinds
  <2>3. OnlyAcks(toServer) /\ toClient = <<>>
    BY <1>1, <1>2, <2>1, <2>2, NoRequest DEF AtIdle, In
  <2>4. AtIdle' BY <1>1, <1>2, <2>3 DEF AtIdle
  <2> QED BY <2>4 DEF Places
<1>3. CASE AtServing
  <2>1. AtServing' BY <1>1, <1>3 DEF AtServing, HeldUp
  <2> QED BY <2>1 DEF Places
<1> QED BY <1>1, <1>2, <1>3 DEF Places, AtListen, AtAccept, AtClosing, AtInit, Out, In

\* Nothing is on the way to a main thread that may call again, and the server
\* waits: a datagram was lost, or thrown away with a socket, not long ago.
LEMMA CallAgainPlaces ==
  ASSUME OneFault, Typed, ClientPart, Places, up, ServerRests,
         ClientMayWait /\ MainTimeout
  PROVE  Places' /\ CallAgain
<1>1. toClient = <<>> /\ toServer = <<>> /\ server \notin {"serving", "cleared", "unset"}
  BY DEF ClientMayWait, ServerQuiet, OneFault, Places, AtListen, AtAccept, AtIdle, AtServing,
         AtClosing, AtInit
<1>2. main \in {"connect", "fin"} BY DEF MainTimeout, CallAgain, GiveUp, Waits
<1>3. \A m : <<m>> # <<>> /\ ~AcksThen(<<>>, m) BY DEF AcksThen
<1>4. OnlyAcks(<<>>) BY NoAcks
<1>5. /\ tries <= 1
      /\ \/ main = "connect" /\ AtListen /\ tries <= Faults
         \/ main = "connect" /\ AtAccept /\ Faults = 1 /\ stries = 0
         \/ main = "fin" /\ AtIdle /\ Faults = 1 /\ tries = 0
         \/ main = "fin" /\ AtClosing /\ Faults = 1 /\ tries = 0 /\ stries = 0
  BY <1>1, <1>2, <1>3 DEF Places, AtListen, AtAccept, AtIdle, AtServing, AtClosing, AtInit,
     Out, In, Typed
<1>6. CallAgain BY <1>5 DEF MainTimeout, GiveUp, OneFault, Typed
<1>7. /\ Syn(port) \in Datagram /\ Fin(port) \in Datagram /\ <<>> \in Seq(Datagram)
  BY DatagramTypes DEF Typed
<1>8. \A m \in Datagram : AcksThen(Append(<<>>, m), m) /\ Append(<<>>, m) = <<m>>
  <2>1. \A m \in Datagram : AcksThen(Append(<<>>, m), m) BY <1>4, <1>7, OneMore
  <2>2. \A m : Append(<<>>, m) = <<m>> OBVIOUS
  <2> QED BY <2>1, <2>2
<1> USE DEF Faults, ServerRests, serverVars
<1>9. /\ main' = main /\ isConnected' = isConnected /\ port' = port /\ toClient' = <<>>
      /\ tries' = tries + 1
      /\ main = "connect" => toServer' = Append(<<>>, Syn(port))
      /\ main = "fin" => toServer' = Append(<<>>, Fin(port))
  BY <1>1, <1>6 DEF CallAgain, Call, ClientSends, WithCall
<1>10. CASE main = "connect" /\ AtListen /\ tries <= Faults
  <2>1. AtListen' BY <1>7, <1>8, <1>9, <1>10 DEF AtListen, Typed
  <2> QED BY <1>6, <2>1 DEF Places
<1>11. CASE main = "connect" /\ AtAccept /\ Faults = 1 /\ stries = 0
  <2>1. AtAccept' BY <1>7, <1>8, <1>9, <1>11 DEF AtAccept, Typed
  <2> QED BY <1>6, <2>1 DEF Places
<1>12. CASE main = "fin" /\ AtIdle /\ Faults = 1 /\ tries = 0
  <2>1. AtIdle' BY <1>7, <1>8, <1>9, <1>12 DEF AtIdle, Typed
  <2> QED BY <1>6, <2>1 DEF Places
<1>13. CASE main = "fin" /\ AtClosing /\ Faults = 1 /\ tries = 0 /\ stries = 0
  <2>1. AtClosing' BY <1>7, <1>8, <1>9, <1>13 DEF AtClosing, Out, Typed
  <2> QED BY <1>6, <2>1 DEF Places
<1> QED BY <1>5, <1>10, <1>11, <1>12, <1>13

\* The user types a command.
LEMMA TypedPlaces ==
  ASSUME OneFault, Typed, ClientPart, Places, NEW c \in Command, Type(c), ServerRests
  PROVE  Places'
<1> USE DEF Faults, ServerRests, serverVars, Type, Goes, NoneSent, OneFault, ThreadsSettled, listenerVars, ClientPart, Out, In, HeldUp
<1>1. CASE AtListen
  <2>1. AtListen' BY <1>1 DEF AtListen
  <2> QED BY <2>1 DEF Places
<1>2. CASE AtAccept
  <2>1. AtAccept' BY <1>2 DEF AtAccept
  <2> QED BY <2>1 DEF Places
<1>3. CASE AtIdle
  <2>1. AtIdle' BY <1>3 DEF AtIdle
  <2> QED BY <2>1 DEF Places
<1>4. CASE AtServing
  <2>1. AtServing' BY <1>4 DEF AtServing
  <2> QED BY <2>1 DEF Places
<1>5. CASE AtClosing
  <2>1. AtClosing' BY <1>5 DEF AtClosing
  <2> QED BY <2>1 DEF Places
<1>6. CASE AtInit
  <2>1. AtInit' BY <1>6 DEF AtInit
  <2> QED BY <2>1 DEF Places
<1> QED BY <1>1, <1>2, <1>3, <1>4, <1>5, <1>6 DEF Places

-----------------------------------------------------------------------------
(* The listening thread. *)

\* It goes on reading while a command waits for its lock, as long as there is
\* something on the way.
LEMMA TurnPlaces ==
  ASSUME OneFault, Typed, LockOwned, ClientPart, Places, ServerRests, up,
         ListenerStarts \/ ListenerLoop \/ (ClientMayWait /\ ListenerTimeout)
  PROVE  Places'
<1>1. /\ main' = main /\ isConnected' = isConnected /\ tries' = tries /\ port' = port
      /\ toServer' = toServer /\ toClient' = toClient
      /\ server' = server /\ isServing' = isServing /\ client' = client /\ stries' = stries
      /\ szeroed' = szeroed /\ Faults' = Faults
  BY DEF Faults, ListenerStarts, ListenerLoop, ListenerTimeout, MainWaits, NoneSent, ServerRests, serverVars
<1>2. ASSUME HeldUp,
             toServer # <<>> \/ toClient # <<>> \/ server = "serving"
      PROVE  HeldUp'
  BY <1>1, <1>2 DEF ListenerStarts, ListenerLoop, ListenerTimeout, HeldUp, LockOwned,
     ClientMayWait, ServerQuiet, OneFault, Places, AtListen, AtAccept, AtIdle, AtServing,
     AtClosing, AtInit
<1>3. CASE AtListen
  <2>1. AtListen' BY <1>1, <1>3 DEF AtListen, Out
  <2> QED BY <2>1 DEF Places
<1>4. CASE AtAccept
  <2>1. In /\ HeldUp /\ Len(toServer) + Faults >= 2 => HeldUp'
    <3>1. Len(toServer) + Faults >= 2 => toServer # <<>> BY NotEmpty DEF Typed
    <3> QED BY <1>2, <3>1
  <2>2. AtAccept' BY <1>1, <1>4, <2>1 DEF AtAccept, In
  <2> QED BY <2>2 DEF Places
<1>5. CASE AtIdle
  <2>1. HeldUp /\ toClient = <<SynAck(port)>> => HeldUp'
    <3>1. <<SynAck(port)>> # <<>> OBVIOUS
    <3> QED BY <1>2, <3>1
  <2>2. AtIdle' BY <1>1, <1>5, <2>1 DEF AtIdle, In
  <2> QED BY <2>2 DEF Places
<1>6. CASE AtServing
  <2>1. AtServing' BY <1>1, <1>2, <1>6 DEF AtServing, In
  <2> QED BY <2>1 DEF Places
<1>7. CASE AtClosing
  <2>1. AtClosing' BY <1>1, <1>7 DEF AtClosing, Out
  <2> QED BY <2>1 DEF Places
<1>8. CASE AtInit
  <2>1. AtInit' BY <1>1, <1>8 DEF AtInit, Out
  <2> QED BY <2>1 DEF Places
<1> QED BY <1>3, <1>4, <1>5, <1>6, <1>7, <1>8 DEF Places

\* What it reads is the second SYN-ACK of accept, and nothing else.
LEMMA ListenerReads ==
  ASSUME Typed, LockOwned, ClientPart, Places, listener = "recv", toClient # <<>>
  PROVE  /\ AtIdle /\ In /\ OnlyAcks(toServer)
         /\ IsLeftover(Head(toClient)) /\ Tail(toClient) = <<>>
<1>1. \A m : Tail(<<m>>) = <<>> /\ Head(<<m>>) = m OBVIOUS
<1>2. main \notin {"connect", "fin", "ackOpen", "ackClose", "transfer"}
  BY DEF LockOwned, OnSocket, Waits
<1>3. AtIdle /\ In /\ OnlyAcks(toServer) /\ toClient = <<SynAck(port)>>
  BY <1>2 DEF Places, AtListen, AtAccept, AtIdle, AtServing, AtClosing, AtInit, Out, In
<1>4. SynAck(port).body = "none" BY Kinds
<1> QED BY <1>1, <1>3, <1>4 DEF IsLeftover

\* The listening thread reads and drops a datagram.
LEMMA DropsPlaces ==
  ASSUME Typed, LockOwned, ClientPart, Places, ListenerDrops, ServerRests
  PROVE  Places'
<1>1. AtIdle /\ In /\ OnlyAcks(toServer) /\ Tail(toClient) = <<>>
  BY ListenerReads DEF ListenerDrops
<1>2. AtIdle'
  BY <1>1 DEF AtIdle, In, Faults, ListenerDrops, MainWaits, ServerRests, serverVars
<1> QED BY <1>2 DEF Places

\* No FIN of the server is on the way, so that no thread serves one.
LEMMA NoClosing ==
  ASSUME Typed, LockOwned, ClientPart, Places
  PROVE  ~ListenerAnswersFin /\ ~ClosedByServer /\ ~CloseAgain /\ ~CloseTimeout
<1>1. ~ListenerAnswersFin BY ListenerReads DEF ListenerAnswersFin
<1>2. listener # "closing" BY DEF ClientPart
<1> QED BY <1>1, <1>2 DEF ClosedByServer, CloseAgain, CloseTimeout

-----------------------------------------------------------------------------
(* The server thread. *)

\* What a step of the server thread leaves alone.
ClientSame ==
  /\ main' = main /\ isConnected' = isConnected /\ tries' = tries /\ listener' = listener
  /\ Faults' = Faults /\ port' = port

\* The server reads the first datagram.
LEMMA ReadsFirst ==
  ASSUME Typed, HasRead
  PROVE  /\ OnlyAcks(toServer) =>
              IsAck(Incoming) /\ OnlyAcks(Tail(toServer))
         /\ \A m \in Datagram : AcksThen(toServer, m) =>
              \/ toServer = <<m>> /\ Incoming = m /\ Tail(toServer) = <<>> /\ Len(toServer) = 1
              \/ IsAck(Incoming) /\ AcksThen(Tail(toServer), m)
         /\ \A m : toServer = <<m>> => Incoming = m /\ Tail(toServer) = <<>>
<1>1. \A m : Tail(<<m>>) = <<>> /\ Head(<<m>>) = m OBVIOUS
<1> QED BY <1>1, FirstAck, FirstOfAcksThen DEF Typed, HasRead, Incoming

\* An answer to the client's present port, alone on its way.
LEMMA RepliesFirst ==
  ASSUME NEW m, m.from = port
  PROVE  WithReply(<<>>, m) = <<m>>
  BY DEF WithReply

\* The server in listen.
LEMMA AtListenStep ==
  ASSUME Typed, AtListen, up, ClientSame, ServerStep \/ (ServerMayWait /\ ServerTimeout)
  PROVE  Places' /\ up'
<1> USE DEF ClientSame
<1>1. CASE ListeningDrops
  <2>1. HasRead /\ ~Incoming.syn /\ toServer' = Tail(toServer) BY <1>1 DEF ListeningDrops, Reads
  <2>2. Syn(port).syn /\ Syn(port) \in Datagram BY Kinds, DatagramTypes DEF Typed
  <2>3. AtListen'
    BY <1>1, <2>1, <2>2, ReadsFirst DEF AtListen, Out, ListeningDrops, NoReply, serverVars
  <2> QED BY <1>1, <2>3 DEF Places, ListeningDrops
<1>2. CASE ListeningSyn
  <2>1. /\ HasRead /\ Incoming.syn /\ toServer' = Tail(toServer) /\ client' = Incoming.from
        /\ server' = "accept" /\ stries' = 0 /\ isServing' = isServing
        /\ toClient' = WithReply(<<>>, SynAck(Incoming.from))
    BY <1>2 DEF ListeningSyn, Reads, Replies, ServerGoes, AtListen
  <2>2. Syn(port) \in Datagram /\ Syn(port).from = port /\ SynAck(port).from = port
    BY Kinds, DatagramTypes DEF Typed
  <2>3. main = "connect" /\ tries <= 1 + Faults /\ Incoming = Syn(port) /\ Tail(toServer) = <<>>
    BY <2>1, <2>2, ReadsFirst DEF AtListen, IsAck
  <2>4. toClient' = <<SynAck(port)>> BY <2>1, <2>2, <2>3, RepliesFirst
  <2>5. AtAccept' BY <2>1, <2>2, <2>3, <2>4 DEF AtAccept, AtListen, Typed
  <2> QED BY <1>2, <2>5 DEF Places, ListeningSyn
<1> QED
  BY <1>1, <1>2 DEF AtListen, ServerStep, ServerTimeout, Accepted, IdleDrops, Serve,
     ServingReads, ServingEnds, ClosingAnswered, SendExitAck, ExitAcked, CloseRequested,
     ClosingUnacked, ClosingAcked, Unset, Reinit, AcceptTimeout, ClosingTimeout

\* The server in accept.
LEMMA AtAcceptStep ==
  ASSUME OneFault, Typed, AtAccept, up, ClientSame,
         ServerStep \/ (ServerMayWait /\ ServerTimeout)
  PROVE  Places' /\ up'
<1> USE DEF ClientSame
<1>1. SynAck(port).from = port BY Kinds
<1>2. CASE Accepted
  <2>1. /\ HasRead /\ toServer' = Tail(toServer) /\ server' = "idle" /\ isServing'
        /\ client' = client /\ toClient' = WithReply(toClient, SynAck(client))
    BY <1>2 DEF Accepted, Reads, Replies, ServerGoes
  <2>2. toServer # <<>> BY <2>1 DEF HasRead
  <2>3. toClient' = <<SynAck(port)>> BY <1>1, <2>1, <2>2, RepliesFirst DEF AtAccept
  <2>4. AtIdle' BY <2>1, <2>2, <2>3, ReadsFirst DEF AtAccept, AtIdle, In, HeldUp
  <2> QED BY <1>2, <2>4 DEF Places, Accepted
<1>3. CASE ServerMayWait /\ AcceptTimeout
  <2>1. toServer = <<>> /\ ClientQuiet BY <1>3 DEF ServerMayWait, OneFault
  <2>2. /\ main = "connect" /\ toServer = <<>> /\ toClient = <<>>
        /\ Faults = 1 /\ tries <= 1 /\ stries = 0
    <3>1. \A m : <<m>> # <<>> OBVIOUS
    <3>2. Len(toServer) = 0 BY <2>1
    <3>3. ~(Len(toServer) + Faults >= 2) BY <3>2 DEF Typed
    <3>4. main # "ackOpen" /\ (main = "connect" => toClient = <<>>)
      BY <2>1 DEF ClientQuiet, ClientReads, Waits
    <3> QED BY <2>1, <3>1, <3>3, <3>4 DEF AtAccept
  <2>3. server' = "accept" /\ stries' = 1 /\ isServing' = isServing /\ client' = client
        /\ toServer' = toServer /\ toClient' = WithReply(<<>>, SynAck(port))
    BY <1>3, <2>2 DEF AcceptTimeout, ServerSends, ServerGoes, OneFault, AtAccept
  <2>4. toClient' = <<SynAck(port)>> BY <1>1, <2>3, RepliesFirst
  <2>5. AtAccept' BY <2>2, <2>3, <2>4 DEF AtAccept, Typed
  <2> QED BY <1>3, <2>5 DEF Places, AcceptTimeout
<1> QED
  BY <1>2, <1>3 DEF AtAccept, ServerStep, ServerTimeout, ListeningDrops, ListeningSyn,
     IdleDrops, Serve, ServingReads, ServingEnds, ClosingAnswered, SendExitAck, ExitAcked,
     CloseRequested, ClosingUnacked, ClosingAcked, Unset, Reinit, ClosingTimeout

\* The server between two requests.
LEMMA AtIdleStep ==
  ASSUME Typed, AtIdle, up, ClientSame, ServerStep \/ (ServerMayWait /\ ServerTimeout)
  PROVE  Places' /\ up'
<1> USE DEF ClientSame
<1>1. /\ Request(port) \in Datagram /\ Request(port).body = "request"
      /\ Fin(port) \in Datagram /\ Fin(port).body = "CLOSE" /\ ~Fin(port).ack
      /\ \A z : FinAck(port, z).from = port
  BY Kinds, DatagramTypes DEF Typed
<1>2. CASE IdleDrops
  <2>1. HasRead /\ Incoming.body = "none" /\ toServer' = Tail(toServer) /\ toClient' = toClient
        /\ toServer # <<>>
    BY <1>2 DEF IdleDrops, Reads, NoReply, HasRead
  <2>2. AtIdle' BY <1>1, <1>2, <2>1, ReadsFirst DEF AtIdle, IdleDrops, serverVars, In, HeldUp
  <2> QED BY <1>2, <2>2 DEF Places, IdleDrops
<1>3. CASE Serve
  <2>1. /\ HasRead /\ Incoming.body = "request" /\ toServer' = Tail(toServer)
        /\ toClient' = toClient /\ toServer # <<>>
        /\ server' = "serving" /\ isServing' = isServing /\ client' = client
    BY <1>3 DEF Serve, Reads, NoReply, HasRead, ServerGoes
  <2>2. main = "transfer" /\ toClient = <<>> /\ Tail(toServer) = <<>>
    BY <1>1, <2>1, ReadsFirst DEF AtIdle, IsAck
  <2>3. AtServing' BY <2>1, <2>2 DEF AtIdle, AtServing
  <2> QED BY <1>3, <2>3 DEF Places, Serve
<1>4. CASE ClosingAnswered \/ CloseRequested
  <2>1. HasRead /\ Incoming.body = "CLOSE" /\ toServer # <<>>
    BY <1>4 DEF ClosingAnswered, CloseRequested, HasRead
  <2>2. /\ main = "fin" /\ toClient = <<>> /\ tries <= Faults
        /\ Incoming = Fin(port) /\ Tail(toServer) = <<>>
    BY <1>1, <2>1, ReadsFirst DEF AtIdle, IsAck
  <2>3. CloseRequested BY <1>1, <1>4, <2>2 DEF ClosingAnswered, AnswersOurs
  <2>4. /\ toServer' = Tail(toServer) /\ toClient' = WithReply(<<>>, FinAck(port, szeroed))
        /\ server' = "closing" /\ stries' = 0
        /\ isServing' = isServing /\ client' = client /\ szeroed' = szeroed
    BY <2>2, <2>3 DEF CloseRequested, Reads, Replies, ServerGoes, AtIdle
  <2>5. toClient' = <<FinAck(port, szeroed)>> BY <1>1, <2>4, RepliesFirst
  <2>6. AtClosing' BY <2>2, <2>4, <2>5 DEF AtIdle, AtClosing, Typed
  <2> QED BY <2>3, <2>6 DEF Places, CloseRequested
<1> QED
  BY <1>2, <1>3, <1>4 DEF AtIdle, ServerStep, ServerTimeout, ListeningDrops, ListeningSyn,
     Accepted, ServingReads, ServingEnds, SendExitAck, ExitAcked,
     ClosingUnacked, ClosingAcked, Unset, Reinit, AcceptTimeout, ClosingTimeout

\* The server in a transfer.
LEMMA AtServingStep ==
  ASSUME Typed, AtServing, up, ClientSame, ServerStep \/ (ServerMayWait /\ ServerTimeout)
  PROVE  Places' /\ up'
<1>1. ServingEnds
  BY DEF AtServing, HasRead, ServerStep, ServerTimeout, ListeningDrops, ListeningSyn,
     Accepted, IdleDrops, Serve, ServingReads, ClosingAnswered, SendExitAck, ExitAcked,
     CloseRequested, ClosingUnacked, ClosingAcked, Unset, Reinit, AcceptTimeout, ClosingTimeout
<1>2. AtIdle'
  BY <1>1, NoAcks DEF ServingEnds, ServerGoes, NoneSent, AtServing, AtIdle, ClientSame, In
<1> QED BY <1>1, <1>2 DEF Places, ServingEnds

\* The server in check_and_close_receive.
LEMMA AtClosingStep ==
  ASSUME OneFault, Typed, AtClosing, up, ClientSame,
         ServerStep \/ (ServerMayWait /\ ServerTimeout)
  PROVE  Places' /\ up'
<1> USE DEF ClientSame
<1>1. /\ Syn(port) \in Datagram /\ Fin(port) \in Datagram /\ ~Fin(port).ack
      /\ \A z : FinAck(port, z).from = port
  BY Kinds, DatagramTypes DEF Typed
<1>2. ASSUME HasRead
      PROVE  /\ toClient = <<>>
             /\ \/ /\ main = "fin" /\ client = port
                   /\ Incoming = Fin(port) /\ Tail(toServer) = <<>>
                   /\ Faults = 1 /\ tries = 1 /\ stries = 0
                \/ /\ main = "ackClose" \/ Out
                   /\ IsAck(Incoming) /\ OnlyAcks(Tail(toServer))
                \/ /\ main = "connect" /\ tries = 0
                   /\ IsAck(Incoming) /\ AcksThen(Tail(toServer), Syn(port))
  <2>1. toServer # <<>> BY <1>2 DEF HasRead
  <2>2. toServer = <<Fin(port)>> => Incoming = Fin(port) /\ Tail(toServer) = <<>>
    BY <1>2, ReadsFirst
  <2>3. OnlyAcks(toServer) => IsAck(Incoming) /\ OnlyAcks(Tail(toServer))
    BY <1>2, ReadsFirst
  <2>4. AcksThen(toServer, Syn(port)) /\ Len(toServer) + Faults >= 3 =>
          IsAck(Incoming) /\ AcksThen(Tail(toServer), Syn(port))
    <3>1. Faults = 0 \/ Faults = 1 BY DEF Typed
    <3>2. Len(toServer) = 1 => ~(Len(toServer) + Faults >= 3) BY <3>1
    <3> QED BY <1>1, <1>2, <3>2, ReadsFirst
  <2> QED BY <2>1, <2>2, <2>3, <2>4 DEF AtClosing
<1>3. CASE ClosingUnacked
  <2>1. /\ HasRead /\ ~Incoming.ack /\ toServer' = Tail(toServer)
        /\ toClient' = WithReply(toClient, FinAck(client, szeroed))
        /\ server' = server /\ isServing' = isServing /\ client' = client
        /\ stries' = stries /\ szeroed' = szeroed
    BY <1>3 DEF ClosingUnacked, Reads, Replies, serverVars
  <2>2. /\ main = "fin" /\ client = port /\ Tail(toServer) = <<>>
        /\ Faults = 1 /\ tries = 1 /\ stries = 0
    BY <1>2, <2>1 DEF IsAck
  <2>3. toClient' = <<FinAck(port, szeroed)>> BY <1>1, <1>2, <2>1, <2>2, RepliesFirst
  <2>4. AtClosing' BY <2>1, <2>2, <2>3 DEF AtClosing
  <2> QED BY <1>3, <2>4 DEF Places, ClosingUnacked
<1>4. CASE ClosingAcked
  <2>1. /\ HasRead /\ Incoming.ack /\ toServer' = Tail(toServer) /\ toClient' = toClient
        /\ server' = "cleared" /\ isServing' = isServing
    BY <1>4 DEF ClosingAcked, Reads, NoReply, ServerGoes
  <2>2. AtInit' BY <1>1, <1>2, <2>1 DEF AtInit, AtClosing, Out
  <2> QED BY <1>4, <2>2 DEF Places, ClosingAcked
<1>5. CASE ServerMayWait /\ ClosingTimeout
  <2>1. toServer = <<>> /\ ClientQuiet BY <1>5 DEF ServerMayWait, OneFault
  <2>2. /\ main = "fin" /\ client = port /\ toClient = <<>>
        /\ Faults = 1 /\ tries = 0 /\ stries = 0
    <3>1. \A m : <<m>> # <<>> OBVIOUS
    <3>2. Len(toServer) = 0 BY <2>1
    <3>3. ~(Len(toServer) + Faults >= 2) /\ ~(Len(toServer) + Faults >= 3) BY <3>2 DEF Typed
    <3>4. main # "ackClose" /\ (main = "fin" => toClient = <<>>)
      BY <2>1 DEF ClientQuiet, ClientReads, Waits
    <3> QED BY <2>1, <3>1, <3>3, <3>4 DEF AtClosing
  <2>3. server' = "closing" /\ stries' = 1 /\ isServing' = isServing /\ client' = client
        /\ szeroed' = szeroed /\ toServer' = toServer
        /\ toClient' = WithReply(<<>>, FinAck(port, szeroed))
    BY <1>5, <2>2 DEF ClosingTimeout, ServerSends, OneFault, AtClosing
  <2>4. toClient' = <<FinAck(port, szeroed)>> BY <1>1, <2>3, RepliesFirst
  <2>5. AtClosing' BY <2>1, <2>2, <2>3, <2>4 DEF AtClosing
  <2> QED BY <1>5, <2>5 DEF Places, ClosingTimeout
<1> QED
  BY <1>3, <1>4, <1>5 DEF AtClosing, ServerStep, ServerTimeout, ListeningDrops, ListeningSyn,
     Accepted, IdleDrops, Serve, ServingReads, ServingEnds, ClosingAnswered, SendExitAck,
     ExitAcked, CloseRequested, Unset, Reinit, AcceptTimeout

\* The server's init, after the connection is closed.
LEMMA AtInitStep ==
  ASSUME Typed, AtInit, up, NobodyAsked, ClientSame,
         ServerStep \/ (ServerMayWait /\ ServerTimeout)
  PROVE  Places' /\ up'
<1> USE DEF ClientSame
<1>1. CASE Unset
  <2>1. AtInit' BY <1>1 DEF Unset, ServerGoes, NoneSent, AtInit, Out
  <2> QED BY <1>1, <2>1 DEF Places, Unset
<1>2. CASE Reinit
  <2>1. server' = "listen" BY <1>2 DEF Reinit, ServerGoes, NobodyAsked
  <2>2. AtListen' BY <1>2, <2>1, NoAcks DEF Reinit, AtInit, AtListen, Out, Typed
  <2> QED BY <1>2, <2>2 DEF Places, Reinit
<1> QED
  BY <1>1, <1>2 DEF AtInit, ServerStep, ServerTimeout, ListeningDrops, ListeningSyn,
     Accepted, IdleDrops, Serve, ServingReads, ServingEnds, ClosingAnswered, SendExitAck,
     ExitAcked, CloseRequested, ClosingUnacked, ClosingAcked, AcceptTimeout, ClosingTimeout

-----------------------------------------------------------------------------
(* The datagram that is lost, or dropped because it is damaged. *)

\* The first datagram on either way is gone, and nothing else has changed.
LEMMA LosePlaces ==
  ASSUME OneFault, Typed, Places, Faults = 0, Faults' = 1,
         UNCHANGED <<clientVars, serverVars, port>>,
         \/ toServer # <<>> /\ toServer' = Tail(toServer) /\ UNCHANGED toClient
         \/ toClient # <<>> /\ toClient' = Tail(toClient) /\ UNCHANGED toServer
  PROVE  Places'
<1>1. Faults = 0 /\ Faults' = 1 OBVIOUS
<1>2. /\ Syn(port) \in Datagram /\ Request(port) \in Datagram /\ Fin(port) \in Datagram
      /\ OnlyAcks(<<>>) /\ \A m : Tail(<<m>>) = <<>>
  BY DatagramTypes, NoAcks DEF Typed
<1>3. /\ main' = main /\ isConnected' = isConnected /\ tries' = tries /\ listener' = listener
      /\ port' = port /\ server' = server /\ isServing' = isServing /\ client' = client
      /\ stries' = stries /\ szeroed' = szeroed
  BY DEF clientVars, mainVars, listenerVars, serverVars
<1>4. Out' = Out /\ In' = In /\ HeldUp' = HeldUp BY <1>3 DEF Out, In, HeldUp
<1>5. CASE toServer # <<>> /\ toServer' = Tail(toServer) /\ toClient' = toClient
  <2>1. OnlyAcks(toServer) => OnlyAcks(toServer') /\ Len(toServer') + Faults' = Len(toServer) + Faults
    BY <1>1, <1>5, FirstAck DEF Typed
  <2>2. \A m \in Datagram : AcksThen(toServer, m) =>
           \/ OnlyAcks(toServer') /\ Len(toServer) = 1
           \/ AcksThen(toServer', m) /\ Len(toServer') + Faults' = Len(toServer) + Faults
    <3> TAKE m \in Datagram
    <3> HAVE AcksThen(toServer, m)
    <3>1. CASE Tail(toServer) = <<>> /\ Len(toServer) = 1
      BY <1>2, <1>5, <3>1
    <3>2. CASE AcksThen(Tail(toServer), m) /\ Len(Tail(toServer)) = Len(toServer) - 1
      <4>1. Len(toServer) \in Nat BY DEF Typed
      <4>2. Len(toServer') = Len(toServer) - 1 /\ AcksThen(toServer', m) BY <1>5, <3>2, Zenon
      <4> QED BY <1>1, <4>1, <4>2
    <3> QED BY <3>1, <3>2, FirstOfAcksThen DEF Typed
  <2>3. CASE AtListen
    <3>1. AtListen' BY <1>1, <1>2, <1>3, <1>4, <1>5, <2>1, <2>2, <2>3 DEF AtListen, Typed
    <3> QED BY <3>1 DEF Places
  <2>4. CASE AtAccept
    <3>1. AtAccept' BY <1>1, <1>3, <1>4, <1>5, <2>1, <2>4 DEF AtAccept
    <3> QED BY <3>1 DEF Places
  <2>5. CASE AtIdle
    <3>1. AtIdle' BY <1>1, <1>2, <1>3, <1>4, <1>5, <2>1, <2>2, <2>5 DEF AtIdle, Typed
    <3> QED BY <3>1 DEF Places
  <2>6. CASE AtClosing
    <3>1. AtClosing' BY <1>1, <1>2, <1>3, <1>4, <1>5, <2>1, <2>2, <2>6 DEF AtClosing
    <3> QED BY <3>1 DEF Places
  <2>7. CASE AtInit
    <3>1. AtInit' BY <1>1, <1>2, <1>3, <1>4, <1>5, <2>1, <2>2, <2>7 DEF AtInit
    <3> QED BY <3>1 DEF Places
  <2> QED BY <1>5, <2>3, <2>4, <2>5, <2>6, <2>7 DEF Places, AtServing
<1>6. CASE toClient # <<>> /\ toClient' = Tail(toClient) /\ toServer' = toServer
  <2>1. CASE AtAccept
    <3>1. /\ main = "connect" /\ toServer = <<>> /\ toClient' = <<>> /\ tries <= 1 /\ stries = 0
      BY <1>1, <1>2, <1>6, <2>1 DEF AtAccept, Typed
    <3>2. AtAccept' BY <1>1, <1>3, <1>6, <2>1, <3>1 DEF AtAccept
    <3> QED BY <3>2 DEF Places
  <2>2. CASE AtIdle
    <3>1. (main = "ackOpen" \/ In) /\ OnlyAcks(toServer) /\ toClient = <<SynAck(port)>>
      BY <1>1, <1>6, <2>2 DEF AtIdle
    <3> toClient' = <<>> BY <1>2, <1>6, <3>1
    <3>2. AtIdle' BY <1>3, <1>4, <1>6, <2>2, <3>1 DEF AtIdle
    <3> QED BY <3>2 DEF Places
  <2>3. CASE AtClosing
    <3>1. /\ main = "fin" /\ client = port /\ toServer = <<>> /\ toClient' = <<>>
          /\ tries = 0 /\ stries = 0
      BY <1>1, <1>2, <1>6, <2>3 DEF AtClosing, Typed
    <3>2. AtClosing' BY <1>1, <1>3, <1>6, <2>3, <3>1 DEF AtClosing
    <3> QED BY <3>2 DEF Places
  <2> QED BY <1>6, <2>1, <2>2, <2>3 DEF Places, AtListen, AtServing, AtInit
<1> QED BY <1>5, <1>6

-----------------------------------------------------------------------------

\* The client is at its first prompt, the server listens, nothing is on the way.
LEMMA StepInit == Init => InStep
<1> SUFFICES ASSUME Init PROVE up /\ ClientPart /\ Places
  BY DEF InStep
<1>1. up /\ toServer = <<>> /\ toClient = <<>> BY DEF Init, PathInit
<1>2. server = "listen" /\ ~isServing BY DEF Init, ServerInit
<1>3. main = "prompt" /\ ~isConnected /\ ClientPart BY DEF Init, ClientInit, ClientPart
<1>4. AtListen BY <1>1, <1>2, <1>3, NoAcks DEF AtListen, Out
<1> QED BY <1>1, <1>3, <1>4 DEF Places

\* Who has asked has asked.
LEMMA NobodyBefore ==
  ASSUME [Next]_vars, TypeOK, NobodyAsked' PROVE NobodyAsked /\ ~AskerAsks /\ ~(\E t \in Asker : AskerMoves(t))
<1> USE DEF NobodyAsked
<1>1. asker \in [Asker -> {"ready", "checked", "fins", "waits", "over", "dead"}]
  BY DEF TypeOK, ServerTypeOK
<1>2. ~AskerAsks BY <1>1 DEF AskerAsks, Ask, Becomes
<1>3. ~(\E t \in Asker : AskerMoves(t))
  BY <1>1 DEF AskerMoves, AskerStep, CallClose, SendFin, FinsSent, ChiefExits, Becomes, Asker
<1>4. CASE MainMoves \/ ListenerMoves \/ TransferMoves \/ UserMoves
  BY <1>2, <1>3, <1>4 DEF MainMoves, ListenerMoves, TransferMoves, UserMoves, ServerRests, serverVars, askerVars
<1>5. CASE ServerMoves
  BY <1>2, <1>3, <1>5 DEF ServerMoves, ServerStep, ServerTimeout, ListeningDrops, ListeningSyn,
     Accepted, IdleDrops, Serve, ServingReads, ServingEnds, ClosingAnswered, SendExitAck,
     ExitAcked, CloseRequested, ClosingUnacked, ClosingAcked, Unset, Reinit, AcceptTimeout,
     ClosingTimeout, serverVars, askerVars
<1>6. CASE Lose /\ UNCHANGED <<clientVars, serverVars>>
  BY <1>2, <1>3, <1>6 DEF serverVars, askerVars
<1>7. CASE Damage
  BY <1>2, <1>3, <1>7 DEF Damage, ServerReadsDamage, serverVars, askerVars
<1>8. CASE UNCHANGED vars BY <1>2, <1>3, <1>8 DEF vars, serverVars, askerVars
<1> QED BY <1>2, <1>3, <1>4, <1>5, <1>6, <1>7, <1>8 DEF Next

\* The two ends stay in step, if nothing is damaged and nobody types Ctrl-C.
LEMMA StepKept ==
  ASSUME OneFault, TypeOK, LockOwned, up, ClientPart, Places,
         [Next]_vars, NobodyAsked', ~Damage, ~(Interrupt /\ ServerRests)
  PROVE  up' /\ ClientPart' /\ Places'
<1>1. Typed /\ (lost < MaxLoss => Faults = 0) BY TypedHere
<1>2. /\ NobodyAsked /\ ~AskerAsks /\ ~(\E t \in Asker : AskerMoves(t))
      /\ up /\ ClientPart /\ Places
  BY NobodyBefore
<1>3. CASE MainMoves
  <2>1. ServerRests /\ (MainStep \/ (ClientMayWait /\ MainTimeout)) BY <1>3 DEF MainMoves
  <2>2. CASE MainStep
    <3>1. ~ShutDown /\ ~TransferReads
      BY <1>2 DEF ShutDown, TransferReads, ClientPart, Places, AtListen, AtAccept, AtIdle,
         AtServing, AtClosing, AtInit, Out, In
    <3>2. Places'
      BY <1>1, <1>2, <2>1, <2>2, <3>1, RefusePlaces, BeginPlaces, AnsweredPlaces,
         SendAckPlaces, ConnectedPlaces, DisconnectedPlaces DEF MainStep
    <3> QED BY <1>1, <1>2, <2>1, <2>2, <3>2, ClientMain DEF ServerRests
  <2>3. CASE ClientMayWait /\ MainTimeout
    <3>1. Places' /\ CallAgain BY <1>1, <1>2, <2>1, <2>3, CallAgainPlaces
    <3> QED BY <1>1, <1>2, <2>1, <3>1, ClientMain DEF ServerRests
  <2> QED BY <2>1, <2>2, <2>3
<1>4. CASE ListenerMoves
  <2>1. ServerRests /\ ~ListenerAnswersFin /\ ~ClosedByServer /\ ~CloseAgain /\ ~CloseTimeout
    BY <1>1, <1>2, <1>4, NoClosing DEF ListenerMoves
  <2>2. \/ ListenerDrops
        \/ ListenerStarts \/ ListenerLoop \/ (ClientMayWait /\ ListenerTimeout)
    BY <1>4, <2>1 DEF ListenerMoves, ListenerStep
  <2>3. Places' BY <1>1, <1>2, <2>1, <2>2, TurnPlaces, DropsPlaces
  <2> QED BY <1>1, <1>2, <2>1, <2>2, <2>3, ClientListens DEF ServerRests
<1>5. CASE TransferMoves
  <2>1. ServerRests /\ MayEnd /\ TransferEnds BY <1>5 DEF TransferMoves
  <2> QED BY <1>1, <1>2, <2>1, TransferPlaces, ClientMain DEF ServerRests
<1>6. CASE UserMoves
  <2>1. ServerRests /\ \E c \in Command : Type(c) BY <1>6 DEF UserMoves, User
  <2> QED BY <1>1, <1>2, <2>1, TypedPlaces, ClientTypes DEF ServerRests
<1>7. CASE ServerMoves
  <2>1. ClientRests /\ (ServerStep \/ (ServerMayWait /\ ServerTimeout)) BY <1>7 DEF ServerMoves
  <2>2. ClientPart'
    BY <1>2, <2>1 DEF ClientRests, clientVars, mainVars, listenerVars, ClientPart
  <2>3. port' = port
    BY <2>1 DEF ServerStep, ServerTimeout, ListeningDrops, ListeningSyn, Accepted, IdleDrops,
       Serve, ServingReads, ServingEnds, ClosingAnswered, SendExitAck, ExitAcked,
       CloseRequested, ClosingUnacked, ClosingAcked, Unset, Reinit, AcceptTimeout,
       ClosingTimeout
  <2>4. ClientSame
    BY <2>1, <2>3 DEF ClientSame, Faults, ClientRests, clientVars, mainVars, listenerVars
  <2>5. Places' /\ up'
    BY <1>1, <1>2, <2>1, <2>4, AtListenStep, AtAcceptStep, AtIdleStep, AtServingStep,
       AtClosingStep, AtInitStep DEF Places
  <2> QED BY <2>2, <2>5
<1>8. CASE Lose /\ UNCHANGED <<clientVars, serverVars>>
  <2>1. up' /\ ClientPart'
    BY <1>2, <1>8 DEF Lose, clientVars, mainVars, listenerVars, ClientPart
  <2>2. lost < MaxLoss /\ lost' = lost + 1 /\ damaged' = damaged /\ port' = port
    BY <1>8 DEF Lose
  <2>3. lost \in Nat /\ damaged \in Nat BY DEF TypeOK, PathTypeOK
  <2>4. Faults = 0 /\ Faults' = 1 BY <1>1, <2>2, <2>3 DEF Faults
  <2> QED BY <1>1, <1>2, <1>8, <2>1, <2>2, <2>4, LosePlaces DEF Lose
<1>9. CASE UNCHANGED vars
  <2>1. UNCHANGED pathVars /\ UNCHANGED clientVars /\ UNCHANGED serverVars
    BY <1>9 DEF vars
  <2>2. /\ toServer' = toServer /\ toClient' = toClient /\ Faults' = Faults /\ up' = up
        /\ port' = port /\ main' = main /\ tries' = tries /\ listener' = listener
        /\ isConnected' = isConnected
    BY <2>1 DEF Faults, pathVars, clientVars, mainVars, listenerVars
  <2>3. /\ server' = server /\ isServing' = isServing /\ client' = client
        /\ stries' = stries /\ szeroed' = szeroed
    BY <2>1 DEF serverVars
  <2>4. ClientPart' BY <1>2, <2>1 DEF clientVars, mainVars, listenerVars, ClientPart
  <2>5. Out' = Out /\ In' = In /\ HeldUp' = HeldUp BY <2>2, <2>3 DEF Out, In, HeldUp
  <2>6. Places'
    BY <1>2, <2>2, <2>3, <2>5
    DEF Places, AtListen, AtAccept, AtIdle, AtServing, AtClosing, AtInit
  <2> QED BY <1>2, <2>2, <2>4, <2>6
<1> QED BY <1>2, <1>3, <1>4, <1>5, <1>6, <1>7, <1>8, <1>9 DEF Next

\* The invariant holds always, with the types it rests on.
LEMMA StepAlways == OneLoss => (Spec => [](InStep /\ TypeOK))
<1> SUFFICES ASSUME OneLoss PROVE Spec => [](InStep /\ TypeOK)
  OBVIOUS
<1>1. ASSUME TypeOK, LockOwned, InStep, [Next]_vars PROVE InStep'
  <2> SUFFICES ASSUME NobodyAsked' PROVE up' /\ ClientPart' /\ Places'
    BY DEF InStep
  <2>1. up /\ ClientPart /\ Places BY <1>1, NobodyBefore DEF InStep
  <2>2. ~(damaged < MaxDamage) /\ ~(interrupts < MaxInterrupts)
    BY <1>1, PathAssumption, ClientAssumption DEF OneLoss, TypeOK, PathTypeOK, ClientTypeOK
  <2>3. ~Damage /\ ~Interrupt
    BY <2>2 DEF Damage, ClientReadsDamage, ServerReadsDamage, Interrupt
  <2> QED BY <1>1, <2>1, <2>3, StepKept DEF OneLoss
<1> QED BY <1>1, StepInit, LockInit, LockStep, TypeInit, TypeStep, PTL DEF Spec

\* Neither end takes the other for connected, or for not connected, once both
\* are idle: connect, accept and check_and_close_receive, with one datagram
\* of the whole session lost, however many commands are typed.
THEOREM EndsAgreement == OneLoss => (Spec => []EndsAgree)
<1>1. ASSUME InStep, TypeOK, BothIdle, NobodyAsked
      PROVE  isConnected = isServing /\ (isConnected => client = port)
  <2>1. isConnected \in BOOLEAN /\ isServing \in BOOLEAN
    BY <1>1 DEF TypeOK, ClientTypeOK, ServerTypeOK
  <2>2. main = "prompt" /\ server \in {"listen", "idle"}
    BY <1>1 DEF BothIdle
  <2>3. CASE AtListen
    BY <2>1, <2>2, <2>3 DEF AtListen, Out
  <2>4. CASE AtIdle
    BY <2>1, <2>2, <2>4 DEF AtIdle, In
  <2> QED
    BY <1>1, <2>2, <2>3, <2>4 DEF InStep, Places, AtAccept, AtServing, AtClosing, AtInit
<1>2. InStep /\ TypeOK => EndsAgree BY <1>1 DEF EndsAgree
<1> QED BY <1>2, StepAlways, PTL

\* No command waits on a socket without a timeout (settimeout of api.py).
THEOREM TimeoutsSet == OneLoss => (Spec => []WaitsWithTimeout)
<1>1. InStep => WaitsWithTimeout
  BY DEF InStep, WaitsWithTimeout, ClientPart, Waits
<1> QED BY <1>1, StepAlways, PTL

-----------------------------------------------------------------------------
(* Out of step.  The server's process ends only when it is told to, or on  *)
(* an answer to a FIN of its own, with FIN and ACK; it has sent no FIN.    *)

\* No answer to a FIN, and no FIN either.
Unanswered(q) == \A i \in DOMAIN q : ~(q[i].fin /\ q[i].ack)
NoFins(q)     == \A i \in DOMAIN q : ~q[i].fin /\ q[i].body # "CLOSE"

\* A client whose threads do not read, or no longer for the last time: the
\* lock is with a thread that is dead or waits for it, or the process ends.
Mute ==
  \/ lock = "main" /\ main \in {"interrupted", "dead"}
  \/ listener = "died"
  \/ lock = "main" /\ command = "interrupt" /\ main \in {"fin", "ackClose"}
  \/ main = "ended" /\ listener = "none"
  \/ main = "interrupted" /\ ~isConnected /\ listener \in {"none", "loop"}

\* The server has dropped a damaged acknowledgement in accept, and listens for
\* a client that is connected and sends no other SYN.
HalfOpen ==
  /\ server = "listen" /\ toClient = <<>>
  /\ \A i \in DOMAIN toServer : ~toServer[i].syn
  /\ Unanswered(toServer)
  /\ main \notin {"connect", "ackClose", "exit"} /\ listener \in {"none", "loop", "recv"}
  /\ isConnected \/ main = "ackOpen"

\* Ctrl-C at a client that is connected: its handler waits for the lock, and
\* the listening thread may read on.
Leaving ==
  /\ main = "interrupted" /\ command = "interrupt" /\ isConnected
  /\ listener \in {"none", "loop", "recv"}
  /\ server \in {"listen", "accept", "idle", "serving"}
  /\ NoFins(toServer) /\ NoFins(toClient)

Broken ==
  \/ server = "dead"
  \/ Mute /\ Unanswered(toServer) /\ server # "ackExit"
  \/ HalfOpen \/ Leaving

Sound == NobodyAsked => up /\ ((ClientPart /\ Places) \/ Broken)

\* A listening thread reads as long as the client is connected.
ReadsConnected == listener = "recv" => isConnected

\* A step of some thread of the client.
ClientStep ==
  \/ MainStep \/ MainTimeout \/ TransferEnds
  \/ ListenerStep \/ ListenerTimeout \/ CloseTimeout
  \/ User \/ ClientReadsDamage

\* What a step may leave on a path of what was on it.
PartOf(p, q) == \A k \in DOMAIN p : \E i \in DOMAIN q : p[k] = q[i]

\* Datagrams that are read, lost or thrown away.
LEMMA Shrinks ==
  ASSUME NEW q \in Seq(Datagram), NEW p, p = q \/ (q # <<>> /\ p = Tail(q)) \/ p = <<>>
  PROVE  PartOf(p, q)
<1>1. CASE p = <<>>
  <2>1. DOMAIN p = {} BY <1>1
  <2> QED BY <2>1 DEF PartOf
<1>2. CASE q # <<>> /\ p = Tail(q)
  <2>1. /\ Len(q) \in Nat /\ DOMAIN q = 1 .. Len(q) /\ DOMAIN p = 1 .. Len(q) - 1
        /\ \A k \in 1 .. Len(q) - 1 : p[k] = q[k + 1]
    BY <1>2
  <2>2. \A k \in 1 .. Len(q) - 1 : k + 1 \in 1 .. Len(q) BY <2>1
  <2> QED BY <2>1, <2>2 DEF PartOf
<1>3. CASE p = q BY <1>3 DEF PartOf
<1> QED BY <1>1, <1>2, <1>3

\* What is left of a path without FINs has none.
LEMMA PartClean ==
  ASSUME NEW p, NEW q, PartOf(p, q)
  PROVE  /\ Unanswered(q) => Unanswered(p)
         /\ NoFins(q) => NoFins(p)
         /\ (\A i \in DOMAIN q : ~q[i].syn) => (\A i \in DOMAIN p : ~p[i].syn)
  BY DEF PartOf, Unanswered, NoFins

\* A datagram joins a path.
LEMMA JoinClean ==
  ASSUME NEW q \in Seq(Datagram), NEW m \in Datagram, NEW p, p = q \/ p = Append(q, m)
  PROVE  /\ Unanswered(q) /\ ~(m.fin /\ m.ack) => Unanswered(p)
         /\ NoFins(q) /\ ~m.fin /\ m.body # "CLOSE" => NoFins(p)
         /\ (\A i \in DOMAIN q : ~q[i].syn) /\ ~m.syn => (\A i \in DOMAIN p : ~p[i].syn)
<1>1. \A i \in DOMAIN p : (\E k \in DOMAIN q : p[i] = q[k]) \/ p[i] = m
  OBVIOUS
<1> QED BY <1>1 DEF Unanswered, NoFins

\* What the server thread makes of what it reads.
LEMMA ServerReading ==
  ASSUME toServer \in Seq(Datagram), ServerStep \/ ServerTimeout \/ ServerReadsDamage
  PROVE  /\ PartOf(toServer', toServer) /\ port' = port /\ server # "dead"
         /\ Unanswered(toServer) /\ server # "ackExit" => server' # "ackExit" /\ up' = up
<1>1. toServer' = toServer \/ (toServer # <<>> /\ toServer' = Tail(toServer)) \/ toServer' = <<>>
  BY DEF ServerStep, ServerTimeout, ServerReadsDamage, ListeningDrops, ListeningSyn, Accepted,
     IdleDrops, Serve, ServingReads, ServingEnds, ClosingAnswered, SendExitAck, ExitAcked,
     CloseRequested, ClosingUnacked, ClosingAcked, Unset, Reinit, AcceptTimeout,
     ClosingTimeout, Reads, NoneSent, ServerSends, HasRead
<1>2. port' = port /\ server # "dead"
  BY DEF ServerStep, ServerTimeout, ServerReadsDamage, ListeningDrops, ListeningSyn, Accepted,
     IdleDrops, Serve, ServingReads, ServingEnds, ClosingAnswered, SendExitAck, ExitAcked,
     CloseRequested, ClosingUnacked, ClosingAcked, Unset, Reinit, AcceptTimeout,
     ClosingTimeout
<1>3. ASSUME Unanswered(toServer), server # "ackExit" PROVE server' # "ackExit" /\ up' = up
  <2>1. HasRead => ~AnswersOurs(Incoming)
    BY <1>3 DEF HasRead, Incoming, AnswersOurs, Unanswered
  <2> QED
    BY <1>3, <2>1 DEF ServerStep, ServerTimeout, ServerReadsDamage, ListeningDrops,
       ListeningSyn, Accepted, IdleDrops, Serve, ServingReads, ServingEnds, ClosingAnswered,
       SendExitAck, ExitAcked, CloseRequested, ClosingUnacked, ClosingAcked, Unset, Reinit,
       AcceptTimeout, ClosingTimeout, ServerGoes, serverVars
<1> QED BY <1>1, <1>2, <1>3, Shrinks

\* A client that is mute stays so, and answers no FIN.
LEMMA MuteClient ==
  ASSUME LockOwned, Mute, Unanswered(toServer), toServer \in Seq(Datagram), port \in Nat,
         ClientStep
  PROVE  Mute' /\ Unanswered(toServer')
<1>1. /\ Syn(port) \in Datagram /\ Fin(port) \in Datagram /\ Ack(port) \in Datagram
      /\ Request(port) \in Datagram
      /\ ~(Syn(port).fin /\ Syn(port).ack) /\ ~(Fin(port).fin /\ Fin(port).ack)
      /\ ~(Ack(port).fin /\ Ack(port).ack) /\ ~(Request(port).fin /\ Request(port).ack)
  BY DatagramTypes DEF Syn, Fin, Ack, Request, Plain
<1>2. \A m \in {Syn(port), Fin(port), Ack(port), Request(port)} :
        toServer' = WithCall(toServer, m) => Unanswered(toServer')
  BY <1>1, JoinClean DEF WithCall
<1> USE DEF Mute, LockOwned, OnSocket, Waits, Goes, Done, ProcessEnds, NoneSent, ClientSends,
        mainVars, listenerVars, clientVars, MainWaits
<1>3. CASE MainStep
  BY <1>2, <1>3 DEF MainStep, Refuse, TerminateUnconnected, Begin, Answered, SendAck,
     Connected, Disconnected, TransferReads, ShutDown, Exit
<1>4. CASE MainTimeout \/ TransferEnds
  BY <1>2, <1>4 DEF MainTimeout, CallAgain, GiveUp, Call, TransferEnds
<1>5. CASE ListenerStep \/ ListenerTimeout \/ CloseTimeout
  BY <1>5 DEF ListenerStep, ListenerStarts, ListenerLoop, ListenerDrops, ListenerAnswersFin,
     ClosedByServer, CloseAgain, ListenerTimeout, CloseTimeout, Running
<1>6. CASE User
  BY <1>6 DEF User, Interrupt, Type
<1>7. CASE ClientReadsDamage
  BY <1>7 DEF ClientReadsDamage
<1> QED BY <1>3, <1>4, <1>5, <1>6, <1>7 DEF ClientStep

\* A client whose server has gone back to listen asks for no connection, and
\* is mute if Ctrl-C comes while it still opens one.
LEMMA HalfOpenClient ==
  ASSUME LockOwned, HalfOpen, toServer \in Seq(Datagram), port \in Nat, server' = server,
         ClientStep
  PROVE  HalfOpen' \/ (Mute' /\ Unanswered(toServer'))
<1> DEFINE NoSyns(q) == \A i \in DOMAIN q : ~q[i].syn
<1>1. /\ Fin(port) \in Datagram /\ Ack(port) \in Datagram /\ Request(port) \in Datagram
      /\ ~Fin(port).syn /\ ~Fin(port).ack /\ ~Ack(port).syn /\ ~Ack(port).fin
      /\ ~Request(port).syn /\ ~Request(port).ack
  BY DatagramTypes DEF Fin, Ack, Request, Plain
<1>2. \A m \in {Fin(port), Ack(port), Request(port)} :
        toServer' = WithCall(toServer, m) => Unanswered(toServer') /\ NoSyns(toServer')
  BY <1>1, JoinClean DEF WithCall, HalfOpen
<1>3. toServer' = toServer => Unanswered(toServer') /\ NoSyns(toServer')
  BY DEF HalfOpen
<1>4. SUFFICES ASSUME ~(Mute' /\ Unanswered(toServer')) PROVE HalfOpen'
  OBVIOUS
<1>5. ~Answered /\ ~TransferReads /\ ~ListenerDrops /\ ~ListenerAnswersFin /\ ~ClosedByServer
      /\ ~CloseAgain /\ ~CloseTimeout /\ ~ClientReadsDamage /\ ~Exit /\ ~Disconnected
      /\ ~TerminateUnconnected
  BY DEF HalfOpen, Answered, TransferReads, ListenerDrops, ListenerAnswersFin, ClosedByServer,
     CloseAgain, CloseTimeout, ClientReadsDamage, Exit, Disconnected, TerminateUnconnected
<1> HIDE DEF NoSyns
<1>6. CASE Begin \/ SendAck \/ CallAgain \/ GiveUp \/ ShutDown
  <2>1. Unanswered(toServer') /\ NoSyns(toServer')
    BY <1>2, <1>3, <1>6 DEF HalfOpen, Begin, SendAck, CallAgain, GiveUp, ShutDown, Call,
       ClientSends, Waits
  <2>2. /\ main' \notin {"connect", "ackClose", "exit"} /\ (isConnected' \/ main' = "ackOpen")
        /\ listener' \in {"none", "loop", "recv"} /\ toClient' = <<>>
    BY <1>6 DEF HalfOpen, Begin, SendAck, CallAgain, GiveUp, ShutDown, ClientSends, Waits,
       Goes, Done, ProcessEnds, ClientSocketCloses, mainVars, listenerVars
  <2> QED BY <2>1, <2>2 DEF HalfOpen, NoSyns
<1>7. CASE Refuse \/ Connected \/ TransferEnds
  BY <1>7 DEF HalfOpen, Refuse, Connected, TransferEnds, Done, NoneSent, listenerVars
<1>8. CASE ListenerStarts \/ ListenerLoop \/ ListenerTimeout
  BY <1>8 DEF HalfOpen, ListenerStarts, ListenerLoop, ListenerTimeout, MainWaits, NoneSent
<1>9. CASE User
  <2>1. CASE Interrupt
    <3>1. lock = "main" \/ isConnected BY <2>1 DEF HalfOpen, LockOwned, OnSocket
    <3>2. lock # "main"
      BY <1>3, <1>4, <2>1 DEF Mute, Interrupt, Goes, NoneSent
    <3> QED BY <2>1, <3>1, <3>2 DEF HalfOpen, Interrupt, Goes, NoneSent, listenerVars
  <2>2. CASE \E c \in Command : Type(c)
    BY <2>2 DEF HalfOpen, Type, Goes, NoneSent, listenerVars
  <2> QED BY <1>9, <2>1, <2>2 DEF User
<1> QED
  BY <1>5, <1>6, <1>7, <1>8, <1>9
  DEF ClientStep, MainStep, MainTimeout, ListenerStep

\* A client that is interrupted before it has the lock reads no FIN; once it
\* has sent its own it is mute.
LEMMA LeavingClient ==
  ASSUME Leaving, toServer \in Seq(Datagram), toClient \in Seq(Datagram), port \in Nat,
         server' = server, ClientStep
  PROVE  Leaving' \/ (Mute' /\ Unanswered(toServer'))
<1>1. toClient' = Tail(toClient) /\ toClient # <<>> => NoFins(toClient')
  BY Shrinks, PartClean DEF Leaving
<1>2. NoFins(toServer) => Unanswered(toServer) BY DEF NoFins, Unanswered
<1>3. toClient # <<>> => ~Head(toClient).fin BY DEF Leaving, NoFins
<1>4. CASE MainStep
  <2>1. ShutDown
    BY <1>4 DEF Leaving, MainStep, Refuse, TerminateUnconnected, Begin, Answered, SendAck,
       Connected, Disconnected, TransferReads, Exit, Waits
  <2>2. Fin(port) \in Datagram /\ ~Fin(port).ack BY DatagramTypes DEF Fin, Plain
  <2>3. toServer' = WithCall(toServer, Fin(port)) /\ Mute'
    BY <2>1 DEF Leaving, ShutDown, ClientSends, Goes, Mute
  <2>4. Unanswered(toServer')
    BY <1>2, <2>2, <2>3, JoinClean DEF WithCall, Leaving
  <2> QED BY <2>3, <2>4
<1>5. CASE ListenerStep \/ ListenerTimeout \/ CloseTimeout
  BY <1>1, <1>3, <1>5 DEF Leaving, ListenerStep, ListenerStarts, ListenerLoop, ListenerDrops,
     ListenerAnswersFin, ClosedByServer, CloseAgain, ListenerTimeout, CloseTimeout, MainWaits,
     NoneSent
<1>6. CASE ClientReadsDamage
  BY <1>1, <1>2, <1>6 DEF Leaving, ClientReadsDamage, Waits, Mute
<1>7. ~MainTimeout /\ ~TransferEnds /\ ~User
  BY DEF Leaving, MainTimeout, CallAgain, GiveUp, TransferEnds, User, Interrupt, Type,
     OnSocket, Waits
<1> QED BY <1>4, <1>5, <1>6, <1>7 DEF ClientStep

\* A step of the server thread.
ServerThreadStep == ServerStep \/ ServerTimeout \/ ServerReadsDamage

\* The server that listens goes on listening.
LEMMA HalfOpenServer ==
  ASSUME HalfOpen, toServer \in Seq(Datagram), UNCHANGED clientVars, ServerThreadStep
  PROVE  HalfOpen'
<1>1. HasRead => ~Incoming.syn BY DEF HasRead, Incoming, HalfOpen
<1>2. ListeningDrops \/ ServerReadsDamage
  BY <1>1 DEF HalfOpen, ServerThreadStep, ServerStep, ServerTimeout, ListeningSyn, Accepted,
     IdleDrops, Serve, ServingReads, ServingEnds, ClosingAnswered, SendExitAck, ExitAcked,
     CloseRequested, ClosingUnacked, ClosingAcked, Unset, Reinit, AcceptTimeout, ClosingTimeout
<1>3. server' = "listen" /\ toClient' = <<>>
  BY <1>2 DEF HalfOpen, ListeningDrops, ServerReadsDamage, NoReply, serverVars
<1>4. toServer # <<>> /\ toServer' = Tail(toServer)
  BY <1>2 DEF ListeningDrops, ServerReadsDamage, HasRead, Reads
<1>5. Unanswered(toServer') /\ \A i \in DOMAIN toServer' : ~toServer'[i].syn
  BY <1>4, Shrinks, PartClean DEF HalfOpen
<1> QED BY <1>3, <1>5 DEF HalfOpen, clientVars, mainVars, listenerVars

\* The server that sees no FIN sends none, and stays where it may be.
LEMMA LeavingServer ==
  ASSUME Leaving, TypeOK, UNCHANGED clientVars, ServerThreadStep
  PROVE  Leaving' \/ server' = "dead"
<1>1. toServer \in Seq(Datagram) /\ toClient \in Seq(Datagram) /\ client \in Nat
  BY DEF TypeOK, PathTypeOK, ServerTypeOK
<1>2. HasRead => Incoming.body # "CLOSE" BY DEF HasRead, Incoming, Leaving, NoFins
<1>3. HasRead => Incoming.from \in Nat
  <2>1. HasRead => Incoming \in Datagram BY <1>1 DEF HasRead, Incoming
  <2>2. \A m \in Datagram : m.from \in Nat BY DEF Datagram
  <2> QED BY <2>1, <2>2
<1>4. \A p \in Nat : SynAck(p) \in Datagram /\ ~SynAck(p).fin /\ SynAck(p).body # "CLOSE"
  BY DatagramTypes DEF SynAck, Plain
<1>5. \A p \in Nat : toClient' = WithReply(toClient, SynAck(p)) => NoFins(toClient')
  <2> TAKE p \in Nat
  <2> HAVE toClient' = WithReply(toClient, SynAck(p))
  <2>1. toClient' = toClient \/ toClient' = Append(toClient, SynAck(p)) BY DEF WithReply
  <2> QED BY <1>1, <1>4, <2>1, JoinClean DEF Leaving
<1>6. NoFins(toServer')
  <2>1. PartOf(toServer', toServer) BY <1>1, ServerReading DEF ServerThreadStep
  <2> QED BY <2>1, PartClean DEF Leaving
<1>7. server' = "dead" \/ (server' \in {"listen", "accept", "idle", "serving"} /\ NoFins(toClient'))
  BY <1>2, <1>3, <1>1, <1>5 DEF Leaving, ServerThreadStep, ServerStep, ServerTimeout,
     ServerReadsDamage, ListeningDrops,
     ListeningSyn, Accepted, IdleDrops, Serve, ServingReads, ServingEnds, ClosingAnswered,
     SendExitAck, ExitAcked, CloseRequested, ClosingUnacked, ClosingAcked, Unset, Reinit,
     AcceptTimeout, ClosingTimeout, ServerGoes, serverVars, NoReply, NoneSent, Replies,
     ServerSends
<1> QED BY <1>6, <1>7 DEF Leaving, clientVars, mainVars, listenerVars

\* Out of step, the ends stay so, and the server goes on, or its thread dies.
LEMMA BrokenStays ==
  ASSUME TypeOK, LockOwned, up, Broken,
         \/ ClientStep /\ UNCHANGED <<serverVars, up>>
         \/ ServerThreadStep /\ UNCHANGED clientVars
         \/ Lose /\ UNCHANGED <<clientVars, serverVars>>
         \/ UNCHANGED vars
  PROVE  up' /\ Broken'
<1>1. toServer \in Seq(Datagram) /\ toClient \in Seq(Datagram) /\ port \in Nat
  BY DEF TypeOK, PathTypeOK
<1>2. UNCHANGED clientVars => (Mute => Mute')
  BY DEF clientVars, mainVars, listenerVars, Mute
<1>3. CASE ClientStep /\ UNCHANGED <<serverVars, up>>
  <2>1. server' = server /\ up' BY <1>3 DEF serverVars
  <2>2. CASE server = "dead" BY <2>1, <2>2 DEF Broken
  <2>3. CASE Mute /\ Unanswered(toServer) /\ server # "ackExit"
    BY <1>1, <1>3, <2>1, <2>3, MuteClient DEF Broken
  <2>4. CASE HalfOpen
    <3>1. server # "ackExit" BY <2>4 DEF HalfOpen
    <3> QED BY <1>1, <1>3, <2>1, <2>4, <3>1, HalfOpenClient DEF Broken
  <2>5. CASE Leaving
    <3>1. server # "ackExit" BY <2>5 DEF Leaving
    <3> QED BY <1>1, <1>3, <2>1, <2>5, <3>1, LeavingClient DEF Broken
  <2> QED BY <2>2, <2>3, <2>4, <2>5 DEF Broken
<1>4. CASE ServerThreadStep /\ UNCHANGED clientVars
  <2>1. Unanswered(toServer) /\ server # "ackExit" => up' /\ server' # "ackExit"
    BY <1>1, <1>4, ServerReading DEF ServerThreadStep
  <2>2. PartOf(toServer', toServer) /\ server # "dead"
    BY <1>1, <1>4, ServerReading DEF ServerThreadStep
  <2>3. CASE Mute /\ Unanswered(toServer) /\ server # "ackExit"
    BY <1>2, <1>4, <2>1, <2>2, <2>3, PartClean DEF Broken
  <2>4. CASE HalfOpen
    <3>1. HalfOpen' BY <1>1, <1>4, <2>4, HalfOpenServer
    <3>2. Unanswered(toServer) /\ server # "ackExit" BY <2>4 DEF HalfOpen
    <3> QED BY <2>1, <3>1, <3>2 DEF Broken
  <2>5. CASE Leaving
    <3>1. Leaving' \/ server' = "dead" BY <1>4, <2>5, LeavingServer
    <3>2. Unanswered(toServer) /\ server # "ackExit"
      BY <2>5 DEF Leaving, NoFins, Unanswered
    <3> QED BY <2>1, <3>1, <3>2 DEF Broken
  <2> QED BY <2>2, <2>3, <2>4, <2>5 DEF Broken
<1>5. CASE \/ Lose /\ UNCHANGED <<clientVars, serverVars>>
           \/ UNCHANGED vars
  <2>1. UNCHANGED clientVars /\ server' = server /\ up' /\ port' = port
    BY <1>5 DEF vars, serverVars, pathVars, Lose
  <2>2. /\ toServer' = toServer \/ (toServer # <<>> /\ toServer' = Tail(toServer))
        /\ toClient' = toClient \/ (toClient # <<>> /\ toClient' = Tail(toClient))
    BY <1>5 DEF vars, pathVars, Lose
  <2>3. PartOf(toServer', toServer) /\ PartOf(toClient', toClient) BY <1>1, <2>2, Shrinks
  <2>4. /\ Unanswered(toServer) => Unanswered(toServer')
        /\ NoFins(toServer) => NoFins(toServer')
        /\ NoFins(toClient) => NoFins(toClient')
        /\ (\A i \in DOMAIN toServer : ~toServer[i].syn)
             => (\A i \in DOMAIN toServer' : ~toServer'[i].syn)
    BY <2>3, PartClean
  <2>5. CASE server = "dead" BY <2>1, <2>5 DEF Broken
  <2>6. CASE Mute /\ Unanswered(toServer) /\ server # "ackExit"
    BY <1>2, <2>1, <2>4, <2>6 DEF Broken
  <2>7. CASE HalfOpen
    BY <2>1, <2>2, <2>4, <2>7 DEF Broken, HalfOpen, clientVars, mainVars, listenerVars
  <2>8. CASE Leaving
    BY <2>1, <2>4, <2>8 DEF Broken, Leaving, clientVars, mainVars, listenerVars
  <2> QED BY <2>1, <2>5, <2>6, <2>7, <2>8 DEF Broken
<1> QED BY <1>3, <1>4, <1>5

-----------------------------------------------------------------------------
(* How the two ends fall out of step. *)

\* What is on the way while they are in step answers no FIN of the server, and
\* while the user may type is no FIN.
LEMMA InStepClean ==
  ASSUME Typed, Places
  PROVE  /\ Unanswered(toServer) /\ server \notin {"ackExit", "dead"}
         /\ In => /\ server \in {"accept", "idle", "serving"}
                  /\ NoFins(toServer) /\ NoFins(toClient)
<1>1. \A q : OnlyAcks(q) => NoFins(q) /\ Unanswered(q)
  BY DEF OnlyAcks, IsAck, NoFins, Unanswered
<1>2. \A m : AcksThen(toServer, m) /\ ~(m.fin /\ m.ack) => Unanswered(toServer)
  <2> TAKE m
  <2> HAVE AcksThen(toServer, m) /\ ~(m.fin /\ m.ack)
  <2>1. \A i \in DOMAIN toServer : i = Len(toServer) \/ i \in 1 .. Len(toServer) - 1
    BY DEF Typed
  <2> QED BY <2>1 DEF AcksThen, IsAck, Unanswered
<1>3. \A m : NoFins(<<m>>) <=> ~m.fin /\ m.body # "CLOSE"
  BY DEF NoFins
<1>4. \A m : ~(m.fin /\ m.ack) => Unanswered(<<m>>)
  BY DEF Unanswered
<1>5. /\ ~Syn(port).ack /\ ~Request(port).ack /\ ~Fin(port).ack
      /\ ~SynAck(port).fin /\ SynAck(port).body # "CLOSE"
  BY DEF Syn, Request, Fin, SynAck, Plain
<1>6. NoFins(<<>>) /\ Unanswered(<<>>) BY <1>1, NoAcks
<1>7. Unanswered(toServer) /\ server \notin {"ackExit", "dead"}
  BY <1>1, <1>2, <1>4, <1>5, <1>6 DEF Places, AtListen, AtAccept, AtIdle, AtServing, AtClosing, AtInit
<1>8. ASSUME In
      PROVE  /\ server \in {"accept", "idle", "serving"}
             /\ NoFins(toServer) /\ NoFins(toClient)
  BY <1>1, <1>3, <1>5, <1>6, <1>8
  DEF In, Out, Places, AtListen, AtAccept, AtIdle, AtServing, AtClosing, AtInit
<1> QED BY <1>7, <1>8

\* Ctrl-C: the handler never gets the lock, or the connection is unused.
LEMMA InterruptBreaks ==
  ASSUME Typed, LockOwned, ReadsConnected, ClientPart, Places, Interrupt, server' = server
  PROVE  Broken'
<1>1. Unanswered(toServer') /\ server' # "ackExit"
  BY InStepClean DEF Interrupt, NoneSent
<1>2. CASE main \in OnSocket
  BY <1>1, <1>2 DEF Broken, Mute, Interrupt, LockOwned, Goes
<1>3. CASE main \in {"prompt", "acquire"} /\ ~isConnected
  BY <1>1, <1>3 DEF Broken, Mute, Interrupt, Goes, ClientPart, ReadsConnected, listenerVars
<1>4. CASE In
  <2>1. server \in {"accept", "idle", "serving"} /\ NoFins(toServer) /\ NoFins(toClient)
    BY <1>4, InStepClean
  <2> QED
    BY <1>4, <2>1 DEF In, Broken, Leaving, Interrupt, Goes, ClientPart, listenerVars, NoneSent
<1> QED BY <1>2, <1>3, <1>4 DEF Interrupt, In

\* The client reads a damaged datagram: a thread of it dies, or drops it.
LEMMA ClientDamageBreaks ==
  ASSUME Typed, LockOwned, ClientPart, Places, ClientReadsDamage,
         UNCHANGED <<serverVars, up, lost>>
  PROVE  (ClientPart' /\ Places') \/ Broken'
<1>1. Unanswered(toServer') /\ server' # "ackExit"
  BY InStepClean DEF ClientReadsDamage, serverVars
<1>2. main = "transfer" => toClient = <<>>
  BY DEF Places, AtListen, AtAccept, AtIdle, AtServing, AtClosing, AtInit, Out, In
<1>3. CASE main \in Waits /\ main' = "dead"
  BY <1>1, <1>3 DEF Broken, Mute, ClientReadsDamage, LockOwned, OnSocket
<1>4. CASE listener' = "died"
  BY <1>1, <1>4 DEF Broken, Mute
<1>5. CASE listener = "recv" /\ listener' = "loop" /\ main' = main
  <2>1. AtIdle /\ In /\ OnlyAcks(toServer) /\ Tail(toClient) = <<>>
    BY <1>5, ListenerReads DEF ClientReadsDamage
  <2>2. AtIdle'
    BY <1>5, <2>1 DEF AtIdle, In, ClientReadsDamage, serverVars
  <2>3. ClientPart' BY <1>5 DEF ClientPart, ClientReadsDamage
  <2> QED BY <2>2, <2>3 DEF Places
<1> QED BY <1>2, <1>3, <1>4, <1>5 DEF ClientReadsDamage, ClientPart

\* The server reads a damaged datagram: it drops it, leaves the handshake of a
\* connection that the client holds for open, or its thread dies.
LEMMA ServerDamageBreaks ==
  ASSUME OneFault, TypeOK, ClientPart, Places, ServerReadsDamage,
         UNCHANGED <<clientVars, lost>>
  PROVE  (ClientPart' /\ Places') \/ Broken'
<1>1. Typed /\ Faults = 0 /\ Faults' = 1
  <2>1. Typed /\ Faults = 0 BY TypedHere DEF ServerReadsDamage
  <2>2. lost \in Nat /\ damaged \in Nat BY DEF TypeOK, PathTypeOK
  <2> QED BY <2>1, <2>2 DEF ServerReadsDamage, Faults
<1>2. toServer # <<>> /\ toServer' = Tail(toServer) /\ UNCHANGED <<toClient, port>>
  BY DEF ServerReadsDamage, HasRead, Reads, NoReply
<1>3. CASE server' = "dead" BY <1>3 DEF Broken
<1>4. CASE UNCHANGED <<server, stries>>
  <2>1. UNCHANGED serverVars BY <1>4 DEF ServerReadsDamage, serverVars
  <2>2. Places' BY <1>1, <1>2, <2>1, LosePlaces
  <2>3. ClientPart' BY DEF ClientPart, clientVars, mainVars, listenerVars
  <2> QED BY <2>2, <2>3
<1>5. CASE server = "accept" /\ server' = "listen"
  <2>1. \/ main = "ackOpen" /\ OnlyAcks(toServer) /\ toClient = <<>>
        \/ In /\ OnlyAcks(toServer) /\ toClient = <<>>
    BY <1>1, <1>2, <1>5 DEF Places, AtListen, AtAccept, AtIdle, AtServing, AtClosing, AtInit
  <2>2. PartOf(toServer', toServer) BY <1>1, <1>2, Shrinks DEF Typed
  <2>3. Unanswered(toServer) /\ \A i \in DOMAIN toServer : ~toServer[i].syn
    BY <2>1 DEF OnlyAcks, IsAck, Unanswered
  <2>4. Unanswered(toServer') /\ \A i \in DOMAIN toServer' : ~toServer'[i].syn
    BY <2>2, <2>3, PartClean
  <2>5. HalfOpen'
    BY <1>2, <1>5, <2>1, <2>4 DEF HalfOpen, In, ClientPart, clientVars, mainVars, listenerVars
  <2> QED BY <2>5 DEF Broken
<1> QED BY <1>3, <1>4, <1>5 DEF ServerReadsDamage, ServerGoes

-----------------------------------------------------------------------------

\* A listening thread begins to read only when connected, and the main thread
\* ends the connection only with the lock.
LEMMA ReadsKept == ASSUME LockOwned, ReadsConnected, [Next]_vars PROVE ReadsConnected'
<1> USE DEF ReadsConnected
<1>1. CASE UNCHANGED clientVars BY <1>1 DEF clientVars, listenerVars
<1>2. CASE MainStep \/ MainTimeout \/ TransferEnds
  BY <1>2 DEF LockOwned, OnSocket, MainStep, MainTimeout, Refuse, TerminateUnconnected, Begin,
     Answered, SendAck, Connected, Disconnected, TransferReads, ShutDown, Exit, CallAgain,
     GiveUp, TransferEnds, ProcessEnds, clientVars, listenerVars
<1>3. CASE ListenerStep \/ ListenerTimeout \/ CloseTimeout
  BY <1>3 DEF ListenerStep, ListenerStarts, ListenerLoop, ListenerDrops, ListenerAnswersFin,
     ClosedByServer, CloseAgain, ListenerTimeout, CloseTimeout, listenerVars
<1>4. CASE User BY <1>4 DEF User, Interrupt, Type, listenerVars
<1>5. CASE ClientReadsDamage BY <1>5 DEF ClientReadsDamage
<1> QED
  BY <1>1, <1>2, <1>3, <1>4, <1>5 DEF Next, MainMoves, ListenerMoves, TransferMoves, UserMoves,
     ServerMoves, AskerMoves, AskerAsks, ClientRests, Damage, vars

\* In step or out of it, the server goes on until somebody asks.
LEMMA SoundStep ==
  ASSUME OneFault, TypeOK, LockOwned, ReadsConnected, Sound, [Next]_vars
  PROVE  Sound'
<1> SUFFICES ASSUME NobodyAsked' PROVE up' /\ ((ClientPart' /\ Places') \/ Broken')
  BY DEF Sound
<1>1. NobodyAsked /\ ~AskerAsks /\ ~(\E t \in Asker : AskerMoves(t)) BY NobodyBefore
<1>2. up /\ ((ClientPart /\ Places) \/ Broken) BY <1>1 DEF Sound
<1>3. Typed BY TypedHere
<1>4. CASE ClientPart /\ Places
  <2>1. CASE ~Damage /\ ~(Interrupt /\ ServerRests)
    BY <1>2, <1>4, <2>1, StepKept
  <2>2. CASE Interrupt /\ ServerRests
    <3>1. server' = server /\ up' BY <1>2, <2>2 DEF ServerRests, serverVars
    <3> QED BY <1>3, <1>4, <2>2, <3>1, InterruptBreaks
  <2>3. CASE ClientReadsDamage /\ UNCHANGED <<serverVars, up, lost>>
    BY <1>2, <1>3, <1>4, <2>3, ClientDamageBreaks
  <2>4. CASE ServerReadsDamage /\ UNCHANGED <<clientVars, lost>>
    <3>1. up' BY <1>2, <2>4 DEF ServerReadsDamage
    <3> QED BY <1>4, <2>4, <3>1, ServerDamageBreaks
  <2> QED BY <2>1, <2>2, <2>3, <2>4 DEF Damage
<1>5. CASE Broken
  <2>1. \/ ClientStep /\ UNCHANGED <<serverVars, up>>
        \/ ServerThreadStep /\ UNCHANGED clientVars
        \/ Lose /\ UNCHANGED <<clientVars, serverVars>>
        \/ UNCHANGED vars
    BY <1>1 DEF Next, MainMoves, ListenerMoves, TransferMoves, UserMoves, ServerMoves, Damage,
       ClientStep, ServerThreadStep, ServerRests, ClientRests
  <2> QED BY <1>2, <1>5, <2>1, BrokenStays
<1> QED BY <1>2, <1>4, <1>5

\* The server's process is not ended by a datagram of another conversation:
\* close of FTA-server.py exits on FIN and ACK, and before the server has sent
\* a FIN no client sends them, with any number of commands and Ctrl-C, and with
\* one datagram lost or damaged.
THEOREM ServerGoesOn == OneFault => (Spec => []ServerEndsWhenAsked)
<1> SUFFICES ASSUME OneFault PROVE Spec => []ServerEndsWhenAsked
  OBVIOUS
<1> DEFINE I == TypeOK /\ LockOwned /\ ReadsConnected /\ Sound
<1>1. Init => I
  <2>1. Init => up /\ ReadsConnected BY DEF Init, PathInit, ClientInit, ReadsConnected
  <2> QED BY <2>1, TypeInit, LockInit, StepInit DEF Sound, InStep
<1>2. I /\ [Next]_vars => I'
  BY TypeStep, LockStep, ReadsKept, SoundStep
<1>3. I => ServerEndsWhenAsked BY DEF Sound, ServerEndsWhenAsked
<1> QED BY <1>1, <1>2, <1>3, PTL DEF Spec
=============================================================================
