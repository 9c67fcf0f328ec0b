----------------------------- MODULE FtaClient -----------------------------
(***************************************************************************)
(* FTA-client.py: the main thread, which runs the user's commands, and the *)
(* listening threads, of which every turn of the main loop starts one; the *)
(* lock and the event between them; and the two loops of api.py they run,  *)
(* connect and close_sender_client in the main thread,                     *)
(* check_and_close_receive in a listening thread.                          *)
(*                                                                         *)
(* A deadline is counted in the reads of two seconds that fit in it.  get  *)
(* and post are in CrpTransfer; here they are a phase in which the main    *)
(* thread reads whatever comes.                                            *)
(***************************************************************************)
EXTENDS CrpPath

CONSTANTS
  MaxCommands,    \* bound: commands the user types
  MaxInterrupts,  \* bound: times the user presses Ctrl-C
  QuickUser,      \* the user may type before a new thread has run
  Prompt          \* the path and both programs are quicker than the timeouts

ASSUME ClientAssumption ==
  /\ MaxCommands \in Nat /\ MaxInterrupts \in Nat
  /\ QuickUser \in BOOLEAN /\ Prompt \in BOOLEAN

Command == {"connect", "get", "post", "disconnect", "terminate"}

VARIABLES
  main,         \* the main thread's place in its program
  command,      \* what it is doing, or "interrupt", or "none"
  given,        \* commands typed
  interrupts,   \* times Ctrl-C was pressed
  lock,         \* who holds cli.lock
  userInput,    \* the event cli.user_input is set
  waiting,      \* listening threads that wait for the lock
  listener,     \* the place of the one that holds it
  isConnected,  \* cli.isConnected
  armed,        \* the socket has a timeout
  tries,        \* the main thread's reads, or its acknowledgements sent
  ltries,       \* the listening thread's reads
  zeroed        \* seq_nbr is 0

mainVars == <<main, command, given, interrupts, tries>>
listenerVars == <<listener, ltries>>
clientVars == <<mainVars, listenerVars, lock, userInput, waiting, isConnected, armed, zeroed>>

\* In "ackOpen" and "ackClose" the last acknowledgements are sent; in "exit"
\* sys.exit waits for the other threads; "dead" is an uncaught exception.
Waits == {"connect", "fin"}
OnSocket == Waits \cup {"ackOpen", "ackClose", "transfer"}
MainPlace == OnSocket \cup {"prompt", "acquire", "interrupted", "exit", "dead", "ended"}

ClientTypeOK ==
  /\ main \in MainPlace
  /\ command \in Command \cup {"interrupt", "none"}
  /\ given \in 0 .. MaxCommands /\ interrupts \in 0 .. MaxInterrupts
  /\ lock \in {"free", "main", "listener"}
  /\ userInput \in BOOLEAN
  /\ waiting \in Nat
  /\ listener \in {"none", "loop", "recv", "closing", "died"}
  /\ isConnected \in BOOLEAN /\ armed \in BOOLEAN /\ zeroed \in BOOLEAN
  /\ tries \in 0 .. Tries + Acks /\ ltries \in 0 .. CloseTries

ClientInit ==
  /\ main = "prompt" /\ command = "none" /\ given = 0 /\ interrupts = 0
  /\ lock = "free" /\ userInput = FALSE
  /\ waiting = 1 /\ listener = "none"
  /\ isConnected = FALSE /\ armed = FALSE /\ zeroed = TRUE
  /\ tries = 0 /\ ltries = 0

Running == main # "ended"

-----------------------------------------------------------------------------
(* The main thread's loop. *)

\* The command is over: the event is cleared, the lock released, and the next
\* turn starts a thread and waits for input.
Done ==
  /\ main' = "prompt" /\ command' = "none" /\ tries' = 0
  /\ userInput' = FALSE /\ lock' = "free" /\ waiting' = waiting + 1

\* os._exit: the process ends with all of its threads and its socket.
ProcessEnds ==
  /\ main' = "ended" /\ listener' = "none" /\ waiting' = 0
  /\ ClientSocketCloses

Goes(place) == main' = place /\ tries' = 0

ThreadsSettled == waiting = 0 /\ listener # "loop"

Type(c) ==
  /\ main = "prompt" /\ given < MaxCommands
  /\ QuickUser \/ ThreadsSettled
  /\ given' = given + 1 /\ command' = c
  /\ userInput' = TRUE /\ Goes("acquire")
  /\ NoneSent
  /\ UNCHANGED <<listenerVars, interrupts, lock, waiting, isConnected, armed, zeroed, port>>

\* A command that does not fit the state of the connection.
Refuse ==
  /\ main = "acquire" /\ lock = "free"
  /\ command \in IF isConnected THEN {"connect"} ELSE {"get", "post", "disconnect"}
  /\ Done
  /\ NoneSent
  /\ UNCHANGED <<listenerVars, given, interrupts, isConnected, armed, zeroed, port>>

\* sys.exit with the lock held.
TerminateUnconnected ==
  /\ main = "acquire" /\ lock = "free"
  /\ command = "terminate" /\ ~isConnected
  /\ lock' = "main" /\ Goes("exit")
  /\ NoneSent
  /\ UNCHANGED <<listenerVars, command, given, interrupts, userInput, waiting,
                 isConnected, armed, zeroed, port>>

\* The command takes the lock and sends its first datagram.
Begin ==
  /\ main = "acquire" /\ lock = "free" /\ lock' = "main"
  /\ \/ /\ command = "connect" /\ ~isConnected
        /\ Goes("connect") /\ ClientSends(Syn(port)) /\ armed' = TRUE
     \/ /\ command \in {"get", "post"} /\ isConnected
        /\ Goes("transfer") /\ ClientSends(Request(port)) /\ UNCHANGED armed
     \/ /\ command \in {"disconnect", "terminate"} /\ isConnected
        /\ Goes("fin") /\ ClientSends(Fin(port)) /\ UNCHANGED armed
  /\ UNCHANGED <<listenerVars, command, given, interrupts, userInput, waiting,
                 isConnected, zeroed, port>>

\* receive returns: whatever has come is taken for the SYN-ACK, or for the
\* FIN-ACK (the flags are compared as strings, none of which is empty).
Answered ==
  /\ main \in Waits /\ toClient # <<>>
  /\ Goes(IF main = "connect" THEN "ackOpen" ELSE "ackClose")
  /\ toClient' = Tail(toClient)
  /\ UNCHANGED <<listenerVars, command, given, interrupts, lock, userInput, waiting,
                 isConnected, armed, zeroed, port, toServer>>

Call == IF main = "connect" THEN Syn(port) ELSE Fin(port)

\* Slip: the deadline is not looked at.
CallAgainForever ==
  /\ main \in Waits /\ armed
  /\ tries' = tries + 1
  /\ ClientSends(Call)
  /\ UNCHANGED <<listenerVars, main, command, given, interrupts, lock, userInput, waiting,
                 isConnected, armed, zeroed, port>>

\* Two seconds without an answer: the call is sent again, the last time too.
CallAgain ==
  /\ main \in Waits /\ armed /\ tries + 1 < Tries
  /\ tries' = tries + 1
  /\ ClientSends(Call)
  /\ UNCHANGED <<listenerVars, main, command, given, interrupts, lock, userInput, waiting,
                 isConnected, armed, zeroed, port>>

GiveUp ==
  /\ main \in Waits /\ armed /\ tries + 1 = Tries
  /\ toServer' = WithCall(toServer, Call)
  /\ \/ /\ command # "interrupt"
        /\ Done
        /\ UNCHANGED <<listener, toClient, port>>
     \/ /\ command = "interrupt"
        /\ ProcessEnds
        /\ UNCHANGED <<command, tries, lock, userInput>>
  /\ UNCHANGED <<ltries, given, interrupts, isConnected, armed, zeroed>>

SendAck ==
  /\ main \in {"ackOpen", "ackClose"} /\ tries < Acks
  /\ tries' = tries + 1
  /\ ClientSends(Ack(port))
  /\ UNCHANGED <<listenerVars, main, command, given, interrupts, lock, userInput, waiting,
                 isConnected, armed, zeroed, port>>

Connected ==
  /\ main = "ackOpen" /\ tries = Acks
  /\ isConnected' = TRUE /\ zeroed' = TRUE
  /\ Done
  /\ NoneSent
  /\ UNCHANGED <<listenerVars, given, interrupts, armed, port>>

\* close_sender_client has returned True, with seq_nbr as it was.
Disconnected ==
  /\ main = "ackClose" /\ tries = Acks
  /\ \/ /\ command = "disconnect" /\ Done /\ isConnected' = FALSE
        /\ NoneSent /\ UNCHANGED <<listenerVars, port>>
     \/ /\ command = "terminate" /\ Goes("exit") /\ isConnected' = FALSE
        /\ NoneSent /\ UNCHANGED <<listenerVars, command, lock, userInput, waiting, port>>
     \/ /\ command = "interrupt" /\ ProcessEnds /\ UNCHANGED toServer
        /\ UNCHANGED <<ltries, command, lock, userInput, tries, isConnected>>
  /\ UNCHANGED <<given, interrupts, armed, zeroed>>

\* get_client and post_client read what comes.
TransferReads ==
  /\ main = "transfer" /\ toClient # <<>>
  /\ toClient' = Tail(toClient)
  /\ UNCHANGED <<clientVars, port, toServer>>

\* The counters are reset.  post_client leaves the socket without a timeout,
\* unless the request was not acknowledged.
TransferEnds ==
  /\ main = "transfer"
  /\ zeroed' = TRUE
  /\ armed' \in IF command = "post" THEN {armed, FALSE} ELSE {armed}
  /\ Done
  /\ NoneSent
  /\ UNCHANGED <<listenerVars, given, interrupts, isConnected, port>>

-----------------------------------------------------------------------------
(* The ends of the process. *)

\* Ctrl-C: KeyboardInterrupt is raised where the main thread is, and its
\* handler waits for the lock, though the thread may hold it.
Interrupt ==
  /\ main \in OnSocket \cup {"prompt", "acquire"}
  /\ interrupts < MaxInterrupts /\ interrupts' = interrupts + 1
  /\ command' = "interrupt" /\ userInput' = TRUE /\ Goes("interrupted")
  /\ NoneSent
  /\ UNCHANGED <<listenerVars, given, lock, waiting, isConnected, armed, zeroed, port>>

ShutDown ==
  /\ main = "interrupted" /\ lock = "free" /\ lock' = "main"
  /\ \/ /\ isConnected
        /\ Goes("fin") /\ ClientSends(Fin(port))
        /\ UNCHANGED <<listener, waiting, port>>
     \/ /\ ~isConnected
        /\ ProcessEnds /\ UNCHANGED <<tries, toServer>>
  /\ UNCHANGED <<ltries, command, given, interrupts, userInput, isConnected, armed, zeroed>>

\* sys.exit: the interpreter waits for the listening threads.
Exit ==
  /\ main = "exit" /\ waiting = 0 /\ listener = "none"
  /\ ProcessEnds
  /\ UNCHANGED <<toServer, ltries, command, given, interrupts, lock, userInput, tries,
                 isConnected, armed, zeroed>>

-----------------------------------------------------------------------------
(* A listening thread. *)

\* What a step of a listening thread leaves alone.
MainWaits == UNCHANGED <<main, command, given, interrupts, tries, userInput>>

\* Slip: the thread does not wait for the lock.
ListenerStartsAtOnce ==
  /\ Running /\ waiting > 0 /\ listener = "none"
  /\ waiting' = waiting - 1 /\ listener' = "loop" /\ UNCHANGED lock
  /\ NoneSent
  /\ MainWaits /\ UNCHANGED <<ltries, isConnected, armed, zeroed, port>>

ListenerStarts ==
  /\ Running /\ waiting > 0 /\ lock = "free"
  /\ waiting' = waiting - 1 /\ lock' = "listener" /\ listener' = "loop"
  /\ NoneSent
  /\ MainWaits /\ UNCHANGED <<ltries, isConnected, armed, zeroed, port>>

\* Slip: the event is looked at only once the connection is closed.
ListenerLoopDeaf ==
  /\ listener = "loop"
  /\ \/ /\ isConnected
        /\ listener' = "recv" /\ armed' = TRUE /\ UNCHANGED lock
     \/ /\ ~isConnected
        /\ listener' = "none" /\ lock' = "free" /\ UNCHANGED armed
  /\ NoneSent
  /\ MainWaits /\ UNCHANGED <<ltries, waiting, isConnected, zeroed, port>>

\* Slip: the timeout is not set.
ListenerLoopUntimed ==
  /\ listener = "loop"
  /\ \/ /\ ~userInput /\ isConnected
        /\ listener' = "recv" /\ UNCHANGED lock
     \/ /\ userInput \/ ~isConnected
        /\ listener' = "none" /\ lock' = "free"
  /\ NoneSent
  /\ MainWaits /\ UNCHANGED <<ltries, waiting, isConnected, armed, zeroed, port>>

ListenerLoop ==
  /\ listener = "loop"
  /\ \/ /\ ~userInput /\ isConnected
        /\ listener' = "recv" /\ armed' = TRUE /\ UNCHANGED lock
     \/ /\ userInput \/ ~isConnected
        /\ listener' = "none" /\ lock' = "free" /\ UNCHANGED armed
  /\ NoneSent
  /\ MainWaits /\ UNCHANGED <<ltries, waiting, isConnected, zeroed, port>>

ListenerTimeout ==
  /\ listener = "recv" /\ listener' = "loop"
  /\ NoneSent
  /\ MainWaits /\ UNCHANGED <<ltries, lock, waiting, isConnected, armed, zeroed, port>>

\* Left over from before: a number that is not 0, or no body.
IsLeftover(m) == ~m.zero \/ m.body = "none"

ListenerDrops ==
  /\ listener = "recv" /\ toClient # <<>> /\ IsLeftover(Head(toClient))
  /\ listener' = "loop" /\ toClient' = Tail(toClient)
  /\ MainWaits
  /\ UNCHANGED <<ltries, lock, waiting, isConnected, armed, zeroed, port, toServer>>

\* check_and_close_receive: FIN is answered.
ListenerAnswersFin ==
  /\ listener = "recv" /\ toClient # <<>> /\ ~IsLeftover(Head(toClient))
  /\ Head(toClient).fin
  /\ listener' = "closing" /\ ltries' = 0
  /\ toClient' = Tail(toClient)
  /\ toServer' = WithCall(toServer, FinAck(port, zeroed))
  /\ armed' = TRUE
  /\ MainWaits /\ UNCHANGED <<lock, waiting, isConnected, zeroed, port>>

ClosedByServer ==
  /\ listener = "closing" /\ toClient # <<>> /\ Head(toClient).ack
  /\ listener' = "loop"
  /\ isConnected' = FALSE /\ zeroed' = TRUE /\ armed' = FALSE
  /\ ClientSocketCloses /\ UNCHANGED toServer
  /\ MainWaits /\ UNCHANGED <<ltries, lock, waiting>>

\* Not the acknowledgement: the FIN-ACK is sent again.
CloseAgain ==
  /\ listener = "closing" /\ toClient # <<>> /\ ~Head(toClient).ack
  /\ toClient' = Tail(toClient)
  /\ toServer' = WithCall(toServer, FinAck(port, zeroed))
  /\ MainWaits
  /\ UNCHANGED <<listenerVars, lock, waiting, isConnected, armed, zeroed, port>>

\* "Disconnect from server failed": the socket is left without a timeout,
\* and seq_nbr as the handshake has left it.
CloseTimeout ==
  /\ listener = "closing"
  /\ ltries' = ltries + 1
  /\ ClientSends(FinAck(port, zeroed))
  /\ \/ /\ ltries + 1 < CloseTries /\ UNCHANGED <<listener, armed, zeroed>>
     \/ /\ ltries + 1 = CloseTries /\ listener' = "loop"
        /\ armed' = FALSE /\ zeroed' = FALSE
  /\ MainWaits /\ UNCHANGED <<lock, waiting, isConnected, port>>

-----------------------------------------------------------------------------

\* A damaged datagram.  receive returns None and its callers subscript it: the
\* main thread dies in connect and close_sender_client (a transfer may also
\* recover), the listening thread in check_and_close_receive, with the lock.
\* In listening the checksum is not looked at: what is left of the datagram is
\* dropped, or cannot be decoded.
ClientReadsDamage ==
  /\ toClient # <<>> /\ toClient' = Tail(toClient)
  /\ damaged < MaxDamage /\ damaged' = damaged + 1
  /\ \/ main \in Waits \cup {"transfer"} /\ main' = "dead" /\ UNCHANGED listener
     \/ main = "transfer" /\ UNCHANGED <<main, listener>>
     \/ listener = "closing" /\ listener' = "died" /\ UNCHANGED main
     \/ listener = "recv" /\ listener' \in {"loop", "died"} /\ UNCHANGED main
  /\ UNCHANGED <<command, given, interrupts, tries, userInput, ltries, lock, waiting,
                 isConnected, armed, zeroed, toServer, port>>

-----------------------------------------------------------------------------

\* Steps that a thread makes by itself, and those it makes when two seconds
\* have passed without a datagram.
MainStep ==
  \/ Refuse \/ TerminateUnconnected \/ Begin
  \/ Answered \/ SendAck \/ Connected \/ Disconnected
  \/ TransferReads \/ ShutDown \/ Exit

MainTimeout == CallAgain \/ GiveUp

ListenerStep ==
  \/ ListenerStarts \/ ListenerLoop
  \/ ListenerDrops \/ ListenerAnswersFin \/ ClosedByServer \/ CloseAgain

User == Interrupt \/ \E c \in Command : Type(c)
=============================================================================
