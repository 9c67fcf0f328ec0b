---------------------------- MODULE RelDatServer ----------------------------
(***************************************************************************)
(* The server of RelDat (server/reldataServer.java): one turn of main's    *)
(* loop is one action, which takes the datagram it receives as a parameter *)
(* or is the socket timeout.  Reply says what a handler answers at once    *)
(* and Resent what the checktimeout at the end of the turn may send again; *)
(* the network is left to the modules that extend this one.                *)
(*                                                                         *)
(* The server serves whoever writes to it: it keeps no client address and  *)
(* compares none.                                                          *)
(***************************************************************************)
EXTENDS RelDatWindow

VARIABLES
  win,        \* recvWindow
  connected,  \* a client is connected
  heard       \* lastRcvTime is not null

serverVars == <<win, connected, heard>>

ServerTypeOK ==
  /\ win \in WindowType
  /\ connected \in BOOLEAN /\ heard \in BOOLEAN

ServerInit == win = NewWindow /\ connected = FALSE /\ heard = FALSE

\* Slip: a full window takes everything.
AcceptsWhenFull(m) ==
  /\ m.rcvw # 0
  /\ connected \/ FindState(m) \in {"ConnRequest", "Disconnect"}

\* Slip: nothing but SYN without a connection, not even FIN.
AcceptsConnected(m) ==
  /\ m.rcvw # 0
  /\ connected \/ FindState(m) = "ConnRequest"
  /\ IsFull(win) => FindState(m) = "AckRecvd"

\* The turn reaches the switch: the client has room, is connected or wants
\* to change that, and a full window takes acknowledgements only.
Accepts(m) ==
  /\ m.rcvw # 0
  /\ connected \/ FindState(m) \in {"ConnRequest", "Disconnect"}
  /\ IsFull(win) => FindState(m) = "AckRecvd"

FreeByte == WindowByte(GetFreeWindow(win))

\* The echo of a data packet: createReplyPacket as sendData calls it.
Echo(m) == Datagram(m.cli, m.seq, m.seq, {"ACK"}, FreeByte, ToUpperCase(m.data))

\* What the turn on m answers at once.
Reply(m) ==
  IF ~Accepts(m) THEN {}
  ELSE CASE FindState(m) = "ConnRequest" ->
              {Datagram(m.cli, m.ack, 0, {"ACK", "SYN"}, FreeByte, Greeting)}
         [] FindState(m) = "TransferData" /\ ChecksumOk(m) -> {Echo(m)}
         [] FindState(m) = "FinishOneTransfer" ->
              {Datagram(m.cli, m.ack, m.ack, {"ACK", "SYN", "FIN"}, FreeByte,
                        Greeting)}
         [] FindState(m) = "Disconnect" ->
              {Datagram(m.cli, m.ack, 0, {"ACK", "FIN"}, FreeByte, Greeting)}
         [] OTHER -> {}

\* checktimeout's candidates: echoes it sends again once they are two
\* seconds old.
Resent(w) == {w.pkt[n] : n \in Resendable(w)}

ConnRequest(m) ==
  /\ Accepts(m) /\ FindState(m) = "ConnRequest"
  /\ connected' = TRUE /\ heard' = TRUE
  /\ UNCHANGED win

\* Slip: the stored echo announces the window after it was counted.
TransferDataRebuilt(m) ==
  /\ Accepts(m) /\ FindState(m) = "TransferData"
  /\ LET echo == [Echo(m) EXCEPT !.rcvw = WindowByte(GetFreeWindow(win) - 1)]
     IN  win' = IF ChecksumOk(m) THEN AddPacket(win, m.seq, echo) ELSE win
  /\ heard' = TRUE
  /\ UNCHANGED connected

TransferData(m) ==
  /\ Accepts(m) /\ FindState(m) = "TransferData"
  /\ win' = IF ChecksumOk(m) THEN AddPacket(win, m.seq, Echo(m)) ELSE win
  /\ heard' = TRUE
  /\ UNCHANGED connected

AckRecvd(m) ==
  /\ Accepts(m) /\ FindState(m) = "AckRecvd"
  /\ win' \in AckPacket(win, m.ack)
  /\ heard' = TRUE
  /\ UNCHANGED connected

FinishOneTransfer(m) ==
  /\ Accepts(m) /\ FindState(m) = "FinishOneTransfer"
  /\ win' = PrepareNextTransfer(m.ack)
  /\ UNCHANGED <<connected, heard>>

ClientGone == win' = NewWindow /\ connected' = FALSE /\ heard' = FALSE

ServerDisconnect(m) ==
  /\ Accepts(m) /\ FindState(m) = "Disconnect"
  /\ ClientGone

Ignore(m) ==
  /\ ~Accepts(m) \/ FindState(m) = "wtf"
  /\ UNCHANGED serverVars

\* The socket timeout, when the last datagram is "short" (at most 15 s),
\* "long" (15 to 40 s) or "dead" (over 40 s) ago: the client has crashed, or
\* not.
Silence == {"short", "long", "dead"}

ClientCrashed(gap) ==
  heard /\ IF HasUnackedPkt(win) THEN gap # "short" ELSE gap = "dead"

SocketTimeout(gap) ==
  IF ClientCrashed(gap) THEN ClientGone ELSE UNCHANGED serverVars

\* Whether the turn on m, or a socket timeout, ends in checktimeout.
ChecksTimeout(m) ==
  \/ m.rcvw = 0
  \/ ~Accepts(m) /\ connected
  \/ ~Accepts(m) /\ FindState(m) \in {"ConnRequest", "Disconnect"}
  \/ Accepts(m) /\ FindState(m) \notin {"FinishOneTransfer", "Disconnect"}

\* The server is killed and started again.
ServerRestart == ClientGone
=============================================================================
