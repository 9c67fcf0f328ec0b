# Verification of meiyouNetP2

The repository holds two independent programs, both of which transfer files
reliably over UDP:

* **RelDat**: a Python client (`client/reldataSender.py`) and a Java server
  (`server/reldataServer.java`, `Window.java`, `PacketProcessor.java`). The
  client sends a text file in packets; the server sends each packet back in
  upper case; the client writes the echoes to `<name>-received.<type>`.
* **CRP/FTA**: a connection protocol (`CRPHeader.py`, `api.py`) and a file
  transfer application over it (`FTA-client.py`, `FTA-server.py`) with the
  commands get and post.

Both are modelled, model-checked and partly proved here. CRP/FTA comes in two
models: `CrpTransfer` is a get or a post on an open connection, packet by
packet; `FtaSession` is the opening, use and closing of connections by all the
threads of both programs, with a transfer reduced to a phase. There are no
tests in the repository and its README is empty; the documentation is the
comments in the code.

## Inventory

| Component | Source | State | Operations | Interaction |
|---|---|---|---|---|
| RelDat packets | `Packet`, `PacketProcessor`, `createReplyPacket`, `findState` | none | pack, decode, checksum, reading of the flags | built and read by both ends |
| Client window | class `Window` of `reldataSender.py` | `head`, `end`, `lastSequence`, `sendArray`, `pktArray`, `rcvBuffer`, `rcvWindowSize`, `serverRcvSize` | `cliConnect`, `sendPkt`, `rcvMsg`, `moveToNext`, `checkTimeout`, `finishTransfer`, `disConnect` | UDP socket; called by the transfer loop |
| Client commands | `transfer`, `clientStart`, `checkFile` | the file, `transferred`, `received`, `lastAckTime` | transform, disconnect, give up | calls the window |
| Server loop | `reldataServer.main` | `connected`, `lastRcvTime`, `recvWindow` | one case per kind of packet, the socket timeout with its crash detector | UDP socket; one thread |
| Server window | `Window.java` | `start`, `end`, `unacked`, `ack`, `pkt`, `timer` | `addpacket`, `ackpacket`, `moveWindow`, `prepareNextTransfer` | called by the server loop |
| CRP header | `CRPHeader.py` | none | pack (unsigned), unpack (signed) | used by all of CRP |
| CRP connection | `api.listen`, `accept`, `connect`, `close_*`, `check_and_close_receive` | `seq_nbr`, `ack_nbr` of the caller | three-way open, four-way close, both with resends by time | UDP socket |
| CRP transfer | `api.send`, `receive`, `receive_ack`, `send_ack`, `fta.get_*`, `fta.post_*` | `seq_nbr`, `ack_nbr`, `window_other`, the packet list, `i`, `j`, `remaining_to_send` | go-back-N with the receiver's window | called by FTA |
| FTA client | `FTA-client.py` | `isConnected`, `user_input` (event), `lock` | commands; a listening thread that serves the server's FIN | two threads, one socket |
| FTA server | `FTA-server.py` | `isConnected`, `connected` (event), sockets | listening, requests, shutdown | user-interface thread, server thread, main thread, one socket |

What is hard in this code: datagrams may be lost, doubled, late, out of order
or damaged, and neither end marks a datagram with its connection or transfer;
either end may die and start again; retransmission races late answers;
sequence numbers, window bytes and the counter of unacknowledged echoes are
kept by hand and wrap or drift; both finishing loops retry without limit. What
makes RelDat correct is that the received file is the upper-cased file, that
"downloaded" is said only of a whole file, that the flow control counts right,
and that each loop ends. `PROJECT.json` lists the hazards line by line with the
properties that watch them.

## Modules

```
RelDatPacket ── RelDatWindow ── RelDatServer ─┬─ RelDat ─┬─ MCUdp
     │                                        │          └ Echoes == INSTANCE FileEcho
     └───────── RelDatClient ─────────────────┼─ RelDatFifo ─ MCFifo
                                              └─ RelDatLemmas
RelDat ─────┬─ RelDatProofs ── RelDatEchoProofs
RelDatLemmas┤
RelDatFifo ─┴─ RelDatFifoProofs

CrpPacket ── CrpTransfer ─┬─ MCCrp
                          ├─ CrpProofs ── CrpFileProofs ── CrpDeliveryProofs
                          └ Delivery == INSTANCE FileDelivery

           ┌─ FtaClient ─┐
CrpPath ───┤             ├── FtaSession ── MCFta, FtaProofs
           └─ FtaServer ─┘
```

* **RelDatPacket**: datagrams as records. Data is which chunk of which transfer
  it is and whether it is upper-cased; control packets carry `Greeting`;
  damaged data is `Garbled`, which is what the checksum notices (it covers the
  data and not the header, and is taken to notice every damage). `FindState` is
  `findState`. `cli` is the address: the number of the client process.
* **RelDatWindow**: `Window.java` as operators on a record; the operator names
  are the method names. `moveWindow`'s loop is given by the number of turns it
  runs (`SlidesBy`), including what happens when its unwrapped index leaves
  the array: the exception is caught and the turns so far stand.
* **RelDatClient**: the client's variables and one action per step between two
  reads of the socket. `pc` says where the process is: `synwait` (cliConnect),
  `command`, `send` and `recv` (the two halves of a turn of transfer()'s loop),
  `finwait`, `diswait`, and `down`, `crashed`, `closed` when it has ended.
  Lengths count packets. `list.insert` in sendPkt is modelled as what it does:
  it shifts everything above (`Insert`). The `while` of moveToNext is given by
  the number of its turns (`Moves`), with the marks it clears on the way.
  The uncaught exceptions of `struct.pack` (a negative window in sendPkt, -1 in
  finishTransfer) end in `crashed`.
* **RelDatServer**: one action per case of the switch; `Accepts` is the chain of
  early exits before it. `Reply` is what a turn sends at once, `Resent` what
  checktimeout may send again. Time since the last datagram is `short`, `long`
  (15 s) or `dead` (40 s).
* **RelDat** composes them over UDP at its worst: `toServer` and `toClient` hold
  every datagram ever sent, and anything in them, whole or damaged, may be
  received at any time, any number of times. Client processes start one after
  another (a new one may start while datagrams of the last are about), die at
  any time, and the server may be restarted at any time. A datagram for another
  address is not delivered to a client; the server takes everything.
* **RelDatFifo** composes the same two components over a path that keeps the
  order, does not duplicate and loses at most `MaxLoss` datagrams. There
  retransmission is a timer: a sender resends when none of its datagrams is on
  the way. This is where flow control and progress can be judged.
* **FileEcho** is the abstract specification: transform copies a file,
  upper-cased, packet by packet, and reports completion only when it is
  complete. `RelDat!ImplementsFileEcho` maps `send`/`recv` to `copying` and
  `finwait` to `done`; the other variables are the same.
* **RelDatLemmas**: what the operators of the two components return, and that
  the steps of each keep its types, whatever the network; the proofs over both
  networks rest on it. **RelDatProofs**: the theorems about `RelDat` that hold
  whether or not numbers wrap; **RelDatEchoProofs**: those that need `NoWrap`,
  the refinement among them. **RelDatFifoProofs**: the theorems about
  `RelDatFifo`.
* **CrpPacket**: CRP datagrams as records (a request, an acknowledgement, or
  data) and the number and the sizes of the segments of a file. A file is the
  command it belongs to and the length of its stream.
* **CrpTransfer**: get and post on an open connection. The source has the
  sender's loop twice (get_server, post_client) and the receiver's loop twice
  (get_client, post_server); here each is written once, for an end `e`, and
  `host[e]` is that end's program counter, counters and locals. One action is
  what an end does between two reads of the socket. `Granted` to `Undecodable`
  are the request and its answer: what server and client do in the seven
  seconds each of them waits. `AckFor` and `Counted` are send_ack,
  `IsExpectedAck` is receive_ack, with the counting of receive folded in. The
  network is as in RelDat: everything ever sent may come at any time, again, or
  damaged; reads may time out and deadlines pass at any time. An uncaught
  exception (struct.error of a number below zero or of a packet without a
  length, TypeError of a damaged acknowledgement, UnicodeDecodeError of
  leftover data) leaves the end `dead`; an index past the packet list would
  leave it `overrun`. Data that arrives at an idle server may or may not be
  UTF-8. The idle client's listening thread drops what it reads and changes
  nothing here.
* **FileDelivery** is the abstract specification of a receiving end: segments
  are taken one by one and in order, the file is written with the last, and
  giving up writes nothing. `CrpTransfer!ImplementsFileDelivery` maps what an
  end in `first` or `data` is after and has (`Pursued`, `Held`); it holds of one
  command, and of streams whose last segment is not of one byte.
* **CrpPath**: the datagrams that open and close a connection, by what their
  readers look at (the flags, whether the number is 0, whether a body follows),
  and a path that keeps their order and loses or damages a few. The server is
  reached while its process is alive (`up`); the client is reached at its
  present socket (`port`), which changes when the server has closed the
  connection, as `cli.sock.close()` and a new socket do.
* **FtaClient**: the main thread (`main`), the listening threads, of which
  every turn of the main loop starts one (`waiting` counts those that wait for
  the lock, `listener` is the place of the one that has it), `lock`, the event
  `userInput`, `isConnected`, and whether the socket has a timeout (`armed`,
  which `settimeout(2.0)` and `settimeout(None)` set here and there). connect,
  close_sender_client and check_and_close_receive are the actions between two
  reads of the thread that runs them. A deadline is counted in reads of two
  seconds. `zeroed` is "seq_nbr is 0", which is all the listening thread asks
  of a number.
* **FtaServer**: the server thread (`server`: listen, accept, idle, serving,
  closing, and the three steps of its `init`), with `connectedSet`, `isServing`
  (self.isConnected), `sockSet` (self.sock is not None), and the two threads
  that may ask for the end (`asker`: the user interface and, after Ctrl-C, the
  main thread), which use the server thread's socket without a lock.
* **FtaSession** composes them. Which timeouts may fire is said by `Prompt`:
  with it a read times out only if nothing is on the way to it and the other
  end waits too, as on a path that is quick against two seconds; without, at
  any moment. `QuickUser` lets the user type before the listening thread of
  that turn has taken the lock.
* **FtaProofs**, **CrpProofs**, **CrpFileProofs**, **CrpDeliveryProofs**: the
  theorems.

Operators marked "Slip" are plausible mistakes; each is used once, in the place
of the operator after it, to see that a property would notice it.

## Runs

| Run | Bounds | States | Shows |
|---|---|---|---|
| `udp_transfer` | 5 numbers, window byte 4, windows 2/2, one file of up to 2 packets | 161 k | `OutIsPrefix`, `ServerNeverAhead`, `AnnouncesFreeBuffer`, `AnnouncesRoom` |
| `udp_two_clients` | 6 numbers, windows 1/1, 2 processes, 2 transfers of up to 2 packets | 298 k | `OutIsPrefix`, `Downloaded`, `ResendsAreOld`, refinement of `FileEcho` |
| `udp_wrap` | 3 numbers, byte 3, windows 2/2, up to 3 packets | 585 k | types, `OutIsPrefix`, `StartInBounds`, `SequenceNeverReused` when numbers run out |
| `fifo_one_loss` | 6 numbers, windows 2/2, up to 3 packets, 1 loss | 40 k | types, `UnackedCounts`, `WindowRespected`, `StartIsUnacked`, `TransferEnds`, `DisconnectEnds` |
| `crp_transfer` | segments of 2 bytes, streams of 2, 6 and 8, windows 2/2, one command, 2 and 1 tries | 210 k | types, `ContentIsPrefix`, `WindowKept`, `Whole`, `CommandEnds`, refinement of `FileDelivery` |
| `fta_session` | 3 commands, 1 loss, terminate and Ctrl-C at the server, deadlines of 3 and 2 reads, 2 acknowledgements, 2 FINs | 296 k | types, `EndsAgree`, `WaitsWithTimeout`, `ServerEndsWhenAsked`, `CommandReturns`, `ShutdownEnds` |
| `fta_faults` | 2 commands, 1 damaged datagram, Ctrl-C at the client, a quick user | 540 k | `SocketExclusive`, `InterruptEnds` |

Violations (what a comment or a message of the program says, and it is not so):

| Run | Property | What happens |
|---|---|---|
| `udp_truncates` | `Downloaded` | `windowFree` compares without the modulo: when `end` has wrapped, the transfer stops with the rest of the file unread and reports it downloaded |
| `fifo_hang` | `FinishEnds` | one lost acknowledgement at the end leaves the server's window full; it drops FINT, the client sends nothing else |
| `fifo_stale_bye` | `ClosedMeansReleased` | a late answer to FINT is taken for the answer to FIN |
| `crp_last_byte` | `Whole` | the receiver's count of what remains is one byte short: a last segment of one byte is not received, and the file is reported all the same |
| `crp_wrong_file` | `RightFile` | after a get that was given up, the server takes the request of the next for a retransmission of it, and the first file is saved as the second |

Met on the way and not given a run, in RelDat and the CRP transfer: moveWindow
forgets an acknowledgement at the end of its window (`Window.java:97`), so that
`start` may stay at an echo that was acknowledged: this takes two losses on the
ordered path, and `fifo_one_loss` shows that one is not enough; a packet made while the window was zero is dropped in
every retransmission, because its header says zero; an empty first file ends the RelDat client
in finishTransfer, which packs -1 as an unsigned short (the model goes to
`crashed`); echoes ahead of a missing one take `rcvWindowSize` below zero when
the server's window is the larger one, and sendPkt raises, although a comment
above the commented-out guard says the window is kept positive; in CRP the
last window is never resent, because the resend loop asks for
`remaining_to_send > 0`, and a second acknowledgement of a get's request makes
the client acknowledge packet 0 before it has it; `hasUnackedPkt` ("checks if the window has
unacked packet") reads a counter that also counts acknowledged echoes and does
not count a late copy outside the window; a window of 256 is announced as 0,
and the client then stops sending and reports the file downloaded.

Met on the way in FTA, each a behaviour of the model:

* accept compares `temp is "True"` (`api.py:78`), which is false of any string
  that was split off, so that every datagram is answered by one more SYN-ACK
  and the connection is taken as open whatever came. If both SYN-ACKs a client
  was sent are lost the server may be connected to it while it is not, and a
  connected server drops every SYN: the client cannot come back. This takes two
  losses; `EndsAgree` holds with one.
* graceful_close waits for isConnected without a deadline (`FTA-server.py:229`,
  "#timeout for while loop, unnecessary"): when a transfer of the client reads
  the FINs away, nothing answers them and it waits for ever. `ShutdownEnds` is
  therefore about a client that does nothing.
* Ctrl-C during a command deadlocks the client: the handler takes cli.lock
  (`FTA-client.py:265`), which the interrupted command holds and no longer
  gives back. `InterruptEnds` leaves this out by its premise.
* A damaged datagram in check_and_close_receive, or one that cannot be decoded
  in listening (`FTA-client.py:122-151`), ends the listening thread with the
  lock: every later command waits for it.
* Without `Prompt`: a FIN-ACK that is late is taken by the server for the
  answer to a FIN of its own, and its process exits although nobody asked; a
  stale FIN-ACK is taken for a SYN-ACK, and the client believes it is connected.
* After "Disconnect from server failed", and after a post, the socket has no
  timeout; the listening thread sets one again unless the next command is typed
  before it runs, and then that command may wait for ever.
* get_server that has lost its last acknowledgement goes on for half a minute,
  reads FINs meanwhile, and the connection closes at one end only.
* With a user who types before the listening thread of that turn has run, the
  second SYN-ACK of accept stays unread and is taken for the FIN-ACK of the next
  closing, whose own FIN-ACK is taken for the SYN-ACK of the connection after
  it, and so on. After connect, disconnect, connect, disconnect, connect, typed
  ahead, the listening thread may read such a FIN-ACK, with number 0, as a FIN
  of the server; its answer has FIN and ACK, and `close` ends the server's
  process, with nothing lost (TLC, 5 commands). `ServerEndsWhenAsked` is
  therefore about a user who waits.
* The user interface that calls close_sender_server between `self.sock = None`
  and the rest of `init` dies; one that is still sending FINs keeps the port
  bound, and the bind of the new socket ends the server thread.

### Bounds

`SeqSize` stands for 2^16 and `ByteSize` for 2^8; the code uses them only
modulo, as array bounds and as the range of `pack`, so that small values reach
every wrap-around. `Mrws` is at least 1 (with 0 the server answers nothing) and
at most the byte, as clientStart checks. Windows of 2 allow echoes and
acknowledgements out of order, and a full window that is not the whole
transfer; 3 packets let the window move while packets are outstanding, which
the violations need. `MaxClients`, `MaxTransfers`, `MaxChunks` bound the
behaviours in the guards of `ClientStart` and `Transform`; `MaxDrift` how far
the counter may be driven below zero by late copies; `Capacity` and `MaxLoss`
the ordered path (`Capacity` of 4 holds a window, its resends and a control
packet; a step that would exceed it waits, as a full socket buffer makes it).

`NoWrap` names what the constants must satisfy for `Downloaded`,
`ServerNeverAhead`, the two properties of announcements and the refinement: no behaviour comes near the last
sequence number, and no free window overflows its byte. The code relies on it
and does not check it; `udp_truncates` is what happens without.
The runs of these properties satisfy `NoWrap`; `udp_wrap` does not.

The UDP runs check for deadlock and have none: the server's socket timeout is
always possible. The ordered path switches the check off, since after
`disconnect` or a crash nothing is left to do.

In `crp_transfer` four packets and a window of two let the window move twice
and leave packets unsent while others are resent; two tries (MaxTries, for 15)
and one more (MoreTries, for 20) let a loop both recover and give up. Streams
whose last segment is one byte are left to `crp_last_byte`. `MaxCommands` and
`MaxServed` bound the requests given and served. They matter: CRP numbers each
command from zero and names no command in a packet, so that `ContentIsPrefix`
holds for one command served once, and `crp_wrong_file` shows what a second
command does; a late copy of the request, served again after the command has
ended, does the same. `MaxDrift` bounds how often an idle server counts a
leftover packet. The run switches the deadlock check off: after the last
command nothing is left to do.

In the FTA runs `Tries` and `CloseTries` are the reads of two seconds that fit
into MAX_TIME_RECV_CONNECTION (5 s, three reads) and into the 3 s of closing
(two reads), and those are the code's own numbers; `Acks` and `Fins` stand for
the acknowledgements and FINs that are sent once a second, 2 of each, so that
the other end may answer between two. `MaxCommands` of 3 is the least that
opens, uses and closes a connection, or opens, closes and opens; with 4 the
invariants were checked once, over 1.1 million states. One loss or one damaged
datagram, wherever it falls, is what one resend is there to repair; two losses
break `EndsAgree`, as above. `ServerEndsWhenAsked` is proved with damage and
Ctrl-C as well as with a loss; TLC agreed once, for 5 commands, one damaged
datagram and one Ctrl-C. The deadlock check is off: the user may stop, a server
may have ended, and a thread may be dead.

### Fairness

In `CrpTransfer!Spec`: the client's deadlines pass and its reads time out (weak
fairness). A read times out when nothing comes for two seconds; a command sends
finitely many datagrams, and the network does not deliver for ever. Nothing is
assumed of the server or of delivery, so `CommandEnds` says that the client's
user gets the command line back, or an exception, even from a dead server.

In `FtaSession!LiveSpec` the threads run (weak fairness of the main thread, of
the listening threads, of the server thread and of each thread that asks for
the end); a read times out where it may, since the socket has a timeout; and a
transfer ends while its socket has one, which `CommandEnds` of `CrpTransfer`
shows for the client. The server's get and post end by the same count of
tries. Nothing is assumed of the users, of losses and of damage. `CommandReturns`,
`ShutdownEnds` and `InterruptEnds` are under this fairness and `Prompt`.

For RelDat it is stated in `RelDatFifo!Fairness`, for the ordered path only. Both programs are
loops around a socket read with a timeout, so a step that stays possible is
taken (weak fairness of connecting, sending, the server's read, and the
client's turn without a datagram). A datagram on the way arrives unless lost,
and losses are bounded; a retransmission whose timer keeps expiring is made:
these are possible again and again but not continuously, because other
datagrams come between, hence strong fairness. There is no fairness for the
user's commands, for losses, or for the crash detector. The user is assumed to
type the next command within 40 seconds. Under this fairness `TransferEnds`
and `DisconnectEnds` hold with a loss; `FinishEnds` fails with one although
every timer fires.

## Proofs

`RelDatProofs.tla` proves, for every value of the constants that satisfies the
assumptions of the modules (`PacketAssumption`, `WindowAssumption`,
`ClientAssumption`; not `NoWrap`):

| Theorem | Property |
|---|---|
| `TypeCorrect` | `TypeOK` |
| `Integrity` | `OutIsPrefix`: what is written is always a prefix of the upper-cased file |
| `WindowInBounds` | `StartInBounds` |
| `OldResends` | `ResendsAreOld` |
| `NoReuse` | `SequenceNeverReused` |

`OutIsPrefix` is far from inductive: it says nothing of the datagrams about.
`IInv` adds what makes it so. In a transfer the numbers from
`base == lastSequence - transferred` to `lastSequence - 1` stand for the
packets of the file; `ArrayInv` says that pktArray is filled exactly there and
that what is in the arrays is the packet its number stands for; `NetInv` says
the same of each datagram *of the current process*, if its number is at least
`base`. An older datagram has a number below `base` and finds no packet in
pktArray; one of an earlier process is not delivered to this client. When a
transfer starts, `base` becomes `lastSequence`, above every number used, so
`NetInv` holds again at once; that is why lastSequence must not wrap
(`WindowFree`). `HeadInv` ties the length of the file to the head: the head
never passes lastSequence, and if an earlier transfer ended early and left the
head below base, nothing at all is written. `ResendsAreOld` carries `NetInv`
over the server's retransmissions. `PhaseInv` says that the arrays are empty
outside a transfer, which finishTransfer guarantees, and that the window is
then the command line's, so that FIN can be packed.

What the client's and the server's steps do by themselves, and what holds over
any network, is in `RelDatLemmas.tla`. The proof of a step has one lemma per kind of step: `StartStep`,
`TransformStep`, `SendStep`, `ReceiveStep` for the four that change what
numbers stand for, `QuietStep` for all others of the client, `ServerStep` for
the server. `ReceiveStep` shows that the loop of moveToNext stops at
lastSequence at the latest, hence never meets the modulo.

`RelDatEchoProofs.tla` proves, for every value of the constants that satisfies
`NoWrap` as well:

| Theorem | Property |
|---|---|
| `Refinement` | `ImplementsFileEcho`: `Spec` implies the specification of `FileEcho` under the mapping |
| `DownloadedWhole` | `Downloaded` |
| `AnnouncesRight` | `AnnouncesFreeBuffer` |
| `RoomAlways` | `AnnouncesRoom` |
| `NeverAhead` | `ServerNeverAhead`, if there is one client process |

finishTransfer says "downloaded" when `transferred <= received`, which a
transfer that merely cannot go on also satisfies: what rules that out is the
window, and the proof starts at the server. It answers only when its window is
not full, so that whatever it sends announces at least one slot (`AnnounceInv`)
and at most the window and what its counter may be out by (`MaxDrift`, hence
the term of `NoWrap`). So the client's `end` is always past its head, and short
of the last number, since a process uses at most `MaxChunks` of them in each
transfer (`SpentInv`, `OpenInv`). In a transfer the echoes that have arrived are
the packets marked in sendArray, received is how many these are, and head is
the first one missing (`ReadInv`). When received has reached transferred, head
has reached lastSequence (`AllArrived`, by counting), the window is open there,
and that nothing more is sent (`~MaySend`, the guard of `FinishTransfer`) can
only mean that the file is at its end. The same counting gives the window the client announces: its buffer less the echoes
marked from the head on (`HeldBack`).

The steps of the refinement: `Transform` is `Begin`; a new echo is `Copy(k)`
with k the packets that can now be written, or a stutter when an earlier one is
missing; `FinishTransfer` is `Complete`, or `Release` when it crashes on an
empty first file; the answer to FINT, and the end of a process, is `Release`, or a stutter when nothing was being copied; the server
and the network stutter.

`ServerNeverAhead` says that the server has not dropped an echo the client has
yet to write; its invariant, `BehindInv`, is about every acknowledgement that is
on the way and every mark in the server's window: they are of echoes that have
arrived. That FINT resets the window to after its number is safe because the
client sends it when all has arrived. With two processes it is
not so: an acknowledgement of the first moves the window of the second.

`RelDatFifoProofs.tla` proves about the ordered path, for every value of the
constants that satisfies the assumptions of the modules:

| Theorem | Property |
|---|---|
| `FifoTypes` | `TypeOK` of `RelDatFifo` |
| `CounterExact` | `UnackedCounts`, under `OneLoss` |
| `FlowControl` | `WindowRespected`, under `OneLoss` |
| `StartWaits` | `StartIsUnacked`, under `OneLoss` |

`OneLoss` is: at most one datagram is lost in the whole session; one client
process; a client window (`Mrws`) no smaller than the server's; and numbers
that do not begin anew (`MaxTransfers * MaxChunks + WinSize < SeqSize`).
Window sizes, the number of transfers and of packets, and the capacity of the
path are arbitrary. `fifo_one_loss` satisfies it. The first two conditions are
needed: with two losses `UnackedCounts` and `StartIsUnacked` fail, with three
`WindowRespected` does (windows of 3, 5 packets, 9 numbers), and a second
process meets data of the first; TLC finds each. A client window smaller than
the server's by two makes the client send with a window of 0, which the server
drops, and each such drop acts as a further loss.

The argument is about order. The server stores an echo only when it is in its
window, and sends it once it is stored; the client sends packet n only when it
has the echoes up to that of packet n - WinSize, and it acknowledges each of
them first. On a
path that keeps the order the acknowledgement therefore reaches the server
before the packet does, and what the server reads lies in its window, where
adding and removing count right. `AckedBut(-1)` says that every echo the client has is
acknowledged at the server, or will be when what is on the way to it has been
read, and every echo that a packet on the way relies on is when that packet is
read; `NoGapsBelow` says that every packet sent is held by then. With no loss both hold. One
loss breaks at most one of them (`HoleInv`): a lost packet leaves a gap, with
every acknowledgement in place; a lost acknowledgement leaves a hole h at which
the window's start stops, with no gap up to the window's end, so that by the
time a packet arrives that lies beyond the window, the window is full and the
server takes no packet. `moveWindow` can forget an acknowledgement only of the slot
`end`, one past the window, which `inrange` takes for inside; to get one there
takes a hole and a gap, two losses.

The other parts of `IInv` say what is on the way in which phase: `PathInv` and
`FinishInv` that what announces the end of a transfer comes after all the
transfer sent, and that what an earlier phase left (a SYN sent twice, a FINT
sent again) is ahead of it and finds the window empty; `CarryInv` that echoes and
acknowledgements about are of packets the server holds, and packets about are
not acknowledged ahead of themselves; `ClientInv`, `WinInv`, `ServedInv` what
each end knows by itself. The proof has a lemma per step, and for the server
one per case of its switch. That resends leave in the order of the scan, from
the head or the window's start on, is `ScanVisits`.

`CrpProofs.tla` proves, for every value of the constants that satisfies
`CrpAssumption` and `TransferAssumption`:

| Theorem | Property |
|---|---|
| `TypeCorrect` | `TypeOK` of `CrpTransfer` |
| `WindowNeverLeft` | `WindowKept`: one window is out while packets are unsent, and no loop runs past the list |

The invariant is local to an end (`Fits`): its record has its type, it has a
command when it is about one, a request when it answers one, and while packets
are unsent `i - j` is the window and `i + unsent` the number of packets. One
lemma (`Becoming`) says that a step that leads an end to a state that fits and
sends datagrams that are well formed keeps `Inv`, the exception of packing
included; then each action has only to show that the state it leads to fits.
In `SendAgain` the two sums make the new `i` the old one, so that the resend
loop stays in the list.

`CrpFileProofs.tla` proves, for one command that is served once (`Once`), and
again for every window, file, segment size and number of tries:

| Theorem | Property |
|---|---|
| `Prefix` | `ContentIsPrefix` |
| `Complete` | `Whole`, if no stream's last segment is of one byte |

With a second command both may fail (`crp_wrong_file`), which is what `Once` is
for; the condition of `Complete` is the one `crp_last_byte` violates. The
invariant `OneInv` says what a number stands for: a data packet about has the
number of its segment plus one (`Numbered`), the request being packet 0; a
sender's next number is `i + 1`, a receiver's next expected one is the length
of what it has plus one (`Placed`). Neither receiving loop asks whether a packet
is one of data: what saves it is that no other datagram that goes to the
receiver has a number above 0, which is the last clause of `Numbered`. For
`Whole`, `Placed` says that what is left to read is the bytes after the
segments had, less one (`Remains`), by `RemainsFirst` and `RemainsNext`; when it
is not above zero, `PacketsBound` gives the number of segments. Before the
request is served there is only the request (`Unserved`), so that an idle
server has counted nothing.

`CrpDeliveryProofs.tla` proves `Refinement`, that is `ImplementsFileDelivery`,
under the same two conditions. What `FileDelivery` sees is local to an end, so
that the step correspondence is too: `Moves(h, g)` says which step, if any, an
end makes that goes from h to g. `Granted` for a get and `StartReceiving` are
`Await`; the first and the next packet are `Take`, or `Deliver` when nothing
remains to be read, which `PacketsBound` shows to be the last segment
(`ReceiverLoopMoves`); running out of tries is `GiveUp`; an exception is a
`GiveUp` too, unless the file had been written, and everything else, among it
every retransmission, late copy and early packet, is a stutter.

`FtaProofs.tla` proves, for every number of tries, losses, commands and
interrupts, with and without `Prompt` and `QuickUser`, the first two, and under
`OneLoss` or `OneFault` the others:

| Theorem | Property |
|---|---|
| `SocketExclusion` | `SocketExclusive` |
| `TypeCorrect` | `TypeOK` of `FtaSession` |
| `EndsAgreement` | `EndsAgree`, under `OneLoss` |
| `TimeoutsSet` | `WaitsWithTimeout`, under `OneLoss` |
| `ServerGoesOn` | `ServerEndsWhenAsked`, under `OneFault` |

`LockOwned` is the invariant of the first: a listening thread that has begun
has the lock, and a command that uses the socket has it. It is inductive by
itself: a thread that dies, of damage or an exception, keeps the lock, and
Ctrl-C takes a command off the socket without giving the lock back. The
types are proved part by part (path, client, server), and the server's flags
apart from its counters.

`OneFault` is: at most one datagram lost or damaged, `Prompt`, a user who waits
for the listening thread, at least three reads to a deadline of connect and
accept, two to one of closing, and two acknowledgements; these are the code's
own numbers. `OneLoss` of this module adds: no damage and no Ctrl-C at the
client. With fewer tries or acknowledgements, with two losses, with a quick
user, or with Ctrl-C, the ends may disagree (TLC finds it); with a quick user,
or with three damaged datagrams, the server may end unasked. How many commands
are typed, and which, is arbitrary, and so are the number of FINs and when the
server is told to end.

The invariant, `InStep`, has a part for each place of the server thread
(`AtListen` to `AtInit`). Each part lists where the client may be meanwhile and
exactly what is on the way: acknowledgements and nothing else, or
acknowledgements and one last datagram behind them, a Syn, a request, or a FIN;
or one answer on the way back. The counters of tries are tied to `Faults`, the datagrams lost or damaged: one
such datagram costs each end at most one try, and a Syn that the server throws
away with its old socket costs the client another, so that three are enough.
While the server waits in accept or in closing, the acknowledgements on the way
and `Faults` are together at least what the client has sent, so that one of the
two arrives. Leftover acknowledgements
are harmless everywhere (accept, receive and listen drop or take them as they
should), which is why their number is not bounded. Once someone at the server
has asked for the end, nothing is claimed.

Damage and Ctrl-C take the ends out of step, and `Sound`, the invariant of
`ServerGoesOn`, says what is left: the server's thread is dead; or the client
is `Mute`, since the thread that has its lock is dead or waits for itself, or
its process is about to end; or the server has dropped a damaged
acknowledgement in accept and listens, to a client that is connected and sends
no SYN (`HalfOpen`); or Ctrl-C came while the user could type, and the listening
thread may read on (`Leaving`). In the second no FIN with ACK is on the way to
the server, in the third neither that nor anything for the client to answer,
in the fourth no FIN on either way: so the server is never in the last steps of
`close`. The proof shows that one fault or interrupt leads from `Places` to one
of these, and that a step of either end, a loss or a second Ctrl-C leads from
each of them to one of them.

Only model-checked: all liveness (`TransferEnds`, `DisconnectEnds`,
`CommandEnds`, `CommandReturns`, `ShutdownEnds`, `InterruptEnds`; fairness and
ENABLED are out of the proof system's reach). Every invariant and every action
property of the passing runs is stated by a theorem.

## Not modelled

* Damage to a header, which no check of the code would notice, and datagrams
  of strangers.
* Text whose length toUpperCase or the charset changes: the client then
  computes the checksum over another length than the server did.
* Local failures of `send` and of reading or writing files; the statistics of
  `istext`, which only decide whether the process exits (`Die`).
* Time other than as what may expire. In `RelDatFifo` no process dies.
* Of the CRP transfer: a change of the windows during a transfer, the
  arithmetic of the checksum (damage is noticed), and the status of a file that
  does not exist (a transfer of one packet after which nothing is written).
* Of FTA: the command window and input that is no command (they change nothing
  else); the second, IPv6, socket (`FTA-server.py:109-114`: a thread of its own listens on it, with the
  same code, when the thread of the first has ended); the files; the
  seq_nbr that FINs of another thread take from a transfer that is under way
  (there a transfer is a phase that reads what comes and resets the counters);
  acknowledgement numbers in opening and closing, which no reader looks at.

## Plan

1. RelDat: `WindowRespected` for two losses; FTA: `ServerEndsWhenAsked` for two
   damaged datagrams, which TLC finds to hold.
2. CRP's transfer: a composition over a path with bounded loss, where the last
   window that is not resent and the second acknowledgement of the request can
   be judged.
3. FTA: `FtaSession` with the counters of a transfer that FINs of the other
   threads change, and with a second client that asks for the server while the
   first is connected.
4. Checked as pure functions over bounded inputs: split_into_segments (the
   length prefix) and the checksum's carries.
