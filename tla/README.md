# TLA+ models of the GCS-UmemotoLab ground station

This directory models the concurrent parts of the ground station in TLA+, checks
them with TLC on small instances, and proves the safety properties of every
component's model with TLAPS. `PROJECT.json` maps every definition to the lines it
stands for, lists the runs, the hazards of the code and the theorems.

## The system

| Component | State it keeps | Operations | Talks to | What makes it correct | Module |
|---|---|---|---|---|---|
| **Command dispatch** `app/rtk_tools/command_dispatcher.py` | `_pending_commands` under a lock | arm, disarm, takeoff, land, force arm, restore; ACK handler; `check_timeouts` | API and UI (calls), receive thread (ACKs), router thread (retries), timer threads (delayed ARM) | a command is sent a bounded number of times, its own answer ends it, once tracked it is not forgotten | `CommandDispatcher` |
| **Link and backend lifecycle** `app/mavlink/connection.py`, `app/api/routes.py` | socket or serial port, `running`, back-off, ssh tunnel | connect, disconnect, both receive loops, rebind, reopen | kernel, router callback | a stop ends the thread and releases everything; a broken socket or port is replaced | `UdpConnection` |
| **Message router, telemetry store** `app/mavlink/message_router.py`, `app/rtk_tools/telemetry_store.py` | latest message per drone, last-seen times | file a message, expire, read | receive and router thread write, event loop reads | a drone that is silent is not taken for online | `Telemetry` |
| **WebSocket broadcast, REST** `app/api/websocket.py`, `server.py` | set of clients | accept, broadcast round, drop | browsers, store | every client that is there gets its payloads; dead ones are dropped | `Telemetry` |
| **Web dashboard** `web/static/js/` | socket, retry count, cards, focus | reconnect, redraw or update the cards | WebSocket, REST | the cards show what the backend last knew | `Dashboard` |
| **RTK base station** `rtk_tools/rtk_base_station_v2.py` | serial buffer, one bounded queue, client list | serial reader, TCP handlers, UDP broadcast, status reader, stop | F9P receiver, forwarders | corrections arrive whole and in order | `BaseStation` |
| **RTK forwarder, TCP-serial bridges, NTRIP relay, injector, UDP-TCP bridges** | frame buffer, batch, handle, client list | reconnect, cut frames, batch, health timeout, fan out | base station or caster, flight controller | corrections come out in order, at most once, and in whole frames where they are cut; a dead peer is replaced | `RtcmRelay` |
| **F9P tools** `rtk_tools/f9p_*.py`, `scripts/ichimill_positioning.py` | verdict per item, baseline | write, reset, poll, report, wait for RTK fixed | receiver over its serial port | what they report is so; what was asked for is stored | `F9pTools` |
| **GPS logger**, **guided control**, **RTK monitoring state** | open files; timers; two dictionaries | rotate and write; timed throttle steps; get and set | router; connection; API | | none |

The rest of the repository is one-shot checks (preflight, RTK health), the Qt
desktop UI (widgets around the same dispatcher), plots, entry points, deployment
files and `legacy/`.

What is hard: five kinds of thread share the dispatcher's table; a receive
thread outlives the `stop` that ends it; commands and answers are lost, late and
reordered; one queue has several consumers and a serial port two readers; the
event loop changes a set across an `await`; a page reconnects to a backend that
restarts; correction streams break in the middle of a frame or a batch; an answer
of the F9P is known by its class and id alone. `PROJECT.json` lists the hazards,
each at its line, with the properties that cover it or why none does.

## Modules

| Module | Models | State and actions |
|---|---|---|
| `BoundedDelivery` | abstract: what a tracked command is owed | per call, transmissions decided and made, and an outcome; Begin, Await, Review, Transmit, Answer |
| `CommandDispatcher` | dispatcher, retry loop, timer threads, link and drones | `live`, `seq`, `place`, `status`, `retries`, `age` are the entries of `_pending_commands`, their keys, dictionary order and fields; one action per operation, timer callback and critical section; sending and tracking are two steps, as are deciding a retry (under the lock) and resending (outside it) |
| `UdpConnection` | connect, disconnect, router start, the UDP and the serial receive loop, tunnel | one record of variables per `MavlinkConnection`, whose `kind` is UDP or serial; `pc` is the place of its receive thread; `bound` is the kernel's list of sockets on the port; `stop` is two steps, before and after its join |
| `Telemetry` | router, store, broadcast loop, socket endpoint, connect and disconnect, restart | `beat` and `age` are `_data` and `_last_seen`; `round` is the place of `broadcast_loop` with its payload and the sockets the iterator has yet to reach; `far` is the other end of each socket |
| `Dashboard` | `websocket.js`, `dashboard.js` | per page its socket, retry count, cards and focus; one operator per handler, with no backend |
| `GroundStation` | `Telemetry` with `Dashboard` | a send of the backend is a message of the page; other tabs and `rtk_data_collector` come and go |
| `BaseStation` | base station | `port`, `buffer`, `held`, `queue`, `hand`, `got` follow a frame from the tty to a client; `reader` and `at` are the places of the threads |
| `SharedFifo` | abstract: what a source with several takers promises | pieces put in, pieces given to each taker |
| `LossyFifo` | abstract: what a way for corrections promises | pieces put in, pieces that came out |
| `CorrectionPath` | a shared source with a program behind the connection of one taker; two theorems, no run | the state of both; `places` are those, in what the taker was given, of the pieces that come out |
| `RtcmRelay` | the nine programs that hand corrections on | `job` is the program; `stream`, `buffer`, `batch`, `out` follow the pieces; `src` and `sink` are the connections; the programs share an action where their code does the same and have their own where it differs |
| `F9pTools` | twelve uses of the F9P tools and a receiver | `job` is the program; `Script(p)` is what it does, one exchange after the other; `line` and `tty` are the two directions of the port; `rover` has RAM and flash |
| `SequenceFacts` | lemmas on sequences for the proofs | |
| `...Proofs` | theorems and proofs about the module of that name | |
| `MC...` | instances for TLC | sets and requests for the `.cfg` files |

Operators named `Slip...` are wrong on purpose. Each is a plausible mistake in
the operator that follows it, and is used by nothing; the mutants of
`PROJECT.json` put it in that operator's place and expect the named property to
fail.

### Abstractions

* **Dispatcher.** A key `(system_id, seq)` keeps its two components; `place` keeps
  the dictionary's insertion order, which decides whose entry takes an ACK.
  Message contents are the command id and a name for the parameters. The wire is
  two sets: what is never taken out has been lost, and order is arbitrary. Time
  is `age`, ticks since `sent_time`; an entry is due when `age > CmdTimeout`. The
  operator's thread (asyncio or Qt) runs a call to its end before the next. The
  model is of the UDP link, where a send on a stopped connection raises and one on
  an open link may, when the network is not reachable or the receive thread is
  between two sockets; on a closed serial port `send` returns False, nobody looks at it, and the command is
  tracked and retried. ACK and timeout callbacks only change labels of the UI.
* **Link.** Python and kernel behaviour that matters is kept: `SO_REUSEADDR`
  lets several sockets bind the port and the last gets the datagrams; closing a
  socket does not wake a thread polling it; a socket whose bind failed has no
  timeout; a serial port is not shared with another descriptor of the process.
  Delays are steps. `_consecutive_failures` is counted up to `FailureCap`.
* **Telemetry and pages.** A message is a HEARTBEAT, a STATUSTEXT or another one;
  its contents are left out. Building the payload awaits nothing, so it is one
  step; the router thread's writes in between its reads are as good as later
  ones. A send is one step per socket. Members of a set that is changed under an
  iterator may come before or behind it. A round whose set has changed may end
  while its last send still waits for a silent client, where the code ends it when
  that send is over. A page draws one card per drone.
* **Base station.** A frame is two pieces of the byte stream; opening a serial
  port flushes it; a full tty drops. All frames have the same length, and a second
  piece never looks like a frame's start. TCP clients read what they are sent.
* **Relays.** A piece is half a frame, and a connection may begin with either
  half: `ntrip_relay` sends a new client whatever it reads next. The parsers look
  for a 0xD3 and check no CRC, so one within such a half frame passes for the start
  of a frame; its wrong length is taken to end with the next piece, and `lured`
  says that it happened. A write that fails may have put out some of its pieces.
  For a program that does not cut frames a piece is one read. Ticks of
  a timeout are left out: a timeout may expire whenever there is nothing to read.
  For `ntrip_relay` each client is an output of its own, covered by `NoGap`: it
  gets a contiguous part of what the relay reads. What `LossyFifo` takes for the
  output of this program is what it has read; of the others it is what they write.
* **F9P tools.** The items that a program writes are two groups, each set or not;
  ACK and NAK of a write are left out, as the programs only print them.
  `write_rover_uart2` sends CFG-UART2-BAUDRATE in a message of its own, which is
  taken with the rest of its group. A deadline expires whenever the answer is not in
  the tty; nothing says that it comes. Whether `f9p_fix_monitor` sees a NAV-PVT at
  all depends on the type of `msg_cls` in its library, so it may pass over any of
  them. `base.had` and `base.sure` are history for a property. The phases of
  `f9p_config_all` in mode full that run other programs are one step with any
  outcome. The wait of `ichimill_positioning` cannot succeed (below), so nothing
  after it is modelled.

## Runs and what they show

| Run | Instance | Shows |
|---|---|---|
| `DispatcherTable` | 3 calls, 1 drone, 1 retry, accepting drone, symmetric calls; DISARMs, or DISARMs and one or two TAKEOFFs | the retry account, the table before the first deletion, no new transmission of a settled command, and refinement of `BoundedDelivery` |
| `DispatcherCalls` | 2 calls, 2 drones, 1 retry, both answers; every way to arm, and RESTORE, beside a DISARM; LAND beside a slow LAND | answers do not cross; every call ends |
| `DispatcherAckLost` (violation) | as `DispatcherCalls` | an old entry takes the ACK of a new command |
| `DispatcherEntryLost` (violation) | as `DispatcherTable` | a key collision overwrites a waiting command |
| `UdpLink` | 2 connections of either kind, tunnel on, 2 timeouts, cap 2; 243,654 states | back-off and link state agree; joined connections leave nothing; a stopped thread only winds down, and ends if it is not blocked |
| `UdpPort` (violation) | same, tunnel off | a stopped connection ends with the port bound |
| `UdpRebind` (violation) | same, tunnel off | a failed rebind is never retried |
| `GroundStation` | 1 drone, 1 page, 2 sockets, 1 retry, offline after 1 tick; 368,130 states | an open browser stays registered; a page with an open socket goes on hearing; a silent drone ends up shown as offline |
| `BaseStation` | 2 clients, with UDP and without, 3 frames, queue of 1, tty of 3 pieces | frames are shared out once, in order and, on an undisturbed port, whole and complete; refinement of `SharedFifo`; a blocked reader resumes if UDP is on or a client stays and reads |
| `BaseStationShares` (violation) | 2 clients, 1 frame, no UDP | a client does not get a frame another one took |
| `RtcmRelay` | every program, 2 clients, 5 pieces, batch of 4; 209,332 states | nothing is lost while nothing breaks, whole frames wherever a connection begins or breaks, no gap for a relay's client, refinement of `LossyFifo`; a batch leaves; who connects is served, unless a stalled client holds the relay's lock for good |
| `F9pTools` | every program with every option, 3 requests under way; 2,211,024 states | reports agree with the receiver unless an answer was late; what was asked for is in RAM and flash; no program turns back in its script |

**Bounds.** A key collision needs three entries: two, a deletion, and a third.
One drone suffices for it because a collision needs equal system ids; two drones
are there for the answers. `CmdTimeout = 0` makes an entry due after one tick,
and `MaxRetries = 1` has both branches of `check_timeouts`. Two
connections are the old and the new one; a third adds nothing an old one does
not do. `MaxTimeouts = 2` has both timeout branches. A queue of one is full and
empty within three frames, and three pieces are one and a half frames, so the tty
can tear one. Two sockets are the page's and a tab's that comes and goes, or the
page's old one and its new one; one retry has the page that reconnects and the
one that gives up. Drones do not interact in the store or the payload. Five pieces
are two frames and a half, or a half and two frames: a batch of two goes out full,
and a connection can begin, break and begin again on either side of one. Three
requests are a reset behind both writes, or a late poll ahead of two; the program
sends no more before it waits. The proofs then hold for all of these bounds.
`CHECK_DEADLOCK FALSE` stands where a system may come to rest, when the operator
asks for nothing more or the receiver is silent; `GroundStation` checks deadlock.

**Fairness.**
* Dispatcher: timer threads, the thread that tracks what it sent, the router's
  loop and the clock go on (`WF`); the operator, the link and the drones owe
  nothing, so `EveryCallEnds` holds with every message lost.
* Link: receive threads are scheduled, waits end and joins return; no datagram has
  to arrive, nothing has to wake a blocked `recvfrom`, nobody has to disconnect.
* Base station: threads are scheduled, and UDP datagrams are taken. That a client
  takes what is sent to it is no fairness of the model but a hypothesis (`Reads`) of
  the two properties that need it; serial failures, clients coming or leaving, and status reads are not fair.
* Ground station: the clock goes on, the event loop runs what is ready, uvicorn's
  keepalive gives up a far end that stays silent, and browsers handle a close.
  Drones, operators and new tabs owe nothing. `KeepsHearing` and
  `SilentShownOffline` assume that sockets stop coming and going: a round broken
  off by the iterator can otherwise leave the same page out again and again.
* Relays: timeouts expire and ready sockets are served; the thread that accepts
  gets the lock in its turn, and a client that reads again and again, if with
  stops, takes a piece (`SF`, as `sendall` goes on where it was). A client that
  stalls for good owes nothing: `sendall` has no timeout, and `EveryoneServed` names
  this as the one thing that can keep another waiting. Sources and ports owe nothing.
* F9P tools: none. `UBXReader.read` and the `readline` of mode full come back when
  there is something to come back with, whatever the deadline around them, so that
  these programs end is nothing the code promises.

## Proofs

All hold for every value of the constants that satisfies the named `ASSUME`s of
the modules (finite sets of calls and sockets, sizes in `Nat`, or positive where
the code divides or indexes by them, special values outside the sets). Each
`...Proofs` module defines an inductive invariant `IInv`, shows that `Init`
establishes it and every action keeps it, and reads the theorems off it.

**`CommandDispatcherProofs`.** `IInv` is `TypeOK`; `Lifecycle`, which ties the
place of a call's thread to its entry; `RetryBudget`, not inductive without
`Lifecycle`, since an entry must not be resent once it is gone; `KeysBelowSize`:
before the first deletion all tracked entries are live, have sequence numbers
below the table's size, and so collide with no new one; `HonestLink`: an ACK on
its way carries an answer that the drone gave; and `AnswerFromItsDrone`, which
needs it. `NothingNewOnceSettledKept` follows action by action, and
`DispatcherImplementsBoundedDelivery` maps a call to the transmissions decided
and made and its entry to an outcome: each action is a step of `BoundedDelivery`
or a stutter under the invariant.

**`UdpConnectionProofs`.** `IInv` is `TypeOK`, `BoundOnce` (no socket is in the
kernel's list twice), `StopUnderWay`, and `Thread(g)` for each connection: what is
so of its socket, flag, back-off and tunnel at each place of its loop. A step is a
step of one connection, `StepOf(g)`; the frame `Others(g)` carries the rest over,
but for the shared list of bound sockets. `TypesKept`, `LinkUpMeansFresh` and
`JoinLeavesNothing` follow. `StopIsNotUndone` is about steps: `StepsLeft`, a number
for each place of the loop, falls with each step of a stopped thread, so it takes
no further round and makes at most one more rebind. It is the safety half of
`StopEndsThread`; that the thread is scheduled is the half that fairness gives.

**`BaseStationProofs`.** What is in each stage (tty, buffer, held, queue, hands,
sent) is behind what is in the one before it: `Stages`, `StreamInOrder`,
`FramesInOrder`; `Owners` says that a frame has one, and `Complete` that on an
undisturbed port the stages together have all of them. `FramesOnceInOrder` and
`UndisturbedIsLossless` follow; the first needs the order of the stages, as a
queue in order is not enough once a frame may be dropped.
`StationImplementsSharedFifo` maps a frame to the place of its first piece: what a
client is sent next is above all it has, and nobody else has it, because it comes
out of the one queue.

**`GroundStationProofs`.** `IInv` is `TypeOK`, `OpenIsRegistered` and
`DeadHaveLeft`: a socket a round has found dead has left and its place is not
taken again, which is what keeps `EndRound` from forgetting a new one.
`PagesImplementBackend` shows that the composition is a behaviour of the backend
by itself; what was proved of the backend then holds with pages attached.

**`RtcmRelayProofs`.** `Shapes`, `Roles` (which program uses which state),
`InOrder` (output, batch, half frame and stream rise, in this order), `InFrames`,
`Lossless` and `ClientsServed`. `InFrames` is about programs that cut a TCP stream
and have not been lured: while the connection stands, the batch is whole frames and
half frame and stream follow on it without a gap, from wherever the connection
began; a program without a connection has no batch. `FramesStayWhole` is about steps
and follows from it: what a step writes is the batch, a complete frame or a part of
either. The many steps that lose something share one lemma, `LosingStep`.
`RelayImplementsLossyFifo` follows: what is appended to the output is above all
that is there and not above what was sent. For `ntrip_relay` it needs `ReadInOrder`
as well: what it has read rises and is below what is still in the stream.

**`CorrectionPath`.** The two abstract promises put one behind the other.
`OneTakersWay`: for each of its takers a `SharedFifo` is a `LossyFifo`.
`PathIsAWay`: with a `LossyFifo` that reads what that taker is given, the whole is
a `LossyFifo` from the pieces put in to those that come out, in any interleaving of
the two, as long as they do not move in one step. `SourceInv` (what each taker has
rises and was put in) and `PathInv` (the places read rise) are the invariants. The
base station and the relays each implement their part, which the theorems above
show; the units of the two models differ (a frame of `BaseStation` is two pieces of
`RtcmRelay`), so it is their promises that are composed here and not their steps.

**`F9pToolsProofs`.** `Port` types the two directions; `Faithful`, for a check
that is undisturbed, says what is on the line at each place of the script: only
writes before the version request, that request last, and from then on each poll
alone, so that what it brings back is the value of its key and stays so until the
report. `Recorded` carries this over to the monitor's baseline: if its check was
undisturbed, what it noted is what the receiver had. `Asked`: each item to be written is in place or on its way with no reset
before it. `Watch` is for the fix monitor, `Others` for what never succeeds.
`SuccessIsTrue`, `FailureHasReason`, `MonitorIsTruthful`, `WrittenAsAsked` and
`FixReportedIsTrue` follow. `ToolsGoForward` is about steps and has an invariant of
its own, `Rounds`: tries are counted in polls only, and one is left whenever a
request may be sent. The place in the script and the round of the exchange, both
bounded, make a variant function, so that no program goes round for ever; two may stay where they are, as
they should: the monitor, from check to check, and the wait for a fix, which hears
answers until its time is over.

**Only model-checked:** liveness (`EveryCallEnds`, `StopEndsThread`,
`ReaderUnblocks`, `KeepsHearing`, `SilentShownOffline`, `BatchLeaves`,
`EveryoneServed`), which rests on fairness and `ENABLED` and is out of TLAPS's
reach; of `StopEndsThread` the safety half is proved (`StopIsNotUndone`). The five
properties that fail have no theorem.

## Findings

* An answered command stays in the table and takes the ACKs of the next one with
  its id to that drone; the next one is resent and reported as timed out.
* Keys made from the table's size collide after a deletion and overwrite a
  command that is waiting.
* `disconnect` closes the socket under a receive thread, which binds the port
  again on its way out.
* A rebind that fails in `bind` leaves the loop blocked on a socket without a
  timeout.
* The base station's clients share the frames among them; the architecture
  document says that each gets all.

Seen while reading, without a run:

* **Dispatcher.** The class docstring promises exponential back-off of retries
  (`command_dispatcher.py:14`); the code waits the same five seconds each time.
* **Dispatcher's sends.** `sock.sendto` may raise on an open link
  (`connection.py:416`); a command of which the send raises is not tracked, and when
  a timer thread sent it, nobody hears of it.
* **Link.** A serial link stays reported up while its port is closed, and
  `serial_max_errors` cannot be reached.
* **Store.** The online flag comes from any message, a drone known by STATUSTEXT
  alone is never online, `add_status_text` keeps 50 where its docstring says 20,
  the router calls `update` twice per message, NAMED_VALUE_FLOAT history is
  unbounded.
* **Broadcast.** One sleeping client stalls `await ws.send_text` for all; the
  `RuntimeError` of the iterator aborts a round and forgets its `dead`.
* **Dashboard.** "ARM ALL" and its like take every drone with a mode for online
  (`getOnlineDroneIds`), so offline ones are sent commands and online ones without
  a HEARTBEAT are not; while a field of the grid has the focus no new card is
  drawn and stale ones stay; with the link down Go and RTL stay enabled; after ten
  retries the page gives up for good; a second confirm dialog runs both handlers;
  the mode list has "RTL" where the backend knows "RTH".
* **Verification of a rover.** `f9p_verify_config.py:16-24` has other key ids than
  `f9p_config_all.py:56-60` for the items of UART2, and `f9p_rover_config` shares them:
  no key is found in any answer, every rover check of `f9p_verify_config` is a
  warning, and the check passes whatever the receiver holds; `f9p_rover_config` never
  succeeds. `f9p_verify_config` expects UART2OUTPROT-UBX to be 0 (line 381),
  `f9p_config_all` writes and expects 1 (171-173).
* **Reads without an end.** `UBXReader.read` returns on a UBX frame or an empty port:
  a stream of NMEA or RTCM holds `f9p_fix_monitor` past its deadlines (170-172); the
  `readline` of mode full has none (`f9p_config_all.py:1004`). `f9p_fix_monitor.py:181`
  compares `msg_cls`, which is bytes in pyubx2, with an integer.
* **F9P tools.** `--no-flash` with a reset takes back what was written though it is
  reported OK; an item without an answer is a warning that counts as verified; a
  late CFG-VALGET answer is taken for the current key; `_check_flash_save` polls
  RAM and reports flash; the configurator's `all_ok` ignores its RTCM check;
  `verify_uart2_config` returns None when it was answered, on which `configure`
  calls `get`; a baseline taken from a dead receiver makes every later check
  "changed"; mode full can end in an uncaught `TimeoutExpired`;
  `f9p_fix_monitor --once` that heard nothing exits with 0 and reads at most two
  frames a second, so a faster stream is read ever later.
* **`ichimill_positioning`.** It waits for fixType 6, which its own table does not
  have, waits for an ACK with a wrong id, leaves TMODE3 disabled when it fails, and
  starts another GGA thread with each reconnection.
* **Relays.** The forwarder with a TCP source and a UDP output never forwards;
  its batch waits for a receive timeout, so a slow steady stream exceeds the 0.5 s
  of `rtk_forwarder_service.py:274`; after the end of the stream `tcp2serial`
  spins until its health timeout and keeps a broken handle; `scripts/tcp2serial`
  never gives up a silent client; the parsers check no CRC, so after a connection made
  in the middle of a frame they may take its bytes for a frame; `sendall` in
  `ntrip_relay` (line 146) has no timeout; the header loop of `ntrip_relay` spins at the end
  of the stream, and a stalled client holds its lock for as long as it stalls; `udp_tcp_bridge` and
  `direct_bridge` spin on an empty read.
* **`rtk_data_collector`** pairs a stale u-blox sample with a fresh Pixhawk one.
* **`rtk_state.py`**: the `update_*` functions assign local names and change nothing.

## Not modelled

* **Guided control, GPS logger.** Each call of the first packs and sends one
  message, and nothing starts the timers of `indoor_test_sequence`; nothing
  constructs the second.
* **RTK monitoring state.** Its updates change nothing.
* **Desktop UI, graphs, raw data.** Widgets and drawing around what is modelled;
  the dispatcher's operator stands for their handlers.
* **Preflight and health checks, entry points, deployment, `legacy/`.** One-shot
  sequential I/O, wiring, and superseded code.
* Of what is modelled: dialogs and selection of the dashboard, read-only REST
  handlers, the injection log and statistics, frame encoding and CRC arithmetic,
  GGA sending, and what follows a wait that never ends well.

What could follow: the dashboard's selection and dialogs composed with the
dispatcher, and the steps of the base station and of a forwarder composed in one
unit, where `CorrectionPath` composes what the two promise.
