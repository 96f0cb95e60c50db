# Formal models of wind_code

`wind_code` is a collection of C programs for OpenWrt boxes and small boards.  Its largest
part is `ikcc_service`, a home gateway that lets sub-devices on the local network talk to a
cloud service; beside it are a 4G reporting daemon (`net4g`), a serial to TCP bridge
(`tcptty`), a bed sensor daemon (`leoman_bed`), two vending machine boards
(`pos-salemachine`) and NOR flash drivers (`nor-spi-driver`).  This directory holds TLA+
models of these programs, the TLC configurations that check them on small instances, and
TLAPS proofs of the properties that matter most.

Paths below are relative to `src/ikcc_service/src/src/` unless they start with `src/`;
`xg/` abbreviates `xlinkgateway/`.  `PROJECT.json` maps every definition to its lines and
lists the hazards each property is about.

## 1. Inventory

| Component | State it keeps | Operations | Interacts with | What is hard |
|---|---|---|---|---|
| Proxy core (`xg/src/XGCore.c`, `XGProtocol.c`, `ConnectList.*`, `ConnectTask.*`, `DataQueue.*`) | list of `Connect` records (both sockets, their states, receive buffers and send queues), two task lists, two send queues | one endless loop of the core thread (remove, parse, route, start tasks, apply results, time out, select, accept, send, receive); the connect thread; `XGCoreSendData` | callbacks into the application; sub-devices and cloud over TCP | tasks and results carry only a device id while devices reconnect; descriptors shared by two threads; descriptor 0 used as "none" |
| Receive buffers and framing (`xg/src/XGByteQueue.c`, heads of `XGProtocolClient/Server`) | ring buffer with free-running indices | push, peek, pop, size | the proxy core | wrap-around, split and joined frames, full buffer |
| Gateway application, API and UDP protocol (`xg/xlink_gateway.c`, `xg/sqlite/*`, `xg/GAProtocol.c`, `xg/src/XGageway.c`, `XGProtocolUdp.c`) | device table, join window, pending requests | join, restart, removal and key handshakes; the apps' commands | proxy core, xlink SDK, console | table and devices drift apart; lost and doubled datagrams; three threads on one table |
| The gateway's own cloud device and the xlink SDK (`xg/XDevice.c`, `xg/xlink/*`) | TCP client state, phone sessions, settings | connect, log in, ping, redirect; phone sessions, resends; saving | application, `config.ini` | two threads without a lock; timeouts, redirects; loss of power while saving |
| Timer service (`ft_timer.c`) | two lists of timers, a semaphore, a tick count | `add_timer`, `del_timer`, tick thread, handle thread | any thread, callbacks | lost wakeups, lists changed by three threads, an unlocked test |
| Message centre (`msg_transfer.c`, `service_common.c`, `hw_management.c`, `ds_management.c`) | two queues, registration lists, last data of each device | register, unregister, push, the transfer thread | net server, cloud programs | callbacks under a lock, registrants that come and go |
| Device network server (`ft_ikcc_net_server.c`, `ikcc_native_socket.c`, `tool/ft_map.c`, `tool/ft_set.c`) | map of devices with heartbeat counters and queues | login, data, heartbeat, logout, one thread per client | message centre | nodes freed while another thread uses them, heartbeat timeouts |
| `src/net4g` | server session, serial port, output, position | login, reports, the server's commands, upgrade | server, modem, serial line | late and joined messages, files shared by threads, a server that goes deaf |
| `src/tcptty` | connection, serial port, who holds the device | login, heartbeat, commands, reports | server, device | descriptors closed twice and used again |
| `src/leoman_bed` | sample window, the night's file, reports | sampling, signals, reports, the panel's questions | sensor, card, panel | signals at any time; a report replaced while it is read |
| `src/pos-salemachine` | sale in progress, mailboxes | the machine's commands, deductions | machine, card terminal | an answer that comes after the wait |
| Flash drivers (`src/nor-spi-driver`, `spi_flash.c`) | chip, protection, address mode | read, erase, write, lock | kernel, boot loader | page ends, resets between commands |
| Shell, console, ssid, Lua services; SQLite, cJSON, comgt, ppp scripts; `src/net4g/src/main.c`, `test.c` | - | wrappers, third-party code, code that is not built | - | not modelled |

What makes the components correct:

* Proxy core: one live connection per device; a descriptor is closed by its owner and by
  nobody else; the table shows online what is online; data reaches the device it was
  addressed to; a connection that waits for the cloud is answered.
* Receive buffers: whatever the network does to the byte stream, the protocol layer sees
  the frames that were sent, whole and in order.
* Gateway protocol: an app is told the truth about a key; a deleted device learns of it;
  the address in the table follows the device.
* xlink SDK: logged in means that the server accepted; the connection comes back; a phone's
  message is handled once and answered to its sender; settings outlive the power.
* Timers: a timer armed is run, once for each time it was armed, and the handle thread
  does not sleep while there is work.
* Message centre and net server: messages keep their order and their device; a silent
  device goes offline.
* Boards: reports are well formed and complete, goods are paid for, a bridge whose faults
  are over comes up, commands are answered once, flash holds what was written.

## 2. Modules

| Module | Role |
|---|---|
| `XGCore` | the proxy core: core thread, connect thread, application threads, device table |
| `MCXGCore`, `MCXGSingle` | instances of `XGCore` for TLC |
| `XGCoreProofs` | type correctness, `OneActivePerDevice`, the device table (`OnlineNotShownOffline`, `ShownOnlineJustified`), `DataStaysWithDevice` and `HandlesExclusive`, proved |
| `XGByteQueue` | the ring buffer as operators on a record |
| `FrameChannel` | abstract specification: a FIFO of frames |
| `XGRecvBuffer` | one direction of one connection over `XGByteQueue`; implements `FrameChannel` |
| `FtTimer`, `FtTimerProofs` | the timer service; `SemCovers`, `NoLostWakeup`, `LinkedOnce` and `RunsOncePerAdd`, proved |
| `LossyFifo` | abstract specification: a relay that may lose but keeps order and never doubles |
| `MsgTransfer` | the message centre and the native socket of cloud programs |
| `NetServer` (extends `MsgTransfer`), `MCNetServer` | the device server composed with the message centre; implements `LossyFifo` upwards |
| `NetServerProofs` | `RelaysUp` and `DeliveredInOrder`, proved |
| `GAProtocol`, `GAProtocolProofs`, `MCGAProtocol` | device table, join window, UDP handshakes, the apps' commands; `AckTruthful`, proved |
| `XlinkTcp`, `XlinkUdp`, `MCXlink` | the SDK's cloud connection and its phone sessions |
| `XlinkProofs` | `LoginTruthful`; `SessionsSound`, `PipeExactlyOnce` and `ReplyReachesAsker`, proved |
| `IniFile`, `XlinkConfig` | `config.ini` with its coding, and the settings kept in it |
| `Net4g`, `Agps`, `MCNet4g` | the 4G daemon; the way of a position from modem to report |
| `Net4gProofs` | `OnlineTruthful`, `AnsweredOnce` and `PositionWhole`, proved |
| `TcpTty`, `Bed`, `Vend`, `Pos`, `VtsPos`, `MCBoards` | the bridge, the bed daemon, the vending boards (`Vend` is what both have in common) |
| `BoardProofs` | `GoodsPaid` of both vending boards, `HolderOnly` and `NoCrossTalk` of the bridge, `ReportsWellFormed` and `NightComplete` of the bed daemon, proved |
| `NorChip`, `SpiNor`, `RaSpi`, `DataFlash`, `MCStorage` | a NOR chip, its generic and its Ralink driver, the AT45 driver; `MCStorage` also runs `XGRecvBuffer` and `XlinkConfig` |
| `StorageProofs` | `ImplementsFrameChannel`, `SettingsSurvive` and, driver by driver, `FlashAsTold`, proved |

Several MC modules run more than one instance.  They declare a variable `scenario`, which
`Init` chooses and no step changes; each scenario is a complete specification of one
component with its own constants, and the variables of the others stay at a constant.  The
components do not interact in these runs: a property speaks of one scenario.  A component
whose theorem states a property of the run is extended by the MC module, under its own
names (`ConfigInit`, `ConfigNext`, `ConfigSpec`), and takes its constants from the
configuration; the others are instances.

### XGCore

`list` is `core->Connects`, newest first, and `conn` the `Connect` records; a record that
is not in the list is free memory (`Zeroed`, as `XGMemFactory` returns it).  `pc` is the
stage of the core thread's loop and `cur` its position in a loop over the list, so that
the connect thread and the application interleave between any two connections.
One action stands for one turn of a loop over the list (`XGRemoveNotActive`,
`XGProtocol`, `XGConnectTask`, `ApplyResult`, `Recv`) or for one stage that touches all
of it without being observable in between (`XGPSendQueeu`, `XGTimeout`, `FdSet`,
`XGConnectSend`).  `worker` is the connect thread: it takes a task, creates a socket,
waits in `select()`, and appends the result.

Abstractions:

* A receive buffer holds the complete frames received, by type.  That buffers deliver
  exactly the frames sent is what `XGRecvBuffer` shows.  `IGNORED` is a frame that is
  consumed without effect (a CONNECT with id 0, a PIPE that is too short).
* An item in a send queue is represented by the device id it is queued under.
* Time is left out: where the code compares the clock with a recorded time (3 s before
  a new attempt, 15 s for the cloud login, 20 s or 180 s of silence of the device), both
  outcomes are possible.
* The kernel hands out the lowest free descriptor in `0..MaxFd`; descriptors the process
  has open otherwise are left out, except 0.  `accept()` and `socket()` returning 0 is
  treated as an error by the code, and so it is here, with descriptor 0 left open.
* A device always announces its own id (`peer`).
* `Restart` is the death of the process and its next start; only the table survives.
* Allocation never fails and `XGStopCore` is not called.

### XGByteQueue, XGRecvBuffer, FrameChannel

`BQ_BUFFER_SIZE` (2048) and the range of the indices (2^32) are constants, so that small
instances wrap both.  `XGRecvConnect` receives any part of what is on the wire, up to the
free room; with no room left `recv()` returns 0 and the code closes the connection.
`Protocol` is the head of `XGProtocolClient` and `XGProtocolServer`, which are the same
code on different buffers: one complete frame per pass is copied out and popped.
The bodies' bytes are a small set and the header is shortened to `HeaderSize` bytes of
which the last is the body length.  `ImplementsFrameChannel` states the refinement: the
frames taken out, as a sequence, grow by exactly the next frame sent.

### FtTimer

`timer_vec0`, `run_queue`, `run_sem` and `timer_tick` are the fields of `s_timer_obj`.
The tick thread holds `timer_vec0.lock` for a whole scan; a timer it has taken out of
one list and not yet put into the other is `moving`.  `call` records where a thread is in
`add_timer` or `del_timer`: the code first asks without the lock whether the timer is
linked (`Enter`), then unlinks it under the lock (`__del_timer`), then inserts it in a
second critical section (`Insert`).  The callers are one user thread, and the function
of a timer in `Rearming`, run by the handle thread.  `Restarted` are the timers a user
adds again while they are armed; the run leaves it empty, since the unlocked test at
`ft_timer.c:301` misses a timer between `list_del` and `PUSH_ENQUEUE` and both lists are
damaged then.  A function may be called after `del_timer` has returned, as the lock is
released before the call.

### MsgTransfer, NetServer, LossyFifo

`MsgTransfer` has the two registration lists, the queues `dev_msg_queue` and
`clound_msg_queue` and the transfer thread; `NetServer` adds the nodes of the device map,
one thread for each descriptor and the one-second timer.  A lookup in the map returns a
node that is used after the lock is released, so lookup and use are separate steps, and a
login frees the node it replaces.  `stale` becomes true when a freed node is used; the
model stops there, as nothing can be said of the program any more.  Data messages are
numbered by their sender.  `Up` instantiates `LossyFifo` with the set of the numbers
(`UpPipe`) of a device's messages that are still in a queue or in the hands of the transfer
thread, and `RelaysUp` is the refinement.

### GAProtocol

`db` is the table; `core`, the workers `udp`, `tcp` and `console` are threads, and each
access to the table is a step of its own, since no lock is held between a test and the
access it guards.  Datagrams to the gateway and answers to devices are sets, so that they
are lost, delayed, doubled and reordered.  Each key request has a socket of its own,
which ends with the wait: a late answer finds no socket.  Seconds are counted for the join
window only.

### XlinkTcp, XlinkUdp

`XlinkTcp` has the two threads of `XDevice.c` on the state they share: `tcp_fd`,
`work_type` and the byte `tcpFlag`, whose bits are written by loading and storing the byte
in two steps wherever the other thread may come in between.  The server answers, refuses,
redirects, falls silent or hangs up.  In `XlinkUdp` one turn of the loop is one step, since
all of it runs in one thread; the network between phones and gateway loses packets.
`XLINK_CLIENT_SIZE` is the number of slots.
Handlers are operators from the SDK's state to its next state.  The UDP socket (`d.sock`) is
made in a turn of the loop, and again after it failed; a packet whose command has no entry
in the table of functions is dropped.

### XlinkConfig, IniFile

A save reads the file, truncates it and writes it again; these are separate steps of the
thread, and the power may fail between them.  Fields are coded as the code does it, by xor
with the key byte of their offset (`Xor`, written with arithmetic) and base64, on one byte of
each field: a name or a key is known by its first byte, the subscription key is the number
after the access key (`ConfigAssumption`), and the check bytes are a constant.  `excused` marks
the losses the design admits: the power failing while the file is truncated, two threads
saving at once, and a file that could not be opened.  `SettingsSurvive` says that there
are no others.  `told` is what the gateway has told its id, key, name, activation, upgrade and
server to be, and each save carries the promise that is made once it is over (`Tells`).

### Net4g, Agps

Three threads: `main` with its connection (`m`, `net`), `handle_tty` and
`handle_timing_gpio`.  A command is its name and its shape (`good`, without a body, or
garbled); commands that arrive in one `recv` are recognised in the order of `handle_msg`.
`uci` is the stored configuration, of which `renew.sh` makes the running one.  `Agps`
follows a sentence of four fields from the modem to the file, the hash table and the
report.

### TcpTty, Bed, Vend, Pos, VtsPos

`TcpTty` has the process's descriptor table, since its hazard is a number that is closed
twice.  The process may be ended and started again, which forgets who holds the device:
its properties speak of the life of one process.  `Bed` builds the night's file of pieces (head, records, tail), with a signal
possible at any step, and answers a panel from the report on the card, which may be
replaced meanwhile; what beacon may find in a night are numbers, `Null`, and series of rates of
two bytes (`NightsAssumption`).  A walk is the panel's series of questions for one night, a
reading its question for one hour.  `Vend` is the card terminal, which deducts at most once for a request
and may answer at any later time; `Pos` waits for it in one thread, `VtsPos` with two tasks
and mailboxes of one place, where a step ends wherever the other task may preempt it.

### NorChip, SpiNor, RaSpi, DataFlash

The chip needs its write enable latch for every program or erase command, ignores commands
while it is busy, clears bits only, and wraps in its page.  `RaSpi` keeps what the Ralink
controller is set to: whether it shifts commands in the legacy mode, how wide it makes an
address, and whether the chip takes its address mode from a bank register (Spansion) or by
a command.  A driver's step is one page,
word or sector; the board may be reset between any two, or lose its power, and then the cells
the chip was changing (`hot`) say nothing any more.  The sizes, the requests (`NorRequests`,
`RaRequests`, `AtRequests`), the kinds of chips (`Chips`) and the sizes of transfers (`Chunks`)
are constants; a kind of chip is a row of `spi_nor_ids`, which stands for the driver's table.
`stored` is what the chip must hold by the requests that returned success (`kept` in
`DataFlash`); `vague` (`unsure` in `DataFlash`) are the cells of
requests that were cut off, failed, or that the driver is known to lose without a word:
the first block written to a protected chip (`ralink_spi.c:834`), odd starts on SST chips
(`spi-nor.c:725`), requests the AT45 driver cuts wrongly (`spi_flash.c:213`).
`NorAsTold` is not claimed of one kind of chip, a large Macronix chip without quad reading
(`Deaf`): see section 5.

## 3. Runs

| Run | Instance | Shows |
|---|---|---|
| `xg_sockets` | 2 connections, 1 device, 2 tasks, descriptors 0..4 | `TypeOK`, `OneActivePerDevice`, `HandlesExclusive`: a device that reconnects again and again while tasks are under way never gets two live connections, and no descriptor has two owners or is closed while owned |
| `xg_single` | 2 devices on 2 connections without cloud sockets, one of them joined and removed at run time, restarts; 1 device on 1 connection with 2 tasks | `OnlineNotShownOffline`, `ShownOnlineJustified`: the status column follows the connections, whatever the order of logouts, logins, joins, removals and restarts; `ConnectingResolves` for a single connection |
| `xg_data` | 2 connections, 2 devices, PIPE data both ways and items queued by the application | `DataStaysWithDevice`, with connection records freed and reused |
| `xg_stuck` (violation) | 2 connections of 1 device | `ConnectingResolves` fails: the result of a connection's own task goes to the superseded connection in front of it in the list, and nothing retries `E_SER_CONNECTING` |
| `timer` | a re-arming timer and one without function, 2 additions of each, timeouts of 0 and 1 | `LinkedOnce`, `RunsOncePerAdd`, `NoLostWakeup`, `ArmedTimerRuns` |
| `net_up` | 1 device, 1 descriptor, 2 data messages, 1 cloud program | `RelaysUp`: the way up refines `LossyFifo`; `SilentGoesOffline` |
| `net_down` | 1 device, 2 descriptors, 2 logins, 2 messages of the cloud | `DeliveredInOrder`: over the latest connection and in order, as long as no freed node was used |
| `ga` | 1 device with 2 addresses, deletions, joins and moves; 1 device with 2 keys and commands by two threads | `AckTruthful`, `RemovalLearned`, `AddressFollows` |
| `xlink` | 1 descriptor, 3 upsets, both kinds of redirects; 2 phones for 1 slot, 1 phone with 2 slots | `LoginTruthful`, `CloudReconnects`; `SessionsSound`, `PipeExactlyOnce`, `ReplyReachesAsker`, `BufferDrains` |
| `net4g` | five repertoires of the server, one or two commands each, 2 connections, 1 upset; five sentences of the modem | `OnlineTruthful`, `AnsweredOnce`, `DeafLinkGivenUp`, `GpioFollows`, `PositionWhole` |
| `boards` | bridge with 2 tasks and 3 descriptors; windows of 2 samples; 3 nights; 3 sales and 2 descriptors; 2 sales on the uC/OS board | `HolderOnly`, `NoCrossTalk`, `BridgeStaysUp`, `ReportsWellFormed`, `RequestsServed`, `NightComplete`, `GoodsPaid`, `WaitEnds` |
| `storage` | ring of 4 bytes, indices modulo 8, 3 frames; chips of 8 cells, pages of 4; AT45 ring of 9 cells; 3 changes and 2 starts of the settings | `ImplementsFrameChannel`, `EveryFrameDelivered`, `FlashAsTold`, `SettingsSurvive` |

Why the bounds are enough.

* Proxy core: the hard cases need a device that reconnects once while a task of its first
  connection is under way, and a third connection that reuses the first record; two records
  that are freed and reused, two tasks and one descriptor more than the four holders give
  all of these, descriptor exhaustion and the closing of descriptor 0.  Two devices are
  enough for data to go astray.
* Ring: a frame crosses its end at every offset, and the indices wrap within three frames.
* Timers: two timers in the queue are enough for the semaphore and the queue to differ; a
  third one was tried without the liveness property and changes nothing.
* Message centre: two messages make an order, two logins a freed node.
* Gateway protocol: the threads interfere through one row; two commands cross a handshake,
  one move makes an address stale, two keys tell a late answer from the right one.
* xlink: three upsets let a redirect fail, a login be refused and a connection drop in one
  behaviour; two phones and one slot make every reuse of a slot, two slots every double
  session.
* net4g: two commands arrive together or apart; a second connection meets what the first
  left.  The repertoires together hold every command.
* Boards: two tasks to intrude on each other, three descriptors to be confused, a window and
  its half, reports of three shapes, an answer that is late by one sale.
* Storage: requests start and end before, at and behind a page end, and run past the ring.

Named bounds only stop the environment from adding more (`MaxTasks`, `MaxSend`,
`MaxQueue`, `MaxRx`, `MaxFrames`, `MaxAdds`, `MaxLogins`, `MaxReq`, `MaxUpsets`, ...); the
modules say beside each constant whether it is a bound or a number of the code, whose value
there is given (`FailLimit` is 360 in the code, for instance, `HeartExit` 5).

Fairness.

* `XGCore`: the core thread and the connect thread never stop (every wait of theirs has a
  timeout), and the `trylock` on the result list, which the connect thread holds for one
  append per task, does not fail for ever.
* `XGRecvBuffer`: the core thread goes on, and a socket that stays readable is reported by
  some later `select()`, whose set is rebuilt in every pass.
* `FtTimer`: both threads run for ever, and a thread that waits for `timer_vec0.lock`, which
  is released after every scan, gets it.
* `NetServer`: the transfer thread, the client threads and the timer go on; peers owe
  nothing.
* `GAProtocol`: time passes, threads go on, the 20-second notice is repeated for ever
  (`XDevice.c:313`), and a datagram sent again and again arrives in the end.
* `XlinkTcp`: both threads go on and timers run out; a request that is not lost is answered;
  upsets and collisions of the two threads are finitely many (the windows are a few
  instructions wide, and the connecting thread sleeps 5 s between two turns).
* `XlinkUdp`: turns 300 ms after the last resends happen again and again.
* `Net4g`: the threads go on, `select()` times out, the serial port can be opened again and
  again.
* Boards: threads go on; for `BridgeStaysUp` the faults end and server and device answer;
  for `RequestsServed` the sensor is silent for a second now and then.

Deadlock checking is off where a run may end quietly: in `storage`, `net_up`, `net_down`,
`xlink` and `net4g`, whose environments stop at their bounds, whose programs may exit
(`net4g` gives up after `FailLimit` failures) or whose model stops at `stale`.

## 4. Proofs

Every theorem holds for all values of the constants that the named ASSUMEs of its module
admit.  Each proof module has one lemma per action, or per group of actions that touch the
same part of the state, and the last step of each theorem is temporal reasoning only.

| Theorem | Property | Inductive invariant |
|---|---|---|
| `XGCoreProofs!TypeCorrect` | `TypeOK` | itself |
| `XGCoreProofs!OneLiveConnection` | `OneActivePerDevice` | `LiveInv` |
| `XGCoreProofs!LoggedInIsOnline` | `OnlineNotShownOffline` | `TableInv` |
| `XGCoreProofs!OnlineIsJustified` | `ShownOnlineJustified` | `TableInv` |
| `XGCoreProofs!DataOfOwnDevice` | `DataStaysWithDevice` | `DataInv` |
| `XGCoreProofs!HandlesNeverShared` | `HandlesExclusive` | `HandleInv` |
| `FtTimerProofs!SemaphoreCoversQueue` | (`TypeOK`, `SemCovers`) | itself |
| `FtTimerProofs!WakeupsNotLost` | `NoLostWakeup` | the one above |
| `FtTimerProofs!TimersLinkedOnce` | `LinkedOnce` | `PlaceInv` |
| `FtTimerProofs!TimersRunOncePerAdd` | `RunsOncePerAdd` | `PlaceInv` |
| `NetServerProofs!WayUpIsARelay` | `RelaysUp` | `UpInv` |
| `NetServerProofs!CloudReachesDevice` | `DeliveredInOrder` | `DownInv` |
| `GAProtocolProofs!KeysAsTold` | `AckTruthful` | `KeyInv` |
| `XlinkProofs!XlinkTypes` | (`TypeOK`) | `TypeInv` |
| `XlinkProofs!LoginAsAccepted` | `LoginTruthful` | `LoginInv` |
| `XlinkProofs!UdpTypes` | (`UdpTypeOK`) | `UdpInv` |
| `XlinkProofs!SessionsStaySound` | `SessionsSound` | `UdpInv` |
| `XlinkProofs!PipesHandledOnce` | `PipeExactlyOnce` | `UdpInv` |
| `XlinkProofs!RepliesReachAskers` | `ReplyReachesAsker` | `UdpInv` |
| `Net4gProofs!OnlineIsAccepted` | `OnlineTruthful` | `OnlineInv` |
| `Net4gProofs!AnsweredAtMostOnce` | `AnsweredOnce` | `CountInv` |
| `Net4gProofs!PositionsAreWhole` | `PositionWhole` | `PosInv` |
| `BoardProofs!PosSalesPaid` | `GoodsPaid` on the Linux board | `PosInv` |
| `BoardProofs!VtsSalesPaid` | `GoodsPaid` on the uC/OS board | `VtsInv` |
| `BoardProofs!DeviceKept` | `HolderOnly` | `TtyInv` |
| `BoardProofs!EndsNotConfused` | `NoCrossTalk` | `TtyInv` |
| `BoardProofs!NightsWellFormed` | `ReportsWellFormed` | `FileInv` |
| `BoardProofs!PanelToldAll` | `NightComplete` | `PanelInv` |
| `StorageProofs!FramesWholeInOrder` | `ImplementsFrameChannel` | `RecvInv` |
| `StorageProofs!SettingsAsTold` | `SettingsSurvive` | `ConfigInv` |
| `StorageProofs!NorKeepsWhatItWasTold` | (`NorAsTold`, `LockExact`) | `NorInv` |
| `StorageProofs!RalinkKeepsWhatItWasTold` | (`RaAsTold`) | `RaInv` |
| `StorageProofs!RingKeepsWhatItWasTold` | (`AtAsTold`) | `AtInv` |
| `StorageProofs!FlashKeepsWhatItWasTold` | `FlashAsTold` | the three above |

Why the properties alone are not enough, and what carries the proofs:

* `XGCoreProofs`, for any sets of connections and devices, any number of descriptors and any
  bounds.  `TypeCorrect` has lemmas of its own for the effects of frames, the routing of
  queued items and the choice of a new descriptor (`NewFdType` needs that a non-empty set of
  naturals has a least element).  For `OneLiveConnection`: `XGRemoveConnectByDeviceID`
  retires the connections in the LIST, so a live record outside the list would survive a
  login with its id.  `LiveInv` adds `ActiveListed`, that every live record is in the list.
  With it only two actions matter, the login (which retires every other holder of the id
  before it takes it) and `accept` (whose record has no id yet); all other actions satisfy
  `Keeps`: ids stay, and no connection becomes live.
* `XGCoreProofs`, on top of these: the table and the queues.  The logout of a superseded connection is written to the
  table after its successor's login.  That it does no harm rests on two facts besides the
  properties: a connection calls itself nothing or by the id of the device at its other end
  (`IdIsPeer`), and a logged-in connection is listed and is the only one logged in as its
  device (`LoginUnique`), so that the logout finds the successor or has none.  `TableWrites`
  shows that five actions write the table, and only they have to be looked at.
  `DataInv` says of each record that both its send queues hold items of its own device or of
  none; records that are freed are empty, and a late reuse starts with nothing.
* `XGCoreProofs`, the descriptors.  `HandleInv` is the property holder by holder: a holder is a connection's
  client or server socket, a task result still queued or being applied, or the connect
  thread's socket.  `HandlesMoved` gives the rule all steps follow: a descriptor is held after
  a step only by the holder it was handed to, and what is closed is given up.  A late result
  that overwrites a socket is allowed by it, as the old one is leaked, not shared.
* `FtTimerProofs`.  `NoLostWakeup` says nothing of how many posts are left when the handle
  thread takes one; counting posts against queued timers (`SemCovers`) is inductive.
  `PlaceInv` says where a timer can be: in one list, once; with the tick thread; run by the
  handle thread; or being added, when it is nowhere else and nobody else adds it
  (`Exclusive`, `AddingInv`).  Both its theorems assume `Restarted = {}`, that no user starts
  a timer again which is armed; section 2 says what the code does otherwise.
* `NetServerProofs`, the way up.  `UpInv` orders what is inside the relay from the end of
  `dev_msg_queue` over the message in the hands of the transfer thread to the head of
  `s_cloud_msg_queue` (`OrderInv`), and bounds it by the device's counter (`NumbersInv`).  With
  these the message that comes out is the least of its device's numbers inside, and every
  step of the code is one of `LossyFifo` or a stutter.
* `NetServerProofs`, the way down.  `DownOrder` and `DownNumbers` say the same of
  `clound_msg_queue`, the transfer thread and the queues of the nodes in the map, and that a
  node's queue holds data of its own device only.  The pointers that lookups return are used
  later: `MapInv` (a device has one node in the map at most) and `PointerInv` (a pointer whose
  node is still in the map points to what was looked for) carry the proof over the logins in
  between.  Every step either moves no data message for a device (`Still`) or is one of four
  that are looked at one by one (`StepKind`).
* `GAProtocolProofs`.  A key is set once, and requests are told apart by the socket they are
  sent from.  `KeyInv` follows a request round: a worker's request names its command
  (`WorkInv`), a request under way is what the worker asked (`AskInv`), an answer under way is
  true of the device that gave it (`AnsInv`), and so is what the app was told (`ToldInv`).
* `XlinkProofs`, the cloud connection.  The connecting thread has no connection while it makes one
  (`ConnectingInv`), and answers that follow a login come only from a server that accepted it
  (`AcceptedInv`): with these no half-written flag byte can turn a refused login into an
  accepted one.
* `XlinkProofs`, the phone sessions, for any apps, slots, keys and bounds.  A packet under way was
  made in an earlier state, so what is known of it must survive all that happens before it
  arrives: `Later` and `Quiet` say what of the SDK's state only grows, and what stays for an app
  that opens no session.  `SdkInv` ties a slot's last message number to what was handled in its
  session (`Own`, `Once`, `Told`) and a waiting message to the owners of its slots (`Meant`);
  `UpInv`, `PhonesInv` and `LettersInv` say the same of the packets and of what apps believe.
  Each handler is shown to go from one such state to a later one, and a turn of the loop is
  their composition.
* `Net4gProofs`.  `StageInv` relates where `main` is to what it thinks of the connection, since
  the file is written at a few places only; `AcceptInv` says that an accepting answer
  under way means that the server accepted, which matters as a report's answer looks like a
  login's.  For `AnsweredOnce`, `CountInv` says of every command that it is in the line at
  most once and unanswered there (`ArrivedInv`), or the one being handled (`TodoInv`), whose
  first answer precedes a download.  The number of commands is bounded by 98, below
  `main`'s own number 99 for what it asks itself.
* `Net4gProofs`, the position.  `LineInv` says that what the line holds since the last `$` is the
  sentence being sent, up to the field that comes next, unless the modem went away meanwhile;
  `FileInv` and `TabInv` carry that through the file and the hash table, of which lemmas say
  what `nvram_set` leaves in every chain.
* `BoardProofs`, the sales.  The Linux board takes any success, also one of an earlier request: `PosPaid`
  counts sales against the deductions whose success is no longer under way, so each success
  pays once.  On the uC/OS board the success passes through a mailbox whose reader may have
  given up: `Credit` counts a success in the mailbox as a sale, and `VtsPaid` says in which
  states the current request is not yet among those counted.
* `BoardProofs`, the bridge.  A descriptor is closed by one thread and used by the other, so
  `SerialInv` and `ServerInv` say of each number noted down what the kernel's table may have
  under it by now: the reader's port is its own, or free while the socket thread is between two
  connections; the port noted for a command is no connection; the connection noted by the
  reader is no port.
* `BoardProofs`, the bed sensor.  `FileInv`: the file in use is one that objects can still be
  appended to, a head and objects with a comma behind each.  `PanelInv`: the answers of a walk
  are those to the numbers before the one asked for next, out of one report (`WalkInv`).
* `StorageProofs`, the ring, for any size of the buffer and the index word.  `RecvInv`: what is
  in the buffer and on the wire, in that order, are the frames sent and not yet taken out.
  Lemmas say what `XGByteQueuePush`, `XGByteQueuePeer` and `XGByteQueuePop` do to the sequence of bytes in the ring, whose slots
  and indices wrap separately.
* `StorageProofs`, the settings.  What has been told is in the file only when no thread is
  between opening and writing it; `DiskInv` says that it is there then, and that it will be
  there (`Future`) once the thread that is saving has written, together with the promise of
  that save.  It rests on lemmas about `write_profile_string` and `read_profile_string` for every
  file of sections and entries (`ReadAfterWrite`), and on `PackRestores`: xor is its own inverse
  and base64 gives back three bytes.

* `StorageProofs`, the two NOR drivers, for any size of chip, page and block, any requests and
  chips.  The property speaks of the time between two requests, where `vague` hides what was cut
  off; in between, `NorHolds` and `RaHolds` say that the chip holds what was stored with the
  first `pos` bytes of the request put in, so that each page has its step and no induction over
  pages is needed.  `NorWidths` and `RaWidths` say when driver, controller and chip agree on the
  width of an address: a chip that is probed while it is not yet in 4-byte mode is idle, so
  that it hears the command.  `NorLocks` says what a lock makes of the protection there was;
  that no smaller region would do is a lemma on the eight regions.
* `StorageProofs`, the AT45 driver, for any page, ring and request shorter than the ring.
  `PiecesAddUp` and `WhereIs` say that the pieces a request is cut into (`Exact`) add up to it
  and that each byte goes where it belongs, over the end of the ring too; `AtWrites` and
  `AtReads` say that the bytes before step `k` have arrived and no other cell has changed.  A
  request that is cut wrongly has put all it touches in doubt from its first step on
  (`AtSpoils`).

Only model-checked:

* The liveness properties (`ConnectingResolves`, `EveryFrameDelivered`, `ArmedTimerRuns`,
  `SilentGoesOffline`, `RemovalLearned`, `AddressFollows`, `BufferDrains`,
  `CloudReconnects`, `DeafLinkGivenUp`, `GpioFollows`, `BridgeStaysUp`, `RequestsServed`,
  `WaitEnds`): fairness and ENABLED are out of the prover's reach.

## 5. What the checks found

* `xg_stuck`: task results are matched to connections by device id alone
  (`XGCore.c:453`), so after a quick reconnect a connection can wait for ever.

Other things the code does that a reader may not expect, with the line: frames are relayed
to the cloud before its login is answered (`XGProtocol.c:232`); a timer's function may run after `del_timer`; a freed node of the device map can be used
(`tool/ft_map.c`); the settings are empty if the power fails while they are saved
(`inifile.c:296`); a refused login keeps the activation (`xlink_process_tcp_data.c:548`); a
platform command with a wrong address strands the 4G daemon (`main2.c:1171`); the customer of
the uC/OS board can be charged after the machine was told of a failure (`MFUN.C:339`).

`PROJECT.json` lists the hazards the properties were chosen for.  Others met on the way, with
the properties whose runs reach them, or none where the models leave them out:

* `xg/src/XGCore.c:216`: A partial frame left in server.recvBuffer by a broken cloud session
  is not reset and is joined with the first bytes of the next session.
* `xg/src/XGCore.c:388`: Only E_SER_WAIT_CONECT is retried, so a connection whose task
  result goes elsewhere, or is never delivered, never reaches the cloud.
  (`ConnectingResolves`)
* `xg/src/XGCore.c:463`: server.SocketHandle is overwritten by a late result while it still
  holds a socket; a descriptor could end up with two owners or be closed while used.
  (`HandlesExclusive`)
* `xg/src/XGCore.c:853`: XGStopCore frees the core while the connect thread may be inside
  XGConnectServer.
* `xg/src/XGProtocol.c:119`: A frame arrives in several pieces, or several frames in one
  piece, of which one is parsed per pass. (`EveryFrameDelivered`, `ImplementsFrameChannel`)
* `xg/src/XGProtocol.c:232`: Frames of the sub-device are relayed to server.sendQueue in
  every state of the cloud session and may be sent before the login is answered.
* `ft_timer.c:193`: Two threads that call init_timer first at the same time both run
  FT_LOCK_INIT, one of them on a mutex the other holds.
* `ft_timer.c:395`: time_expires is an unsigned int, timer_tick an unsigned long: once the
  count has passed 2^32 (497 days at 100 Hz) every timer expires at the first scan.
* `ft_timer.c:509`: add_timer, deletions and re-arming functions in any order must give at
  most one run for each add_timer. (`RunsOncePerAdd`)
* `hw_management.c:165`: Callbacks are called with the container's lock held, by the
  transfer thread, while device threads register and unregister.
* `tool/ft_set.c:31`: An element is added without asking whether SET_SIZE is reached.
* `ikcc_native_socket.c:71`: A cloud program that logs in with a wrong key is told so and
  registered all the same; every further login registers it once more. (`RelaysUp`)
* `xg/xlink_gateway.c:74`: A device that moved to another address is reached at the address
  of its last announcement. (`AddressFollows`)
* `xg/xlink_gateway.c:83`: The join of a device is announced to the apps although
  dbAddDevice failed.
* `xg/src/XGageway.c:427`: A request goes to an address that another device holds by now.
  (`AckTruthful`)
* `xg/src/XGageway.c:827`: The notice that a device has been deleted is lost, or crosses the
  device's own join or restart message. (`RemovalLearned`)
* `xg/GAProtocol.c:123`: The device list's count and its ids come from two queries; a join
  between them makes the answer longer than its count.
* `xg/GAProtocol.c:228`: A key of 2^31 or more, or 0, is reported to the app as a failure
  because key and error share one int.
* `xg/xlink/xlink_net.c:420`: isLogined shares the byte tcpFlag with the other bit-fields,
  and two threads write them: a write of one can undo the other. (`LoginTruthful`)
* `xg/xlink/xlink_net.c:520`: A failed attempt to connect must give its socket back; the
  attempts go on for ever. (`CloudReconnects`)
* `xg/xlink/xlink_net.c:696`: recv()'s -1 is stored in an x_uint16 and becomes 65535.
* `xg/xlink/xlink_net.c:994`: The redirect's port is put together from plain chars: a low
  byte of 0x80 or more takes 256 off where char is signed.
* `xg/xlink/xlink_process_tcp_data.c:548`: The branch that clears isActivation after a
  refused login lies behind a return for every such answer: a gateway whose key the server
  has forgotten logs in with it for ever.
* `xg/xlink/xlinkv4Udp.c:508`: The test for a key that is set is < 999999999: with that very
  key the device counts as not set up, and any app may set another. (`SessionsSound`)
* `xg/xlink/xlinkv4Udp.c:820`: The app repeats a request whose answer was lost: it must be
  answered again but not carried out twice. (`PipeExactlyOnce`)
* `xg/xlink/xlink_client.c:128`: clientCount is computed at the heartbeat check only:
  between an app's opening or leaving its session and the next check it says the opposite.
  (`SessionsSound`)
* `xg/xlink/xlink_system.c:137`: After a stall of more than a minute one minute only is
  carried: the seconds stay at 60 or more and the gateway's clock is behind until the next
  time from the server.
* `xg/xlink/xsdk_config.c:165`: The result of writing a setting is ignored and the caller is
  told it is stored.
* `xg/xlink/xsdk_config.c:244`: g_xlink_info.config and xsdk_flash.sdk are two copies of the
  settings, written over each other. (`SettingsSurvive`)
* `src/nor-spi-driver/ralink_spi.c:834`: raspi_unprotect writes the status register and
  thereby uses up the write-enable latch that the caller has just set.
* `src/nor-spi-driver/ralink_spi.c:1299`: The Ralink driver cuts a request at page ends on
  its own; the last piece of a request and one that starts inside a page are the edges.
  (`FlashAsTold`)
* `src/nor-spi-driver/ralink_spi.c:1350`: A page whose command fails is skipped and the
  write goes on.
* `src/nor-spi-driver/spi-nor.c:974`: The status register of Macronix chips is written and not
  waited for.  A chip of more than 16 MiB that is not read in quad mode is sent EN4B
  (`spi-nor.c:1098`) while it is busy with that, and ignores it, while the driver goes on with
  four address bytes.  `NorAsTold` leaves these chips out (`Deaf`).
* `src/nor-spi-driver/spi-nor.c:820`: A wait that timed out ends the write, which is
  reported as a success.
* `src/pos-salemachine/user_app-forUcos-saleOK/app/spi_flash.c:213`: With all but one byte
  of a page left over NumPage is one too many, and what follows the caller's data in memory
  is written too. (`FlashAsTold`)
* `src/pos-salemachine/user_app-forUcos-saleOK/app/spi_flash.c:223`: The rest of a page is
  taken into the chip's buffer before it is changed and programmed with an erase: a loss of
  power between the pages of a request must leave the others as they were. (`FlashAsTold`)
* `src/pos-salemachine/user_app-forUcos-saleOK/app/spi_flash.c:230`: Behind the last page
  the ring goes on with page 0 after the first page of a request and with page 1 after a
  later one. (`FlashAsTold`)
* `src/net4g/src/main2.c:525`: After a failed read the serial descriptor is closed and
  reopened by one thread while the other writes to its old number.
* `src/net4g/src/main2.c:658`: Half a sentence is kept over a reopening of the receiver's
  port and joined with the next one's end. (`PositionWhole`)
* `src/net4g/src/main2.c:712`: The server's time moves the clock into or out of a timing
  range between two looks at it. (`GpioFollows`)
* `src/net4g/src/main2.c:1171`: A setplatform command with a wrong address takes effect
  after renew.sh and leaves the device without a server.
* `src/tcptty/src/leom_sensor_handle.c:146`: glb_sock is read before a blocking read of the
  port and used after it, when the connection may be another. (`NoCrossTalk`)
* `src/tcptty/src/leom_sensor_handle.c:410`: The condition variable is signalled without a
  predicate: the answer may come before the wait, and the command is written again.
* `src/tcptty/src/leom_net_mch.c:213`: A header or its payload that has not arrived whole is
  taken for an error and ends the connection. (`BridgeStaysUp`)
* `src/tcptty/src/leom_net_mch.c:302`: Heartbeats go unanswered on a connection that looks
  open. (`BridgeStaysUp`)
* `src/leoman_bed/src/leom_sensor_handle.c:66`: The daemon is started again within a night:
  the name of its file is made from the time and must not take over a file that is in use.
  (`ReportsWellFormed`)
* `src/leoman_bed/files/parse_report.lua:499`: Values that need two bytes in the panel's
  fields, and series that end on a page boundary. (`NightComplete`)
* `src/leoman_bed/files/leom_cp_data.sh:25`: The script tests the exit status of rm where it
  means that of the analysis, so a failed analysis is not repeated.
* `src/pos-salemachine/handle.c:47`: A failed deduction returns without closing the port;
  after enough of them open() fails.
* `src/pos-salemachine/user_app-forUcos-saleOK/app/MFUN.C:339`: The machine's task gives up
  and answers a failure while the terminal is still charging; nothing is cancelled.
* `src/pos-salemachine/user_app-forUcos-saleOK/app/MFUN.C:639`: Without a card the deduct
  message is sent to the terminal again, up to four times: more than one of them may be
  answered. (`GoodsPaid`)

## 6. Not modelled

* `XGStopCore`, `__deinit_timer_system`: nothing calls them while the program runs.
* Failing allocation, a full file system, errors of the SPI bus, partial `send()`.
* `src/net4g/src/main.c` (the predecessor of `main2.c`) and `test.c`: not built.
* Shell, console, ssid and Lua services: wrappers without protocol state.
* SQLite, cJSON, comgt, ppp scripts, kernel registration of the flash drivers: third party.
* The statistics over bed samples, hex and field layout, display and keypad: data that no
  property tells apart.

## 7. Plan

Every invariant, action property and refinement that a run checks is proved as well.  What
could be added:

1. What the notes of the partly modelled components in `PROJECT.json` leave out.
2. `send()` that takes a part of an item (`XGCore.c:251`), with the property that what is sent
   of an item is its beginning.
3. Theorems for the safety half of the liveness properties: what the run that shows one of
   them rests on besides fairness.
