# CANEther: a TLA+ model of the CAN to Ethernet gateway

CANEther is the firmware of the CBUS CAN-Ethernet module (CANGC1e hardware, a
PIC18F2585 with an ECAN module and an Ethernet controller beside it): it relays CBUS frames between a CAN bus and up to five TCP
connections, and is itself a CBUS node that can be configured over the bus.
This directory holds TLA+ modules of the firmware, of its boot loader and of the parts of
its TCP/IP stack that it depends on, TLC configurations that check them on small
instances, and proofs for TLAPS.

## 1. Inventory

| Part | Source | State | Operations | Interacts with |
|---|---|---|---|---|
| CAN transmit path | `canbus.c` 164-319, 456-481; `isr.c` | `TxFifo`, `FifoTxIdxW/R` (0xFF marks full), `canTransmitTimeout`, `canTransmitFailed`, `larbRetryCount`, buffer TXB0 | `canbusSend`, `canSend` (main loop); `canTxFifo`, `canTxError` (low priority interrupt); `checkCANTimeout` (high priority interrupt, every 500 ms) | shared variables and enable bits; the ECAN module raises the interrupts |
| CAN receive path | `canbus.c` 328-451, 484-514; `isr.c` | `Fifo0/1` as one ring, `FifoIdxW/R`, ECAN hardware fifo, loss counters | `canbusRecv` (main loop), `canbusFifo` (interrupt at the high water mark) | shared variables; one word of the ECAN for the next hardware buffer |
| Gateway relay | `cangc1e.c` 193-223, `gcaeth.c` 248-368, `commands.c` `parseCmdEth` | `HCB[]`, `nrClients`, `rsend`, `cmsg`, TCP buffers | `CBusEthServer`, `CBusEthProcess`, `CBusEthBroadcast`, `parseCmdEth` | the two CAN paths below it, the polled TCP/IP stack beside it |
| Connections and bridge | `gcaeth.c` 182-244, 272-323, 371-395 | `HCB[].socket`, `HCB[].idle`, `hbeatCounter`, `bridgeSocketIndex`; the sockets of the stack | `CBusEthInit`, `openBridge`, `isBridgeConnected`, `CBusEthTick`, the idle branch of `CBusEthProcess` | the stack's sockets, which change state while it is polled |
| FLiM node | `commands.c`, `cangc1e.c` 133-261, `io.c` | `NN_temp`, `NV1`, EEPROM cells, push button, mode | `parseCmdEth`, `doRqnpn`, `thisNN`, `sendStatus`, the button part of `main` | frames from both sides; EEPROM; reset into the bootloader |
| Configuration | `eth.c`, `utils.c` | `AppConfig`, EEPROM | `InitAppConfig`, `setMacAddress`, `eeRead`, `eeWrite` | every part that reads EEPROM |
| Interrupts | `isr.c` | flags in PIR3, INTCON | `isr_high`, `isr_low` | calls into the two CAN paths, the LED timers and the stack's tick |
| Boot loader | `Boot4.asm` | program, EEPROM and configuration memory; address, control, command and sum registers; the boot flag | `_CANInit`, `_ControlReg` with its commands, `_DataReg`, `_PMErase`, `_PMWrite`, `_CFGWrite`, `_EEWrite` | runs instead of the application; a tool on the CAN bus; the flag in EEPROM |
| TCP | `TCPIP Stack/TCP.c` | a TCB and a stub for each socket, FIFOs, timers, `SYNQueue` | `TCPTick`, `HandleTCPSeg`, `SendTCP`, `TCPPutArray`, `TCPGet`, `TCPFlush`, `TCPOpen`, `TCPDisconnect`, `FindMatchingSocket` | polled by `doEth`; the sockets of `gcaeth.c` |
| DHCP client | `TCPIP Stack/DHCP.c`, `StackTsk.c` | `DHCPClient`, `AppConfig.MyIPAddr`, a UDP socket | `DHCPTask`, `_DHCPReceive`, `DHCPInit`, `DHCPDisable`; the link part of `StackTask` | polled by `doEth`; NVSET and `InitAppConfig` start and stop it |
| Rest of the stack | `IP.c`, `UDP.c`, `ARP.c`, `ICMP.c`, `NBNS.c`, `Announce.c`, `ENC28J60.c`, `Tick.c` | UDP sockets, one ARP entry, the controller's buffers | vendored (Microchip) | below TCP and DHCP |
| Start and board I/O | `cangc1e.c` `initIO`, `io.c`, `c018i.c` | LED timers, pins | `doLEDs`, `doLEDTimers`, `checkFlimSwitch` | main loop and `isr_high` |

Most of the repository's lines are files of the vendored stack that `TCPIPConfig.h` switches
off (SNMP, SSL, HTTP, SMTP, FTP, TFTP, DNS, Zeroconf, AutoIP, the Berkeley API, drivers of
other Ethernet and WiFi controllers): no part of this program.

### What is hard

* **Interrupts inside critical sections.** Each critical section of `canbus.c` masks
  one interrupt enable bit, and `isr_low` looks at flags only: any other low
  priority source opens the section again (`canbus.c:176`, `:336`, `isr.c:88`, `:96`).
* **Lost interrupts.** `isr_low` ends with `PIR3 = 0` (`isr.c:113`).
* **Timeouts against late completions.** `checkCANTimeout` frees TXB0 between any
  two steps of the other routines.
* **Bounded buffers with a mark for "full"**, 8 bit arithmetic and wrapping indices.
* **Back pressure** from TCP, with one repetition of a failed broadcast.
* **TCP is a stream**, CBUS frames are not (`gcaeth.c:277`).
* **Sockets that change state behind the application's back** while the stack is
  polled, and a bridge that closes and opens them (`gcaeth.c:208`).
* **Power loss** between two EEPROM writes (`commands.c:140`), and between any two rows of
  a download (`Boot4.asm:373`).
* **One check at the end.** The boot loader loses frames that come while it writes, forgets
  its registers with the power, and compares sum and error flag once (`Boot4.asm:306`, `:547`).
* **Lost, repeated and reordered segments**: one hole in the receive FIFO, pointers that wrap
  at different places, a window that is kept as what is left of it (`TCP.c:3952`, `:4103`).
* **Half-open connections and closing states**, each of which waits for a segment that may be
  lost or for an end that is gone (`TCP.c:2480`, `:2658`, `:3825`).
* **A lease that ends** while the client repeats itself (`DHCP.c:676`), and answers to
  questions asked earlier (`DHCP.c:1011`).

### What makes each part correct

* *Transmit*: a frame accepted by `canSend` waits in the fifo exactly until it is put
  into TXB0, once, in order unless a transmission failed; a frame in TXB0 leaves
  it by being sent or by failing; nothing waits without something that will move it;
  `canbusSend` returns.
* *Receive*: the two fifos are one lossy fifo; losses are counted; nothing is stuck.
* *Relay*: order per sender, no duplicates of Ethernet frames, no echo, everything
  reaches everyone who has room, losses reported once.
* *Connections*: each client is closed only for its own silence; the bridge comes back;
  no socket has two users.
* *Node*: the node goes by what it stored last, across restarts and losses of power; one
  press of the button gives it one number at most; its network parameters are complete,
  or the button makes them so; a node told to boot does.
* *Boot loader*: OK means that the download is in place; the application is not started
  before; nothing else is overwritten; a download that failed can be repeated until it runs.
* *TCP*: a connection is a stream of bytes, and is given up only for faults of the network;
  what both ends take for a connection is the same one; half-open and closing ones end.
* *DHCP*: an address is used only while its lease lasts; one socket is used; an
  address is found and kept in the end.

## 2. Modules

| Module | Models | Notes |
|---|---|---|
| `CanTx` | transmit path, its interrupts and TXB0 | one action per line of `canSend` where an interrupt matters |
| `MCCanTx` | the view under which TLC checks `can_tx_errors`: without the high water mark, which nothing reads | |
| `CanTx_proof` | theorems about `CanTx` | |
| `CanRx` | receive path, its interrupt and the hardware fifo | refines `LossyFifo` |
| `CanRx_proof` | theorems about `CanRx` | |
| `LossyFifo` | abstract specification: a queue that may lose items, never reorder or duplicate | frames are numbered in order of arrival, so that a queue is a set of numbers and its head the least |
| `Gateway` | the main loop and the relay between CAN and Ethernet | atomic CAN paths, polled stack |
| `Gateway_proof` | theorems about `Gateway` | |
| `Connections` | idle timeout, heart beat and bridge, over the states of the stack's sockets | one turn of the main loop is tick, stack, serve |
| `FlimNode` | reset, start-up, button, commands that change the node, EEPROM | one step per EEPROM write; power may fail between any two |
| `FlimNode_proof` | theorems about `FlimNode` | |
| `Bootloader` | the loader's command loop, a downloading tool, losses of frames, writes and power | one step per frame, erasure and row written |
| `MCBootloader` | the download that TLC checks | |
| `Bootloader_proof` | theorems about `Bootloader` | |
| `TcpStream` | one direction of an established connection between two gateways, and the network | one step per handler; refines `ByteStream` |
| `ByteStream` | abstract specification: bytes come out as they went in | |
| `Tcp_proof` | theorems about `TcpStream` and `Connections` | `TcpStream` calls its `Init`, `Next`, `Spec`, `vars` and `TypeOK` `Stream...`, since this module extends both |
| `TcpConn` | opening, keeping and closing of connections, the SYN queue, restarts | one step per handler and socket |
| `TcpConn_proof` | theorems about `TcpConn` | |
| `DhcpClient` | the DHCP client, its servers and the network | one step per state of `DHCPTask` |
| `DhcpClient_proof` | theorems about `DhcpClient` | |

The CAN paths share only the ECAN and `isr_low`, so each is a module of its own, with the
other's use of the interrupt as environment. `Gateway` takes the CAN paths as what
`CanRx` shows of them: frames come out in order, and losses are counted; and a connection as
what `TcpStream` shows of it: a stream of bytes in bounded buffers. `Connections`
has the connections that `Gateway` only lets come and go, over sockets that may do what those
of `TcpConn` do while the stack is polled. `FlimNode` has the commands
that `Gateway` only sees as frames with or without an answer, and the flag by which
`Bootloader` starts and ends.

### How actions correspond to code

*CanTx.* `Call` is the entry of `canbusSend`; `TestFifo`, `TestReq`, `Copy`,
`SetRetries`, `SetTimeout`, `ClearFailed`, `SetTXREQ`, `TestFull`, `Put`, `Inc`, `Wrap`, `TestEq`, `Count`,
`Enable` are the lines of `canSend` in their order, one step each, and `isr_low` may be entered
between any two of them (`EnterIsrLow`); `Retry` and `GiveUp` are the loop around it. `EnterIsrLow`, `IsrTx`,
`TxFifo...`, `IsrErr`, `IsrClear` are `isr_low`, `CheckCANTimeout` the part of `isr_high`
that matters here. `TxDone` and `BusError` are the ECAN's. `Inc` and `Wrap` are two
steps because the compiler makes two of `if (++FifoTxIdxW == ...)`, and an interrupt may
look at the index in between. Four history variables say what the interrupts did: `opened`,
that `isr_low` was entered while this `canSend` kept TXBnIE masked; `clashed`, that the
`canTxFifo` it called moved a frame exactly where `canSend` relies on what it has found out (TXB0
free, or its frame not in the ring yet); `lapsed`, that a timeout was taken from a frame that
needs it; `unspent`, that a transmission has failed since a frame last passed the queue. No guard
reads them: nothing is kept from happening, and the properties name what they except.

*CanRx.* `Test` to `Return` are the lines of `canbusRecv`, `Drain` one turn of the loop in
`canbusFifo`. `Fifo0` and `Fifo1` are one array, which is how the code indexes them. `isr_low` is
entered anywhere; `opened` and `clashed` are as in `CanTx`.

*Gateway.* `pc` is the place in the main loop: `recv` (`Recv`, `RecvNone`), `eth`
(`doEth`: the only place where `Connect`, `Disconnect`, `Arrive`, `ArriveRest`, `Drain`
happen), `proc` (`GetFrame`, `NextConn`), `report` and `clear` (`CBusEthServer`),
`resend`. `Broadcast` is `CBusEthBroadcast`, `ParseCmdEth` what `parseCmdEth` puts out.

*Connections.* `Timer` is the tick of `isr_high`, `CBusEthTick` with `OpenBridge` the work
it causes, `CBusEthProcess` the idle branch; `Establish`, `Data`, `Lose`, `Abort`,
`CloseWait` and `Finish` are what `StackTask` may do to a socket while it is polled, as often as
they like in one poll: a socket may lose its peer and have another before the application
looks. `silence` is how long a connection has been silent, and `before` the silence of the one it
took the socket over from in that way.

*FlimNode.* `CANInit` and `BootReset` are the boot loader's way in and out; `Main`,
`SetMacAddress`, `CleanDefaults`, `PortDefaults`, `Dhcp`, `Number` are the start in its
order; `Button`, `SNN`, `NVSet...`, `BOOT`, `NNRST` are what the main loop does. A routine
leaves its writes in `todo`, and `Write` carries them out one by one before anything else
runs, since `eeWrite` waits. `Byte` and `Short` are the types of the stored variables.

*Bootloader.* `Boots` is `_CANInit`; `NOP`, `RstChksm`, `ChkRun`, `BootTest` and `ResetCmd` are
`_ControlReg` with the command it ends in; `DataReg` is `_DataReg` up to the jump by
memory, and `PMErase`, `PMWrite`, `CFGWrite`, `EEWrite` are what it jumps to, with the read
back. `rx` is the receive buffer, which is free again when a frame has been carried out. The sum
is kept in two bytes of `Byte` values each, since `Verdict` adds the upper one only when the lower
is right. `missed` holds the rows that were sent since the sum was cleared, or before, and are not
in it. The tool (`Tool...`) is not in the repository: it sends what the comments of `Boot4.asm`
say of the protocol, waits for answers, and starts the download again when they do not come.

*TcpStream.* `S` sends and `R` receives; both are the TCB and stub of a socket of `TCP.c`.
`TCPPutArray`, `SendTCP`, `HandleAck`, `HandleData`, `TCPGet` are the routines of these names
(the last two but one are the halves of `HandleTCPSeg` for one direction), and `TickSend`,
`TickRetransmit`, `TickGiveUp`, `TickClose`, `TickKeepAlive`, `TickR` the branches of `TCPTick`. A
sender that gives up goes to FIN_WAIT_1 and sends what is left with a FIN and fresh retries
(`SendFin`), until an acknowledgement passes for one of the FIN (`Heard`, `StateAfter`) or
`TickClose` ends it. `RecvAck`, `RecvData` and `LoseSegment` are the network's; the receiver's MAC
may make the window it announces as small as it likes.

*TcpConn.* `HandleTCPSeg` is cut by state (`Listening`, `SynSent`, `Connected`); `AtServer` and
`AtClient` are `FindMatchingSocket` with its queue; `TickServer`, `TickClient`, `KeepServer`,
`KeepClient`, `TickQueue`, `QueueTimeout` and `ArpIsResolved` are what `TCPTick` does to a
socket or to the queue; `LeaveServer`, `LeaveClient` and `TCPOpen` are what `gcaeth.c` asks of
the stack, `BootServer` and `BootClient` are `TCPInit`. A window is open or closed:
`Fill` and `Drain` are the receive buffer of a gateway, each segment announces whether there is
room, `SendTCP` sends a FIN only into an open window, and `TickSendServer` and `TickSendClient` send
it when the window opens (`bTXASAP`).

*DhcpClient.* `GetSocket`, `SendDiscovery`, `SendRequest`, `SendRenew` are states of `DHCPTask`;
`Deliver` is a datagram for it (`_DHCPReceive`, then `Taken`), `Tick` what a unit of
`DHCP_TIMEOUT` does to the states that wait (`Later`); `LinkDown` and `LinkUp` are `StackTask`'s,
`Configure` and `Disable` are what NVSET of NV1 does (`DHCPInit`, `DHCPDisable`). `Serve` is a server;
those in `Unstated` do not say how long their lease is, and the client counts what
`SendDiscovery` has put there (`LeaseDefault`).

## 3. Runs

States are distinct states of the complete search; the violation run stops early.

| Run | Bounds | What it shows |
|---|---|---|
| `can_tx_errors` | 2 slots, 4 frames, arbitration boost after 2 losses, all errors, `isr_low` anywhere; 6,280,000 states | `memcpy` stays in the array, and a failure lets one frame past the queue; unless `clashed`, the fifo holds exactly the frames that wait, in order, and no frame is loaded twice or withdrawn; unless `lapsed`, TXB0 is under the timeout, and unless either, a queue never stands still |
| `can_tx_timed` | 2 slots, 4 frames, errors that do not concern TXB0, `isr_low` anywhere; 1,030,000 states | `canbusSend` returns on a dead bus, unless `clashed` or `lapsed` |
| `can_tx_spin` | as `can_tx_timed` | **violation**: without that exception `canbusSend` may never return |
| `can_rx_fifo` | ring of 4, 3 hardware buffers, watermark 2, 7 frames of which one is skipped, `isr_low` anywhere; 294,000 states | refinement of `LossyFifo`, which counts its losses, until `clashed`; no frame is stuck |
| `gateway_relay` | 2 clients, room for 2 frames, 3 frames, pieces, idle closes; 750,000 states | order per sender, no duplicate and no echo to the sender, one more offer of a missed frame |
| `gateway_live` | 2 clients, room for 1, 2 frames of all kinds, 1 loss; 375,000 states | every frame reaches everyone who has room; no loss is reported twice |
| `connections_idle` | 1 server socket and the bridge, idle time 2, heart beat 2, any number of connections in one poll; 108,000 states | server sockets are kept; closed for own silence, or for that and the silence inherited within one poll, and then for certain; the bridge comes back |
| `node_power` | 2 numbers (one reserved), 2 values of NV1, 2 groups set by tools, 1 loss of power; 1,033,000 states | the number, the variables in use and the defaults survive; one number for one press; the button restores; a node told to boot does |
| `boot_power` | 3 segments, one row of zeros, 6 rows of program memory in 3 blocks, a sum of two digits to base 3, one lost frame, short frame, failing write and loss of power; 1,724,000 states | OK means programmed, unless what the sum lacks adds up to nothing or an address was lost; the application starts only whole; nothing else is written; in the end it runs |
| `tcp_stream` | FIFOs of 3 usable bytes, segments of 2, 4 bytes, one of each fault or two overtakings, every smaller window; 490,000 states | the stream is a `ByteStream`; the two ends agree; given up for faults only; everything arrives |
| `tcp_conn` | 1 server socket, a client that opens twice, 2 faults, among them a window that closes; 47,000 states | both ends agree on what is established; half-open and closing connections end, unless their FIN waits for a window that stays closed (`Shut`); nobody waits beside a free socket |
| `dhcp_leases` | 2 servers, one of which does not state its lease, each reachable in either way or both, a lease of 5, of which 2 are counted, acknowledgements late by 1, 2 faults; 404,000 states | an address is used only while it is leased, unless the client is switched off; one socket; bound in the end |

`TypeOK` of a module (`StreamTypeOK` of `TcpStream`) is a conjunct of one of the invariants of its run (`NotReportedTwice`,
`InUseIsStored`, `AppIsWhole`, `EndsAgree`, `EstablishedIsAgreed`, `OneSocket`), or proved as a
theorem of its own (`CanTx`, `CanRx`, `Connections`). Smaller properties are conjuncts too
that one mutant each would not be worth: `NoEcho` in `EthOnce`, `NV1IsStored` and
`CanIdIsStored` in `InUseIsStored`, `WindowKept` in `EndsAgree`.

### Why the bounds are enough

* A fifo of two slots is empty, partly filled, full and wraps; four frames fill it, pass it
  and wrap it once with one in TXB0. Longer fifos repeat these cases; what does not depend on
  the size is proved.
* An idle time of 2 half seconds lets the silence of two connections add up to it, and one tick
  be counted too many.
* The receive ring has 4 slots with 3 hardware buffers in front: 7 frames overflow the ring
  (3 usable slots) and the hardware fifo together.
* Two clients are a sender and a receiver that both compete for room. With room for 1 or 2
  frames the buffer is at its limit in each run.
* One loss of power is the only one that a property of the node speaks of: what the next start leaves
  behind is a state the second one starts from. Two numbers let one be reserved. The proofs
  have no such bound.
* The debounce count is 1 (160 in the code): only "reached" and "not reached" matter.
* *Boot loader*: a segment of three rows that begins in the middle of memory, one of the
  configuration words and one of EEPROM take each of the three ways to write, an erasure in
  the middle of a segment, and one at its start; two bits with different weights let the
  sum see some losses and not others: one row adds nothing, and what a repeated command
  clears from the sum may add up to nothing as well.
* *TCP stream*: the FIFOs begin near their ends, so that every pointer wraps within four
  bytes; the buffers are full and the window closes after three. Two overtakings let bytes arrive
  behind a hole twice; three usable bytes are too few for a hole behind a hole, so that these
  branches of `OutOfSequence` rest on the theorems, which have no bound on sizes. One fault of each
  kind is needed for a retransmission, a repeated
  acknowledgement or a window probe; one retry is "the last" and "not the last".
* *TCP connections*: a second opening is what an old segment can be taken for; a restart and
  a lost segment, or two losses, are what leaves each end in each half-open state. Larger
  instances with two clients for one server socket were searched once by hand (792,000
  states) with the same result; the queue has entries in both.
* *DHCP*: time, and with it each lease, is in units of `DHCP_TIMEOUT`, two seconds. The client
  counts the lease less a thirty-second of it, renews three times, and may have begun
  to count `MaxLate` units after the server did. `LongEnough`, that is `LeaseCounted + 3 + MaxLate < Lease`, says that
  the lease outlasts this; `DhcpAssumption` does not, since a shorter lease is possible. With two
  faults a lease of 5 is the least for which `BoundIsLeased` holds; with five faults and one server
  it is 7, where `LongEnough` begins. For the code: a thirty-second of the lease, rounded
  down, has to exceed the six seconds of the renewals and the delay of an acknowledgement, which it
  does from 224 seconds on if the delay is less than one second, and from 288 seconds if it is up to two.
  A datagram does not outlive the time that a client counts of a lease.
* `MaxFrames`, `MaxLost`, `MaxOpen`, `MaxLosses`, `MaxPower`, `MaxFaults` and so on are bounds
  of the search. They appear in guards of the environment only.

### Deadlock

It is checked in every run but three. In `node_power` the node waits for commands
in its main loop, where all remaining inputs may be used up, or in the boot loader. In
`tcp_stream` and `tcp_conn` a connection that was given up, or all of them closed
with no opening left, is the end.

## 4. Fairness

* *CanTx*: the tick interrupts for ever (`CheckCANTimeout`, strong, since `isr_high` is a
  single step that may be disabled for a moment), a routine that was entered runs on, and
  the main program gets its turn between interrupts (`MainStep`, strong). The bus owes
  nothing: `TxDone` has no fairness.
* *CanRx*: `canbusRecv` is called for ever by the main loop; interrupts as above.
* *Gateway*: the main loop turns (`WF_vars(Loop)`). Clients and the bus owe nothing.
* *Connections*: the main loop and the tick; the timers of the stack that finish a
  connection being closed (`CloseWait`, `Finish`: `TCPTick`); and `Establish(0)`, which says
  that the remote gateway accepts the bridge if it is asked again and again. Without it
  there would be nothing to come back to. No fairness for `Data`, `Lose` or `Abort`.
* *FlimNode*: the processor runs on (`Write \/ Start`). Commands and the button are free.
* *Bootloader*: the loader runs on, and somebody has a tool that goes on trying. Faults owe nothing.
* *TcpStream*: the main loops of both ends run the stack, and the receiver reads; what the
  network does not lose it delivers. The application that puts bytes is free.
* *TcpConn*: as above, one fairness condition for each socket. `TickServer` and `TickClient` are
  strong: a retransmission timer is not stopped by what is heard in between, which for
  a moment makes its expiry early and so a fault; keep-alives, which are weak, are.
  Applications, restarts and the receive buffers (`Drain`) are free.
* *DhcpClient*: the main loop (`Task`, `Deliver`), time (`Tick`), servers that answer what they get,
  and a link that comes back. With no fairness for the link nothing could be promised.

All faults are bounded, which is the usual way to say that they end: liveness is what
happens after the last one.

## 5. Proofs

All theorems hold for all values of the constants that the modules assume.

| Theorem | Statement | Assumptions | Argument |
|---|---|---|---|
| `CanTx_proof!TypeCorrect` | `Spec => []TypeInv` | `TxAssumption` | `TypeInv` is the type invariant with `IndexInv`: the value of `FifoTxIdxW` that each line of `canSend` relies on. `++FifoTxIdxW` leaves the array for one line, so types alone are not inductive. |
| `CanTx_proof!PutStaysInBounds` | `Spec => [](TypeOK /\ PutInBounds)` | `TxAssumption` | from `IndexInv`: `isr_low` may replace 0xFF by a slot behind the test, and never the other way round |
| `CanTx_proof!PendingAlwaysTimed` | `Spec => []PendingIsTimed` | `TxAssumption`; the property excepts `lapsed` | `TimedInv`: the lines between the timeout and TXREQ know that it runs, and whatever takes it away from them or from TXB0 sets `lapsed`, which only a new timeout clears |
| `CanTx_proof!QueueAlwaysExact`, `LoadedAtMostOnce` | `Spec => []QueueExact`, `Spec => []LoadedOnce` | `TxAssumption`; the properties except `clashed` | `TxInv`: what `FifoTxIdxW`, `FifoTxIdxR` and TXB0 are at each line of `canSend` and `canTxFifo` (`MaskInv`, `FreeInv`), that frames not accepted yet are in neither (`FreshInv`), and that the slots between the indices hold the accepted frames one by one (`QueueInv`); it is inductive for every fifo size because advancing an index modulo the size moves one end of that interval, and a `canTxFifo` within `canSend` moves the other end and leaves it, unless it meets the slot or the TXB0 that `canSend` is filling, which is `clashed` |
| `CanTx_proof!PendingAlwaysKept` | `Spec => PendingKept` | `TxAssumption`; excepts `clashed` | step by step from `TxInv`: the lines that write TXB0 are reached only with TXREQ clear |
| `CanTx_proof!OvertakesOnlyAfterFailure` | `Spec => OvertakeOnlyAfterFailure` | `TxAssumption` | `PassInv`: whoever is on the way past a queue that is not empty has found `canTransmitFailed` set, which a failure sets with `unspent`, and `unspent` is cleared only there |
| `CanTx_proof!NoQueueOrphaned` | `Spec => []NoOrphan` | `TxAssumption`; excepts `lapsed` and `clashed` | `AliveInv`, on top of `TimedInv`: if frames wait, TXB0 is busy and timed, or the line that will load it is still to come |
| `Tcp_proof!TypeCorrect` | `Spec => []TypeOK` | `ConnectionsAssumption` | `SockInv`, which knows what `openBridge` leaves behind |
| `Tcp_proof!ServersAlwaysKept` | `Spec => []ServersKept` | `ConnectionsAssumption` | `BridgeInv`: `openBridge` looks for a free connection and always ends with 0, as connection 0 is the only one that can be without a server socket |
| `Tcp_proof!ClosedForSilenceOnly` | `Spec => ClosedForOwnSilence` | `ConnectionsAssumption` | `IdleInv`: `HCB[].idle` is at most one tick ahead of the silence of the connection that is up now and of the ones it took the socket over from unseen (`before`) |
| `Tcp_proof!EndsAlwaysAgree` | `StreamSpec => []EndsAgree` | `StreamAssumption` | `StreamInv`. The sender's FIFO holds the bytes from the last acknowledged one to the last put, each at the place its number gives, and without a timer nothing is in flight (`SenderInv`); the receiver's holds what it has promised, and what lies behind a hole is right (`ReceiverInv`); a segment on its way carries the bytes of its number, or repeats one that was taken (`DataInv`); no acknowledgement is ahead of the receiver (`AcksInv`), and without overtakings none allows more than there is room for (`RoomInv`, which `WindowKept` needs). Places are remainders, and most lemmas are about them |
| `Tcp_proof!StreamKeepsPromise` | `StreamSpec => KeepsPromise`, that is, `TcpStream` implements `ByteStream` | as above | `TCPPutArray` puts, `TCPGet` gets, the byte it gets is the next one by `ReceiverInv`, and every other step is a stutter |
| `Tcp_proof!GivenUpOnlyForLosses` | `StreamSpec => []GivenUpForLosses` | `StreamAssumption`; the property itself excepts overtakings and windows made smaller | `FaultInv`, on top of `StreamInv`: the retries counted are no more than the faults, and one less while no acknowledgement of all that is in flight will come without another retry (`Paid`). It will come (`Coming`) while the bytes the receiver does not have are on their way in segments that follow each other (`Chain`), or it has them all and is to answer, or the answer is on its way. Likewise the probes, of which one may be without an answer while that is to come (`Waited`). A timer that is not early finds nothing on its way (`Quiet`), so it finds the fault; a loss pays for what it takes. `Flagged`, that what the window allows to be sent will be sent without a retry, is needed where nothing is in flight |
| `FlimNode_proof!TypeCorrect` | `Spec => []TypeOK` | `NodeAssumption` | `TodoOK`: one or two writes of different cells wait; a byte stays one when a bit is toggled |
| `FlimNode_proof!NumberAlwaysSurvives` | `Spec => []NumberSurvives` | `NodeAssumption` | `NumberInv`: the number in use is the one EEPROM holds when all writes that wait are done (`Final`), but for a number that was torn; the one last stored is what it holds before them |
| `FlimNode_proof!OfferTakenOnce` | `Spec => []OneNumberPerOffer` | `NodeAssumption` | `OfferInv`: a node that waits has taken none |
| `FlimNode_proof!InUseAlwaysStored` | `Spec => []InUseIsStored` | `NodeAssumption` | `NV1Inv`, `CanIdInv` and `LowInv`: even the low byte of a torn number is one of an assigned number, and the CAN identifier depends on no more |
| `FlimNode_proof!DefaultsAlwaysComplete` | `Spec => []DefaultsComplete` | `NodeAssumption` | `Group`, once for each group: its first byte is not written without the rest, unless power failed in between |
| `FlimNode_proof!ButtonAlwaysRestores` | `Spec => []ButtonRestores` | `NodeAssumption` | `ButtonInv`: with the button down since the reset, each group that was passed is written or waits to be |
| `DhcpClient_proof!OneSocketAlways` | `Spec => []OneSocket` | `DhcpAssumption` | inductive as it stands: the socket is open in exactly the states between GET_SOCKET and BOUND |
| `DhcpClient_proof!LeaseOutlastsUse` | `ASSUME LongEnough PROVE Spec => []BoundIsLeased` | `DhcpAssumption`; `LongEnough`, which TLC finds to be exact (section 3); no bound on the number of faults | `LeaseInv`: what is left of the lease at the server covers what the client still counts and the renewals it has left (`TimeInv`); an acknowledgement on its way is no older than `MaxLate` (`NetInv`), each wait for one ends in the next renewal or in a new discovery, and nothing of an earlier exchange is on its way during a renewal (`RenewInv`), since answers are not told apart by their transaction |
| `CanRx_proof!TypeCorrect` | `Spec => []TypeOK` | `RxAssumption` | inductive because it says where the read index may be: `++FifoIdxR` leaves the array for one line (`WrapOK`), which no turn of `canbusFifo` may use as an index |
| `CanRx_proof!FrameOrderKept` | `Spec => KeepsPromise`, that is, `CanRx` implements `LossyFifo` | `RxAssumption`; until `clashed` | the queue that `LossyFifo` has is what the ring and the hardware fifo hold, without the frame in the caller's hands (`SwInv`, `HwInv`: each is in order, and the ring is older); `CodeInv` says what `canbusRecv` knows at each line about the slot it reads. Initial states map to initial states; a step is a reception, a loss, a delivery, or a stutter |
| `Gateway_proof!LossesReportedOnce` | `Spec => []NotReportedTwice` | none beyond `GatewayAssumption` | `CountInv`: what was told and what is still counted is no more than what was lost, also between the report and the line that clears the counter |
| `Gateway_proof!SendersInOrder`, `EthernetOnce` | `Spec => []SameSourceOrder`, `Spec => []EthOnce` | as above | the frames that wait to be parsed have numbers of their own, rising in each queue (`PendInv`), and nothing that was put out is among them (`HistInv`); a repeated CAN frame is the last one from CAN (`RetryInv`) |
| `Gateway_proof!MissedOffered` | `Spec => []MissedIsResent` | as above | `RetryInv`: while `rsend` is set, each client that was there when `cmsg` came has it or missed it once |
| `TcpConn_proof!EstablishedByBoth` | `Spec /\ []NumberLeft => []EstablishedIsAgreed` | `ConnAssumption`; `NumberLeft` in every state: some initial number is in no socket, no waiting request and no segment on its way. `LFSRRand` draws from 2^32 of them. TLC finds `NumberLeft` true in all states of `tcp_conn`, whose `Isns` are chosen for it | `AgreedInv`: a segment on its way to a server that acknowledges its number with the number of a client, and a client that goes by both, have the pair in `agreed`, as long as a server socket still has its number. Each operator on a socket keeps both numbers, or ends the connection (`Proceeds`), and signs what it sends with them or sends a reset (`Says`); a number that is new belongs to no segment |
| `Bootloader_proof!OkAlwaysMeansProgrammed` | `Spec => []OkMeansProgrammed` | `BootAssumption`, `DownloadGoesUp`; the property excepts what the sum cannot see (`Assured`) | `SumInv`: there is a set of rows, of those sent so far, that the loader has summed, and one more in its buffer if that holds data; if none of those sent is missing, then the loader is at the place the tool believes, and each row summed is in its place or `errVerify` is set. The next row is above all of them, so neither its write nor its erasure touches one. A sum that fits leaves rows that are missing with sum 0: there are none, or the loader is `Blind` (`VerdictInv`). `missed` is shown to be the rows that are not in the sum. Needs `TalkInv`, which says what is on its way in each state of the tool |
| `Bootloader_proof!AppIsAlwaysWhole` | `Spec => []AppIsWhole` | as above | `VerdictInv` keeps OK true until the reset command; `FlagInv`: the address never gets to the boot flag, not even when one was lost, so that only that command clears it. `RegInv` and `FlagsInv` are the types |
| `Bootloader_proof!OthersAlwaysKept` | `Spec => OthersKept` | `BootAssumption` | `TrackInv`: unless an address was lost, an unlocked loader is at the place the tool believes it to be, or behind it in the same segment; a loss of power leaves it anywhere, but locked, and only a new address unlocks it |

The theorems about the node, the boot loader and the DHCP client matter beyond the runs because the
runs allow one loss of power or two faults; the theorems allow any number: that about the lease too,
whose one condition, `LongEnough`, is about the lease and not about faults. Those about the CAN
paths, the relay and the byte stream hold for the fifo and segment sizes of the code, which are beyond
TLC, and those about the stream for any number of faults.

The sum of the boot loader is a fold over a set of rows, of which the provers know nothing, and
whose definition is recursive in the library. `Bootloader_proof` shows first that a fold over a
finite set is unchanged by the choices it makes: adding an element adds its value (`Total`, by a
smallest counterexample, not by induction over an operator), and that remainders add up.

`DownloadGoesUp` says of a download that its rows go upwards in memory and are not the boot
flag, as in a hex file; TLC evaluates it for the download it checks. Without it both theorems are
false: the first row of a block erases the block, and with it a row that was written before.
Rows that add nothing to the sum are allowed, as real files have them. What a loss of such rows
means is said by the property: OK is trusted if the rows missing from the sum are none, or add up to
something (`Blind`).

No theorem about the CAN paths keeps `isr_low` out of a critical section: `canSend` and
`canbusRecv` mask one enable bit each, and the other sources of `isr_low` stay enabled. `clashed`
and `lapsed` are the exact places where that hurts; `can_tx_spin` and section 6 show
that they do, and the theorems that nothing else does. `PutStaysInBounds`, `OvertakesOnlyAfterFailure` and both
`TypeCorrect` need no exception.

Only model-checked is liveness (`SendReturns`, `NoneStuck`, `RelayedToAll`, `SilentIsClosed`,
`BridgeComesBack`, `BootIsReached`, `EventuallyRuns`, `EventuallyArrives`, `HalfOpenEnds`,
`ClosingEnds`, `WaitersAreServed`, `StaysBound`), as there is no prover here for fairness. Every invariant and
every action property of the runs that pass has a theorem, under the assumptions in the table.

No module has a recursive operator.

## 6. What the checks found

* **`canSend` and a second way into `isr_low`** (`canbus.c:176`, `can_tx_spin`). Masking TXBnIE
  does not keep `isr_low` from calling `canTxFifo`: it tests TXBnIF alone and is entered for
  other sources. The write index 0xFF can end beside an empty fifo, and `canbusSend` spins.
  Without `clashed` and `lapsed` in them, `QueueExact`, `LoadedOnce`, `PendingKept`, `NoOrphan` and `PendingIsTimed`
  fail in the same way: `canTxFifo` loads TXB0 where `canSend` has found it free, takes the frame that
  `canSend` has put but not published, or, finding nothing to send, clears the timeout that
  `canSend` has just set (`canbus.c:186`) or counts on.

Seen while reading or checking, without a run of its own. In CAN and gateway:

* A bus error clears the timeout and the request of TXB1 (`canbus.c:475`): TXB0 stays busy, without
  a timeout (`lapsed`).
* The boost of a frame that lost arbitration sets TXREQ again without looking whether the frame was
  sent or aborted meanwhile (`canbus.c:466-470`, `LateBoost`): it may be sent twice, and without a timeout.
* `canbusRecv` masks FIFOWMIE as `canSend` does TXBnIE (`canbus.c:336`): a `canbusFifo` that another
  source lets in there brings a frame out of order (`clashed`).
* A frame that TCP delivers in two segments is lost (`gcaeth.c:277`): with `Split = TRUE` in
  `gateway_live`, `RelayedToAll` fails.
* `NV1 && CFG_DHCP_CLIENT` (`eth.c:263`) is a logical for a bitwise and: DHCP is on after a start
  whenever NV1 is not 0. `Dhcp` of `FlimNode` models it so.
* A CAN frame a client had no room for is broadcast again with 0xFF (`cangc1e.c:220`), which
  sends it back to CAN and a second time to the clients that had room. `Gateway` has this
  behaviour, and `EthOnce` and `SameSourceOrder` are stated so as to allow it.
* A client that gets a socket within the poll of the stack in which another left it inherits the
  silence of that one and may be closed early: the application does not ask `TCPWasReset`, which
  the stack has for this (`TCP.c:698-707`). `ClosedForOwnSilence` counts it (`before`), and fails
  if it does not.
* `IdleTime` is 120 after each start although NVSET keeps it in EEPROM (`cangc1e.c:145`,
  `commands.c:319`); with 255 the timeout never comes (`gcaeth.c:309`).
* The four bytes of the remote address are set by four NVSET frames, between which a heart beat
  may open the bridge to an address that is half old and half new (`gcaeth.c:229`).
* `eeWrite` switches interrupts on when it is done, whatever they were (`utils.c:45`).
* A button held at power-up asks for a number when it is let go (`cangc1e.c:237`).
* `CANID` is 0 for a node number whose low seven bits are 0 (`cangc1e.c:183`).
* The high water marks (`canbus.c:206`) are computed from an index that may be 0xFF.
* `PIR3 = 0` (`isr.c:113`) drops a transmit interrupt that came meanwhile; the timeout or the
  next `canSend` repairs it.
* DHCP that is switched off by NVSET (`commands.c:303-305`) leaves the address and `bIsBound`, and
  nothing renews the lease, as the comment of `DHCPDisable` says (`DHCP.c:267-271`).

In the boot loader:

* `Boot4.asm:365-376`: the reset command leaves the boot flag as it is while writing is
  locked; `:394-396` says that the test-and-run command clears it, which it does not.
* A lost control frame with the address of a segment is not noticed: the sum is over data only,
  and the rows go where the segment before ended (`astray`, which `OkMeansProgrammed` excepts).
* The test-and-run command adds the tool's complement to the sum, so that a second one after a
  lost answer fails; the download has to start again.
* Rows of zeros, or others that add up to nothing, may be lost and the answer is OK all the same
  (`Blind`). So may rows that came before a short control frame, if that repeats the command to
  clear the sum.
* A configuration word that differs when it is read back is not recorded (`Boot4.asm:596`;
  `unseen`). After a loss of power a sum and an error flag of uninitialized memory may fit
  (`gamble`).

In TCP, as this firmware uses it:

* A window update that is lost stalls a sender whose retransmission timer is on: it sends an
  ACK without data, which the receiver does not answer (`TCP.c:3054`, `:3788-3793`; `Unaware` in
  `EventuallyArrives`). The next update or keep-alive ends it.
* The window is computed as announced less in flight, in a WORD, and an acknowledgement that was
  overtaken makes it very large (`TCP.c:3952`; `WindowKept` excepts it). What is sent into a
  window that was closed is not taken, and as it is in flight, the next acknowledgement that
  announces 0 wraps again: retries are used up on a reader that is only slow, and the connection
  is given up although nothing was lost. TLC finds this after two overtakings with a transmit
  FIFO of four bytes and six bytes sent, which is just beyond the bounds of `tcp_stream`;
  `GivenUpForLosses` excepts it; without overtakings and smaller windows it cannot happen, whatever
  the sizes (`GivenUpOnlyForLosses`).
* An acknowledgement of a retransmission leaves `retryCount`, so that `TCP_MAX_RETRIES` faults may
  suffice to give up, where one more would be right (`GivenUpForLosses`).
* A FIN counts as acknowledged when the byte before it is (`TCP.c:3941`, `:3965`), and an ACK in
  FIN_WAIT_2 is answered by a reset (`:3984`). In a connection that is being given up a fast
  retransmission makes an acknowledgement of old data pass for one of the FIN.
* A FIN is sent only if the window has room beside the data (`:3013-3016`), and without it no timer is
  started (`:3023`), nor does one that runs count (`:3054-3066`). A socket whose peer keeps its window
  closed stays in FIN_WAIT_1, CLOSING or LAST_ACK for ever, although the comment in `TCPDisconnect` says
  that these states "will close themselves after some delay" (`:909`). `ClosingEnds` and
  `HalfOpenEnds` except it (`Shut`) and fail if they do not.
* A socket that takes a SYN from the queue keeps the segment size of the connection before
  (`TCP.c:2444-2449`). A SYN that is repeated after its socket came free leaves its entry in the
  queue (`:3258-3289`).

In DHCP: all exchanges have one transaction id, and it is not compared (`DHCP.c:1011`); an OFFER
that comes during a renewal replaces the address to be renewed (`DHCP.c:665`); refusals and messages of other servers
overwrite `tempIPAddress` before the server is looked at; the address stays in use when the
lease is lost; the lease counted is that of the last message kept, and renewal begins with a
thirty-second of it left, so that a lease of less than 224 seconds may run out while the client still
renews it (`LongEnough`).

## 7. What the models leave out

* *CanTx*: `setupIO` and bit timing; TXB1 and TXB2 are never loaded; the reading of status
  registers has no side effect. The receive path appears as `isr_low` entered at any time
  and as the values `FifoIdxR` may have (`RxIdx`).
* *CanRx*: filters, and the second kind of overflow inside the ECAN.
* *Gateway*: the text form of frames (`msg2ASCII`, `ascii2Msg`) and its buffer of fixed length;
  a frame is a record of sender, number and kind. CAN frames arrive when the loop asks for
  one and overflow while Ethernet is served, which is when nobody takes them out. A connection
  that is dropped loses its buffers at once. The idle timeout may close a connection at any
  time; `Connections` says when. Heart beat and bridge are not part of it, nor are Y frames
  other than the status request, which change nothing. `got` and `missed` leave out the
  reports of lost frames.
* *Connections*: states of a socket that the application treats alike are one state; what
  the heart beat sends is left out; the remote address is set or not set, and may change
  while connections are served. A reset of a server socket in CLOSE_WAIT goes by way of
  `closing`. The reply RTOF to a client that was idle is in `Gateway`.
* *FlimNode*: EEPROM bytes that are only written and read together are one cell
  (`macRest`, `ip`, `remote`); the answers, LEDs, MAC chips; what NVSET does to the DHCP client, which is in `DhcpClient`; the
  idle and power flags of NV1, which are constants of `Connections` and `Gateway`.
* *Bootloader*: the set-up of the CAN module; the erase-only bit, which no tool sends; rows
  that are not full; a boot flag in the file that is downloaded (the hex file of `commands.c`
  holds one, which a tool has to leave out).
* *TcpStream*: the other direction, urgent data, options; the lookup, insert and discard functions of the
  interface, which this firmware does not call. *TcpConn*: data, windows but for open and closed, and a second
  connection between the same ports while the first is remembered.
* *DhcpClient*: options, names, masks and gateways; the ARP and UDP below; a server
  keeps one address for the client.
* An endless stream of CAN frames keeps `while (canbusRecv(&cmsg))` from ending
  (`cangc1e.c:201`); the bound on frames hides it.
* Not modelled: the rest of the stack, which is compiled in but stateless between two
  datagrams or a driver of a chip (IP, UDP, ARP, ICMP, NBNS, Announce, ENC28J60: what they can do to a segment, to lose or to
  answer it, is in the networks of the models above); the files of the stack that are not built;
  board I/O and LEDs (straight line code); generated files. Together the files that are not
  built are the greater part of the repository's lines, which no model of this program can cover.

## 8. Plan

Done, in this order: `CanTx`, `CanRx` with `LossyFifo`, `Gateway`, `Connections`, `FlimNode`,
`Bootloader`, `TcpStream` with `ByteStream`, `TcpConn`, `DhcpClient`,
and the proofs about `CanTx`, `CanRx` and `TcpStream` with their refinements, `Gateway`,
`Connections`, `FlimNode`, `DhcpClient`, `TcpConn` and `Bootloader`. Next:

1. `CanIsr`, a composition of `CanTx` and `CanRx` under one `isr_low`, where the sources that
   each module allows at any time are the other path's own interrupts.
2. An abstract relay (each frame goes to a set of receivers, once, in order per sender) with
   `Gateway` shown to implement it.
3. An abstract transmit queue for `CanTx`, as `LossyFifo` is for `CanRx`.
