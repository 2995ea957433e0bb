# A TLA+ model of the dLAN Green PHY SDK firmware

The firmware of the dLAN Green PHY evaluation board joins two network
interfaces on one LPC1758: an Ethernet port and a power line (PLC) port behind a
QCA7000 chip on SPI. On top of FreeRTOS and a multi-interface fork of
FreeRTOS+TCP it bridges the two, is an IP host itself, serves web pages, and
drives add-on boards ("clickboards") that a web page configures. This directory
models that code, checks it with TLC, and proves what matters most of it with
TLAPS.

Short names used below:

| name | file |
| --- | --- |
| `TCP/` | `src/Libraries/FreeRTOS-Plus-TCP-multi-master/source/` |
| `NI/` | `TCP/portable/NetworkInterface/` |
| `BOARD/` | `src/Libraries/dLAN_Green_PHY_eval_board/src/` |
| `APP/` | `src/Applications/` |

1. The system
2. The modules
3. The runs
4. The proofs
5. What the code does not do as it says
6. Not modelled
7. What is left

## 1. The system

### Components

| component | code | state | operations | status |
| --- | --- | --- | --- | --- |
| QCA7000 framing | `NI/QCA7000/qca_framing.c`, `.h` | the decoder handle: state, length, offset | create header and footer, decode a byte, bytes required, next action | modelled, proved |
| QCA7000 receive | `qca_spi.c` 176-247, 335-479 | count of readable bytes, `rx_buffer`, `rx_desc` | read chunk, read burst, hand over a frame | modelled, proved |
| QCA7000 transmit | `qca_spi.c` 254-324, 481-497; `QCA7000/NetworkInterface.c` 188-205 | `txQueue`, count of free room | output, transmit, pad, flush | modelled, proved |
| QCA7000 SPI thread, sync, interrupt | `qca_spi.c` 504-731; `QCA7000/NetworkInterface.c` 245-255 | sync state, `available`, interrupt registration, notification bits | wait, acknowledge, handle each cause, reset, watermark | modelled, proved |
| DMA dispatcher and bursts | `BOARD/lpc_dma.c`, `qca_spi.c` 94-160, 176-247 | channels, table of handlers, counting semaphore | acquire, register, transfer, interrupt, stop | modelled, proved |
| MME exchange | `QCA7000/NetworkInterface.c` 113-183, `mme_handler.c` | `xMMEQueue`, `usExpectedMME`, retries | ask for the address, filter the answer, time out | modelled, proved |
| Network buffer pool | `TCP/portable/BufferManagement/BufferAllocation_1.c` | free list, counting semaphore, minimum | get, release, from tasks and interrupts | partly, proved: not the memory behind a descriptor |
| Bridge | `TCP/FreeRTOS_Bridge.c`, `NI/Bridge/NetworkInterface.c` | forwarding table, buffers on their way | learn, look up, age, decide, duplicate, output | modelled, proved |
| Ethernet driver | `NI/LPC1758/NetworkInterface.c` | descriptor rings, semaphore, mutex, link | output, interrupt, receive, clean up, poll the link, initialise | modelled, proved |
| PHY polling | `BOARD/lpc_phy_smsc87x0.c` | link state, change flag | poll | partly: not speed and duplex |
| GPIO dispatcher | `BOARD/lpc_gpio_interrupt.c` | table of handlers | register, unregister, dispatch | partly: it only ever has one handler, which is in `QcaSpi` |
| Configuration store | `APP/SaveConfig` | TLV cache, flash sector | find, set, get, write, erase, verify | modelled, proved |
| Clickboard manager | `APP/ClickboardConfig` | active ports | activate, deactivate, start from the store | modelled, proved |
| Clickboard drivers | `APP/Clickboards` | task, I2C mutex | Init, Deinit, the task's use of the bus | partly: not the devices' registers |
| Start-up, network events | `APP/FreeRTOS/src/network.c`, `hooks.c`, `TCP/FreeRTOS_IP.c` | the interfaces' bits, down events, retry timer | initialise, retry, come up | partly |
| DHCP client | `TCP/FreeRTOS_DHCP.c` | state, socket, timer, transaction | `vDHCPProcess` with all states this firmware can be in | modelled, proved |
| Web server | `TCP/protocols/HTTP`, `TCP/protocols/Common` | clients, their files | select, accept, read, reply, send a file, delete | partly: `GET`, one request at a time |
| Web queries | `APP/HTTP/src/http_query_parser.c`, `http_request.c` | - | a query becomes requests of the clickboard manager | partly: what they request, not their text |
| TCP/IP stack | `TCP/FreeRTOS_IP.c`, `_Sockets.c`, `_TCP_IP.c`, `_UDP_IP.c`, `_ARP.c`, ... | event queue, sockets | what the components above use of it | partly |
| FreeRTOS, LPCOpen, parson, web assets, the chip's firmware | `src/Libraries`, `APP/JSON`, `APP/HTTP` | - | - | not modelled: vendored, generated or binary |

### How they interact

The **SPI thread** of the PLC driver and the **EMAC task** of the Ethernet driver
have the highest priority, equal, without time slices. The **IP task** is one
below, the **web server's task** below that, and the **clickboards' tasks** are
the lowest. A driver that has received a frame asks the bridge, which learns the
sender, looks the destination up and puts the frame into the other interface's
output, the IP task's event queue, or both. The IP task sends through the bridge
interface. Every frame travels in a network buffer, and the right to use and to
release that buffer travels with it: over the pool, the drivers' queues and
rings, the event queue, the sockets and the MME queue. Interrupts notify a
driver's task and do little else.

The IP task also owns the timers: it initialises the interfaces on their
network-down events, runs the DHCP client, and handles the TCP sockets, whose
children pass between it and the web server's task by bits, events and one
pointer of the listening socket. The web server's task answers a query by
calling the clickboard manager, which starts and stops the clickboards' tasks
and records what runs in the configuration store.

### What is hard

- the pool, the forwarding table and the rings are shared by tasks that preempt
  each other, mostly without locks or with a lock around half of what they do;
- the PLC chip reboots on its own, and the driver's only news of it is an
  interrupt bit that shares a line with all others;
- bytes of a frame are told from bytes of a header by counting alone, over reads
  that are chosen so as not to run past either;
- counts are kept next to the thing they count (the chip's free room, the
  semaphores, the ring's indices, a listener's children), and drift apart at
  their limits;
- the bridge ignores what the output functions return, so that whether a buffer
  is lost or released twice depends on each of them;
- a flash sector is erased in the middle of a write, while the cache points into
  it, and the supply may fail at any time;
- answers may come late, twice or never, and a connection may end from either
  side in any state.

The hazards, each at its line, are in `PROJECT.json` with the properties that
would catch them; where the code does not recover, a note says what the property
excepts.

## 2. The modules

Each module's head comment says what its steps are. In general a step is a
stretch of code between two points where another task, an interrupt or the chip
can change what the code reads next; names are those of the code. Operators
whose name begins with `Mut` are plausible bugs; each property is shown to be
violated by one of them (`PROJECT.json`, `mutants`).

| module | models | composed from | checked | proved |
| --- | --- | --- | --- | --- |
| `QcaFraming` | `qca_framing.c` as operators on a handle record | - | in `receive` | `QcaFrames_proofs` |
| `QcaReceive` | the receive loop against a chip that sends bytes and reboots | `QcaFraming` | `receive` | `QcaFrames_proofs` |
| `QcaTransmit` | the transmit loop against a chip that drains | `QcaFraming` (its lengths) | `transmit` | `QcaFrames_proofs` |
| `QcaSpi` | the thread around both, and the chip's registers | - | `spi` | `QcaThread_proofs` |
| `QcaBurst` | one DMA burst, the dispatcher and the semaphore | - | `dispatch` | `QcaThread_proofs` |
| `BufferPool` | what the pool promises | - | as `PoolSpec` | - |
| `NetworkBuffers` | how the pool does it | `BufferPool` (refinement) | `pool` | `NetworkBuffers_proofs` |
| `PacketPath` | how the pool's clients pass buffers on | `BufferPool` (refinement) | `packet` | `Bridge_proofs` |
| `ForwardingTable` | the table and the decision | - | `table` | `Bridge_proofs` |
| `MmeExchange` | who has which buffer while the address is asked for | - | `mme` | `Startup_proofs` |
| `LpcEmac` | the Ethernet driver's ring, interrupt and link | - | `emac` | `LpcEmac_proofs` |
| `SaveConfig` | the configuration store | - | in `config` | `ClickboardConfig_proofs` |
| `ClickboardConfig` | the manager and the clickboards' tasks | `SaveConfig` | `config` | `ClickboardConfig_proofs` |
| `NetworkEvents` | interfaces, network-down events, DHCP client | - | `network` | `Startup_proofs` |
| `WebServer` | the listening socket, its children, the server's task | - | `web` | `WebServer_proofs` |

Two modules whose theorems share a proof module (`QcaReceive` and `QcaTransmit`,
`QcaSpi` and `QcaBurst`, `PacketPath` and `ForwardingTable`, `NetworkEvents` and
`MmeExchange`) have names of their own for what every module has: `TransmitSpec`,
`BurstSpec`, `TableSpec`, `MmeSpec`, and so on.

### QcaFraming, QcaReceive

`FsmDecode` is `QcaFrmFsmDecode`, one byte at a time, with the handle as a
record `[state, offset, len]` plus what is stored where; `BytesRequired` and
`GetAction` are the functions of the same name. The receive loop has one action
for each iteration: `ReadHeaderOrFooter` (a chunk into `rx_buffer`),
`ProcessByte`, `CopyFrame` (the DMA burst into the rest of the frame),
`FrameComplete`. A byte is a byte; the frames are two traps, one that contains a
start of frame and the start of another, one that holds a start of frame with a
legal length. What the MME filter, the bridge and the pool do with a frame is
only whether the driver has a buffer afterwards. `torn` says that a reboot may
have left the decoder in the middle of a frame; it ends when a receive starts with
the decoder at a header and nothing left in the chip (`CaughtUp`). The chip's length word before
each frame never ends in `0xAA`, which the decoder would take for the start of a
frame (`qca_framing.c:188`); how the chip lays it out is not in the repository.

### QcaTransmit

A frame is its length, that of an ARP packet (42) or a bare acknowledgement (54)
among them. `StartTransmit` reads the chip's free room once (`Free`), and the loop
counts it down in 16 bits while the chip goes on draining. `Padded` is the padding of
`qcaspi_tx_frame`, which the loop's check does not know of; the lengths it pads to and
wraps at are those of `QcaFraming`. `shortfall` is a history variable: a short frame
fitted since the last reading and its padding did not. The chip, overfilled, reports no
room until it has drained; the error it raises is in `QcaSpi`.

### QcaSpi

Every access of the thread to the chip or to the interrupt's registration is an
action, because the chip, the interrupt (`Wake`, on either edge of the line as
long as the handler is registered) and the senders go on between any two of
them. The chip has its cause and enable registers, counters for its two buffers,
and a boot. `qcaspi_qca7k_sync` is one action with the outcomes of its reads.

### QcaBurst

One burst below `QcaReceive` and `QcaTransmit`: a write takes one channel, a read
two, since the SSP must send to drive the clock. `GetFreeChannel`,
`RegisterHandler`, `Transfer`, `Take` and `Stop` are the thread's steps, once for
each transfer; `Finish` and `Fail` are the DMA's; `Interrupt` and `Dispatch` are
`DMA_IRQHandler`, one channel at a time. A channel in error is cleared and gives
nothing.

### BufferPool, NetworkBuffers

`NetworkBuffers` has the free list behind its critical section and the semaphore
outside of it, as `pxGetNetworkBufferWithDescriptor` (`Take`, `RemoveHead`,
`ReadCount`, `CompareMinimum`, `LatchMinimum`) and
`vReleaseNetworkBufferAndDescriptor` (`InsertEnd`, `Give`) do it, and clients
that get, hand over and release in any order. `BufferPool` is the abstract
promise; under the mapping `free <- Range(xFreeBuffersList)` each step of the
first is a step of the second or a stutter, as long as no client keeps a pointer
to a buffer it has handed over. Clients that do are in the model too
(`KeepPointer`: the MME filter makes the PLC driver one); from then on only the
list's own soundness is asked for (`ListIsSound`).

### PacketPath

The pool's clients themselves: the EMAC task, the SPI thread, the IP task and the
tasks that use sockets. `job` is what a task is doing with which buffer;
`Bridged` is the decision of `xBridge_Process` with the duplicate that a second
interface gets (`Duplicate`, which may find no buffer), and `OutputPlc`,
`OutputEth`, `OutputDevice` and `OutputFromDevice` are the three output functions
with everything they do when a queue or a ring is full or a link is down. Each
step gets, passes on or releases one buffer; under the mapping `Held` (whose
which place is) it is a step of `BufferPool`, the same promise that
`NetworkBuffers` implements from below. `from` is a history variable: where the
frame in a buffer entered the bridge. Tasks interleave at every step, which is
more than the priorities allow.

### ForwardingTable

The drivers' `xBridge_Process` is one step: they preempt the IP task, not each
other. The IP task's entry of the device's address, its lookup and its aging go
row by row. `mode` says whether something calls `vAgeForwardingTable` (nothing
in the firmware does) and whether the drivers preempt the IP task (they do).

The table is the sequence of the rows that `uxForwardTableMaxUse` counts. The IP task
compares that count (`Claim`) and increments it (`Increment`) in steps of their own, and
what it stores is one more than any value the count has had since its comparison: an
increment may count an unused row, lose rows that drivers have just appended, or pass the
size of the array (`Foreign`, a row behind it that is not free).

### MmeExchange

The IP task's retry loop with its queue of one answer, against the SPI thread
that sends the request, receives answers and other frames and filters them.
All other users of the pool are one more holder.

### LpcEmac

The two tasks that send (`ip`, `spi`) go through `TakeSemaphore`, `Check` (the
assertion), `Lock`, `Produce`, `Unlock`; the DMA sends (`TxSent`); the handler
notifies and then clears what it has read; the EMAC task receives, then reads
the consume index once and cleans up to there. The scheduler is in the guards:
`cpu` is who runs at the drivers' priority, who keeps it until it blocks.
`PollLink` is the timeout of the EMAC task's wait, with `lpcPHYStsPoll`'s change
flag.

### SaveConfig, ClickboardConfig

`SaveConfig` has the pages of the flash sector, the cache of tagged values, each
in RAM or a pointer into the flash (`InRAM`, `InFlash`), and the write as the
code does it: the list is buffered, a full sector is erased (which drops the
cache), the page is programmed and the cache is pointed at it. `Store` is the
next step of a write under way. A restart may come between any two steps; a
supply that fails leaves, on every page that is being erased or programmed, the page as
it was, `Junk` without a signature, a `Torn` list, or a configuration that verifies with
other values (`Garbled`); `MaxCuts` bounds how often, `Losses` which values. A
configuration of the firmware takes one page.

`ClickboardConfig` extends it: `Activate` deactivates what is on the port and the
clickboard's old port, `FinishActivate` is what comes after its Init got the I2C
mutex, and a clickboard's task takes the mutex, is preempted, gives it back, or
is deleted with it (`"dead"`). `RestartBoards` is the start-up that activates what
the store holds. Every step of it is a step of the store or leaves the store alone,
which is a theorem.

### NetworkEvents

The IP task's loop (`BeginTurn`, then the event or the timer's work), the bits of
the three interfaces, the queue with its down events, and
`vDHCPProcessEndPoint` with its states, socket, timer and its loop over received
messages (`Remove`, `Ignore`, `TakeOffer`, `TakeAcknowledge`). Two servers answer
late, twice to the same transaction, or not at all. Time is left out: a timer
that runs may expire at any moment.

### WebServer

The listening socket and its children as the IP task sees them (state, the bits
`bPassQueued` and `bPassAccept`, the event queue, the count against the backlog),
the server's cycle as its own steps (`Select`, `TakeClient`, `AskForNext`,
`Receive`, `SendReply`, `SendFile`, `Delete`), and peers that connect, ask, close,
reset or are never heard of again. A segment that is lost just does not arrive.
Data is counted in units of what `prvSendFile` sends at once.


## 3. The runs

Each run asks one question of one module. The bounds are the smallest at which
the cases the question is about all happen.

| run | module | instance | properties |
| --- | --- | --- | --- |
| `receive` | `MCQcaReceive` | two trap frames of 5 and 6 bytes, lengths 5..6 legal, a reboot at any byte | `ReadsStayInFrame`, `IntactAfterResync`, `InOrderIntact`, `EveryFrameCompleted` |
| `transmit` | `MCQcaTransmit` | five frames of 42, 54, 60, 577 or 1514 bytes, a queue of 3, the chip's buffer of 3163 | `OverfilledByPadding`, `QueueDrains` |
| `spi` | `MCQcaSpi` | a crash, a buffer error, an ignored reset, a refused buffer; room for one frame each way | `AsleepMeansArmed`, `FramesAreRead`, `QueueMoves`, `Recovers` |
| `dispatch` | `MCQcaBurst` | the 8 channels, one failing transfer | `NothingLeftOver`, `BurstEnds` |
| `pool` | `MCNetworkBuffers` | three symmetric tasks and an interrupt, three buffers, one kept pointer | `PoolSpec`, `ListIsSound` |
| `packet` | `MCPacketPath` | three buffers, one place in each ring and in the event queue, three in the SPI queue | `NeverSentBack`, `PoolSpec`, `FramesLeave` |
| `table` | `MCForwardingTable` | two stations and the device, two ports, two rows, maximum age 2 | `RowsAreFresh`, `KnownIsFound`, `DeviceStays`, `DeviceReachable` |
| `mme` | `MCMmeExchange` | four buffers, two tries, two answers | `NoBufferLost`, `InitialisationEnds` |
| `emac` | `MCLpcEmac` | rings of three, one frame received, two changes of the link | `DescriptorIsFree`, `UnsentIsKept`, `NothingForgotten`, `AllAvailableAtRest`, `LinkIsFollowed` |
| `config` | `MCClickboardConfig` | two ports, two clickboards of which one takes the bus's mutex in its Init, four pages, one failure of the supply that changes no value or one | `CacheMirrorsFlash`, `FoundAgain`, `RunningIsStored`, `ReplacedAtOnce`, `RequestReturns` |
| `network` | `MCNetworkEvents` | two servers, a queue of 3, one doubling of the DHCP period, one offer each, one refusal, one event of the Ethernet link | `RestartMeetsNoAnswer`, `SocketFollowsState`, `BackOnNetwork` |
| `web` | `MCWebServer` | three peers of which one asks, two places, a file of one unit after its head, room for one unit, one lost close event | `SocketsAreFreedOnce`, `NobodyIsForgotten`, `SlotComesBack`, `RequestIsAnswered` |

### What the runs show

- **receive.** The frames are built so that a false start of frame, a false length
  and a false end of frame occur inside a payload. Without a reboot every frame
  is decoded once, in order and unchanged (`InOrderIntact`, `EveryFrameCompleted`).
  With a reboot at any byte, no read leaves the frame it is for, and what is
  delivered once the driver has caught up with the chip is a frame that was sent.
- **transmit.** The chip is overfilled only behind a short frame that fitted before it
  was padded, and by the first such frame no further than it was padded; after it the
  count may have wrapped, and the driver writes whatever comes until it reads the room
  again. The queue drains all the same. The lengths are an ARP packet, a bare
  acknowledgement, the shortest frame without padding, the longest, and one of which a
  whole number leaves a rest that nothing fits. `QueueDrains` is about the loop alone:
  the thread comes back to it at the latest when its wait times out, and the arming of
  the watermark is a matter of `spi`.
- **spi.** The thread never sleeps with its interrupt off and a cause standing;
  what the chip has received is read; the queue moves; a chip that boots in time
  is in sync again and again.
- **dispatch.** A read's two transfers and a write's one give the semaphore as
  often as the thread takes it, in every order of interrupts.
- **pool.** The list and the semaphore implement the abstract pool; a second
  release never puts a descriptor on the list twice.
- **packet.** Whatever queue or ring is full, no buffer is lost or held twice, no
  frame leaves by the interface it came by, and every frame leaves. The last one
  is about the wait of the EMAC task, which alone frees places in its transmit
  ring, for room in the queue of the IP task, which may wait for such a place.
- **table.** A station that moved is found at its new place, not at its old one;
  a row in use is found; the device's own row is never replaced, and leads to the
  device unless a driver preempted its entry. All of this holds although the count of
  the rows may be wrong and pass the table's size (section 5).
- **mme.** A late, repeated or missing answer leaves every buffer with somebody,
  and the retries end.
- **emac.** The ring's places are given back exactly once, no unsent buffer is
  released, the task does not sleep over work, and the interface learns of a link
  that changed.
- **config.** The cache never points at erased flash; the configuration in use is
  the one a start-up finds; outside of the sector's erase the saved configuration
  changes in one step; what runs is what would be saved; a request that waits for
  the bus is answered.
- **network.** The DHCP client starts over only before it has asked; its socket
  has one user; the device gets back on the network.
- **web.** A child is freed once and by the one who has it; a connected child is
  found; places come back; a request is answered to its last byte.

### Why the bounds are enough

Two frames make a chunk that ends one and begins the next. Two stations and the
device are one address more than there are rows, so that a full table has to
replace one. Three descriptors tell a full ring from an empty one with a place
between them (the board's ring has four). With three tasks, one may sit in the
critical section while two others hold counts. A flooded frame takes two buffers
beside the one that waits in the receive ring. Four pages hold three
configurations and refuse a fourth, so that the erase happens, and a gap of one page
between the configuration in use and one that a failure left. Two servers make the
second answer to one transaction. Three peers are one more than the listener has
places. Where a number has no structure behind it (how often a chip crashes, a
link flaps, a server refuses) it is one or two: the code keeps no count of it.
Where the theorems of section 4 cover a run's property, the bound does not matter.

### Exceptions the properties name

Where the code does not recover, the property says so by name instead of being
left out, and does not catch what it names; section 5 has the code's lines.

| name | in | what it excepts |
| --- | --- | --- |
| `history.missed` | `AsleepMeansArmed`, `FramesAreRead` | a boot of the chip that ends between the read of the causes and the enabling |
| `Abandoned` | `Recovers` | a receive that ended for want of a buffer, and a reset the chip ignored |
| `errors > 0` | `BurstEnds` | a transfer that failed |
| kept pointers | `PoolSpec` in `pool` | a client that uses a buffer it has handed over |
| modes of the table | `KnownIsFound`, `DeviceReachable`, part of `RowsAreFresh` | an aged table; an entry that is preempted |
| `Asserted`, `Lapped` | the properties of `emac` | a failed assertion; two tasks that took the same last place |
| `Leftover` | `FoundAgain` | a signed page left behind by a failure of the supply |
| `erased` | `RunningIsStored`, `ReplacedAtOnce` | the window between the erase and the write |
| `"dead"` | `RequestReturns` | a mutex whose holder was deleted |
| `Spinning` | `BackOnNetwork` | the loop over a DHCP answer nobody takes |
| `HalfOpen`, `Orphan`, `lost` | `SlotComesBack` | a peer that vanished from an idle connection; a child whose first segment is a FIN; a close event the queue refused |

### Deadlock

Deadlock is checked except in `transmit` (all frames sent, nothing left to
do), `dispatch` (a failed transfer stops the thread) and `emac` (a failed
assertion stops the board, and all frames may have been sent).

### Fairness

Fairness is given to what the scheduler or the hardware does without being asked,
and to nothing that may stay away:

- a task's step that is enabled and not preempted is taken (weak fairness of the
  SPI thread, the IP task, the web server's task, a clickboard's start);
- a step that is enabled again and again but may be disabled by others of its
  kind is taken in the end (strong fairness): the EMAC task's steps, a place in
  a queue, a buffer from the pool (its semaphore wakes the waiting tasks in
  order), the timers of the IP task;
- hardware goes on: the chip drains its buffer and makes bytes readable, the
  EMAC's DMA sends, a DMA channel finishes, an interrupt is taken;
- `PollLink` is strongly fair only in silence, since it is the timeout of a wait
  that every frame ends;
- the chip's boot is strongly fair where the thread waits for it, once a boot is
  under way: it is the assumption of `Recovers`;
- a TCP peer that is there acknowledges what it got and repeats its FIN, and the age check of a
  child runs. A peer need not connect, ask or close;
- DHCP servers, stations, the link, crashes and the supply get no fairness.

Type invariants are stated in every module that has state, and proved with the
inductive invariants of section 4.

## 4. The proofs

The proof modules hold for every value of the constants that the named assumptions allow
(`tlapm M_proofs.tla`). What each listed theorem says is in `PROJECT.json`. Every
invariant of every run is proved, and every property of a run that is not about
liveness. A theorem assumes nothing but the `ASSUME`s of its module, unless this section
names a hypothesis.

### The frames: `QcaFrames_proofs`

*No read leaves its frame* (`ReadsAreSafe`). `IInv` is `TypeOK`, `HandleInv` (what the
decoder's state says of its offset and length) and `ChunkInv` (how many bytes of a chunk
are still undecoded and which of them belong to the frame). `DecodeKeepsInv` is the
lemma about one byte, `ChunkFits` the one about the choice of the next read. It assumes
nothing of the bytes the chip sends, so that `ReadsAreSafe` covers a reboot and false
lengths.

*Frames arrive in order and intact* (`FramesInOrder`, `FramesIntact`). `FlowInv` says
what the two ends of the SPI bus have in common, as long as no reboot has torn it:
`all`, the bytes the chip has put on the wire since they were last in step; `p[j]`, how
many of them precede frame `j`; `c`, how many the driver has decoded; `k`, how many
frames it has completed. What is neither decoded nor lost is exactly what is in
`rx_buffer`, the chip's buffer and the bytes to come, in this order (`Carries`), and the
decoder's state and the stored bytes are those of `c - p[k + 1]` bytes of frame `k + 1`
(`Decoded`). One byte more keeps this, since in each state the byte of the frame at that
place is the one the decoder expects; so that a payload that looks like a header is
never read as one. A burst that stores the rest of a frame at once is the same for all
its bytes. When the driver has caught up after a reboot the invariant holds again with
an empty wire (`EmptyWire`), which is why `torn` may end only there. Hypothesis:
`WordsAreNoise`, that a length word has four bytes and does not end in `0xAA` (section
6).

*Only padding overfills the chip* (`OnlyPaddingOverfills`, `CountIsSafe`), for frames of
any length. As long as no padding has failed to fit (`~shortfall`) the counted room is at
most the real one: the chip only drains, and the loop counts down by what it sends
(`CountDown`). A frame that is written was found to fit without its padding
(`FrameTaken`), so that it exceeds the counted room, and with it the real one, by no more
than that. From then on the 16 bit difference may have wrapped and the invariant says
only that it is one (`Wraps`), until the room is read again.

### The SPI thread and its bursts: `QcaThread_proofs`

*The thread sleeps armed* (`SleepsArmed`). `IInv == TypeOK /\ BootsDisabled /\ IrqInv`.
From the reading of the causes on, the chip's interrupts are disabled, and only a boot
enables one, whose cause the thread reads or has in what it read (`CauseInv`,
`HandlingInv`); so acknowledging what was read leaves the line idle, or the edge has
been reported (`ArmedInv`). A boot that ends between the reading and the enabling breaks
the first half: that is `history.missed`, and the invariant is stated beside it.

*A burst leaves nothing to the next* (`BurstLeavesNothing`). The invariant says, for
each phase of the thread, which channels it has, and that the transfers still to be
waited for are those under way, those finished and not yet dispatched, and the gives of
the semaphore.

### The pool: `NetworkBuffers_proofs`

`IInv == TypeOK /\ NoDoubleLink /\ SemaphoreMatchesList /\ OneOwner /\ Pointers`. The
list and the semaphore disagree in the middle of a get or a release; the invariant
counts the tasks that are between the two halves, those before taking from the list and
those before giving the count. The critical section makes each step on the list atomic.
`ImplementsPool` maps each step to one of `BufferPool`, `ListSound` holds for clients
that keep pointers as well.

### The bridge: `Bridge_proofs`

*No buffer is lost or held twice* (`PathImplementsPool`), *no frame is sent back*
(`FramesNotSentBack`). Every buffer is in exactly one place (`Spot`); each step moves
one buffer from one place to another, `EmacReceive` two. Each move is a get, a hand-over
or a release of `BufferPool` (`GetRefines`, `HandOverRefines`, `ReleaseRefines`). That a
queue holds a buffer once gives `RoomForOne`: a queue that is as long as there are
buffers has room for a buffer that is not in it, so that the SPI queue never refuses
one, whose result the code ignores. `JobFits` ties what a task is about to output to
where the frame came from and gives `FramesNotSentBack`. `RoomInv` bounds the ring and
the event queue (`PathTypeCorrect`).

*The table tells where a station is* (`RowsStayFresh`, `KnownStaysFound`,
`DeviceStaysKnown`, `DeviceIsReached`). A table that nothing ages has one row for each
station (`UnagedInv`). One that is aged may keep an old row beside the new one;
`AgedInv` orders them: the rows of a station get younger towards the first, which is the
one a lookup finds, and a row counts no longer than the station has not been silent too
long. A pass of the aging has counted down the rows it has come to and not the others,
and between the two `Behind` and `Lag` correct by one. `OwnInv` and `OneInfinite` say
that only the device's row, or one that is being made it, has the age that never ends,
so that `xUseEntry` does not replace it as the oldest. Hypotheses: `Calm`, that nothing
ages a table whose users are preempted (nothing in the firmware ages one); and for the
two theorems about the device `Entries >= 2`, since the only row of a table of one has
to be replaced (the firmware's has 32).

`CountInv` is what is true of the table's size: the count does not pass it before the IP
task has stored its own, and never where no driver preempts. `Counted` and
`IncrementKeeps` are about that store: it takes in an unused or a foreign row, or leaves
out rows that drivers have appended, and no other row changes. The theorems about the
table therefore hold whatever the count becomes.

### Start-up: `Startup_proofs`

*The exchange loses no buffer* (`ExchangeLosesNothing`). The driver keeps an answer as
its receive buffer although the filter has put it into the IP task's queue. The
invariant is therefore that every buffer has a place besides that queue (`Kept`), and
where the IP task and the driver have one of their own.

*The client starts over unasked* (`StartsOverUnasked`), *its socket follows its state*
(`OneSocketPerClient`). As long as the bridge's interface is down nothing has called the
client (`Pristine`). While one of its down events waits, no server has been asked,
because the client's first event is behind it in the queue (`Order`, `AskedBehind`): the
queue's order is what protects the client from an answer to an earlier transaction. The
event queue is handled by lemmas about its ends only, for every length.

### The Ethernet driver: `LpcEmac_proofs`

From the cleanup index on, the ring is a run of `s` sent descriptors, a run of `q`
queued ones and the empty rest, and the semaphore with the two callers' claims makes up
what is left (`Ring`). The indices are these two lengths modulo the ring's; `Distance`
and `Ahead` go around it without division. `CleanupInv` says who will clean up what was
sent: it is announced, or in the EMAC task's hands, or the whole ring was sent and the
indices are equal, which is `Lapped`. From `Ring` follow `WritesFreeDescriptors` and
`KeepsUnsent`: the claim that a caller counted down before the mutex guarantees it a
place. From `CleanupInv` and `IrqInv` follow `ForgetsNothing` and
`CountsDescriptorsBack`.

### The configuration: `ClickboardConfig_proofs`

*The store* (`CacheIsTrue`, `StoreSurvivesRestart`, `WritesReplace`). `IInv ==
StoreTypeOK /\ InUse /\ CacheMirrorsFlash /\ WriteInv /\ FoundAgain`: the configuration
in use is signed and whole, the cache points only into it, and what a write under way
has buffered is what the cache held. A restart, a failure between any two steps and the
erase are steps like the others.

*The manager* (`ManagerImplementsStore`, `RunningClickboardsAreStored`). The first is
the refinement that carries the store's theorems over to the manager. `ServerInv`
describes the port under a request: what runs and what is stored differ in the ports the
request has yet to write.

### The web server: `WebServer_proofs`

`IInv == SocketsType /\ HandsInv /\ OrphansInv /\ ClosesOnce /\ SlotsAreCounted /\
NobodyIsForgotten`. A child passes from hand to hand: the IP task's, the listener's
pointer, the server's client list. An event closes only a child that nobody holds, and
there is one such event for it. From that follow `SocketsFreedOnce`, for a count the
code increments and decrements in different tasks, and `NobodyForgotten`.

*No peer is sent more than it waits for* (`SentAsRequested`). `StreamInv` adds up what
is on its way to a peer: what is in its stream, what is left of its file, the head that
comes next and the answer to a request that was not read yet (`Owed`). Each step of the
server moves a unit from one of these to another or drops it, so that the sum never
passes what the peer waits for. A child without a client has no file and a peer without
a child nothing in a stream, which is what a new connection of the same name starts
from. The type invariant needs it, since the peer counts down what it acknowledges.

### Only model-checked

The liveness properties: `EveryFrameCompleted`, `QueueDrains`, `FramesAreRead`,
`QueueMoves`, `Recovers`, `BurstEnds`, `FramesLeave`, `InitialisationEnds`,
`LinkIsFollowed`, `RequestReturns`, `BackOnNetwork`, `SlotComesBack` and
`RequestIsAnswered`. Liveness under fairness and `ENABLED` are out of the prover's
reach, and so is induction over data, which no theorem here needs.

## 5. What the code does not do as it says

Met while modelling; each is in the model as the code does it.

| where | what |
| --- | --- |
| `qca_framing.c:188` | after a reboot of the chip the decoder looks for the next header among the bytes it has, and a frame inside a payload may be delivered as one: until the driver has caught up with the chip (`CaughtUp`) nothing it delivers is sure to have been sent as a frame |
| `qca_spi.c:306` | the check for room counts a frame's length and not its padding: an ARP packet of 42 bytes is checked for 52 bytes of room and takes 70. The count then wraps (318), and the frames behind it are written without room as well |
| `qca_spi.c:570` | the `break` after an ignored reset leaves the switch, not the loop around it |
| `qca_spi.c:413` | a frame the MME filter took is kept as the driver's receive buffer, while `QCA7000/NetworkInterface.c:180` releases it ("as we are responsible for it") |
| `FreeRTOS_Bridge.c:154` | the count of the rows is incremented without a lock after it was found below the table's size: a driver's task that takes the last row in between makes it 33 of 32, and the test for a full table no longer holds, against `FreeRTOSIPConfig.h:381`, "the maximum number of entries that can exist in the forwarding table at any one time" |
| `FreeRTOS_Bridge.c:160` | the device's own address is entered without a lock; a driver's task that runs in between may take the row |
| `LPC1758/NetworkInterface.c:469`, `539` | the semaphore counts four places of a ring that tells three apart, and the test for a full ring comes before the mutex |
| `color2click.c:387` | the task is deleted while it may hold the I2C mutex, which the next Init waits for without a timeout |
| `FreeRTOS_DHCP.c:428` | a message in a state that does not expect it is peeked and not taken: the loop does not end |
| `FreeRTOS_DHCP.c:476` | a new discovery clears the address and leaves `bEndPointUp` set; a lost Ethernet link does not clear `bInterfaceUp`, and `xAllNetworksUp` is never cleared |
| `FreeRTOS_TCP_IP.c:2970` | a child whose first segment is a FIN is closed by nobody and keeps its place; its select bit stays, so that `FreeRTOS_select` no longer blocks and the server's task starves the clickboards' |
| `FreeRTOS_HTTP_server.c`, `FreeRTOS_TCP_server.c` | a FIN together with a request drops the reply; of requests sent together the first is answered; other methods than `GET` get no reply; a client that is deleted sends neither FIN nor RST; the reply to a query has both a chunked encoding and the length of an earlier one; two idle connections keep a third out for good |

## 6. Not modelled

- **Vendored code.** Of the repository's 120,000 lines of implementation most are
  FreeRTOS, LPCOpen, the TCP/IP stack, a JSON parser and generated web assets. What
  the modelled components use of the kernel (tasks, queues, semaphores,
  notifications, critical sections) is modelled from how it is used. Of the stack,
  the TCP data path, ARP, DNS, routing and the client side are left out.
- **Contents.** Frames, messages, web pages and texts are lengths, kinds or
  members of small sets; checksums always fit.
- **Registers.** A function's accesses to one device are one step unless something
  else goes on between them that it reads.
- `QCA7000`: a length word that ends in `0xAA` (`qca_framing.c:188`).
- **Pool**: the memory behind a descriptor, `pxResizeNetworkBufferWithDescriptor`,
  the race on the lowest number of free buffers (`BufferAllocation_1.c:262`), which
  is only a statistic.
- **Bridge**: what writing a row behind the table does to the variables that are there;
  the model has such rows, free or in use, but none of a station; the uninitialised `xOldestEntry` (`FreeRTOS_Bridge.c:149`), which is
  set whenever it is used; the IP task's lookup in two reads (103); the wrap of the
  age (178), which needs a caller; `FreeRTOS_NextNetworkInterfaceInBridge` at the
  list's end; `prvForwardTxPacket`, which nothing calls.
- **MME exchange**: that the IP task may read the device's address from a
  buffer the driver has meanwhile filled again.
- **Ethernet driver**: speed and duplex; a flood that keeps the task in its receive
  loop; the receive overrun, which nothing handles.
- **GPIO dispatcher**: with more than one handler, which the firmware never has.
- **Store**: a signature or a list that an interrupted erase puts right again;
  configurations of more than one page, and with them the pointer
  arithmetic at `save_config.c:376`.
- **Stack**: `vReturnEthernetFrame` (`FreeRTOS_IP.c:3631`), which does not release a
  frame without an end point; the acknowledged position's wrap
  (`FreeRTOS_TCP_WIN.c:2424`); the refusal of a sequence number 0; the SYN+ACK,
  which no timer repeats (`FreeRTOS_TCP_IP.c:3474`).

## 7. What is left

- Proofs of further refinements: the receive loop as a queue of frames, the transmit
  ring of `LpcEmac` as a bounded one, `MmeExchange` as a client of `BufferPool`; and
  the table that is aged while drivers preempt the IP task (without `Calm`), which
  the firmware does not have.
- Models: the TCP data path below the web server, the parser of its queries, and
  configurations longer than a page.
