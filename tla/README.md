# A TLA+ model of the Contiki port for the SAM4E Xplained Pro

The repository is a port of the Contiki operating system to the Atmel
SAM4E Xplained Pro board.  Contiki's own core (processes, lists, memory
blocks, TCP/IP) is not in the repository; the port adds an Ethernet driver, an
802.3 MAC and network layer on top of it, ring buffer libraries, clocks and
timers, and a few applications.  The Atmel drivers are vendored.

This directory models the parts in which the port's own logic is hardest to get
right: the Ethernet driver, where the main loop, an interrupt handler and a DMA
engine share rings of descriptors, lists and flags without locks; the 802.3
stack above it, which handles packets in both directions in one buffer; the two
ring libraries that carry data between interrupts and the thread; the clocks,
which an interrupt advances while threads read them; and the neighbour tables
and the packet queue, two pools of limited size behind long sequences of calls.

Paths below are relative to `src/Contiki_Port_SAM4EXPRO_15/contiki/`;
`gmac-drv.c` is `platform/SAM4EXPRO/dev/ethernet/gmac-drv.c` and `gmac_raw.c`
is `cpu/ATSAM/ATSAM4E16E/drivers/gmac/gmac_raw.c`.

## Inventory

| component | state | operations | what is hard | what makes it correct |
|---|---|---|---|---|
| **GMAC driver process** (`gmac-drv.c`) | `state` bits, `needspoll`, list and pool of pending frames | init, tx, poll handler, rx/tx callbacks, exit | poll handler and transmit path against the interrupt; read-modify-write of `state`; completions matched to frames by order alone | every frame is reported once, in order, with its own result; no completion is stranded; the pool balances; no assertion fails |
| **GMAC transmit ring** (`gmac_raw.c`) | `us_tx_head`, `us_tx_tail`, USED bits, status registers | `gmac_dev_write`, transmit half of `gmac_handler`, `gmac_reset_tx_mem` | a full ring must not look like an empty one; the controller moves on its own | the slots between tail and head are the frames in flight |
| **GMAC receive ring** (`gmac_raw.c`) | `us_rx_idx`, OWNERSHIP/SOF/EOF of every descriptor | `gmac_dev_read`, `gmac_reset_rx_mem` | reading while the controller writes; frames that end early; frames as long as the ring; the interrupt that announces a frame against updates of `state` | frames come out whole, once and in order; no descriptor is lost; a frame is noticed or accounted for |
| **Ring buffer** (`core/lib/ringbuf32.c`) | `put_ptr`, `get_ptr`, data | init, put, get, size, elements | put in an interrupt, get in the thread (or the other way) | a bounded FIFO |
| **Ring memory** (`core/lib/ringmem.c`) | `put_ptr`, `get_ptr`, `wrap_ptr`, `a_len` | alloc, get_next_block_ptr, free_block | wrap-around with blocks of different sizes, full against empty | a FIFO of blocks that do not overlap |
| **802.3 MAC, framer and network layer** (`core/net/mac/8023/`) | `uip_buf`/`uip_len`, the output function, `link_if`, whether the TCP/IP process runs | send, input, sent callback, connect events, parse, create | one packet buffer for both directions; sending from inside input; callbacks that arrive long after the buffer was reused | a packet goes up or down unmixed; results are attributed to the right neighbour; together with the driver it is the service TCP/IP needs |
| **Packet buffer** (`core/net/bk/packetbuf.c`) | memory, header and data pointers, address attributes | clear, copy, header allocation and reduction | pointers stay where the last packet left them | room and contents of a packet do not depend on the packets before it |
| **rtimer** (`cpu/ATSAM/rtimer-arch.c`) | `time_msb`, the hardware counter and its overflow flag | overflow interrupt, 64-bit read | the counter wraps between the reads of the two words, and its interrupt comes later | the time returned is a time of the call; an overflow is lost only while interrupts are off for a period |
| **Clock** (`cpu/ATSAM/clock.c`) | tick count, seconds, countdown | tick interrupt, reads, `clock_wait`, `clock_set_seconds`, polling of event timers | expirations compared for equality; a count that wraps | seconds follow ticks; timers are not missed; waits are long enough |
| **Neighbour tables** (`core/net/bk/nbr-table.c`) | the registered tables, the list of keys, bit maps of use and locks, items | register, add with eviction, get, remove, lock, unlock, iterate | a slot changes hands under tables that did not ask for it | items belong to their neighbour; evictions are announced, spare locks and take the least used |
| **Packet queue** (`core/net/bk/queuebuf.c`) | descriptors, RAM copies, swap files and ids, the `tmpdata` cache | new, update, read, free, timed erasing of files | ids handed out in a circle over files that are erased later; writes that fail | a queued packet reads back as it was stored |
| **Software interrupts** (`core/sys/swi.c`, `swi-arch.c`) | registered handler | request, PendSV handler | stub in this commit | - |
| **Start-up and main loop** (`platform/SAM4EXPRO/contiki-main.c`) | - | initialisation, `process_run` loop | - | the loop keeps polling processes |
| **Ethernet router and node** (`projects/`) | DS6 routes and prefixes (external) | boot, route information callback | callbacks on a routing table that changes | routes follow the advertised lifetimes |
| **Network monitor** (`apps/net-monitor/`) | shared routing-table buffers | CoAP GET, periodic and event handlers | one static buffer for two handlers | - |
| **Other copies of the Contiki core** (`core/net/bk/netstack.c`, `linkaddr.c`, `linkaddr6.c`) | tables of function pointers, addresses | copy and compare | - | - |
| **PHY, UART, watchdog, vendor drivers** | device registers | - | - | vendored or stateless wrappers |

How they interact: the main loop runs Contiki processes; `needspoll` makes it
call `gmac_driver_pollhandler`.  That handler reads frames from the receive
ring into the packet buffer and calls `NETSTACK_0_MAC.input()`, which may end
in `gmac_driver_tx` before it returns; it then reports the acknowledged frames
of the pending list through the sent callback.  `gmac_handler` preempts all of
this: it calls `gmac_dev_rx_callback` and, for every finished descriptor,
`gmac_dev_tx_callback`, and these set bits of `state`, mark list elements and
request a poll.  The controller fills and empties descriptors at any time.

`MAC.input()` parses the frame in the packet buffer and hands the packet to
TCP/IP in `uip_buf`; `tcpip_input` may call the output function, which copies
another packet into the same packet buffer and goes down through framer and
`gmac_driver_tx`.  The sent callback goes up through `packet_sent` to the
neighbour callback of TCP/IP, which asks the packet buffer for the receiver.
`connect_event` gives TCP/IP the output function and takes it away.  The clocks
are read from anywhere; the tick interrupt asks for the event timers to be
polled.  Neighbour tables and packet queue are called from the thread only.

## Modules

| module | models |
|---|---|
| `GmacTxRing` | the transmit ring of `gmac_raw.c` and the controller's transmit side |
| `GmacDriver` | `gmac-drv.c` and `gmac_handler`, extending `GmacTxRing`: thread, interrupt and controller interleaved |
| `TxService` | abstract: what the layer above is promised about the frames it hands over |
| `GmacDriver_proofs` | proofs about `GmacDriver` |
| `GmacRx` | `gmac_dev_read`, the boot sequence and the poll handler that call it, both interrupts as far as they touch `state`, and the controller's receive side |
| `GmacRx_proofs` | proofs about `GmacRx` |
| `RingBuf32` | `ringbuf32.c`: put and get in steps, in two contexts |
| `BoundedFifo` | abstract: a queue of bounded capacity |
| `RingBuf32_proofs` | proofs about `RingBuf32` |
| `RingMem` | `ringmem.c`: blocks of different lengths in one array |
| `RingMem_proofs` | proofs about `RingMem` |
| `PacketBuf` | the packet buffer, as operators on a record |
| `Ieee8023` | `ieee8023_net.c`, `ieee8023_mac.c`, `ieee8023_framer.c`, and what `gmac-drv.c` does to the packet buffer |
| `Ieee8023_proofs` | proofs about `Ieee8023` |
| `RtimerClock` | `rtimer-arch.c` against its counter |
| `SysClock` | `clock.c`, with the callers of its reads |
| `NbrTable`, `NbrTable_proofs` | `nbr-table.c`, and proofs |
| `QueueBuf`, `QueueBuf_proofs` | `queuebuf.c` with `WITH_SWAP`, and proofs |
| `MCServices` | model checking of `Ieee8023`, the clocks, `NbrTable`, `QueueBuf`, `RingBuf32` and `RingMem`, one per behaviour |
| `Services_proofs` | proofs about the two clocks and about `MCServices` |

### GmacTxRing and GmacDriver

`txHead`, `txTail`, `txUsed`, `txFrame` are the ring; a frame is a number, in
the order of submission.  `hwIdx`, `tsr`, `isr` are the controller's queue
pointer and its sticky status and interrupt bits; `wire` records what became of
every frame.  `state` is the set of bits of `gmac_drv_device.state`, `pending`
the list, `blocks` the number of allocated blocks of the pool.

The thread has a program counter `pc`.  A step ends wherever the interrupt may
observe or disturb what the thread does: between filling the descriptor and
advancing the head, between `gmac_dev_write` and `list_add`, between the load
and the store of `state &= ~...`, before the masked section that clears
`needspoll`, and between the frames of both loops of the poll handler.  The
interrupt handler preempts the thread (the thread moves only while
`isrPc = "out"`); it reads its registers in one step (`IsrNoTx`, `IsrTx`,
`IsrRetryLimit`) and takes one step per descriptor (`IsrAck`, `IsrNotSent`),
because the controller may finish another descriptor meanwhile.  A failed
`assert` sets `fault` and stops the program.

`Env` says what the surroundings may do: transmit errors (`RLE`, `COL`, `UND`),
a frame that completes before the thread has left `gmac_driver_tx`
(`fastWire`), reception (`rx`), reception while the driver process boots
(`rxAtBoot`), and exit with a later re-initialisation (`exit`).  The busy test
of `gmac_dev_write` is modelled as written: it indexes the descriptor pointer
once more by the head (`MayReadUsed`), which past the end of the array is a
read of unrelated memory and so may give either answer.

### GmacRx

A buffer holds a fragment (`frame`, `part`, `of`); SOF and EOF are its first
and last part.  The controller writes fragments to free descriptors and may
give a frame up between two fragments, because of an error or because the next
descriptor is not free.  `gmac_dev_read` takes two steps per descriptor, one
that reads the OWNERSHIP bit and handles a start of frame and one that copies
and releases, with the controller running between them.  `td` is `p_rx_td`;
after fragments were discarded it points at the last of them, as in the code.

The process flushes the ring while it boots, registers the receive callback
(`SetRxCallback`) and sets its state (`GoIdle`), in three steps between which
frames arrive; an interrupt taken before there is a callback tells nobody.  The
poll handler's two updates of `state` are a load and a store each (`PollRxLoad`,
`PollRxStore`, `PollTxLoad`, `PollTxStore`), followed by the masked section that
drops the poll request when no bit is left (`PollRxMask`, `PollTxMask`).
`IsrRx` and `IsrTx` come between any two steps.  So the receive bit can be
overwritten by the transmit half of the handler, and a frame stay in the ring
unnoticed; the history variable `missed` remembers when that happens (`"clear"`)
and when an interrupt came too early (`"boot"`), until a call of `gmac_dev_read`
finds nothing left.  Two more ways to leave a frame behind are excluded by the
property (`Stranded`) and not claimed harmless: the loop ends at a frame longer
than its buffer (`GMAC_SIZE_TOO_SMALL`) whatever comes after it, and a call that
discarded a frame it had begun may have misjudged the next one.  The transmit list behind `IsrTx`, and the assertion that
stops the program between `SetRxCallback` and `GoIdle`, are `GmacDriver`'s.

### RingBuf32 and BoundedFifo

The array and the two pointers are those of `struct ringbuf32`.  One context
puts and one gets; each call is a comparison of the pointers, an access to the
data and a store to the call's own pointer (`PutCheck`, `PutStore`,
`PutAdvance`; `GetCheck`, `GetLoad`, `GetAdvance`), and the steps of the two
interleave freely, which includes that either interrupts the other.  `put`
stores its pointer through an eight-bit access (`StorePutPtr`), so the
assumption on `Size` stops at 256, where the header allows more.  `RingBuf32`
instantiates `BoundedFifo` with the bytes between the pointers (`RingContents`):
the advance steps put and take, every other step stutters.

### RingMem

`put_ptr`, `get_ptr`, `wrap_ptr` and `a_len` are the fields of `struct ringmem`.
Every byte of `mem` remembers the block it was written for and its offset in
it, so that overwriting is visible.  An allocation has two actions, one per
place a block can go to (`AllocBehind`, `AllocWrap`), and one for the refusal.
Each operation is one step, as the header demands of its callers; what is not
atomic is the use of a block, so allocations happen between `GetNextBlockPtr`
and `FreeBlock`.  `FreeBlock` reads the length from memory, as the code does.
It has already gone around the wrap when `GetNextBlockPtr` looks, so the same
test there never succeeds (`OldestAtGet` in the proofs).  `fifo` is a history
variable: the blocks allocated and not freed.

### PacketBuf and Ieee8023

Memory is counted in cells of the size of an Ethernet header, and a cell
remembers what was written into it (`<<"tx", n, i>>` is the i-th cell of the
n-th packet), so that mixing and truncation are visible; `packetbuf_clear`
resets pointers and leaves the cells.  `Output` is one whole call: copy, set
addresses, create the header, and either the framer finds no room
(`FramerFails`) or the driver takes the frame (`DriverTakes`) or refuses it
(`DriverRefuses`).  It may run inside `tcpip_input`, at `thread = "input"`.
`ReadFrame` is `gmac_dev_read` into the cleared buffer, `parse()` with what it
leaves behind at each of its returns, the filter of `packet_input` and `input()`.
There the packet is copied into `uip_buf` without a look at its length
(`ieee8023_net.c:109`): frames of up to 1536 bytes are read, `uip_buf` has 1280.
A packet that fits is handed to `tcpip_input` (`Deliver`); a longer one ends the
behaviour at `thread = "overrun"` (`Overrun`), because what the program does
after it has written past an array is not defined.  `uipSize` is the size of
`uip_buf`; the run looks at one that is smaller and one that is as large as the
largest payload.  `Report` calls back with the packet buffer as it is.
`DriverInit`, `FlushFrame`, `ConnectUp` and `ConnectDown` follow the driver's
life cycle; `StopStack` keeps the sense of the test in `connect_event(0)` as
written, so TCP/IP survives the loss of the interface.

The driver's ring, flags and interrupt are `GmacDriver`'s; here a frame is
taken or refused and the wire carries taken ones in order.  `GmacDriver` refines
`TxService` and so does `Ieee8023` with the driver's interface inside.  Every
deferred report is `MAC_TX_OK`, which is what `GmacDriver` reports for
acknowledged frames as well (see the note on flags below).  `Groups` are
the 33:33 addresses and `NearGroups` the other addresses that begin with 33.
`parse()` tests the first byte of a destination twice where it means the first
and the second (`ieee8023_framer.c:75`, `:82`), so it takes both for multicast
(`Starts33`); `create()` tests both bytes (`Named`).

Two tests of the code can never succeed here and are not in the model.
`gmac_dev_write` refuses a frame longer than a buffer (`GMAC_PARAM`,
`gmac_raw.c:523`): what TCP/IP sends fits the 1280 bytes of `uip_buf`, and with
its header the transmit buffer.  And `uip_buf` is never in use when `input()`
asks, because everything runs in one thread and `tcpip_input` returns with it
empty; the model keeps that test (`Accepted`), but nothing exercises it.

### RtimerClock

`cv` is the counter, `cpcs` its overflow flag, `timeMsb` the software's word.
`rtimer_arch_now` is three reads and a comparison, with the counter and the
handler between any two.  With interrupts on, the thread completes at most
`Latency` reads between an overflow and its handler, and the handler is entered
before the counter has gone round once more.  With interrupts off neither is
assumed: the thread completes any number of reads, the counter overflows any
number of times, and the one flag stands for all of them.  `lost` counts the
overflows that the software will never see for that reason.

### SysClock

`Tick` is `SysTick_Handler`.  The thread sets the seconds, waits
(`clock_wait`), or sets an event timer: it reads the count (`ArmStart`) and
stores an expiration computed from it later (`ArmStore`), which is how the
event timers use `clock_time`.  The timer is one variable, the next expiration.

### NbrTable

Slots are array indices; `keys` is the list of neighbours, oldest first; the
bit maps are sets of tables per slot; an item remembers which address its data
was stored for.  An insertion has one action per outcome: the address is known,
a slot is free, a neighbour is evicted, or all are locked.  The search for the
neighbour to evict (`LeastUsed`) is the loop of `nbr-table.c:188-217`: it goes
through the list with the position and the use count of the best so far
(`Scanned`), passes over locked neighbours, replaces the best by one with
strictly fewer users, and leaves at the first that has none (`Left`).  `called`
are the callbacks of the last step.

### QueueBuf

A descriptor has its data in RAM, or in a file under a swap id, and one cache
(`tmpdata`) may hold the data of the descriptor used last.  `swapId` shares its
word with the RAM pointer, as in the union of the code, so the id of a
descriptor in RAM is no id.  `Flush`, `FlushWithoutId` and `FlushFails` are the
outcomes of `queuebuf_flush_tmpdata`, with `get_new_swap_id` inside.  The
contents of an id that is not in use are `Junk`.

## Runs

Every run of the driver uses a ring of three or four descriptors (three is
`GMAC_TX_BUFFERS`); that is enough for wrap-around, for a full ring and for one
descriptor in every role at once.

| run | shows | bounds |
|---|---|---|
| `driver_overload` | whatever the surroundings do, short of a restart: acknowledged frames are in front of the list (`AckedPrefix`), pool and list balance (`PoolAccounting`), reports are in order and never repeated (`SubmissionOrder`), no frame disappears (`FrameConservation`), no frame that was sent is reported as failed (`SentNeverReportedFailed`) | 4 frames, pool of 3, up to 4 outstanding: overflows both ring and pool |
| `driver_quiet` | without errors and overflow: ring and list agree (`RingMatchesList`), no callback assertion fails and the poll handler's fail only when there is nothing to report (`OnlySpuriousPolls`), the driver implements `TxService` (`ServiceSpec`), with restarts | 5 frames, 2 outstanding, one frame in the receive ring |
| `driver_live` | without reception: no acknowledged frame waits without a poll (`NoLostWakeup`), every frame is reported unless an assertion stops the program (`EveryFrameReported`) | 5 frames, 2 outstanding |
| `second_completion` | violated: the poll handler's `assert(p_pending_pkt != NULL)` | 2 outstanding, no reception |
| `lost_wakeup` | violated: `NoLostWakeup` once frames are received | 1 outstanding |
| `full_ring` | violated: an empty-looking ring has no frame in it (`EmptyRingIsIdle`) | 3 outstanding, ring of 3 |
| `rx_ring` | reader and controller stay in step (`DescriptorsInStep`); calls that had nothing to discard return whole frames, once and in order (`FramesWholeUnlessSkipped`, `DeliveryOrder`); a whole frame stays in the ring, with the driver idle and no notice on its way, only after an interrupt that came too early or was overwritten (`StrandedOnlyIfUnnoticed`) | ring of 4, 3 frames of up to 4 buffers, reads of 3 |
| `services` | `stack`: frames are what was asked for (`FramesAsAsked`), addresses are prepared for the callback (`ReceiverPrepared`), exactly the frames that pass the filter and fit arrive (`DeliversExactly`), a packet fails for good only for cause (`RefusedForCause`), stack and driver interface implement `TxService` (`IpServiceSpec`); `rtimer`: `TimeOfTheCall`; `clock`: `SecondsMatchTicks`, `OnlyLateExpirationsMissed`, `NoEarlyReturn`; `neighbours`: `KeysName`, `ItemsOfTheirNeighbour`, `EvictionAnnounced`, `LeastUsedOldestFirst`; `queue`: `ReadsBackAsStored`, `FilesKept`; `ring buffer`: what a call found out by comparing the pointers stays true until it acts on it (`ChecksStayTrue`), the buffer is a bounded FIFO (`FifoSpec`); `ring memory`: no block is overwritten before it is freed (`BlocksIntact`), the oldest comes first (`OldestFirst`), no block is refused that there is room for (`NoRoomWasted`) | below |
| `stale_receiver` | violated: a report is for the receiver the packet was sent to (`ReportsNameReceiver`) | 2 frames, 1 arrival, 2 neighbours |
| `rx_fragments` | violated: a call that discarded fragments returns a frame made of two (`FramesWhole`) | 2 frames of up to 2 buffers |
| `rx_lost_notice` | violated: clearing `PENDING_TX` leaves no frame behind (`ClearingIsSafe`) | 2 frames of up to 2 buffers |
| `framer_test` | violated: a packet handed up for the null address came for a group (`OnlyGroupsConverted`) | 1 arrival |

`CHECK_DEADLOCK FALSE` in the configurations of the driver: a failed assertion
stops the program, and so does the bound on frames.  In those of the receive
ring the bound on frames stops it, or the assertion that a receive interrupt
before `GoIdle` fails.  In that of the services the bounds stop a
behaviour, or `Overrun` does.  The driver treats `COL` and `UND`
alike, so `driver_overload` enables only the second.

Bounds: `MaxFrames` (frames in a behaviour), `MaxOutstanding` (frames the upper
layers have in the driver), `MaxRxQueue` (complete frames in the receive ring
as the driver sees it), `MaxParts` (buffers a frame takes).  Frame numbers only
grow, so one more frame than the ring, the pool and the list can hold brings
every structure around once.  With
three frames of up to four buffers in a ring of four, a frame can follow one that
fills the ring, one that was given up, and both.

`services` picks one subject per behaviour (`subject` of `MCServices`): the seven
share no state in the code, so their interleavings would show nothing new.

* Stack: a buffer of three cells behind a header area of two, packets of one and
  three cells (the second does not fit with its header), three packets, one
  arriving frame of every kind with a payload of one or two cells, a `uip_buf` of
  one cell (which the longer payload overruns) and of three, one group, one
  address 33:xx that is none, a pool of two, restarts without bound.  Three
  packets and a frame are enough for the buffer to have been used in both
  directions before a packet that is sent while another is in the ring.
* rtimer: a period of four, three overflows (two of which may be lost while
  interrupts are off), latency one.  Clock: a count
  modulo six, three ticks a second, nine ticks, so that the count wraps with a
  timer set or a wait going on.
* Neighbours: two slots, three tables of which two fit, three addresses (one of
  them null), one table without a callback; every history, without bound.
* Queue: three buffers of which one fits in RAM, two files of two ids, one write
  that fails; without bound otherwise.  Updates move the ids round the circle.
* Ring buffer: four bytes, three values.  Ring memory: eight bytes, blocks of 0,
  1, 3 and 6 bytes and two contents, so that there are blocks that fill the
  memory, that fit once and twice, that are empty, and every position of the
  wrap.  No bound on the length of a behaviour.

### The flags of several frames

The interrupt handler reads the transmit status once and passes it to the
callback of every descriptor it finds finished, so the status a frame is judged
by may belong to its neighbours.  `SentNeverReportedFailed` says in which
direction that is harmless, and its proof says why: with `RLE` the handler has
reset the ring before its loop and acknowledges nobody, and every other
acknowledgement carries `TXCOMP`, alone (reported as sent) or with another bit
(which the poll handler's switch does not know, and asserts).  The other
direction fails: a frame the controller gave up may be acknowledged by an
interrupt that read the status before the error was flagged, and is then
reported as sent.

### What the violated runs say

* `second_completion`.  A completion interrupt that arrives while the poll
  handler drains the list sets `PENDING_TX` and requests a poll, but its frame
  is drained by the loop already running.  The next poll finds an empty list
  and stops the program.
* `lost_wakeup`.  The poll handler clears `PENDING_RX` by loading and storing
  `state` while the interrupt is enabled.  `PENDING_TX`, set in between, is
  overwritten, and the masked section then withdraws the poll request.
* `full_ring`.  The busy test reads the wrong descriptor, a frame is accepted
  by a full ring, and head equals tail with every descriptor in use.
* `rx_fragments`.  Discarding fragments leaves `p_rx_td` on the last discarded
  descriptor: the new frame starts with an old part.
* `rx_lost_notice`.  The comment at `gmac-drv.c:354-361` concludes that it is
  safe to clear `PENDING_TX` and the poll signal.  The clear is a load and a
  store with the interrupt enabled: `PENDING_RX`, set in between, is overwritten,
  the masked section withdraws the poll, and a whole frame stays in the ring until
  another one arrives.
* `framer_test`.  The comment of `parse()` speaks of IPv6 multicast addresses
  (33:33:...), the test compares the first byte with 33 twice.  A frame for
  another station whose address begins with 33 is accepted from a promiscuous
  receiver, as a multicast.
* `stale_receiver`.  `gmac_driver_tx` stores the receiver with the element
  (`gmac-drv.c:250`, `:260`) and the framer prepares the address for the
  callback (`ieee8023_framer.c:24`), but the poll handler calls back
  (`gmac-drv.c:402`) with the packet buffer as the frame before left it.  The
  result of one neighbour is credited to another, or to none.

Other assertions fail in less ordinary surroundings, which the passing runs
exclude through `Env`: with `fastWire` the transmit callback may find no
element; with `COL` or `UND` the accumulated status has two bits and the poll
handler's switch knows neither combination; with `rxAtBoot` the receive
callback runs before the state it asserts; with `RLE` the handler empties the
ring before it looks for finished frames, so the list keeps elements the ring
has forgotten; after `exit` a left-over poll request finds no event.

## Fairness

`FairSpec` of `GmacDriver`: the controller sends what it is given, an enabled
interrupt is taken and its handler returns, the main loop runs the driver
process (`contiki-main.c` calls `process_run` for ever) and a call of
`gmac_driver_tx` returns.  Each is weak fairness of the disjunction of that
actor's steps.  Nothing is assumed of the network stack, of reception, of
transmit errors or of `exit`.

## Proofs

`GmacDriver_proofs`, for every ring size above one, pool size, bound and `Env`:

* `TypeCorrect`, `AckedPrefixHolds`, `PoolAccountingHolds`,
  `SubmissionOrderHolds`: `Spec => []...`.
* The inductive invariant adds two facts: an element is under construction
  exactly while the thread is inside `gmac_driver_tx` (`BuildingInv`), and no
  frame that was not submitted yet has a report (`Unsubmitted`).  Without the
  first, `list_add` could add a frame twice; without the second, the report of
  a new frame could repeat an old one.
* `SentIsNotReportedFailed` (`SentNeverReportedFailed`), from `FateInv`: no frame
  is in the ring or on the wire before it is submitted or after it was turned
  away, and acknowledgements carry `TXCOMP`.
* `NoFrameForgotten` (`FrameConservation`), unless `Env` contains `exit`, from
  `KeptInv`: the list is only started afresh before the first frame.

For surroundings that are named by an assumption of the theorem:

* `NoWakeupLostWithoutReception` (`NoLostWakeup`), when nothing is received: the
  poll handler then stores `state` back only in its transmit half, and the
  drain that follows takes whatever a lost update could have announced
  (`WakeInv`).
* `RingIsTheList` (`RingMatchesList`), with fewer frames outstanding than
  descriptors and no `RLE` (`NoOverflow`), but any other error, `fastWire`,
  reception and `exit`.  `MatchInv` says that some number of elements, from the
  front of the list, is acknowledged and that the frames of the others lie from
  `us_tx_tail` on, then the element that `gmac_driver_tx` is adding.  Slots are
  counted from the tail (`Dist`), so an acknowledgement moves every position by
  one; the lemmas about `Dist` contain all the arithmetic modulo the ring size.
* `AssertionsHoldOnAQuietWire` (`OnlySpuriousPolls`), when moreover no transmit
  error is reported, no frame overtakes `gmac_driver_tx` and nothing arrives
  while the driver boots (`Quiet`).  `HwInv` ties the controller to the ring:
  what it is done with lies before what it was handed, was sent, and never
  includes the element being added; so a slot found sent has an element on the
  list.  `AlertInv` says that a poll request is backed by a pending bit as long
  as there is something to report, but for the windows after a store to `state`.
* `DriverImplementsService` (`ServiceSpec`), for `Quiet`, from the same
  invariants: the queue of `TxService` is the list and the element being added,
  which `list_add` leaves as it is.

All of them rest on `LifeInv`, which holds in every environment: while the driver
is down its state says so, and interrupts are off or ring and list are empty.

`GmacRx_proofs`, for every ring size above one and every sequence of frames:

* `TypeCorrect` and `ReaderInStep` (`DescriptorsInStep`).  The invariant adds
  what `gmac_dev_read` knows while it walks (`WalkInv`: the descriptor it is
  about to take is the processor's, and nothing was passed before a frame has
  started) and that a descriptor handed over was written (`WrittenInv`).
* `WholeFrames` (`FramesWholeUnlessSkipped`) and `DeliveredInOrder`
  (`DeliveryOrder`), for the same rings.
  The order of what the ring holds and what the call has copied has to be known
  at once: `OrderInv` says that the descriptors the processor owns hold parts
  that follow one another, frame after frame, up to what the controller has
  announced; `CopyInv` that between the start of frame and the descriptor the
  call is at lie the parts of one frame, and that a call which discarded nothing
  has copied exactly those; `DeliveryInv` that everything delivered is older than
  what the ring still holds.  Reuse of a descriptor cannot be confused with its
  former contents because the controller only writes where the processor has
  let go.
* `NoticeKept` (`StrandedOnlyIfUnnoticed`).  `NoticeInv` follows the notice of a
  whole frame through every step of interrupt and process: an interrupt still to
  come, a set bit with a poll requested or begun, or the receive loop on its way.
  Only two steps drop it, an interrupt without a callback and the store in the
  transmit half, and `missed` records both.  `NothingLeft`, from `CopyInv`, is
  what ends the walk: a call that returned `GMAC_RX_NO_DATA` left no end of frame
  behind.

`RingBuf32_proofs`, for every power of two up to 256 and every set of bytes:

* `ChecksHold` (`ChecksStayTrue`): inductive together with the types, because
  each context only moves its own pointer, and away from the other's.
* `ImplementsFifo`: every step of `RingBuf32` is a step of `BoundedFifo` or
  leaves `RingContents` as they are.

`RingMem_proofs`, for every size up to `RINGMEM_NOM_MAXSIZE` and all lengths:

* `NeverOverwritten` (`BlocksIntact`) and `GetsTheOldest` (`OldestFirst`).
* `BlocksIntact` says nothing of the bytes between the blocks, so the invariant
  adds where blocks lie (`Layout`): one after the other from `get_ptr` to
  `put_ptr`, or up to `wrap_ptr` and on from 0, with `a_len` the room that
  leaves.  `Layout` is a predicate of two arrays of addresses;
  `AddBehind`, `AddInFront` and `RemoveOldest` say what an allocation and a
  release do to it, apart from sequences and memory.
* `RefusesOnlyWhenFull` (`NoRoomWasted`): by `Layout`, `a_len` is never less than
  the room behind the newest block, nor than that in front of the oldest
  (`RoomBehind`, `RoomInFront`), so `ringmem_alloc` refuses no block that fits.

The types are a theorem of every one of these modules and of those below
(`TypeCorrect`, with the service's name in front in the modules that
`Services_proofs` combines).

`Ieee8023_proofs`, for buffers, address sets, lengths and pools of any size:

* `SentAsAsked` (`FramesAsAsked`), `PreparedForReceiver` (`ReceiverPrepared`),
  `WantedFramesDelivered` (`DeliversExactly`: the frames that `parse()` lets
  through and that fit `uip_buf`, and no others) and `OnlyTooLongRefused`
  (`RefusedForCause`).  The lemmas say what each operation of the packet buffer
  returns (`OutputIs`, `CreateIs`, `ReadIs`) from any state of it.
* The invariant adds when the poll handler may run and that `uip_buf` is in use
  only inside `tcpip_input` (`LifeInv`; without it a wanted frame could be
  dropped), and that nothing is known of a packet before it is sent
  (`SubmittedInv`; without it a report could precede its question).
* `ImplementsService` (`IpServiceSpec`): every step is a step of `TxService` or
  leaves its variables alone.  `FramesOf` maps the list of elements to that of
  their frames, and the lemmas about it move `Append`, `Head` and `Tail` through.

`Services_proofs`, about `RtimerClock`, for every period:

* `TimeIsOfTheCall` (`TimeOfTheCall`).  `OverflowsCounted` accounts for every
  overflow: it is in `time_msb`, pending, or lost with interrupts off.  For a call
  with interrupts on, `ReadInv` says, at each point of it, how far the words read
  so far may be behind the counter: by one overflow exactly while its interrupt
  is pending.  A call with interrupts off cannot notice an overflow between its
  reads; `MaskedRead` and `MaskedIsNear` say that it is then at most one period
  behind what can still be known.

The same module, about `SysClock`, for every width of the count and ticks per
second:

* `SecondsFollow` (`SecondsMatchTicks`) from `CountsInv`, the position within the
  second; `WaitsLongEnough` (`NoEarlyReturn`) from `StartInv`, what the count
  read stands for; `EqualityIsEnough` (`OnlyLateExpirationsMissed`) from
  `TimerInv`: until it is polled, the expiration is ahead of the count by less
  than its range.

`NbrTable_proofs`, for any slots, tables and addresses:

* `ItemsFollowNeighbours` (`ItemsOfTheirNeighbour`), `EvictionsAnnounced`
  (`EvictionAnnounced`).  The
  invariant adds that used slots are listed, listed once, and under different
  addresses (`UsedListed`, `AddressesDiffer`).
* `EvictsLeastUsed` (`LeastUsedOldestFirst`), about the loop that looks for the
  victim.  `ScanStep` shows that one turn of it keeps what the search has found
  out about the part of the list behind it (`BestOf`), the early exit included,
  and `SearchFinds` carries that to the end of the list by induction.
* `IterationMeetsEachOnce` (`KeysName`).  The iteration is a recursive function
  over the list of keys.  `RunExists` shows that such functions exist
  (`CollectionExists` applies it) and `CollectionIs` what this one computes, by
  induction; induction itself
  (`Induction`, for a set of numbers) follows from a pigeonhole argument about
  finite sets, because the library's rules of induction cannot be applied here.

`QueueBuf_proofs`, for any buffers, files, ids, contents and failed writes:

* `FilesStayInOrder` (`FilesKept`) and `ReadsBack` (`ReadsBackAsStored`) need
  each other.  Contents survive only if a file is not erased, and an id not
  handed out again, while a buffer is in it; the usage counts that decide this
  are right only if no two buffers share an id.  `FilesInv` has the counts, the
  bound on them by the ids handed out (`UsageBound`: without it `usage` could
  overflow the file) and where the ids in use lie (`IdsTaken`: behind
  `next_swap_id` in its file).  `DataInv` has where a live buffer keeps its data
  (`Places`), that ids have one owner (`IdsApart`, which counts the descriptor
  that `tmpdata` was taken from even when it is free) and what file and RAM copy
  hold (`Stored`).
* `TakeFiles`, `GiveFiles` and `FlushData` say what taking an id, giving one back
  and writing under one do to the two halves; `FlushKeeps` puts them together
  for the three outcomes of `queuebuf_flush_tmpdata`.  `SharesNoId` is the
  reason why a failed update damages nobody else: two descriptors that look the
  same to the `tmpdata` test have both lost their ids.

`Services_proofs`, about `MCServices`:

* `EachKeepsItsSpecification`: each service behaves among the others as its own
  specification says, so that all the theorems about the services hold of the
  model the run `services` checks; `ServicesTypeCorrect` (`ServicesTypeOK`)
  from that.

Assumptions: `RingAssumption`, `DriverAssumption`, `RxAssumption`,
`RingBufAssumption`, `MemAssumption`, `PacketBufAssumption`, `NetAssumption`,
`RtimerAssumption`, `ClockAssumption`, `NbrAssumption` and `QueueAssumption`, the
ranges of the constants (`gmac_init_mem` rejects rings of one descriptor).

Every invariant that a run checks is a theorem, and so are the action
properties and refinements.  Only model-checked: `EveryFrameReported`, because
the prover has no rule for liveness under fairness, and the disagreements that
the violated runs show.  The theorems about `NoLostWakeup`, `RingMatchesList`,
`OnlySpuriousPolls`, `ServiceSpec` and `FrameConservation` hold for the
surroundings named with them above; outside of those the runs, or the section on
what they say, show how the property fails.

## What the models take for granted

* `tcpip_input` returns with `uip_buf` empty; TCP/IP keeps an output function
  no longer than it is set.  The packets it sends are not longer than `uip_buf`
  nor than the packet buffer (the cells of `Lengths`): the test for that in
  `ieee8023_net.c:158` negates the length copied before it compares it with
  `uip_len`, and so is never true.
* Event timers ask to be polled when they are added, so an expiration that is
  over when it is stored is noticed there.  `OnlyLateExpirationsMissed` leaves
  out such expirations (`late`): without that poll, one that the count reaches
  between the read and the store waits until the count comes round again.
* The rtimer counter wraps at its period and raises its flag then.  With
  interrupts on, the handler is entered before the counter has gone round again
  and before the thread has done two more reads; nothing is assumed while they
  are off.  With `Latency` two, the read of the high word, the low word and the
  high word again could all precede the handler and the time be a period short.
* Callbacks of the neighbour tables do not call back into them; modules pass
  items they hold; a table whose registration was refused is not used.
* Files keep what was written; writes may fail, reads do not.  A buffer whose
  update failed (`spoiled`) may read anything: the code gives its old id back
  first and its callers ignore the result.  One such or one long-lived buffer
  blocks the circle of ids for everybody; `ReadsBackAsStored` leaves it out and
  says only that nothing else is damaged by it.  That the packet itself is lost
  is not caught by any property.

## Not modelled

Statistics, MAC addresses and PHY set-up; the transmit functions
`gmac_dev_write_nocopy`, `gmac_dev_get_tx_buffer` and the wake-up callback,
which nothing in this port uses; duplicate detection of the 802.3 MAC, NAT64
and several interfaces, which are compiled out; `packetbuf_compact`, references
and attribute copies; reference counts of clocks and pins.

Most of the tree is vendored: the Atmel drivers and register headers are some
70 000 of its 77 000 lines, and the models stay away from them except for
`gmac_raw.c`, whose rings are the driver's.  Of the port's own code, `swi.c` is a
stub, the watchdog, UART and error hook are wrappers without state, and the
start-up is a fixed sequence of calls.  The router's `uip6-rio.c` and the
resources of the network monitor work on the routing table of the external
Contiki core: their lines are calls into it and formatting.  Every component
marked `not_modelled` in `PROJECT.json` has its reason there.

## Plan

1. Done: `GmacTxRing`, `GmacDriver`, `TxService`, `GmacRx` and their proofs.
2. Done: `RingBuf32` with `BoundedFifo`, `RingMem`, and their proofs.
3. Done: `PacketBuf` and `Ieee8023` over `TxService`, with proofs.
4. Done: `RtimerClock`, `SysClock`, `NbrTable` and `QueueBuf`, with proofs.
5. Done: ring and list, the assertions of the callbacks and the refinement of
   `TxService` proved for `GmacDriver`; whole frames, their order and their notices
   proved for `GmacRx`; every service proved to keep its specification among
   the others.
6. Next, models: the route information callback of `uip6-rio.c` over an
   abstract routing table.
