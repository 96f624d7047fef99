# TLA+ models of the firmware

The repository is a collection of bare-metal programs: a C++ firmware library
(`src/Firmware`), boards that use it (`src/stm32/f746g-disco`,
`src/MCU/STM32/bootloader`, `src/MCU/STM32/motor-controller`), and a RISC-V
system on an FPGA with a bootloader in ROM (`src/FPGA/cpu`). Most of it is
vendor code, register headers and start-up code. What can go wrong in ways a
host test hardly reaches is a small part: the places where a main loop, an
interrupt handler and a DMA engine share memory, and the two bootloaders, whose
state lives across a long sequence of messages. These are what the modules here
model.

Contents: [Inventory](#inventory) · [Modules](#modules) ·
[Runs and bounds](#runs-and-bounds) · [Assumptions](#assumptions) ·
[Proofs](#proofs) · [Findings](#findings) · [Not modelled](#not-modelled) ·
[Plan](#plan)

## Inventory

| Component (source) | State | Operations | Interacts with | Hard behaviour | What makes it correct |
|---|---|---|---|---|---|
| `RingBuffer` (`Firmware/data_structures/ring_buffer.h`) | slots, two atomic indices | `enqueue` of an item or a span, `dequeue`, `peek`, `readBulk`, `discardBulk` | UART transmission; any producer and consumer | two sides without a lock: each measures with an index of the other that is old by the time it is used; bulk copies around the wrap | no slot touched by both sides; a bounded FIFO queue |
| `Uart` (`stm32/f746g-disco/uart.cpp`) | a `RingBuffer`, `dma_current_size_`, error flags | `write`, `startDma`, `stopDma`, `handleInterrupt` | `RingBuffer`, DMA2 stream 7, logging from the main loop and from other handlers | three parties; the view of a chunk outlives the call that took it; a chunk must be started by whoever finds the DMA idle; transfer errors | each accepted byte sent once, in order; none left behind |
| `ObjectPool` (`Firmware/data_structures/object_pool.h`) | list of free chunks | `allocate`, release by a handle | Ethernet transmission | freed by an interrupt, allocated by the main loop | a chunk has one owner |
| `Ethernet` (`stm32/f746g-disco/ethernet.cpp`) | descriptor ring, handles, two indices, link state | `allocatePacketBuffer`, `send`, `runLinkManagement`, `handleInterrupt` | `ObjectPool`, the Ethernet DMA, PHY | the handler reclaims while `send()` is half way; status flags read and cleared apart; DMA stopped by a link change | a frame is kept until sent, then given back |
| MCU bootloader (`Firmware/bootloader/mcu`, `MCU/STM32/bootloader`) | `state_`, `prepared_`, application found, time of last frame | one handler per command, segments, `tick` | client over a transport, memory regions, clock, reset | any order of commands; 32-bit address arithmetic; time-out against a late frame | prepared memory within its region; one answer per command; boots on silence only, and then does |
| Bootloader protocol (`Firmware/bootloader/protocol.cpp`) | none | encode, decode | MCU bootloader | unknown types | every type is dispatched |
| ROM bootloader (`FPGA/cpu/firmware/booloader/main.c`) | download state machine, image and CRC buffers, advertisement | `poll_*`, `download_app`, `download_crc`, `verify_app`, `boot_app` | host over a one-byte UART, timer | state left by a refused download; bytes lost while a line is sent; a line inside a line | boots exactly what was sent with its CRC; a polite host gets there |
| HDLC (`Firmware/hdlc`, `bootloader/transport`, `MCU/STM32/bootloader/Src/main.cpp`) | receiver state and payload, read buffer, receive ring, receive register and its flags | `process`, `receivePayload`, `receive`, receive interrupt | UART, HAL, `RingBuffer`, MCU bootloader | resynchronisation after noise and overlong frames; a buffer read from and written to in one loop; an overrun between the handler's reads | the frame after a whole frame is heard; a host that waits has a channel |
| Extended timer (`Firmware/hal/sw_extended_timer.h`, `lptimer.h`) | wrap count, wrap flag | `read`, wrap interrupt | hardware counter, main loop | the counter wraps between two steps; flag and wrap at different ticks | what is read is a time of the call; no wrap lost or counted twice |
| Main loop of the Discovery board (`main.cpp`, `Firmware/bare_metal/task.h`, `Firmware/hal/poll.h`, `bsp.cpp`, `watchdog.cpp`) | next time of each task, count of milliseconds, watchdog | `poll`, `tick`, `pollFor`, `kick` | all of the board | a task that waits holds up the others; a 32-bit count compared with 64-bit times | no task late; the loop comes round |
| FPGA UART driver (`FPGA/cpu/firmware/drivers/uart.c`, `util/ringbuf.c`, `rtl/uart_periph.sv`) | two rings, `tx_pending`, interrupt enables, registers | `uart_*`, `mei_isr` | the peripheral, the application | enable and disable of the transmit interrupt against a handler that works on an old status | no byte out of order or stuck |
| FPGA machine timer (`drivers/time.c`, `rv32_machine_timers.sv`) | 56-bit time in two words, compare register, interrupt count | split read, split compare write, `mtim_isr` | timer interrupt, application | carry between the words; a half-written compare value; a store repeated after an interrupt | a delay never ends early |
| Bare-metal scheduler (`Firmware/bare_metal/scheduler.h`) | list of tasks | `run` | all tasks | none: a loop, not used by any program | |
| Logging (`Firmware/logging`) | message buffer | `LOG_*` | UART | called from a handler | part of UART |

`PROJECT.json` lists these and the parts left out, and under "hazards" each
place in the code that is hard to test, with the properties that watch over it.

## Modules

| Module | Models | Extends |
|---|---|---|
| `RingIndex` | index arithmetic of the ring | |
| `RingBuffer` | the ring, one producer and one consumer | `RingIndex` |
| `BoundedFifo` | what the ring promises | |
| `UartDma` | UART transmission: writer, handler, DMA | `RingBuffer` |
| `ObjectPool` | the pool's free list | |
| `EthernetTx` | Ethernet transmission: main loop, handler, DMA | `ObjectPool` |
| `BootloaderMcu` | the MCU bootloader under any sequence of frames | |
| `RomBootloader` | the ROM bootloader, its host and UART | |
| `ExtendedTimer` | the extended timer on three kinds of hardware | |
| `DiscoLoop` | the board's main loop around it: tasks, waits, watchdog | `ExtendedTimer` |
| `FrameChannel` | what the link promises a host that waits | |
| `HdlcReceiver` | HDLC frames and the receiver | |
| `HdlcLink` | host, line, UART interrupt, ring, transport | `HdlcReceiver`, an instance of `FrameChannel` |
| `MachineTimer` | the FPGA timer and its delay | |
| `FpgaUart` | the FPGA UART, its driver and rings | |
| `EchoLine` | what the echo promises | |
| `FpgaApp` | the FPGA application over timer and UART | `MachineTimer`, `FpgaUart`, an instance of `EchoLine` |
| `SequenceLemmas` | facts about sequences, and about functions defined by recursion over them | |
| `UartDmaProofs` | theorems about `RingBuffer` and, on them, about `UartDma` | `UartDma` |
| `EthernetTxProofs` | theorems about `EthernetTx` | `EthernetTx` |
| `BootloaderMcuProofs` | theorems about `BootloaderMcu` | `BootloaderMcu` |
| `ExtendedTimerProofs` | theorems about the timer, alone and under the loop, and about the pace of the loop | `DiscoLoop` |
| `FpgaAppProofs` | theorems about the FPGA application; it implements `EchoLine` | `FpgaApp`, `SequenceLemmas` |
| `HdlcLinkProofs` | theorems about the link; it implements `FrameChannel` | `HdlcLink`, `SequenceLemmas` |
| `RomBootloaderProofs` | theorems about the ROM bootloader and its parser | `RomBootloader`, `SequenceLemmas` |
| `MC*` | constants for TLC | the module named |

Definitions keep the name of the function or member they model; a comment says
so where they cannot. `PROJECT.json` "map" gives the lines of each. Operators
named in a comment "Mutant of X" are wrong versions of X, used only to show that
a property notices.

**`RingBuffer`.** A call is split where the other side can come between: the
load of the other side's index (`EnqueueItem`, `EnqueueSpan`, `Dequeue`, `Peek`,
`ReadBulk`), each item copied (`CopyItem`, `ReadItem`), the store of one's own
index (`PublishWrite`, `ReleaseRead`, `DiscardBulk`). The atomics are
sequentially consistent, so the steps interleave. `todo`, `span` and `got` are
the locals of the calls in progress: what the call decided to copy and has read.
In `BoundedFifo` a call has two instants: at its beginning it finds what there is
room for, or how many items there are, which settles its answer; at its end the
queue changes. An offer is taken whole or as far as there was room, and told so;
nothing is found only in an empty queue. `RingBuffer` implements it with
`queue <- contents`, the items between the two indices, `taken <- todo` and
`view <- span`.

**`UartDma`.** The DMA stream is the ring's consumer, and its read is the ring's
bulk read: `IsrStart` and `WriteStart` open it, `DmaByte` is `ReadItem`, and
`IsrStop` discards. `write()` is atomic for the handler (it masks interrupts)
and not for the DMA, hence its four actions. The handler is five actions, since
it runs with interrupts enabled. Bytes are serial numbers, so that order and
loss are visible; `sent` and `lost` are history.

**`EthernetTx`.** `send()` is nine actions, one per statement the handler can
preempt; the critical sections (`allocate`, `allocateTxDescriptor`) are one. The
assignment of the handle (`ethernet.cpp:109`) is four of them, as a `unique_ptr`
is a pointer and a deleter: `MoveHandle` reads the old pointer, `StoreHandle`
stores the new one, `FreeOld` deletes the old object, `SetDeleter` stores the
deleter. `deleter` says for each handle whether its deleter knows the pool, `old`
is the pointer read, and `torn` is history: the handler has reset a handle whose
assignment it interrupted, with the effect that a buffer is lost or freed twice
(`Tears`). What a pool does in which a chunk has been freed twice is not followed
(`FreedTwice`): its list then runs through the bytes of a frame.
`IsrReclaim` reclaims one descriptor per step. `DmaFetch`, `DmaSent` and
`DmaHalt` are the hardware. `paced` chooses the caller: `main.cpp`, or any.

**`BootloaderMcu`.** `HandleFrame` is one call of `handleCommand()` or
`handleSegment()`, chosen by type; `Tick` reads the clock, then frames are
received, then `TickEnd` compares the silence with a time that is older than
the frames. Addresses are counted modulo `AddressSpace`, which stands for 2^32;
commands give words, and `* 4` wraps as it does in the code. `answers` is what
the frame was answered with, in order. The flash content is reduced to whether
a valid image lies in a region, and does not change: what a segment writes is
`written`.

**`RomBootloader`.** One action per `poll_*` call and state of `main()`. The
UART has one register each way. Blocking output is `message`, during which
`RxFree` lets a received byte be overwritten. `input` is the history of a
download, from which `BootsWhatWasSent` reconstructs what should be booted.

**`ExtendedTimer`.** `read()` is five steps, one per access to hardware or flag;
the counter ticks between any two, and the interrupt, masked during `read()`,
comes when it may. `device` chooses the hardware: the simulated timers of the
host tests, up and down, whose flag comes with the wrap, or the board's
`Lptimer`, whose flag is the match with the reload value, a tick earlier.
`wraps` and `begin` are history: the true time, and the time of the call.
`readRaw()`'s repeated reads are one: it returns what its last access saw.

**`DiscoLoop`.** One action per statement of the loop that reads the clock or
changes state: `Kick`, `Poll`, the steps of `read()` in the uptime task, the
condition and the clock of `pollFor()` in the link task. The PHY answers or does
not. `SysTick` counts modulo `CountModulus`; task times and ends of waits do not
wrap, as in the code, where they have 64 bits. The watchdog resets everything.
Two of the four tasks stand for all: one that reads the timer, one that waits.

**`HdlcReceiver`, `HdlcLink`.** `process()` is one action per state, a byte at
a time. The alphabet is closed under the XOR of the escape, with the flag and
the escape in it, so that stuffing is real. The UART has one receive register;
the handler reads its flags (`IrqEnter`) and acts on them later (`IrqReturn`),
where HAL passes the byte on or, seeing an overrun without a byte, ends
reception. The overrun flag is cleared with the read of the byte: one that comes
between the two is not told apart from one that comes after. `ReadStream` is one read of `receive()`, `ProcessByte` one turn of
its inner loop, `dispatchPayload()` included, which writes the payload into the
very buffer being read. That a call of `receive()` makes at most three reads is
left out, as the main loop calls it again and again. `polite` is a host that
waits for silence, and repeats what was not answered; the other kind sends on.
`consumed` is history: the last bytes processed, as far as they may begin two
frames.

**`MachineTimer`, `FpgaUart`, `FpgaApp`.** Every access to a timer register is
an action, and so is each store of `mtim_write_compare()`. The processor takes an
interrupt on an instruction whose store may have reached the bus, and repeats
the instruction after the handler (`rv32cpu.sv:79-82`, `mepc_addr`): the actions
`DelayRepeats` and `GreetRepeats` are such a store, seen and still to be made.
`mei_isr()` is three actions, the read of the status and each half; the
receiver and the transmitter go on in between. `uart_send_byte_nonblocking()`
disables interrupts and is one. `FpgaApp` puts `main()` above both, and its
`Line` is the bytes on their way, from the receiver through both rings to the
transmitter, which behave as `EchoLine`: a queue that loses a byte only if the
host outran the program.

## Runs and bounds

| Run | Question | Bounds, and why they are enough | Distinct states |
|---|---|---|---|
| `ring_buffer` | do two unsynchronised sides corrupt each other, and is the ring a queue? | capacity 3 (four slots), two items, offers of up to four: an empty, fitting, partly fitting and never fitting offer, and a wrap inside a copy and inside a view | 191,482 |
| `uart_dma` | is every byte sent once and in order, with errors? | capacity 3, eight serial numbers (more than twice what the ring holds, so a number names one byte), messages up to 3 | 28,794 |
| `eth_tx` | is a buffer lost or shared, is every frame kept, and given back? | three descriptors: one taken, one sending, one pending; unlimited frames | 890,165 |
| `mcu_bootloader` | can the context leave its region, on a map that wraps, is each command answered once, when does it boot? | six-bit addresses and two regions: the bootable one, without a driver as on the board, goes round the end of the address space, the other ends six bytes before it; starts inside, outside, wrapping and at the top; transfers of none, that fit, that do not, and that go round; two frames per tick; frames up to time 3, boot delay 2, so that a frame may come in the very tick that would boot | 822,160 |
| `rom_bootloader` | is only what was sent booted, and does a polite host succeed? | images of two bytes, CRC of one byte, two hex digits, nine characters per download: one more than the largest valid one with a blank; unlimited downloads | 446,956 |
| `disco_time` | is time read right across a wrap, is a task ever late, does the loop come round? | a counter of four values and one wrap per life of the board, on each device; a count of milliseconds modulo 8, so that it wraps; watchdog after 2, tasks every 3 and 2, a wait of 1: waits that end by the condition, by the clock, and by the watchdog | 300,276 |
| `hdlc_link` | does the receiver find the next frame, has a host that waits a channel? | four bytes, all of them special or the escaped form of one; payloads of one byte (a command, in one read without stuffing) and of three (a segment, as long as the buffer, in two or three reads); ring of six; two bytes lost, changed or overrun for the host that waits, none for the other, which overruns the buffer instead | 617,319 |
| `fpga_app` | does the delay end early, is a byte lost, out of order or stuck? | a counter of 4 by 3, started just before a carry; rings of two, two bytes, a greeting of two; unlimited bytes from the host | 150,756 |

The other four runs each refute one claim of a comment or document; see
[Findings](#findings).

A smaller CRC makes collisions common, so `MCCrc` is chosen to tell apart the
images that the code could confuse: a shorter image with a remainder of a longer
one, and images that differ in one digit.

What the properties say:

* `ring_buffer`: `SlotsDisjoint` — no slot is written while the other side may
  read it; `ReadFaithful` — what a call has read is still the front of the queue
  when it returns; `ImplementsFifo` — refinement of `BoundedFifo`: order, room and
  answers; `RingInv` — the inductive invariant of the proofs.
* `uart_dma`: `ChunkKnown` — `dma_current_size_` is the stream's own count;
  `WireInOrder` — bytes leave in order, gaps only by an error and only of that
  chunk; `NothingStranded` — with nobody at work the ring is empty;
  `AcceptedLeaves` — and every byte does leave. `SlotsDisjoint` is checked again
  with the DMA as reader.
* `eth_tx`: `PoolPartition` — every buffer has one owner, with the
  caller of `main.cpp` always, with any other until the handler resets a handle
  in the middle of its assignment (`torn`), which it can;
  `PacedFrameKept`, `PacedRingDrained`, `PacedReclaimed` — with the caller of
  `main.cpp`, who has one frame in flight, a frame is kept until it is sent, its
  completion is not missed, and its buffer comes back unless the link goes down.
* `mcu_bootloader`: `PreparedInRegion` — counted without the modulus, prepared
  memory begins in a region that does not go round the end of the address space,
  and ends there unless the transfer itself goes round; `OneAnswer` — one final
  answer per memory command, the last, naming it; `PatientBoot` — never leaves
  under a client that talks; `IdleBoots` — an idle device boots or faults.
* `rom_bootloader`: `BootsWhatWasSent`, `RefusesBadFraming` (what is refused is
  badly framed, or has a blank after the last byte that fits), `PoliteLines`
  (no status line inside another), `PoliteBoots` (the host gets its image
  booted, at the second attempt if the first is damaged).

* `disco_time`: `ReadIsCurrent` — a reading is the true time at some moment of
  the call, or, from `Lptimer` at its reload value only, a turn of the counter
  ahead; `WrapsCounted` — interrupt and reader together count each wrap once;
  `Punctual` — until the count of milliseconds wraps, no task is overdue by more
  than two watchdog periods; `LoopTurns` — the loop comes round again and again,
  by a reset if need be.
* `hdlc_link`: `FramesHeard` — whatever came before, after two whole frames the
  second is heard as it was sent; `ChannelKept` — for a host that waits, and
  until a fault, the link refines `FrameChannel`; `PoliteHeard` — that host is
  heard in the end, faults or not, unless an overrun has ended reception.
* `fpga_app`: `DelayHonest` — the delay counts from a time the counter showed
  during the call and does not end before; `TxArmed` — with bytes to send, the
  transmitter's interrupt is enabled and meant for it; `EchoInOrder` —
  refinement of `EchoLine`; `EchoDrains` — once the host is silent every byte is
  sent and the interrupt is off.

Deadlock is checked in all passing runs but those of the two bootloaders: an application
that has been booted, and a device that has halted, take no further step. (Nor in
`lptim_match`, whose counter stops at its bound.)

## Assumptions

*Atomicity.* A critical section masks interrupts on one core, so it is one step
for other code; it does not stop a DMA. Handlers preempt the main loop anywhere
else, never the reverse. The DMA handler has priority 7 (`uart.cpp:83`) and the
Ethernet handler priority 2 (`ethernet.cpp:316`), so only the second preempts
the first.

*Fairness.* Weak, but for the main program and the timer handler of the FPGA (see
below), and only of what runs by itself: a call that has begun
goes on, a pending interrupt is served, an enabled DMA moves data, a clock
ticks, the main loop turns. No caller has to call and no client has to send;
PHY answers and link state are free. In `RomBootloader` the polite host also
goes on once it has heard what it waits for. Fairness of the handlers is
justified since nothing masks interrupts for longer than a call.

*Callers.* UART messages are no longer than its buffer: `log.cpp:75-76` cuts them at
127 bytes, the buffer has 1024. (A longer one is accepted in part and then not
started; `NothingStranded` says so.) `paced` is the task of `main.cpp:56-77`: a
frame every 500 ms, with the link up, by which time the last is sent. A polite
ROM host waits for each status line, answers `BL_READY` within its 100 ms, and
puts blanks only in front of a byte. The ROM bootloader polls faster than the
line delivers, except when it sends or computes. Applications that have been
started do not return.

*The board's time.* A wrap is served, and the call of `read()` that serves it is
past its second reading, before the next wrap, 2.048 s later; the watchdog
(about 512 ms) is what makes that true. Only the main loop calls
`EarlyClock::now()`. In `disco_time` the loop, SysTick and the watchdog are
weakly fair; the timer and the PHY are not, so `LoopTurns` holds with a PHY that
never answers. The LED task, which after 15 ticks ends the demonstration with a
deliberate fault, is left out, as is the frame task (`EthernetTx`).

*The link.* A host that waits sends a frame when nothing of the last is under
way and repeats what was not answered; `client.py` waits for up to a second and
sends one command, so the repetition is the host's. The main loop does not
run during the interrupt. Host, interrupt and main loop are weakly fair. At most
`MaxFaults` bytes are lost, changed or overrun; bytes a UART that may no longer
interrupt loses are not counted. The CRC is not checked by the code, so a
damaged frame may be heard, too. Payloads are as long as what is read of them:
the test for a segment asks for 69 bytes where 72 are read (`hdlc_transport.h:187`,
`198`), and a shorter one would be heard with bytes of an earlier read.

*The FPGA.* A handler runs for a microsecond or two and a byte takes 86, so the
main program is strongly fair however fast the host sends, and so is the timer
handler behind the UART's; the UART handler, time and the transmitter are
weakly fair, and the host not at all. A store repeated after an interrupt is
never required. A call of `mtim_read_ticks()` is over within a turn of the low
half (86 s); the delay is armed before the last turn of the high half (decades).
`LatestArm` and `LastTime` bound the checks. `ns_from_ticks()` and
`ticks_from_ns()` are inverses on multiples of a tick. The pending interrupt
is level, and the main program may advance while it is pending, which is more
than the processor does.

*Memory map.* `BootloaderMcu` takes the regions as a constant and assumes of
them only that an address and a size are words of 32 bits. The table of the board
(`Inc/bsp.h:60`) is filled with the words stored at the linker symbols instead of
their addresses, so it may hold any two words; the run `mcu_bootloader` and
the proof cover regions whose sum wraps.

*Hardware.* The DMA engines are external, modelled from how the drivers use
them: a stream keeps its registers while EN is set, stops on an error, and
reports once; the Ethernet DMA walks the ring, clears OWN on completion,
suspends at a descriptor it does not own and wakes at a poll demand. Reading
through an empty handle in `SetBuffer` yields a null buffer, which does not
fault on this memory map.

## Proofs

Every property of a passing run is proved here for every value of the constants,
but for the seven liveness properties.

The first half of `UartDmaProofs` is about `RingBuffer`. It proves, for every
capacity, set of items and set of offers:

| Theorem | States |
|---|---|
| `RingInvariant` | `Spec => []RingInv` |
| `TypeCorrect` | `Spec => []TypeOK` |
| `NoDataRace` | `Spec => []SlotsDisjoint` |
| `ReadsTheFront` | `Spec => []ReadFaithful` |
| `RingImplementsFifo` | `Spec => ImplementsFifo` |

from `CapacityAssumption` (the capacity is positive, as the class asserts) and
`ItemAssumption` alone.

Neither `SlotsDisjoint` nor `ReadFaithful` is inductive: each speaks of one call
in progress and depends on what the other side may do to it. `RingInv` adds what
each side relies on: the room the producer measured is still there (`RoomHeld`),
what it copied is untouched (`CopiesInPlace`), the items the consumer counted
are still there (`SpanHeld`), are items (`ItemsPresent`), and are what it read
(`ReadsCurrent`). The argument is the usual one for a single producer and a
single consumer: the room only grows under the producer and the items only grow
under the consumer, because each index is moved by one side. The arithmetic is
in lemmas on `Advance` and `Size` (the writer is `Size` places after the reader;
moving an index changes the size by as much), and `RoomApart` says that free and
published slots differ; one lemma per action then shows that it preserves
`RingInv`. For the refinement, the measuring steps are `Offer`, `Ask` and `View`
(`EnqueueItem` and `EnqueueSpan`, `Dequeue` and `Peek`, `ReadBulk`), `PublishWrite`
is `Put`, `ReleaseRead` is `Take`, `DiscardBulk` is `TakeSome`, `FinishPeek` is
`Look`, an empty result is `Miss`, and the copies stutter. `SameRoom` says that
the room measured with the ring's indices is that of the queue.

`BootloaderMcuProofs` proves, for every memory map, boot delay, bound on time
and number of frames per tick:

| Theorem | States |
|---|---|
| `TypeCorrect` | `Spec => []TypeOK` |
| `PreparedStaysInRegion` | `Spec => []PreparedInRegion` |
| `AnswersOnce` | `Spec => []OneAnswer` |
| `LeavesPatiently` | `Spec => PatientBoot` |

from `BootloaderAssumption`, which has the widths of the fields: a start and a
size are words, and 24 bits of words are less than the address space in bytes.
`PreparedStaysInRegion` rests on the address space being a multiple of four
bytes: `BytesAligned` then says that a word never starts
at the last address, where the test of `regionFromAddress()` for one byte would
wrap to zero and pass for any region. `WithinFits` says that a test which does not
itself go round the end is not deceived by a region that does, `FoundHolds` and
`AcceptedFits` apply it to the two tests of `handlePrepareMemory()`. That a
transfer which goes round the end passes the second is no gap of the proof: the
code accepts it, from a region that ends less than 64 MiB below the end of the
address space, of which the board has none. `PreparedInRegion` and
`OneAnswer` are inductive once each handler is summarised (`Handled`,
`MemoryAnswered`). `PatientBoot` is not implied by the types: `FramesAfterTick`
adds that a frame handled in this tick is no older than the tick's own time, so
that the comparison of `tick()` fails whenever a frame was handled.

The second half of `UartDmaProofs` proves, for every capacity and set of messages, with the main
loop as the only writer (`~LogFromIsr`; with a logging handler the claims are
false, see `uart_log`):

| Theorem | States |
|---|---|
| `UartInvariant` | `UartSpec => []UartInv` |
| `UartTypes` | `UartSpec => []UartTypeOK` |
| `ChunkIsKnown` | `UartSpec => []ChunkKnown` |
| `StreamSlotsApart` | `UartSpec => []SlotsDisjoint` |
| `NothingIsStranded` | `UartSpec => []NothingStranded`, if no message exceeds the ring |
| `BytesInOrder` | `UartSpec => WireInOrder` |
| `ActiveChunkIsKept` | `UartSpec => ActiveChunkKept` |

The DMA is the ring's reader, so `UartInv` is `RingInv`, `UartTypeOK` and
`Roles`: who is at work excludes who else is, and the handler knows its chunk.
`RingInv` is not proved again: each step is a step of the ring or leaves it
alone, and `StepRingInv` of the first half is cited. What is new is that a
chunk is released by the count the handler remembers. `NothingIsStranded` needs one
more invariant, `Resting`: whenever neither writer nor handler nor stream is
busy, the ring is empty, which every step that leaves someone idle must restore.
`WireInOrder` looks at one step; `Numbered` says why that step finds the right
byte. Counted from some number, the bytes in the ring, those that `write()` is
about to add and those it will accept next are consecutive, and the byte the wire
wants is as far from the front as the stream has read. A stopped chunk moves
the number on by the whole of it, whether read or lost. That serial numbers wrap is the
matter of `SerialAdd`. `ActiveChunkIsKept` is the finding of `uart_log` turned
round: without a logging handler the comment it quotes is true.

`EthernetTxProofs` proves, for every number of descriptors and buffers,
`TransmitTypes` (`Spec => []TypeOK`) and `PoolIsPartitioned`
(`Spec => []PoolPartition`). The partition is not inductive: that a buffer given
back was not free already depends on its having had one owner. `OwnInv` says
that the free list has no repetitions, that no two of the places a buffer can be
in share one (the list, the handles of the ring, the caller's handle, the pointer
that `send()` is about to free), and, for the steps of the assignment, what they
rely on: an object that is held is held by a handle whose deleter knows the pool,
but for the one being assigned (`DeletersSet`), and the old pointer that was read
is still what is there (`OldRead`). The handler disturbs these only by resetting
the handle that is being assigned, which is `torn`; `PacedNoTear` says that it
never does with the caller of `main.cpp`, since no interrupt is pending while
`send()` runs up to the poll demand. One lemma per step says which buffer changes
hands (`HandGives`, `StoreKeeps`, `FreeKeeps`, `RingGives`, `ReclaimKeeps`).

With the pace of `main.cpp` it proves what `eth_race` refutes for other callers:

| Theorem | States |
|---|---|
| `PacedFrameIsKept` | `Spec => []PacedFrameKept` |
| `PacedRingIsDrained` | `Spec => []PacedRingDrained`, for a ring of more than one descriptor |

Both follow from `PaceInv`, which knows where the one frame is: nowhere
(`Empty`), in the hands of a `send()` in progress (`BeingSent`), with the DMA
(`InFlight`), or sent and waiting for the handler (`Sent`); and what each of
these says of the indices, handles and descriptors, and of an interrupt that is
still to come. `main.cpp` calls `send()` when the last frame is long gone, hence
`Empty` at its start. A ring of one descriptor is full and empty alike, and
never gives its buffer back; the code has eight.

`ExtendedTimerProofs` proves, for every modulus, bound and set of devices:

| Theorem | States |
|---|---|
| `TimerInvariant` | `TimerSpec => []TimerInv` |
| `ContractKept` | `TimerSpec => []PostWrapRead`, without `Lptimer` |
| `BoardReadsTime` | `LoopSpec => []ReadIsCurrent` |
| `BoardCountsWraps` | `LoopSpec => []WrapsCounted` |

`ReadIsCurrent` speaks of the moment of return. `TimerInv` adds that the value
is good already between the test of the event and the return, and between the
first reading and the test unless an event has come, in which case a second
reading follows; `GoodStays` says that a good reading stays good as time
passes, `CountingSettles` that counting the event makes the count exact.
`LoopKeeps` carries the invariant through the loop and its resets, for every
period and time-out. `ContractKept` and the run `lptim_match` together say whose
fault the early reading is.

Of the loop itself the same module proves, for every width of the count, period, time-out of the
PHY and watchdog:

| Theorem | States |
|---|---|
| `TasksPunctual` | `LoopSpec => []Punctual` |
| `LoopTypes` | `LoopSpec => []LoopTypeOK` |

`Punctual` compares a task with the count and says nothing of the place of the
loop. `Paced` measures from the last kick, whose time is `Kicked` until the
count wraps: a task polled since has its next time at or after it, because it
was not due, or because its tick began after it and the next time is a period
later; a task not polled yet has it a watchdog period earlier at most, as the
turn before ended with this kick. The second watchdog period of `Punctual` is
the one since the kick.

`FpgaAppProofs` proves, for every width of the two halves, delay, capacity and
greeting:

| Theorem | States |
|---|---|
| `DelayIsHonest` | `AppSpec => []DelayHonest` |
| `TransmitterArmed` | `AppSpec => []TxArmed` |
| `AppTypes` | `AppSpec => []AppTypeOK` |

`Measured` says what the halves read so far mean: the high half is that of the
time of the call, the low half one shown since, and after a carry the high half
is one more. `NotBefore` says that the compare register is above the counter,
or the interrupt not taken, until the end: with the high half all ones nothing
fires, and from the second store on the register is at or past the end. It is kept by a
repeated store, too. `TxArmed` is inductive together with the types and
`Consistent`, which says that the handler reads a byte only where its status
has seen one.

The refinement is proved on top of these:

| Theorem | States |
|---|---|
| `EchoesInOrder` | `AppSpec => EchoInOrder` |

The mapping needs two facts beside the types: the byte the loop has copied is
still the first of its ring (`Peeked`: the handler adds at the other end only),
and a transmitter the handler saw ready still is (`SeenReady`: nobody else
writes to it while the handler runs). Then each step moves a byte across the
border of two parts of `Line`, which leaves the line as it is (`CrossesBack`,
`CrossesForward`), or is a step of `EchoLine`: `ArriveMaps` for a byte received,
`LeaveMaps` for one sent, `RxMaps` and `EchoMaps` for one dropped at a full
ring, which has at least the ring's bytes before it (`TakenOut`).

`SequenceLemmas` is what the two modules below need to speak of recursive
definitions. The library's induction theorems take a predicate as a parameter,
which the provers cannot instantiate; but a set of numbers that is not empty has
a least member (`LeastNumber`, from the well-foundedness of inclusion among finite
sets), and a least counterexample is an induction that mentions sets only.
`SpreadExists` shows that a function is defined by the recursion "what the head
gives, then the same of the tail", `SpreadAppend` that it can be computed from the
other end, one element at a time, which is how the code meets its input. The
stuffing of a frame (`Stuffed`), bytes in hex (`Hex`) and a download without its
blanks (`Bare`) are such functions.

`HdlcLinkProofs` proves, for every alphabet, table of escapes, set of payloads,
size of the payload buffer and of the ring, and any number of faults:

| Theorem | States |
|---|---|
| `LinkTyped` | `LinkSpec => []LinkTypeOK` |
| `SecondFrameIsHeard` | `LinkSpec => []FramesHeard` |
| `LinkInvHolds` | `LinkSpec => []LinkInv` |
| `LinkIsAChannel` | `LinkSpec => ChannelKept`, if a frame fits the ring |
| `FramesAreCarried` | `LinkSpec => [](LinkInv /\ Carried)`, if a frame fits the ring |

`FramesHeard` is about two whole frames processed in a row, whatever came before
them. Its strengthening, `Synced`, is about every beginning of them that the
bytes processed may end with: in the first frame the receiver is inside an escape
at most where the frame is (`NotEscaping`), so that its last flag leaves it idle or
at the start of a frame (`Delimited`), whatever it took the bytes for; from there on its payload is the
part of the second frame it has been given, unstuffed (`Following`), and at
the end the payload was heard (`Followed`). A byte makes one of these beginnings
of another (`ConsumedIsAnEnd`, `OneByteAgo`).

For a host that waits, `Carried` says where the bytes of its frame are. `Rest` is
what has not come to the receiver yet: the unread part of the read buffer, the ring,
the register and what the host has not sent, in this order. Until the line fails, it
is what is left of the frame (`Underway`), and nobody is about to find an overrun
(`Quiet`). Each of the steps on the way takes a byte from one place of `Rest` to
the next, which leaves it as it is, except at a full ring; hence the premise
`FramesFit`. A payload has 80 bytes at most (`hdlc_transport.h:32-39`,
`protocol.h:225`), its frame 162 with every byte escaped, and the ring of
`main.cpp:29` holds 256. The
instance of `hdlc_link` has a frame as long as the ring.

`RomBootloaderProofs` proves, for every size of image and of CRC, every message
and set of images, and any number of characters and blanks:

| Theorem | States |
|---|---|
| `RomTypes` | `Spec => []TypeOK` |
| `WhatWasSentIsBooted` | `Spec => []BootsWhatWasSent` |
| `EachLineIsOne` | `Spec => []PoliteLines` |
| `RefusalIsDeserved` | `Spec => []RefusesBadFraming` |

`RomTypes` says that neither buffer is written past its end: that the test of a
length comes before the character that would exceed it.

`WhatWasSentIsBooted` rests on `ParseInv`: at each character of a download, what
was read so far, without its blanks, is the image received in hex, a half byte
if one was begun, and, after the first mark, the CRC so far. Blanks are only between bytes,
which is a matter of the number of digits before them being even
(`BlanksCounted`).

`EachLineIsOne` rests on `LineInv`. A line of two characters, name and newline,
is sent either by blocking output or, `BL_READY`, a character at a time between
looks at the input; `LineKept` says that what is in the transmitter or heard
belongs to a line that will be ended before any other. That `BL_READY` is ended
first is because a polite host sends `BOOT_IMG` only after the whole line, and
because that message has a letter that a download has not, so that what is left
of an earlier download cannot be taken for it (`LetterKept`).

`RefusalIsDeserved` argues backwards from a refusal: a download of the right
format is an even number of digits, the first mark, the digits of the CRC and
the second mark (`Shape`), so what was read up to a character that was refused,
which `ParseInv` knows, is not one, or the character is the blank of the exception. The part before the first mark
(`RefusedImage`) and the part after it (`RefusedCrc`) are taken in turn.

They rest on three assumptions about the constants. `RomAssumption`: sizes
are positive, and the first letter of `BOOT_IMG` does not come again in it, which the
matching of `poll_boot_msg()` relies on. `CharAssumption`: the marks and the
blank are no digits, and `BOOT_IMG` has a letter ("O") that no download has.
`CrcAssumption`: an image is within the size, and there is a wrong CRC for it, as
four bytes allow. `ParseInv` and `LineInv` were checked by TLC on the instance of
`rom_bootloader` before they were proved.

Only model-checked: liveness (`AcceptedLeaves`, `PacedReclaimed`, `IdleBoots`,
`PoliteBoots`, `LoopTurns`, `PoliteHeard`, `EchoDrains`): temporal reasoning under
fairness and ENABLED are beyond the prover. The theorems of UART transmission
assume that no handler logs, as `uart_log` shows they must.

## Findings

* `uart_log` (`ActiveChunkKept`): `startDma()` returns at "DMA already active",
  and logging is documented as not for interrupt handlers
  (`logging/design.md:293`), but the Ethernet handler logs. It can preempt the
  DMA handler between its test of `dma_current_size_` and its store; the chunk
  that `write()` starts there is then forgotten and a wrong size discarded.
* `eth_race` (`FrameKept`): `send()` moves `free_index_` before it owns the
  descriptor to the DMA; an interrupt in between takes the descriptor for sent
  and releases its buffer. The pace of `main.cpp` hides it.
* `mcu_start` (`StartAccepted`): `matches()` compares the type of a Start
  command with that of the Prepare command, so no Start is accepted and the
  transfer state is unreachable.
* `lptim_match` (`PostWrapRead`): a reading right after `checkWrapAround()` has
  returned true "must return a post-wrap value" (`sw_extended_timer.h:43-45`).
  `Lptimer` tests the match with the reload value, which comes one tick before
  the counter wraps, and does not wait: in that tick `EarlyClock` is 65536 ticks
  (2.048 s) ahead, and goes back afterwards. `ReadIsCurrent` bounds the damage.

What else the models show. The first two contradict a document as well, and are
written into a property as its exception; of the others no document says
otherwise:

* A handle "returns the object to the pool on destruction" (`object_pool.h:80`).
  `send()` assigns one with interrupts enabled (`ethernet.cpp:109`); an interrupt
  after the store of the pointer and before that of the deleter resets a handle
  whose deleter does not know the pool, and the buffer is lost. (With an old
  object in the handle, an interrupt after its pointer was read frees it, and
  `send()` frees it again.) TLC shows it in 21 steps when asked for
  `OneOwnerEach` with the constants of `eth_tx`; the `~torn` of `PoolPartition`
  is this exception. The pace of `main.cpp` hides it.
* The example download of the ROM bootloader (`protocol.md:44`) has a blank
  between the CRC and its semicolon, and is refused, although `DL_ERROR` is for
  bad framing (`protocol.md:28`). So is a blank before the dollar sign of an image
  that fills the buffer. Hence the `BlankAfterLast` of `RefusesBadFraming`.
* `dispatchPayload()` copies the payload into the buffer whose remaining bytes
  are still to be processed. A host that does not wait for its answer loses or
  garbles the next frame when one read ends in it; hence the `polite` of
  `ChannelKept`.
* A byte that arrives while the handler works on older flags leaves an overrun
  that the next interrupt sees without a byte. HAL then ends reception, and only
  the reception callback would start it again: the bootloader is deaf until it
  is reset. Hence the `~armed` of `PoliteHeard`. (An overrun seen along with a byte
  is cleared by the callback.)
* After a payload the receiver is idle and wants a flag of the next frame's own:
  `hdlc_encode()` without a trailing flag, its default, would lose every second frame.
  `client.py` asks for the flag.
* Once the count of milliseconds has wrapped, a task whose next time lies beyond
  2^32 does not run again. Hence the `~wrapped` of `Punctual`.
* A transfer that begins in a region near the end of the address space and goes
  round it passes both tests of `handlePrepareMemory()`. Hence the last line of
  `PreparedInRegion`. No region of the board is so near.

## Not modelled

Formatting of logs, encoding of protocol messages and CRC arithmetic: stateless,
and covered by host tests. Ethernet reception and `Uart::read()`: not implemented
in the code. PHY transactions: reduced to their waits and answers. The bootloader's
answers on the link: `sendCommand()` writes eight bytes without framing, and
since `UartHdlcStream::write()` returns a truth value where a length is compared,
always reports failure; nothing depends on it. `hdlc_transport.h` names service
types that `hdlc/protocol.h` spells otherwise, so the two do not compile together
at this commit; the model takes the transport as written. `encodeFrame()` and
`decodePayload()`: used by tests only. The FPGA's LEDs, `mtim_delay_ns()`,
`delay_loop()`, `uart_send_string_nonblocking()`: without effect on what is modelled, or unused.
The RTL below its registers and interrupts: a clocked design for a hardware model
checker. Board start-up, the cause of a reset, the crash record, vendor code,
the motor controller, ESP32 and AVR demonstrations: no protocol of their own.

The map covers a small share of the repository's lines, and cannot cover much
more: nearly all of them are register headers and drivers of the vendor, in three
copies, of which the programs use a few functions. Of the vendor's code only
the reception path of the UART driver has a behaviour that the firmware depends on,
and it is in `HdlcLink`.

Since no Start command is accepted (see `mcu_start`), the transfer actions of
`BootloaderMcu` are translated but are not reached with the code as it is.

## Plan

Built in this order: the ring and its proofs; UART transmission; the Ethernet
ring; the MCU bootloader and its proofs; the ROM bootloader; the extended timer
and the board's loop; the HDLC link; the FPGA application; proofs of UART
transmission, the buffer pool, the timer, the loop and the FPGA application,
refinement included; proofs of the paced Ethernet ring, of the link with its
refinement, of the ROM bootloader, and of the order of the bytes of the UART.

What would add most next: a refinement of the paced `EthernetTx` by a queue of
frames; of `UartDma` by a queue that may lose the end of a chunk; `HdlcLink`
composed with `BootloaderMcu`, once the transport frames its answers; the
transfer of segments, once a Start command can be accepted.
