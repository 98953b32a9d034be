# TLA+ verification of ratfist-stm32

ratfist-stm32 is the firmware of a small laboratory controller: C and Rust on
top of the MourOS kernel, for two STM32 boards. A host talks to it over a
serial line in text frames; a dispatcher turns frames into messages for the
*subsystems* (METEO, which reads weather sensors, and SPINNER, which drives a
stepper motor), and turns their answers into frames again.

This directory holds TLA+ models of the firmware, their TLC configurations, and
theorems checked by TLAPS. `PROJECT.json` lists runs, theorems, the line every
definition stands for, and the hazards the properties were written for.

    tlc -workers 2 -config MCDispatcher.cfg MCDispatcher
    tlapm Dispatcher_proofs.tla

## 1. The system

| Component | Code | State | Operations |
|---|---|---|---|
| Message dispatcher | `src/message_dispatcher.c` | assembly buffer of the receive worker, error queue, table of subsystems | two workers: one assembles, parses and routes frames, one scans the queues and sends |
| Message wrapper | `rust/src/bindings/message_dispatcher.rs` | who owns a message struct | `new`, `try_from`, `into`, `drop` |
| METEO | `rust/src/meteo/mod.rs` | pools of structs and payloads, three queues, two sensor drivers | parse, serialize, allocate, free, the task's loop |
| Sensor drivers | `rust/src/meteo/bmp085.rs`, `tsl2651.rs` | calibration data, what the driver believes of the light sensor | measure, configure |
| SPINNER, C half | `src/spinner/spinner.c` | three pools, three queues | parse, serialize, allocate, free |
| SPINNER, Rust half | `rust/src/spinner/spinner.rs` | the channel: state, plan | the task's loop, the channel's state machine |
| UART | `src/stm32f*discovery/bsp.c` | receive and transmit buffers, interrupt enables | the interrupt handler |
| Workers | `src/worker.c` | stop flag, task state | init, start, stop, join |
| I2C | `rust/src/bsp/i2c/` | transaction, peripheral state, registers | `run_transaction`, event and error interrupt handlers |
| Stepper | `src/spinner/stm32f*discovery/bsp.c` | three timers, DMA, direction | start, stop, set rate, set stop position, stop interrupt |
| Board helpers | `rust/src/bsp/` (`gpio.rs`, `stm32f411discovery.rs`, `mod.rs`) | port, clock and interrupt controller registers | pin modes, pulls, levels, clock enabling, interrupt priorities |
| LEDs, `main` | the rest | pins | straight-line code |

**How they interact.** Interrupt handlers and tasks share character buffers. The
receive worker calls the subsystem's `alloc_message`, `parsing_func` and
`free_message` and posts a pointer to the subsystem's mailbox; the subsystem's
task takes it, allocates a reply from the same pools, and posts it to its
outgoing mailbox; the transmit worker takes it, calls `serialization_func`, and
frees it. So three tasks allocate from and give back to the same pools, and
what protects a message struct is nothing but the discipline about who owns it.
Errors travel as codes in queues of their own. `METEO` calls the I2C driver, in
which a task and two interrupt handlers share one state machine; after every
failed transaction the driver takes the pins away from the I2C unit, clocks the
bus free, and initialises pins, unit and interrupts again.

**What is hard.** Ownership across three tasks; allocations of two blocks that
are not atomic; error paths after a partial success; full queues and buffers,
with results nobody looks at; resynchronising on a noisy serial line; liveness
of a fixed-priority scan; types shared by hand between C and Rust; interrupt
handlers that look at flags the hardware changes meanwhile; drivers that remember
what a device was told although telling it may fail. On the other hand nothing is persisted and messages are not reordered: queues are FIFO.
`PROJECT.json` has the hazards line by line.

**What makes each component correct.** Dispatcher: every struct has one owner
and returns to the pool it came from; every frame ends as a message or as an
error report; nothing is kept waiting forever without cause. Subsystems: the two
parts of a message (struct, data) stay together, and the answer to a request is
an answer to *that* request. SPINNER: the plan of a running channel is fixed.
UART: characters keep their order, are lost only at a full buffer or in the
peripheral, and no flag keeps the handler running for ever. I2C: a transaction
reports success only when all of its bytes were transferred, and ends. Board:
whenever the driver goes on, the bus is free and the pins, the unit and the
interrupts are set up; the two I2C handlers do not preempt each other. Sensors: a
measurement is made of its own conversions, and the driver knows the light
sensor's settings.

## 2. The modules

    Ownership                          what the contract promises about one struct
       ^ refinement (HandOvers, proved)
    Dispatcher  <--EXTENDS--  Meteo, Spinner     each refines Dispatcher (KeepsContract)
    RxFraming                          characters -> frames
    Uart                               both boards' handlers, peripheral, workers
    RunTransaction                     what run_transaction promises its callers
       ^ refinement (ServesCallers, proved)
    I2C, Board  <--EXTENDS--  Sensors  the drivers of both sensors over both;
                                       implements I2C (proved)
    MC*                                instances for TLC
    Dispatcher_proofs  <--EXTENDS--  Meteo_proofs, Spinner_proofs
    I2C_proofs, Board_proofs  <--EXTENDS--  Sensors_proofs
    RxFraming_proofs,  Uart_proofs

**RxFraming** is `assemble_incoming_message`: one step per call with a
character. `incoming_msg_buf` is the part of the buffer in use, so
`pos_in_buf` is its length. `Restart` is a `$`, `Ignore` a character outside a
frame, `Store` the rest of the function with its three ends (a frame is
complete, the buffer is full, neither). Two history variables, `read` and
`outcome`, make it comparable with `Expected`, a definition of the frame format
over a whole input that never mentions a buffer.

**Dispatcher** is everything behind that. The workers have a program counter
each, because their handlers call functions other tasks interfere with; one
action is the code between two such calls.

| Action | Code (`message_dispatcher.c`) |
|---|---|
| `RxReject`, `RxAccept` | tokens, ids and names are checked (`Verdict`, in the code's order) |
| `RxAlloc`, `RxAllocFail` | `alloc_message` |
| `RxParse`, `RxParseFail` | `parsing_func` |
| `RxRoute`, `RxRouteFail` | `os_mailbox_write` to the subsystem |
| `RxFree` | `free_message` after a failure |
| `TxOwnError`, `TxSubsystemError`, `TxMessage` | one read of one queue in `check_outgoing_queue` |
| `TxErrorBegin`, `TxErrorEnd` | the blocking write of an error frame, in two halves |
| `TxSend`, `TxSendFail` | `process_outgoing_message`: the non-blocking write, or a failure before it |
| `TxFree` | the label `free_msg` |
| `TaskReceive`, `TaskNew`, `TaskSend`, `TaskDrop`, `TaskReport` | what the contract allows a subsystem (`MessageWrapper`) |
| `Transmit` | the UART's interrupt handler takes a character |

**Ownership** is the contract in `message_dispatcher.h` seen from one struct:
which party may hand it to which. It is the abstract specification Dispatcher
implements, with `owner` refined to the one place a struct is found.

**Meteo** and **Spinner** extend Dispatcher and conjoin to its actions what the
subsystem's functions do to payloads: METEO takes struct and payload inside one
critical section and gives them back in two; SPINNER does neither inside a
critical section, so a struct is first *taken* and gets its data later. The
task's loop has one action per call that others can interfere with. That every
step of theirs is a step of Dispatcher, or leaves its variables alone, is the
property `KeepsContract`, so what is shown of Dispatcher's contract holds of
both subsystems.

**RunTransaction** is `run_transaction` as a task sees it, without handlers,
peripheral and bus: a caller is accepted or refused, bytes come into the buffers
of its Reads one or two at a time, and it returns `Ok` or `Err`. I2C implements it
(`ServesCallers`): the served task is the one that waits or polls, `steps` and
`buf` are those of `current_transaction`, and every branch of the handlers but
those that read the data register is a stutter.

**I2C** is the driver under METEO's sensors. A task calls `run_transaction`
(`Call`, then `Begin` or `Refuse` inside the critical section), and polls
(`Poll`, then `PollAgain`, `PollOk` or `PollErr`, which resets the unit as
`deblock_bus` does). The
event interrupt handler has one action per branch, each with the status flag it
waits for (`Ready`):

| Action | Branch of `rust_i2c_interrupt_handler` |
|---|---|
| `SendAddress` | start condition is out: send the address |
| `BeginRead`, `BeginWrite` | address was acknowledged: set up the acknowledge bits, or send the first byte |
| `SendByte`, `EndWrite` | a byte may be written, or the last one is out |
| `ReadByte`, `EndReadTwo`, `EndReadByte` | a byte; the last two; the only one |
| `Ignore` | not ready: nothing, except that ACK is cleared before the last byte |

`ErrorHandler` is the other handler; either may go first when both are pending.
`Hardware` is the peripheral with its
device, external to the repository: conditions, bytes, flags and faults. Because
the handlers do not preempt each other and a task runs only when no interrupt is
pending, a step is a whole handler; but the bus moves on inside a critical
section, and an interrupt raised there stays pending after its cause is gone.

**Board** is what `rust_bsp_init` and `deblock_bus` do to the registers. Both are
straight-line code, so their translation is a sequence of register writes
(`rust_bsp_init`, `deblock_bus`, built from `SetMode`, `Configure`,
`EnableInterrupt`, `Pulses` as the code is built from functions), of which
`todo` is the rest, and `BoardStep` takes the next one. A write to a port or unit
without a clock has no effect; `set_priority` and `set_subpriority` compute with
the grouping that is set at that moment, in a byte. The device on the other end
of the bus is the number of clock pulses it wants before it lets go of SDA
(`owes`), at most nine: eight bits and the acknowledge. `ipr_offset` is how far
the compiler has moved the priorities in `struct Nvic`, which is not `repr(C)`.

**Sensors** is METEO's task between two requests: `MeasurePressure` and
`MeasureLight` begin a measurement, and every `run_transaction` is the I2C
driver's, byte by byte (`Transact`). `Succeeded` and `Failed` are what a driver
does when it returns; a failure also starts `deblock_bus`. The sensors remember
the command last acknowledged (`Obey`): which conversion the result register
holds, and the light sensor's settings. Interrupts go in the order of the
priorities Board has computed.

**Uart** is the interrupt handler of both boards between `bsp_rx_buffer`,
`bsp_tx_buffer` and the wire. One look at a flag is a step (`Look`), and so is
the access to a data register that follows (`Read`, `Send`, `ClearOverrun`), as
characters arrive and leave in between. `Chain` is the order of the looks, in
which the boards differ. `TaskWrite` and `enable_tx_interrupt`, the callback of
the character buffer, are two steps; so the handler may disable the interrupt
between them.

### What is abstracted, and why it does not matter to the properties

- A frame is a record of a transaction id, two names and an argument; the value
  of a measurement is not kept. Checksum digits are one predicate on the payload.
- The transmit buffer is counted in half frames: what the code's properties tell
  apart is whether a frame is whole, cut short, or absent.
- A free struct or payload holds `Scrap` / `Zero`: MourOS keeps its list of free
  blocks in them. The leg count in a free plan block is kept instead, because
  `parse_set_plan` may read it (see *Findings*).
- In `meteo_alloc` the branch that frees a struct without payload, which nobody
  has initialised, is not an action: `NoPayloadShortage`, an invariant, says that
  it is never reached.
- METEO's serializer cannot fail: an integer and a float fit any frame.
- METEO's task has a branch for structs that are no request (`InvalidMsgError`),
  which is not an action: what is routed to METEO has a type with a parser, and the
  parsers are those of the requests.
- SPINNER's plan replies may be too long for a frame; whether the legs or only the
  checksum behind them find no room decides which of two error codes goes out, and
  the model allows either.
- Mailboxes, pools, character buffers and the scheduler are MourOS (a submodule
  whose sources are not in the repository): a call is one atomic step. That is an
  assumption, and nothing here shows it; SPINNER relies on it at every
  `os_pool_alloc_take` and `os_pool_alloc_give`, which it calls without a critical
  section. What is checked is what happens between such calls. `critical!`
  sections and nested locks are assumed to exclude all other tasks.
- I2C: one peripheral, as the three share nothing. A byte is its number in the
  step. A register is the set of its bits the driver uses; timing and filter
  settings are left out. The registers `reset` saves and restores keep their
  values. After a byte that was not acknowledged
  the device sends nothing more, and once a stop or start is asked for no further
  byte is begun: what the wire carries then nobody reads. That the acknowledge
  bit with POS counts for the second byte is how the reference manual's procedure
  uses it. In Meteo a measurement is a step that succeeds or fails; its
  transactions are in Sensors.
- Board and Sensors: pin speeds and the bytes of commands and results are left
  out. What a command does is decided by the transaction it is in. The pauses
  between a command and reading its result are taken to be long enough.
- Uart: a character is its number. The baud rate and the pins are left out.
  While the overrun flag is set a character may or may not get into the empty
  data register: the manuals do not say the same of both families.
- Interleaving is any order of steps, which includes every schedule of priorities.

### Bounds

| Run | Instance | Why it is enough |
|---|---|---|
| dispatcher | a subsystem with two structs and one whose pool is empty, queues of one, a transmit buffer of two halves, frames for both and three that are rejected | both outcomes of every queue and buffer, both kinds of subsystem (with and without error queue), the scan passing over either, a struct in every place while another moves, frames cut in the middle; the proofs of ownership are for any number of structs |
| meteo | three structs, queues of one, two ids, two channels, two kinds of requests, an argument that does not parse | a request of each kind in flight while the other's blocks are recycled; posting fails, unlike in the code, where queues are as long as the pool |
| meteo_live | one id, two structs | the answer, every error, and a full error queue |
| spinner_live | three structs and small blocks, one plan block, queries of the plan under one id | while one query is answered another is received, or an older answer is still on its way: so each of the outcomes comes about, a reply, no struct left, and a struct but no plan block. None of the three can be left out of `RequestsAreAnswered` |
| spinner_plan | two structs, two small blocks, one plan block, 1-leg and 3-leg plans, `MaxLegs` 2, `RustLegs` 1; start and stop; a channel there is not | both halves of the allocation fail, the parser refuses a plan, all transitions of the channel; a request that gets no answer |
| rx_framing | six characters, frames of 5 or 6, 8 characters read | `MinLength` 5 is 10 less five payload characters that add nothing; `MaxLength` 6 stands for 1000 (F411) or 250 (F072). A frame cut by another, one that is too long and one after noise all fit in 8 |
| i2c_faults | two tasks; all faults; the firmware's transactions and others the interface allows; Writes of 1 to 3 bytes, Reads of 1 to 4 | the firmware writes 1 to 3 bytes and reads 2, 3, 5 or 22; the handler tells apart only Reads of 1, 2 and more bytes, and 4 is the least length with every kind of byte twice. The firmware has one caller; the second exercises the refusal the code has |
| sensors | I2C3, the unit in use, with the real lengths of all transactions; addresses and data bytes may be refused; `struct Nvic` as written and reordered; a device stopped at any bit | nothing is bounded: measurements follow each other for ever. Bus errors are left to i2c_faults |
| uart, uart_f072 | buffers of two, up to four characters in and three out | each buffer full and empty; an overrun with and without a character before it, and another after it |
| spinner_long_plan, spinner_full_plan | the real lengths of the F411 board, 100 and 10 | |

Message structs, payloads and data blocks are symmetric sets in the safety
runs; no liveness run uses symmetry. Deadlock is checked in every
run but those of Uart, which stop when the characters of the instance are used up.

### Fairness

`WF` of the receive worker's steps, the transmit worker's steps, the task's
steps and `Transmit`: workers are tasks that loop forever
(`worker_task_func`), sleep 50 ticks when idle, and no task of higher priority
runs without sleeping; the interrupt handler runs whenever there is something to
transmit. Nothing is assumed of the host (`RxFrame` has no fairness), nor, in
Dispatcher, of a subsystem. A panicked SPINNER task stops for good; the runs
under fairness use plans that do not panic it.

I2C has safety properties only; liveness is asked of Sensors, below. With `Prompt` the event handler runs within the time of a byte
(90 microseconds), which critical sections of this length allow; without it a
handler may come late by any number of bytes the registers hold.

Sensors: the same, of the composition: a task inside `run_transaction` goes on,
interrupts are served, straight-line code continues, and the bus moves. The
last is an assumption about the device, not about the code: `run_transaction`
has no timeout.

Uart: `WF` of the handler, of the transmitter, of the callback after a write, and
of the receive worker's reading. Nothing is assumed of the host's characters or
of when the dispatcher writes.

## 3. What is checked

| Property | Run | It says |
|---|---|---|
| `OneOwner` | dispatcher; proved | every struct is in one place: not shared, not freed twice, not lost |
| `OwnPool` | dispatcher; proved | it stays with the subsystem whose pool it came from |
| `HandOvers` | dispatcher; proved | every step is one the contract allows (refinement) |
| `ErrorFramesWhole` | dispatcher; proved | error frames are neither cut nor mixed with others |
| `CutShortIsReported` | dispatcher; its safety part proved | a message frame cut short is followed by an error frame, even when the notice itself was lost to a full error queue |
| `OwnErrorsLeave` | dispatcher | the dispatcher's error queue does not stay full |
| `Drains` | dispatcher | without new work, the queues run empty |
| `NoPayloadShortage`, `PayloadsOwned` | meteo; proved | payloads and structs stay together; the uninitialised branch of `meteo_alloc` is dead |
| `NothingForgotten` | meteo; proved | no error path of the task forgets a struct |
| `RepliesMatch` | meteo, spinner_plan; both proved | an answer has the type, id and (METEO) channel of a request that was made |
| `QueuesSuffice` | spinner_plan; proved | posting a message never finds the queue full, so the write SPINNER does not check loses nothing |
| `NoRequestVanishes` | meteo_live | a queued request is answered or an error frame goes out |
| `KeepsContract` | meteo_live, spinner_live; both proved | the subsystem's steps are Dispatcher's |
| `SmallDataSuffices`, `DataOwned` | spinner_plan; proved | allocating and freeing in two unprotected steps neither shares nor loses a block of data, and who has a struct finds a small block for it |
| `PlanFixedOnceRunning` | spinner_plan; proved | a running channel's plan does not change; the state goes one way |
| `RequestsAreAnswered` | spinner_live | for a request for an existing channel a reply is queued, unless the task, about to answer, found no struct, or no data for the struct it had: neither request nor reply is lost in another way |
| `BufferHasRoom` | rx_framing; proved | no character is stored outside the buffer |
| `FramesAsExpected` | rx_framing; proved | the assembler does exactly what the format says, on every input |
| `OkMeansTransferred` | i2c_faults; proved, also of Sensors | Ok is returned only if every byte of every step went over the wire in order, and no fault came before the end |
| `ServesCallers` | i2c_faults; proved, also of Sensors | to its callers the driver is RunTransaction (refinement): one is served at a time and refused only because of another, its buffers fill each byte once and in order, Ok means they are full, and nothing writes to them once it has returned |
| `LastByteNotAcked` | sensors; proved, also of I2C | each Read acknowledges all bytes but the last |
| `QuietWhenDone` | sensors; proved, also of I2C | after success no flag keeps the event interrupt running |
| `BusReady` | sensors; proved | whenever the driver goes on, at start-up and after every failed transaction, the device has let go of SDA, the pins are the unit's, open drain and pulled up, and unit and interrupts are on |
| `HandlersOrdered` | sensors; proved | the two handlers have one preemption level, which is not the UART's, and the error handler goes first if `struct Nvic` is laid out as written |
| `ConversionsMatch` | sensors; proved | a pressure is computed from this measurement's temperature and pressure conversions and from calibration data that were read, whichever transactions failed before |
| `LightAsRemembered` | sensors; proved | the driver believes of the light sensor's power and integration time what the sensor was told, whichever commands failed; its gain is not followed |
| `MeasurementsEnd` | sensors | every measurement ends, through all faults, polls and pulses; or the bus is `Stuck`, see below |
| `TxInOrder` | uart; proved | wire, registers and buffer together hold what was written, in order |
| `RxAccounted` | uart; proved | a character that arrived is in the buffer, found it full or was overrun; order is kept, and a character is stored twice only in place of a lost one |
| `AllTransmitted` | uart | what is written gets onto the wire |
| `OverrunEnds` | uart | on the F411 board an overrun is cleared |
| `NoPanic`, `LegsCounted`, `OverrunCleared` | violated, see below | |

Every property of a passing run has a mutant in the module it is about: a
plausible mistake in the code (`X_...` next to the action `X`), under which TLC
finds the property violated.

### Findings

- **A long plan stops SPINNER** (`NoPanic`, run spinner_long_plan). The C half
  accepts plans of up to `MAX_SPIN_PLAN_LEGS` legs, 100 on the F411 board. The
  Rust half's view of the same struct (`spinner.rs:27`) has ten. For a plan of 11
  to 99 legs `set_channel_plan` indexes past it and panics; the panic handler
  loops forever, and SPINNER answers nothing any more.
- **A plan of exactly `MAX_SPIN_PLAN_LEGS` legs has no leg count**
  (`LegsCounted`, run spinner_full_plan). `parse_set_plan` stores the count when
  it meets the end of the packet inside the loop; a full plan leaves the loop at
  its bound, is accepted, and keeps the count its block held before.

- **An overrun keeps the F072 board in its interrupt handler**
  (`OverrunCleared`, run uart_f072). The comment on `usart1_isr` says that the
  handler clears the overrun flag. It looks at ORE only if neither RXNE nor TXE
  is set, but TXE is set whenever the transmit register is empty, whether its
  interrupt is enabled or not. Once the character before the overrun is read, the
  handler disables the transmit interrupt, returns, and is called again at once.
  The F411's handler, which looks at ORE before TXE, has no such trouble
  (`OverrunEnds`).

About the I2C driver the model shows what no text of the repository contradicts,
so these are no findings:

- When the device does not acknowledge the last byte of a Write of two or more
  bytes, the error handler sets Done(-1) but leaves TXE and buffer interrupts as
  they are, and the event handler, which in Done does nothing, runs for ever:
  the exception `Stuck` of `MeasurementsEnd`.
- Buffer interrupts stay enabled after a Read of three or more bytes and, being
  kept through `reset`, make the same happen in a later Write of one byte.
- If the compiler moves `ipr` in `struct Nvic`, the I2C interrupts keep priority
  0, in which the event handler goes before the error handler; as long as a flag
  keeps it running the error is never seen.
- POS, set for a Read of two bytes, stays set for the steps after it, as
  `disable_ack` clears ACK only. In a transaction that reads two bytes, one and one
  again, with the handler late by a byte, the second byte read for the middle step
  is still in the data register when the last step begins, and is returned as its
  byte. So a Read of one byte may not come after one of two in the same
  transaction (`Sane`, the hypothesis of the theorems below); transactions that
  respect this are transferred whole, and no transaction of the firmware reads twice.
- An error left pending while a task starts a transaction ends that one, because
  the error handler does not look at the flags.
- With bus errors allowed `LightAsRemembered` fails: one that comes after the last
  byte of a command is reported as a failure although the sensor has obeyed. The
  next request sends the command again.
- The bus is freed after an error only. A device that a reset of the board stops
  in the middle of a byte is freed after the first transaction has failed.
- Until `set_output_type` comes, `set_mode` leaves the pins push-pull for a
  moment after reset, and drives them low, as nothing has been written to ODR.
- For I2C2 the driver chooses alternate function 4 on pin B3, where the chip has
  I2C2 on function 9; only I2C3 is used.

About the sensors: the light sensor is turned on by the request that fails for
it being off; the next request reads it at once, whether a conversion is done or
not. The byte for the light sensor's longest integration time sets the bit of its
gain, so it means gain 1 with the shortest time; the firmware uses neither.

Smaller observations: a request for a channel that does not exist is dropped
without an answer, and so is one whose answer finds no free block; nothing ever
leaves the state SPINNING_DOWN; errors that find the dispatcher's queue full are
lost; under permanent load a subsystem late in the scan may wait forever. No code
ever reports `RX_BUFFER_FULL`. The F411 handler may store a character twice when
another is overrun while it looks at the flags.

## 4. What is proved

TLAPS proves, for every value of the constants allowed by the named
assumptions in the modules:

| Theorem | Module | Argument |
|---|---|---|
| `FramingTypeCorrect`, `BufferNeverOverrun` | RxFraming_proofs | types and `BufferHasRoom` are inductive together |
| `EveryFrameAsExpected` | RxFraming_proofs | `Expected` looks at the whole input, the worker at one character. `Following` joins them: the buffer holds the text of the last `$`, no end of it met yet, and all earlier texts are decided. One more character changes the verdict on the last text only |
| `TypeCorrect` | Dispatcher_proofs | `TypeOK` is not inductive: that `tx.msg` is a struct where it is used follows from the worker's program counter. `ControlOK` adds that (`WorkersOK`) |
| `ErrorsReachHostWhole` | Dispatcher_proofs | inductive given the types: wire and buffer together are one sequence, which either ends in the first half of an error frame, and then the worker is about to write the second, or does not |
| `CutFramesAreNoticed` | Dispatcher_proofs | `CutsNoticed`: behind each cut frame in that sequence is the end of an error frame, or an error is queued or being written. What is put behind it later only adds to that; the queue of errors is empty only after one was taken to be written |
| `StructsHaveOneOwner`, `StructsStayInTheirPool` | Dispatcher_proofs | `OwnershipOK`: at every moment a struct is at one place, the queues hold it once, and the place is its own subsystem's. That a step preserves it rests on one lemma per move: the struct leaves one place and enters another, and every other struct stays where it is |
| `DispatcherImplementsOwnership` | Dispatcher_proofs | each of the nine moves is a hand-over of Ownership; all other steps leave `owner` as it is |
| `MeteoKeepsContract`, `SpinnerKeepsContract` | Meteo_proofs, Spinner_proofs | each action of the subsystem is an action of Dispatcher or changes `spinnerVars` or `meteoVars` only. That a reply's struct is one of the subsystem's, and its type and id known ones, needs to be known of the request in hand (`HandsOK`, with `TaskOK`) |
| `MeteoStructsHaveOneOwner`, `SpinnerStructsHaveOneOwner` | the same | by the refinement, from `StructsHaveOneOwner` |
| `MeteoTypeCorrect`, `MeteoForgetsNothing` | Meteo_proofs | `MeteoOK` joins what the task holds by where it is in its loop (`TaskOK`) to who is half through a free (`GivingOK`) and to `PayloadsOwned`; `NothingForgotten` is part of it |
| `MeteoPayloadsHaveOneOwner`, `SpinnerDataHasOneOwner` | the same | a step takes a block for one struct, gives one back, or keeps all where they are (`Moved`); each move preserves the invariant, and every action is one of them. A struct half given back is nobody's (`Freeing`), and no two parties hold the same struct (`Apart`). For SPINNER the invariant also says that a struct taken and not yet given data is in the dispatcher's pool (`TakenApart`), which the atomic pool gives |
| `MeteoNeverShortOfPayloads`, `SpinnerNeverShortOfSmallData` | the same | a pigeonhole argument: `data` maps the structs in use to the blocks in use, one to one, and a free struct leaves at least one block over |
| `SpinnerQueuesSuffice` | Spinner_proofs | a queue holds different structs of the pool, none of them the one to be posted, so it is shorter than the pool |
| `SpinnerPlanFixed` | Spinner_proofs | one action changes the channel, and it looks at the state first |
| `MeteoRepliesMatch`, `SpinnerRepliesMatch` | the same | `ContentOK`: from the moment a struct is parsed until its answer is sent it says what some frame said, and nobody else writes to it or its data (`Stays`), because what is written to has another owner |
| `MeteoRequestsStayOwed` | Meteo_proofs | `Owed`: an error frame is to come, or a struct under the request's id is queued, held by the task or handed to the transmit worker. `StructsStay` says nobody writes to such a struct, and each step of the three tasks hands on what is owed or replaces it by an error, down to the frame in the UART buffer |
| `SpinnerRequestsStayInWork` | Spinner_proofs | `InWork`: the request waits, the task works on it, or its reply is about to be written. Nothing but a queued reply ends it as long as `NothingLeft` is false, that is, as the task does not find a pool empty, and as it does not panic. It uses the same `Stays` as `SpinnerRepliesMatch` |
| `AtRestAllSent` | Uart_proofs | `NoLostWakeup`: a buffer that is not empty has the transmit interrupt enabled or the callback that enables it to come, because the handler disables the interrupt only where it has found the buffer empty. With `TxInOrder`, nothing is left when everything is at rest |
| `I2CTypeCorrect` | I2C_proofs | that a position is inside its buffer needs the current step to be one of the transaction's, and a byte's number to be one needs something to be on the wire (`WireOK`) |
| `SentInOrder` | Uart_proofs | the equation is inductive once one knows that a register that is loaded was empty (`StillEmpty`): between the look at TXE and the write nobody else writes |
| `ReceivedAccountedFor` | Uart_proofs | that there are no more reads than characters needs a cause for each: a character in the data register, or on the F411 an overrun the read is going to clear (`HasCause`); the receive register is never older than what was heard (`Holds`) |
| `SensorsImplementI2C` | Sensors_proofs | every step of the composition is a step of I2C, its peripheral's included, or leaves I2C's variables alone: what measurements and register writes do between transactions is invisible to the driver |
| `SensorBuffersBorrowed` | Sensors_proofs | by the refinement, from `BuffersStayBorrowed` |
| `DriverServesCallers`, `SensorsAreServed` | I2C_proofs, Sensors_proofs | step by step: `Begin` accepts, `Refuse` refuses, `PollOk` succeeds, `PollErr` fails, and a branch that reads the data register fills (`Arrive`). Nobody is served when there is no transaction (`BuffersBorrowed`), the state is Done then (`TransferInv`), and the buffer of the current step holds its first bytes in order, those of later steps nothing (`InOrder`) |
| `FaultsAreReported`, `SensorFaultsAreReported` | I2C_proofs, Sensors_proofs | `FaultNoticed`: a fault has failed the transaction, or its interrupt is pending and no task is looking at a finished one. Whatever the event handler does first, a task polls only when nothing is pending |
| `OkTransactionsTransferred`, `EventQuietWhenDone`, `LastByteNeverAcked` | I2C_proofs | one invariant, `TransferInv`, follows a transaction byte by byte: the steps before the current one are transferred (`Through`), and for each state of the driver how many bytes are on the wire, in the two registers and in the buffer, which flags tell so, and where the bus is. Faults do not disturb it, as they leave the bytes alone |
| `SensorTransactionsTransferred`, `SensorsLeaveInterruptQuiet`, `SensorReadsEnd` | Sensors_proofs | the same invariant, of the transaction the sensor driver is at (`InHand`); each of these is sane |
| `BusReadyAfterInit`, `HandlersNeverPreempt` | Sensors_proofs, Board_proofs | what is left of the sequence of writes is always an end of start-up or of `deblock_bus`, and every write made so far is still in place. After nine pulses no device that owes nine bits at most holds SDA |
| `PressureFromItsConversions` | Sensors_proofs | `ConversionsInv`: what is known at each step of a measurement. It needs that a sensor has obeyed a command whose last byte was acknowledged (`Delivered`), and that Ok means it was |
| `LightSettingsAgree` | Sensors_proofs | while a command is incomplete the sensor has the old settings; without bus errors a command that fails stays incomplete, because after a byte that was not acknowledged nothing more is sent (`LossInv`) |
| `BuffersStayBorrowed` | I2C_proofs | `BuffersBorrowed`: while there is a transaction its owner is inside `run_transaction`. Inductive given the types: handlers and bus leave the owner as it is (`OwnerKept`), only the owner ends a transaction |

Every invariant and every action property the passing runs check is a theorem.
Only model-checked are the properties that need fairness, which are out of the
prover's reach: `CutShortIsReported`, `OwnErrorsLeave`, `Drains`,
`NoRequestVanishes`, `RequestsAreAnswered`, `MeasurementsEnd`, `AllTransmitted`,
`OverrunEnds`. Of four of them the safety part is proved, that what they promise is
never given up on the way: `CutFramesAreNoticed`, `MeteoRequestsStayOwed`,
`SpinnerRequestsStayInWork` and `AtRestAllSent`. That the scheduling then brings it
about is TLC's part. `MeteoRequestsStayOwed` lets any error frame account for a
request, as `NoRequestVanishes` does: an error frame carries no id.

Assumptions the theorems rest on: subsystem names are different, there are
finitely many structs, each belongs to a subsystem, and queue lengths are
natural numbers (the transmit buffer's at least one); a transaction has at least
one step and a step at least one byte, as all of the firmware's have, and the sensors'
transactions are among those the I2C module allows. The theorems of I2C that follow a
transaction's bytes assume that each transaction is `Sane`, which is proved of
the sensors'; the one about the last byte assumes `Prompt`, and `LightSettingsAgree`
that there are no bus errors: TLC finds `LastByteNotAcked` and `LightAsRemembered`
violated without. `CutFramesAreNoticed` assumes that the dispatcher's error queue has room
for one error (the code's has ten), `MeteoRequestsStayOwed` that METEO's has (the code's
has twenty). Of frames, handlers and the number of
subsystems Dispatcher assumes nothing. Meteo and Spinner assume what their tables
in the code say (`MeteoAssumption`, `SpinnerAssumption`): the subsystem is
registered, here alone, with parsers for its requests and serializers for its
replies, and METEO has at least as many payloads, SPINNER as many small blocks, as
structs. SPINNER's frames carry numbers. `SpinnerQueuesSuffice` assumes besides
that both queues are at least as long as the pool, as in the code.

## 5. Not modelled

- Registration (`dispatcher_register_subsystem`) happens before the scheduler
  starts; `dispatcher_deinit`, and with it stopping and joining workers, is used
  by unit tests only, which replace the workers by a stub.
- A payload made of commas only, for which `strtok_r` returns NULL (line 220), is
  not among the frames.
- The stepper driver: nothing in the firmware calls it but its initialisation.
- The formulas that turn raw sensor values into units: 32-bit products of
  calibration data and floating point are beyond TLC's integers.
- LEDs, and the operations of the board helpers nothing calls (reading and
  toggling pins, disabling clocks and interrupts).
- The UART for diagnostics, which no build enables.
- I2C1 and I2C2: Board has their pins and interrupts, but the firmware
  initialises and uses I2C3 only, and the run is about that.
- MourOS, libopencm3 and the chips are external. The unit tests were read to
  confirm intent.

## 6. Plan

Done: RxFraming, Dispatcher, Ownership, Meteo, Spinner, I2C, RunTransaction, Uart,
Board, Sensors, with proofs of all their invariants and action properties and of
five refinements. Left: Stepper and Worker, once the firmware calls `set_rate`,
`set_stop_pos` or `dispatcher_deinit`.
