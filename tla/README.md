# Formal models of fwk_io

TLA+ models of the I/O components of fwk_io: UART, I2C, SPI and I2S libraries
for xcore, each of them a few hundred lines of C that drive ports, timers and
interrupts by hand. Every module says in its header what it stands for;
`PROJECT.json` maps each definition to the lines it translates.

## 1. The system

The components do not call each other. Each is linked into an application, runs
on a hardware thread (or inside an interrupt of one) and talks to three parties:

  * the application, through calls and a group of callbacks;
  * the pins, through ports that shift, buffer, time-stamp and trigger;
  * another device at the far end of the wires, with a clock of its own.

| Component (`src/modules`) | State | Operations and callbacks | What is hard |
|---|---|---|---|
| UART FIFO (`uart/src/uart_util.c`) | storage, two indices, size+1 | init, push, pop, fill level | two threads, no lock |
| UART transmitter (`uart_tx.c`) | state, bit, time of the next event, FIFO | `uart_tx`, timer interrupt; empty callback | call against interrupt; bit times from a 32-bit clock |
| UART receiver (`uart_rx.c`) | state, bit, FIFO, callback code | port and timer interrupts, `uart_rx`; error and complete callbacks | the sender's clock; back-to-back frames; glitches |
| I2C master (`i2c_master.c`) | `stopped`, tick counts | read, write, stop bit | clock stretching, repeated start |
| I2C slave (`i2c_slave.c`) | state, level waited for, bit counter, byte, `ignore_stop_bit` | two events, six callbacks | start and stop inside a byte; other slaves |
| I2C registers (`i2c_reg.h`) | none of their own | eight read and write functions | refusals half-way |
| SPI slave (`spi_slave.c`) | buffers and cursors, `running` | thread loop, chip select interrupt; started and ended callbacks | the interrupt anywhere in the loop; partial words |
| SPI master (`spi_master.c`) | current device, pending delay, thread mode | start, delay, transfer, end | scheduled outputs as timers; odd lengths |
| I2S master (`i2s_master.c`) | frame in flight, command | init, send, receive, restart_check callbacks | a command takes effect a frame later |
| I2S slave (`i2s_slave.c`) | the same, `syncerror` | the same | finding frames, losing them |
| I2S TDM slave (`i2s_tdm_slave.c`) | out_samps, frame time, `fysnch_error` | init, post-init, send, restart_check | finding frames by time alone; drifting off them |

What makes each correct:

  * FIFO: bytes leave once, in order; no slot is touched by both threads; a fill
    level of 0 is true.
  * UART transmitter: the line carries exactly the frames accepted, every level
    for its bit time, and no byte is stranded in the FIFO.
  * UART receiver: what is delivered and reported is what the sender did.
  * I2C: a call moves the bytes of one transfer and returns what the device
    answered; the wires obey the protocol; the bus is left as the next call needs it.
  * SPI slave: the buffers hold the bits of this transaction and no other, and
    the counts reported agree. SPI master: bytes and delays.
  * I2S: whole frames, none missed while in step, recovery when not. TDM slave:
    every bit at its place in the master's frame, a slip noticed in bounded time.

The hazards, each at its line and with the property that watches it, are listed
in `PROJECT.json`.

## 2. Modules

| Module | Models | Level |
|---|---|---|
| `BoundedQueue` | what the FIFO promises | a queue with a bound |
| `UartFifo` | `uart_util.c` | single loads and stores of two threads |
| `UartTx` | `uart_tx.c`, the handler and `uart_tx` in its modes | each access of the call is a step, the interrupt is one step between any two; time in ticks |
| `UartRx` | `uart_rx.c` and a sender with its own clock | handler runs; time in ticks of a fraction of a bit |
| `I2cTransfer` | what master and slaves promise | one step per byte and callback |
| `I2cBus` | `i2c_master.c`, `i2c_slave.c` | edges of SCL and SDA |
| `I2cReg` | `i2c_reg.h`, over `I2cTransfer` | one step per library call or answer |
| `SpiSlave` | `spi_slave.c` and a master | bits of transactions; thread and interrupt |
| `SpiMaster` | `spi_master.c` | calls, groups of bytes, ticks |
| `I2sBus` | `i2s_master.c`, `i2s_slave.c` | words |
| `TdmSlave` | `i2s_tdm_slave.c` and a master whose clock may slip | bits |
| `UartTxProofs`, `UartRxProofs`, `I2cBusProofs`, `I2cRegProofs`, `SpiSlaveProofs`, `SpiMasterProofs`, `I2sBusProofs`, `TdmSlaveProofs` | | theorems about the module each is named after, section 4; those of `UartFifo` are in `UartRxProofs` |

`MC*.tla` and the `.cfg` files give the instances for TLC. A definition whose
comment begins with "mutant" is a wrong version of the definition behind it;
it is in no specification and serves to show that a property can fail.

`UartFifo` implements `BoundedQueue` and `I2cBus` implements `I2cTransfer`:
both are stated with INSTANCE ... WITH and checked as a property. `I2cReg` then
runs on `I2cTransfer`, so the register functions do not repeat the bits.

### How state and actions correspond

*UartFifo.* `push_byte_into_buffer` is `PushRefused`, or `PushBegin`,
`PushData`, `PushIndex`; `pop_byte_from_buffer` likewise: the load of the other
index, the access to the slot and the store of the own index are separate
steps. `get_buffer_fill_level` names the other index twice; a compiler may load
it once (`FillAtOnce`) or twice (`FillCompare`, `FillSubtract`).

*UartTx.* `TxCall` to `TxEnable` are the accesses of `uart_tx` in their order: the
clock is read (`TxTime`), stored in `next_event_time_ticks` (`TxStamp`), loaded again
for the trigger (`TxLoad`, which may keep the value stored, as the build does) and
made the trigger (`TxTrigger`); `due` is the time the call holds between them, and the
handler may come before any of them and leave it stale. `Isr` is `uart_tx_handle_event` in one step (it runs to completion on the
thread that calls `uart_tx`). `IdleRefill` is the handler whose empty callback
calls `uart_tx`, provided it does not interrupt another call: `uart_tx` has one
caller at a time. `Tick` moves the clock but never past an interrupt
that is due: interrupts are served within a tick. Frames are compared against
what the line did, level by level; `inHold` says that the frame under way was kicked off while the last
stop bit was held, and ends with that frame. `SleepOver` is the wait of a blocking call; in
mode `poll` it has the code's unsigned comparison, and `straddled` says that a
deadline of the frame has wrapped.

*UartRx.* The sender (`Signal`, external) emits frames back to back or not,
valid, with a wrong parity or no stop bit, and pulses shorter than half a bit,
with its own bit length. `Sample` is the handler, by state. `RxPop` and `RxTell`
are the two uses of `cb_code` in `uart_rx`, between which the handler may run;
`RxTell` hands on the value stored or the one found there now, as the build loads it.

*I2cBus.* The master is the sequence of `port_out` calls; it changes a wire only
when no slave has an event due (`Quiet`): the minimum periods of the bus are long
against the time in which a slave serves an event. Inside a callback a slave
takes any time and holds SCL. A slave is a record of the local variables of
`i2c_slave`.

*SpiSlave.* `PortIn`, `Masked`, `CheckRunning`, `PortOut` are the loop; `CsIsr`
is enabled between any two of them, on an edge. Bits carry their number, so a buffer says what
it was filled from. `duplex` is `p_miso != 0`; `report.late` says that the end of the
transaction came between `port_in` and the masked section.

*SpiMaster.* `pending` is the output scheduled on the chip select port;
`port_sync` is a guard `pending = 0`, `port_clear_trigger_time` sets it to 0. A delay
below `SPI_MASTER_MINIMUM_DELAY` is 0. `buffers` says which of `data_out` and
`data_in` the transfer was given. `delay_before_transfer` starts with any value:
nothing initialises it.

*I2sBus.* A `Slot` is the time of one word of 32 bits, the default of
`I2S_DATA_WIDTH`; the loop `i2s_slave` has for other widths is not modelled. `mpc` and
`spc` name the next blocking call of each loop. `grid` says what the words of the slave
are: those of the master's frames, words of the master though not in their places, or
bits of two words. It is computed where the slave finds the edge: `OutStart` and `InEnd`
are the trigger times the code sets, `FrameStart` is where the master's next frame
begins, and a difference of a bit makes every word torn. It may change where the
clock starts again under a slave in its loop (`Resumed`): by then any number of bits may
have been lost or added, among them a whole word. `cut` remembers that. `mlines` and
`slines` say whether each task has inputs, outputs or both; a master without inputs is paced by its outputs and
waits for the last word before it stops the clock (`MasterInOdd`).
`i2s_master_external_clock` is `i2s_master` without the set-up of the bit clock, so
`MasterStep` stands for both.

*TdmSlave.* A `Bit` is a period of the bit clock; `pos` is where the master is in
its frame, and the ports' trigger times are kept as bits still to wait
(`fs_wait`, `out_wait`), so no time is ever compared. The code reads fsync and then
moves its trigger on by a frame time from the time of that reading; `Stream`
re-arms it at the sample, which is the same since software comes back before
the next is due. `PostInit` to `Edge` are the search for the frame, `OutFirst`,
`Fsync`, `Fill`, `RestartCheck` and `Send` the loop, also for the first frame in front of
it (`first`). `Skew` is by how many bits the slave's frame is behind the master's.

## 3. Runs

| Run | Instance | Shows |
|---|---|---|
| `uart_fifo` | capacity 2, 2 byte values, 5 bytes | no race, order, refinement, progress, with every interleaving of loads and stores |
| `uart_tx` | buffered, timer and polled mode, with and without parity, 1 or 2 stop bits, FIFO of 2, a clock of 11 ticks that wraps | frames on the line, bit times, when a call returns, nothing stranded |
| `uart_tx_stop_bit` | the same | *violation*, see section 6 |
| `uart_rx` | buffered and blocking, sender 8 % off | what is reported is what was sent; what the error callback is told is so when it is told |
| `i2c_bus` | bytes of 3 bits, two devices and an absent one, payloads of 1 or 2 | implementation of `I2cTransfer`, protocol on the wires, every call returns |
| `i2c_reg` | one device and an absent one, both widths | results and values of the register functions |
| `i2c_reg_acked` | the same | *violation* |
| `spi_slave` | short bytes and words, transactions of every length to the bound, buffers absent, short, long, with and without MISO | contents and counts |
| `spi_master` | two devices, lengths covering one byte, odd and even, buffers given or not, delays waited for or not | bytes, chip select, delays |
| `spi_reselect` | the same | *violation* |
| `i2s_bus` | frames numbered modulo 4, every command at every frame, inputs, outputs or both | frames whole and in sequence, recovery |
| `tdm_slave` | 3 words of 3 bits, fsync of 1 or 3 bits, no or some offset, 2 slips, every command | bits in place, slips noticed, recovery, the error flag |

Bounds. Code treats bits, bytes and positions uniformly, so short bytes (2 or 3
bits) keep every branch: first, middle and last bit, full and partial bytes,
one word, several. FIFO capacity 2 has empty, half and full, and the wrap
at every offset. Two I2C slaves give addressed and not addressed, acting at
once. Frame numbers modulo 4 tell the at most three frames in flight apart. The clock of
`uart_tx` has the least period with which signed differences tell the times the
code compares apart (`TimeMod > 4 * BitTicks + 2 * CallTicks`), so it wraps in most frames;
`held` stops counting behind two bit times, the longest any property speaks of.
Two SPI devices give the same-device and other-device paths; a third would
repeat the second. Delays count up to the longest one (`Cap`). In the TDM frame three
words are the first, one in the middle and the last; a slip may go to any
position, and the second one falls into the recovery from the first.

Assumptions, each a guard in the model, named there:

  * a UART interrupt is served before the next one is due;
  * an I2C slave outside a callback answers an edge before the master makes
    the next; `stop_bit` returns before the next start (`Begin`); slaves sample
    SCL together after a stop bit (`StopsTogether`, see section 6);
  * `uart_tx` is not called while another call of it is under way; a polling
    thread sees every tick of the clock (one that looked away just when the clock
    wraps past its deadline would wait for a whole period of 2^32 more);
  * an SPI master waits after chip select changes (`Settled`), as `spi.h` asks of
    it, and does not outrun the thread (`CaughtUp`): a word is stored before the
    next is complete, and read from the port before chip select is deasserted;
  * I2S tasks fill and empty their ports in the time of a word (`InTime`, `SlaveInTime`);
    the TDM
    slave takes at most `ArmBits` bits from seeing fsync low to waiting for it to be high.

Fairness. FIFO: a thread inside a call finishes it (weak fairness of each of its
steps), and the consumer calls pop again and again; `PopBegin` has strong
fairness because a consumer that polls meets calls that find the FIFO empty or
asks for the fill level in between. UART transmitter: the thread and the
interrupt keep running and the clock advances. I2C:
weak fairness of the master, of each slave and of its callbacks: a thread on
xcore has its own share of the pipeline, so it always proceeds, and a callback
is assumed to return, without which the bus stays held by design. I2S: weak
fairness of both tasks and of the bit clock while it runs. TDM slave: of the task and
the bit clock, and none of `Slip`: nothing makes a clock slip.

Deadlock is checked in every run but `i2s_bus`, where the
system may stop: the master may be shut down for good, and a slave then waits
for a clock that does not come.

## 4. Proofs

A module `XProofs` extends the module `X` (`UartRxProofs` extends `UartFifo` too, as the
receiver's bytes go through it) and proves, with TLAPS and for every
value of the constants that `X`'s named assumption allows, what the runs check on one
instance. Every one has the same plan. The properties are not inductive, so
an invariant (`Inv` or `IInv`; `Basics`, `Timing` and `Holding`
in `UartTxProofs`, `FrameInv` besides `Inv` in `UartRxProofs`) says what the component knows at each
place of its code; a lemma for each action shows that the action keeps it, with a
step for each conjunct it can disturb; the theorem `Invariance` combines them,
and the properties follow. The lemmas they rest on are about the operators of the
model (bytes of a word, queues, powers of two, the wrap of a counter).

| Theorem | Property | For every |
|---|---|---|
| `UartRxProofs!FifoTypeCorrect`, `Order`, `NoRace`, `ZeroFill`, `Refinement` | `FifoTypeOK`, `FirstInFirstOut`, `NoSlotRace`, `ZeroMeansEmpty`, `ImplementsQueue` | size and bytes |
| `UartTxProofs!TypeCorrect`, `WireCorrect`, `EmptyCallbackTells`, `LevelsHeld` | `TypeOK`, `WireCarriesAccepted`, `EmptyMeansSent`, `BitsHeld` | mode, format, FIFO, bit time, width of the clock, number of bytes |
| `UartRxProofs!TypeCorrect`, `EmptyTold`, `FramesCorrect` | `TypeOK`, `ToldHolds`, `FramesReported` | mode, format, FIFO, bit time, clock of the sender, mixture of frames |
| `I2cBusProofs!TypeCorrect`, `RestCorrect`, `StartStop`, `Refinement` | `TypeOK`, `BusAtRest`, `StartsAndStops`, `ImplementsTransfer` | devices, bytes of 2 to 8 bits, payloads |
| `I2cRegProofs!TypeCorrect`, `ResultsTold`, `Freed` | `TypeOK`, `ResultTells`, `BusFreed` | devices and bytes |
| `SpiSlaveProofs!TypeCorrect`, `MisoCorrect`, `ReportCorrect` | `TypeOK`, `MisoExact`, `ReportExact` | width of bytes and words, buffers, length of transaction |
| `SpiMasterProofs!TypeCorrect`, `BytesMoved`, `Selection`, `Delayed` | `TypeOK`, `TransferExact`, `SelectedOnly`, `DelaysKept` | devices, delays, lengths |
| `I2sBusProofs!TypeCorrect`, `InStep`, `FramesWhole`, `NoneMissed` | `TypeOK`, `MasterInStep`, `WholeFrames`, `NoFrameMissed` | commands, and frame numbers modulo 4 or more |
| `TdmSlaveProofs!TypeCorrect`, `InPlace`, `SlipNoticed`, `ErrorTold` | `TypeOK`, `WordsInPlace`, `SlipSeen`, `ErrorFlagTells` | channels, word length, fsync, offset, number of slips |

What each inductive invariant adds to the properties:

*UartFifo.* How the two indices and the storage represent the queue (its length is
the distance of the indices modulo the size, its k-th byte the k-th slot behind the
read index), and what a thread in the middle of a call still knows: the other
index it loaded may be old, but only towards the safe side, so that a push that
saw room still has room and a pop that saw a byte still has it.

*UartTx.* `Basics`: every byte accepted is on the wire, in `uart_data` or in the FIFO, in
this order (`Accounted`); the frame under way is that of `uart_data` as far as it has come
(`Progress`); and a kick-off, once decided, meets an empty FIFO and an idle transmitter
until it has stored the state (`CallStates`). This needs nothing about time, so
`WireCorrect` holds however long a call is interrupted. `EmptyMeansSent` is
about time, and needs one thing of it: that a call of `uart_tx` takes less than a bit
(`CallTicks < BitTicks`, a hypothesis of the theorems that use it; the code
stores the time of the next event several steps before it enables the
trigger, and a call as long as a bit would let the trigger of the frame before
fire again in between). `Timing` then says where the trigger is in every
place of a call: at most a bit ahead, behind by no more than the call, and in
`IDLE` at the end of the last stop bit. `BitsHeld` needs to know how long the
level has been on the line as well: `Holding` says that this and the time to the
trigger make up a bit (`OnTime`), from the second data bit on even where a
kick-off has cut a stop bit short, and that every other kick-off meets a line at rest
(`HeldBuffered`). In a frame kicked off in a held stop bit the handler may put out the
start bit before the call has stored the time of the next event or made it the trigger:
the call then sets it back to a time that has passed, or one already replaced, and the
first data bit takes none to two bit times. What the invariant has to show is that
this is over with the second data bit, and `inHold` with the frame. In the blocking modes it relates the level to the deadline slept
for (`Asleep`); polled, deadlines are compared as numbers, so once one has
wrapped only "not longer than a bit" is left.

*UartRx.* The types with the bounds that depend on the state (what is gathered
fits the bits counted), and what is in `cb_code` while `uart_rx` is between its two
uses of it: `ToldHolds` needs that what the handler may have stored over the underrun is
still so when the callback is made (a byte is in the FIFO, since only `uart_rx`
takes one out; the error is of the frame still being received). `FramesReported` is about the time over a whole frame, and has a
hypothesis on the clocks, `SamplesInside`: half a bit and `q` bits of the receiver
end inside bit `q` of the sender, for every sample `q` of the longest frame;
`MCUartRx` checks that the clocks of its instance satisfy it. `FrameInv` takes a frame through
four phases. `Ready`: the start bit is not noticed yet. `Receiving`: the sender is `r`
ticks before the end of bit `p`, and the time since the falling edge, counted in
its bits, is that counted in the receiver's samples, so that at a sample `p` is
the bit meant (`SampleInBit`), and what is gathered is the low bits of the byte
(`LowBits`). `Glitching`: the handler has taken a pulse for a start bit. `After`:
the frame is reported; the handler may still take samples, of the ones behind a
pulse or a low stop bit it took for a start bit, but needs less time for them than
the sender leaves (`Needed < Left`), so it is at rest when the next frame begins.

*I2cBus.* The master is in one of five parts of a call: in a byte, in the gap behind
one, at the mark of a start or stop bit, off the bus, or starting. In a byte every
slave that takes part is at the edge the master made last or one behind (`Edges`, `Heard`,
`Keeps`), and what it has taken in is the leading bits of the byte on the wire (`Top`),
since SDA is the master's bit while it writes (`DriveInv`), the answering slave's
otherwise (`AnswerInv`), and no other slave's; what the master has taken in is then that
slave's byte (`ReadInv`). Hence all slaves decide alike whether they are addressed, and the
acknowledge is that of the one addressed. Outside a byte each of them waits for a start or
stop bit (`StopHeld` for the one in its callback). The theorems have the hypothesis
`StopsTogether`; without it `BusAtRest` is false (section 6). `Refinement` shows step by
step which edges and callbacks are the bytes and callbacks of `I2cTransfer`, and that
all others change nothing it sees.

*I2cReg.* `Stages`: what the transfers of a register function have done so far, as
the log of the bus and the answers seen in the transfer under way. The lemmas take
the actions of `I2cTransfer` one by one, so that the register functions are
proved over the promise of master and slaves and not over their edges.

*SpiSlave.* `Receiving`: there is a number of whole words, such that the bits clocked,
the bits in the port, the word in the thread's hands, the cursor of `in_buf` and its
bytes, the words queued on MISO and the cursor of `out_buf` are all what they are
after that many words, one less stored while the thread is behind. `MisoExact` follows
from the words queued. `ReportExact` is about one step, the end of a transaction
in any place of the loop: `HeardAtEnd` says what has been heard, without the last word if
it is not stored, `Taken` how much of that has room, and `FirstSlices` that the bytes stored
are those; between transactions nothing touches them.

*SpiMaster.* `Waited`: what is pending on the chip select port and the time passed
make up the delay asked for; `Progress`: which bytes have been clocked, taken in, and are in
the port, at each turn of the loop; `Transaction`: which device is selected.

*I2sBus.* The queues of each task hold consecutive words (`Chain`), as many as
its place in the loop says; for the master, data and word clock hold the same words
(`MasterQueues`). A slave on the frames, which it is when its trigger times are right
(`EdgeFound`), reads half a frame while the high level is on the wire; one on other
words of the master reads it at the low level (`Alignment`). So one that the clock stopped
and started under either is still on the frames, or finds the synchronisation error in the
frame it is reading: the first word of the new session it sees in its loop has the wrong
level or torn bits (`Detection`), and until then none has passed that could be taken for
part of a frame (`Fresh`). What it reads off the frames does not make a frame
(`Foreign`), and the frame it reads on them is the one behind the last
(`FrameRead`), which gives `NoFrameMissed`. What the master reads depends on whether the
slave is on the frames (`InPhase`, `First`, `Pair`).

*TdmSlave.* `InStep`: the bits left in the data port are, up to the offset, those until
the next sample of fsync, whatever the task has queued of the frame; every bit is thus one after the
one before it (`InOrder`). `Strays` bounds the bits sent off the frame by the time to the
next sample, `Skewed` says where the edge of fsync may have been taken.

The proofs changed the models in five places, none of which changes what the code
does in them:
`WholeFrames` now speaks of every frame and not only of the last, `ReportExact`
compares byte by byte, the parity is a count of the ones instead of a fold, the
longest delay of an SPI device is a constant (`Cap`), and an `I2cBus` byte has at most 8
bits.

Only model-checked is liveness, which is out of the prover's reach:
`EveryByteHandedOut`, `EveryByteSent`, `EmptyCallback`, `CallsReturn`,
`SlaveRecovers`, `Recovers`.

## 5. Plan

Done: survey; models and runs of FIFO, UART, I2C, SPI, I2S and TDM, with the
transmitter polled across the wrap of the clock and called from its empty
callback, the receiver's shared callback code, an SPI slave ended at any step
and without MISO, an SPI master without buffers, set up again, and an I2S master
without inputs; proofs about every module.

Next, modelling, if anything: shutdown of the I2C slave and reads of no bytes,
which both need an `I2cTransfer` whose devices may fall silent or hang the bus.

Proofs: every invariant and every action property of the passing runs is stated by a
theorem. What is left are hypotheses: `StopsTogether` marks
where the code needs it (section 6), and without `SamplesInside` one would have to say which
frames a given drift still lets through.

## 6. What the checks found

Three runs show the code doing something else than a line of the repository says:

  * `uart_tx_stop_bit`: a byte handed over while the last stop bit is on the line
    starts its frame at once and cuts that stop bit short. The first data bit of that
    frame may be too long or too short as well, since the handler may run between any two
    of the stores of the call; the rest of the frame, and every later one, is right
    (`BitsHeld`).
  * `i2c_reg_acked`: a refused byte counts as sent, so a register write whose last
    byte is refused returns `I2C_REGOP_SUCCESS`.
  * `spi_reselect`: with a second device in between, a device can be selected
    again before its `cs_to_cs` delay is over.

Noted while modelling, with no run of their own:

  * `i2s_slave` never returns: it treats `I2S_SHUTDOWN` as a restart, where `i2s.h:64`
    says it makes the component exit (`SlaveOdd`).
  * a polled blocking `uart_tx` (`uart_tx.c:106`) compares times with an unsigned `<`:
    a level whose deadline has wrapped, and the call with its last stop bit, ends at
    once (`BitsHeld` lets through just that). `uart_rx.c:134` does the same.
  * `uart.h:47` says of `UART_UNDERRUN_ERROR` "Buffered Tx Error only (buffer empty)",
    and `doc/programming_guide/reference/uart/uart.rst:14` speaks of "the UNDERRUN condition
    when the Tx buffer is empty". The code raises it only in the receiver, when a buffered
    `uart_rx` finds its FIFO empty (`uart_rx.c:286` to 288); the transmitter makes its
    empty callback, which has no code (`uart_tx.c:193`).
  * between the store of that code and the callback (`uart_rx.c:287`, 288) the receive
    interrupt may store another in `cb_code`: a build that loads it again then tells of
    that one and not of the underrun, though `uart_rx` returns no byte. `ToldHolds` shows what
    it may be told of, and that this is so at that moment; nothing in the code keeps the
    underrun from being replaced.
  * a chip select deasserted right after the last clock of a word may find that word read from the
    port and not yet stored: it is dropped, and not counted (`ReportExact`).
  * the TDM slave ignores the first fsync it reads: a slip in the first frame is
    noticed a frame later, so up to a frame, an offset and a word go out of place
    (`SlipSeen`, a tight bound). A slip by whole frames cannot be seen, as a comment
    says. With an fsync longer than a bit, software late with its second wait
    locks that much late and never notices (`WordsInPlace`).
  * at a restart or shutdown of the TDM slave the words still in the port, up to two, are lost
    (`Deinit`); `p_fsync` is not disabled; the callbacks get `app_data`, which
    `i2s_tdm_slave.h` says is not used.
  * `doc/programming_guide/reference/uart/uart.rst:14` says a blocking receive
    does not return until the stop bit is complete; the code returns at the sample
    in the middle of it (as `uart_rx.rst:9` says), and a second stop bit is never
    sampled. A byte with a parity or framing error is still put in the FIFO.
  * a slave that runs its `stop_bit` callback at once holds SCL low and hides the stop bit
    from a slave that has not sampled SCL yet: with `StopsTogether = FALSE`,
    `BusAtRest` fails.
  * with a data width other than 32, `i2s_slave` compares nothing
    (`!data_bit_mask` is 0), so a slave the clock has stopped under never finds the frames
    again. `i2s_common.rst` allows widths from 1 to 32 and says that 16 is
    verified; no document says that such a slave recovers.
  * `bytes_written` of an SPI slave counts words fetched ahead of the wire.

## 7. Not modelled

  * `i2s_slave_tdm_thread`: it has no body;
  * shutdown of the I2C slave: it is only asked after an event of the bus, so a
    slave on a quiet bus goes on; one that leaves in mid-transfer releases the wires,
    and `I2cTransfer` has no device that falls silent. Reads of no bytes;
  * `uart_rx` without a timer;
  * `mic_array` and `xud`: empty submodules here;
  * I2S words of other than 32 bits, for which `i2s_slave` has a second loop and
    `i2s_ratio_n` branches of its own;
  * several I2S data lines: they are served in step;
  * clock dividers, pad delays, sample edges, tick arithmetic of I2C timing,
    lines of I2C that share a port: settings of the hardware, which have no
    counterpart at these levels;
  * `*_init` and `*_deinit` beyond the state they set; builds, tests and examples.
