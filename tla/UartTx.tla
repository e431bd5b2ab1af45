------------------------------- MODULE UartTx -------------------------------
(***************************************************************************)
(* The UART transmitter (uart_tx.c) in its three modes:                    *)
(*   "buffered"  uart_tx kicks off a transmission or queues the byte, and  *)
(*               the timer interrupt handler puts out one bit per event;   *)
(*   "timer"     uart_tx blocks, calling the handler itself and sleeping   *)
(*               on a hardware timer between bits;                         *)
(*   "poll"      as "timer", comparing the 32-bit reference clock instead. *)
(*                                                                         *)
(* In buffered mode the handler preempts uart_tx on the same core: it is   *)
(* one step, and it may come between any two accesses uart_tx makes to     *)
(* the fields both use.  The FIFO is the bounded queue UartFifo is proved  *)
(* to implement.  The handler runs at the tick its trigger names, so the   *)
(* constants that compensate its latency are 0 here.  A call of uart_tx    *)
(* takes at most CallTicks ticks.  The empty callback may itself call      *)
(* uart_tx, as long as the application is not in a call it interrupts.     *)
(***************************************************************************)
EXTENDS Integers, SequencesExt

CONSTANTS
    Modes,          \* the modes explored
    Formats,        \* the pairs <<parity, stop_bits>> explored
    NumDataBits,    \* num_data_bits
    Data,           \* arguments of uart_tx
    Capacity,       \* buffer_size_plus_one - 1
    BitTicks,       \* bit_time_ticks
    CallTicks,      \* bound on the ticks one call of uart_tx takes
    TimeMod,        \* 2^32, the range of the reference clock
    MaxBytes        \* bound on the bytes accepted in one behaviour

ASSUME TxAssumption ==
    /\ Modes \subseteq {"buffered", "timer", "poll"}
    /\ Formats \subseteq {"none", "even", "odd"} \X (Nat \ {0})
    /\ NumDataBits \in 1 .. 8
    /\ Data \subseteq 0 .. 255
    /\ Capacity \in Nat \ {0, 1}
    /\ BitTicks \in Nat \ {0} /\ CallTicks \in Nat
    /\ TimeMod \in Nat /\ TimeMod > 4 * BitTicks + 2 * CallTicks
    /\ MaxBytes \in Nat

VARIABLES
    mode, parity, stop_bits,                            \* set by uart_tx_init
    state, uart_data, current_data_bit, current_stop_bit, next_event, fifo,
    trigger, enabled,                                   \* the hardware timer
    now,                                                \* the reference clock
    pc, arg, spent, due,        \* the call of uart_tx; due is the time it holds
    held,               \* ticks since the last port_out (at most 2 * BitTicks + 1)
    frame, wire,        \* history: levels of the frame under way; past frames
    accepted, emptied,  \* history: bytes taken on; empty callback since then
    inHold,             \* history: this frame was kicked off in a held stop bit
    straddled           \* history: a polled deadline of this frame has wrapped

config == <<mode, parity, stop_bits>>
uart == <<state, uart_data, current_data_bit, current_stop_bit, next_event>>
timer == <<trigger, enabled>>
line == <<held, frame, wire>>
call == <<pc, arg, spent, due>>
app == <<accepted, emptied, inHold, straddled>>
vars == <<config, uart, fifo, timer, now, call, line, app>>

buffered == mode = "buffered"
Plus(a, b) == (a + b) % TimeMod

\* A hardware timer compares times by their signed difference.
After(a, b) == (a - b) % TimeMod < TimeMod \div 2

Init ==
    /\ mode \in Modes
    /\ \E f \in Formats : parity = f[1] /\ stop_bits = f[2]
    /\ state = "IDLE"
    /\ uart_data = 0 /\ current_data_bit = 0 /\ current_stop_bit = 0
    /\ next_event = 0
    /\ fifo = <<>>
    /\ trigger = 0 /\ enabled = FALSE
    /\ now = 0
    /\ pc = "out" /\ arg = 0 /\ spent = 0 /\ due = 0
    /\ held = BitTicks /\ frame = <<>> /\ wire = <<>>
    /\ accepted = <<>> /\ emptied = FALSE /\ inHold = FALSE /\ straddled = FALSE

-----------------------------------------------------------------------------
(* uart_tx_handle_event: one action per state.                             *)

\* port_out: the level joins the frame, which the last stop bit completes.
PortOut(level, last) ==
    /\ held' = 0
    /\ frame' = IF last THEN <<>> ELSE Append(frame, level)
    /\ wire' = IF last THEN Append(wire, Append(frame, level)) ELSE wire

DataBit(d, i) == (d \div 2^i) % 2

\* The crc32 instruction with polynomial 1 counts the ones of the data modulo 2.
ParityBit(d) ==
    (Cardinality({i \in 0 .. NumDataBits - 1 : DataBit(d, i) = 1})
        + (IF parity = "even" THEN 0 ELSE 1)) % 2

StartBit ==
    /\ state = "START"
    /\ PortOut(0, FALSE)
    /\ state' = "DATA"
    /\ current_data_bit' = 0
    /\ next_event' = Plus(now, BitTicks)
    /\ UNCHANGED <<uart_data, current_stop_bit, fifo, enabled, emptied>>

SendDataBit ==
    /\ state = "DATA"
    /\ PortOut(DataBit(uart_data, current_data_bit), FALSE)
    /\ current_data_bit' = current_data_bit + 1
    /\ next_event' = Plus(next_event, BitTicks)
    /\ state' = IF current_data_bit' # NumDataBits THEN "DATA"
                ELSE IF parity = "none" THEN "STOP" ELSE "PARITY"
    /\ UNCHANGED <<uart_data, current_stop_bit, fifo, enabled, emptied>>

SendParityBit ==
    /\ state = "PARITY"
    /\ PortOut(ParityBit(uart_data), FALSE)
    /\ state' = "STOP"
    /\ next_event' = Plus(next_event, BitTicks)
    /\ UNCHANGED <<uart_data, current_data_bit, current_stop_bit, fifo, enabled,
                   emptied>>

\* buffered_uart_tx_char_finished: start on the next byte, if there is one.
CharFinished ==
    IF fifo # <<>>
    THEN /\ uart_data' = Head(fifo)
         /\ fifo' = Tail(fifo)
         /\ state' = "START"
    ELSE /\ state' = "IDLE"
         /\ UNCHANGED <<uart_data, fifo>>

StopBit ==
    /\ state = "STOP"
    /\ next_event' = Plus(next_event, BitTicks)
    /\ LET last == current_stop_bit + 1 = stop_bits
       IN  /\ PortOut(1, last)
           /\ current_stop_bit' = IF last THEN 0 ELSE current_stop_bit + 1
           /\ IF last /\ buffered
              THEN CharFinished
              ELSE /\ state' = IF last THEN "IDLE" ELSE "STOP"
                   /\ UNCHANGED <<uart_data, fifo>>
    /\ UNCHANGED <<current_data_bit, enabled, emptied>>

IdleNoRecheck ==            \* mutant: no final check for new data
    /\ state = "IDLE"
    /\ enabled' = FALSE
    /\ emptied' = TRUE
    /\ UNCHANGED <<state, uart_data, fifo, current_data_bit, current_stop_bit,
                   next_event, line>>

\* Reached in buffered mode only, when the last stop bit has been held.
Idle ==
    /\ state = "IDLE"
    /\ CharFinished
    /\ enabled' = (fifo # <<>>)             \* triggerable_disable_trigger
    /\ emptied' = (fifo = <<>>)             \* uart_tx_empty_callback_fptr
    /\ UNCHANGED <<current_data_bit, current_stop_bit, next_event, line>>

\* As Idle, with a callback that calls uart_tx, which kicks off.
IdleRefill(d) ==
    /\ state = "IDLE" /\ fifo = <<>> /\ pc = "out"
    /\ Len(accepted) < MaxBytes
    /\ uart_data' = d % 2^NumDataBits
    /\ state' = "START"
    /\ next_event' = now
    /\ enabled' = TRUE
    /\ accepted' = Append(accepted, uart_data') /\ emptied' = FALSE
    /\ UNCHANGED <<fifo, current_data_bit, current_stop_bit, line>>

Event ==
    /\ \/ (StartBit \/ SendDataBit \/ SendParityBit \/ StopBit \/ Idle)
              /\ UNCHANGED accepted
       \/ \E d \in Data : IdleRefill(d)
    /\ trigger' = IF buffered THEN next_event' ELSE trigger
    /\ straddled' = (mode = "poll"
                      /\ (next_event' < now \/ (straddled /\ state # "START")))
    /\ inHold' = (inHold /\ frame' # <<>>)
    /\ UNCHANGED <<config, now>>

IsrDue == buffered /\ enabled /\ After(now, trigger)

Isr == IsrDue /\ Event /\ UNCHANGED call

-----------------------------------------------------------------------------
(* uart_tx, buffered: every access to a field the handler uses is a step.  *)

GotoWith(from, to) == pc = from /\ pc' = to /\ UNCHANGED <<arg, spent, config, now, line>>
Goto(from, to) == GotoWith(from, to) /\ UNCHANGED due

TxCallUnmasked(d) ==        \* mutant: the data is not masked
    /\ pc = "out"
    /\ Len(accepted) < MaxBytes
    /\ arg' = d
    /\ spent' = 0
    /\ pc' = IF ~buffered THEN "block" ELSE IF fifo = <<>> THEN "state" ELSE "push"
    /\ UNCHANGED <<due, config, uart, fifo, timer, now, line, app>>

TxCallNoFillLevel(d) ==     \* mutant: kicks off whenever the state is IDLE
    /\ pc = "out"
    /\ Len(accepted) < MaxBytes
    /\ arg' = d % 2^NumDataBits
    /\ spent' = 0
    /\ pc' = IF ~buffered THEN "block" ELSE "state"
    /\ UNCHANGED <<due, config, uart, fifo, timer, now, line, app>>

\* Mask the data and load the fill level.
TxCall(d) ==
    /\ pc = "out"
    /\ Len(accepted) < MaxBytes
    /\ arg' = d % 2^NumDataBits
    /\ spent' = 0
    /\ pc' = IF ~buffered THEN "block" ELSE IF fifo = <<>> THEN "state" ELSE "push"
    /\ UNCHANGED <<due, config, uart, fifo, timer, now, line, app>>

TxState ==
    /\ Goto("state", IF state = "IDLE" THEN "data" ELSE "push")
    /\ inHold' = (inHold \/ (state = "IDLE" /\ enabled))
    /\ UNCHANGED <<uart, fifo, timer, accepted, emptied, straddled>>

\* The result of push_byte_into_buffer is not used: a full FIFO drops the byte.
TxPush ==
    /\ Goto("push", "out")
    /\ IF Len(fifo) < Capacity
       THEN /\ fifo' = Append(fifo, arg)
            /\ accepted' = Append(accepted, arg)
            /\ emptied' = FALSE
            /\ UNCHANGED <<inHold, straddled>>
       ELSE UNCHANGED <<fifo, app>>
    /\ UNCHANGED <<uart, timer>>

TxData ==
    /\ Goto("data", "start")
    /\ uart_data' = arg
    /\ UNCHANGED <<state, current_data_bit, current_stop_bit, next_event, fifo,
                   timer, app>>

TxStart ==
    /\ Goto("start", "time")
    /\ state' = "START"
    /\ accepted' = Append(accepted, arg)
    /\ emptied' = FALSE
    /\ UNCHANGED <<uart_data, current_data_bit, current_stop_bit, next_event, fifo,
                   timer, inHold, straddled>>

\* get_current_time
TxTime ==
    /\ GotoWith("time", "stamp")
    /\ due' = now
    /\ UNCHANGED <<uart, fifo, timer, app>>

TxStamp ==
    /\ Goto("stamp", "load")
    /\ next_event' = due
    /\ UNCHANGED <<state, uart_data, current_data_bit, current_stop_bit, fifo,
                   timer, app>>

\* The build may load next_event_time_ticks again or keep the value it has stored;
\* either is stale when the handler comes before it is made the trigger.
TxLoad ==
    /\ GotoWith("load", "trigger")
    /\ due' \in {due, next_event}
    /\ UNCHANGED <<uart, fifo, timer, app>>

TxTrigger ==
    /\ GotoWith("trigger", "enable")
    /\ trigger' = due
    /\ due' = 0                             \* holds a time only until here
    /\ UNCHANGED <<uart, fifo, enabled, app>>

TxEnableForgotten ==        \* mutant: the trigger is not enabled
    /\ Goto("enable", "out")
    /\ UNCHANGED <<uart, fifo, timer, app>>

TxEnable ==
    /\ Goto("enable", "out")
    /\ enabled' = TRUE
    /\ UNCHANGED <<uart, fifo, trigger, app>>

-----------------------------------------------------------------------------
(* uart_tx, blocking: handle an event and sleep until the next, till IDLE. *)

TxBlock ==
    /\ Goto("block", "handle")
    /\ uart_data' = arg
    /\ state' = "START"
    /\ accepted' = Append(accepted, arg)
    /\ UNCHANGED <<current_data_bit, current_stop_bit, next_event, fifo, timer,
                   emptied, inHold, straddled>>

TxHandleEarly ==            \* mutant: returns without the final sleep
    /\ pc = "handle"
    /\ Event
    /\ pc' = IF state' = "IDLE" THEN "out" ELSE "sleep"
    /\ UNCHANGED <<arg, spent, due>>

TxHandle ==
    /\ pc = "handle" /\ pc' = "sleep"
    /\ Event
    /\ UNCHANGED <<arg, spent, due>>

\* hwtimer_wait_until; or the loop that polls get_current_time, whose unsigned
\* comparison is wrong once the deadline has wrapped and the clock has not.
SleepOver == IF mode = "timer" THEN After(now, next_event) ELSE ~(now < next_event)

TxWake ==
    /\ SleepOver
    /\ Goto("sleep", IF state = "IDLE" THEN "out" ELSE "handle")
    /\ UNCHANGED <<uart, fifo, timer, app>>

-----------------------------------------------------------------------------
(* Time passes when nothing is due: the handler at its trigger, and in a   *)
(* blocking mode the thread, are prompt; a buffered call has its bound.    *)
Tick ==
    /\ ~IsrDue
    /\ \/ pc = "out"
       \/ buffered /\ spent < CallTicks
       \/ pc = "sleep" /\ ~SleepOver
    /\ now' = Plus(now, 1)
    /\ held' = IF held > 2 * BitTicks THEN held ELSE held + 1
    /\ spent' = IF pc # "out" /\ buffered THEN spent + 1 ELSE 0
    /\ UNCHANGED <<config, uart, fifo, timer, pc, arg, due, frame, wire, app>>

Thread ==
    \/ TxState \/ TxPush \/ TxData \/ TxStart \/ TxTime \/ TxStamp \/ TxLoad
    \/ TxTrigger \/ TxEnable \/ TxBlock \/ TxHandle \/ TxWake

Next == (\E d \in Data : TxCall(d)) \/ Thread \/ Isr \/ Tick

Spec == Init /\ [][Next]_vars

(* Time passes, and neither the interrupt nor the running call is held up. *)
FairSpec == Spec /\ WF_vars(Tick) /\ WF_vars(Isr) /\ WF_vars(Thread)

-----------------------------------------------------------------------------
(* Properties.                                                             *)

States == {"IDLE", "START", "DATA", "PARITY", "STOP"}

TypeOK ==
    /\ mode \in Modes /\ <<parity, stop_bits>> \in Formats
    /\ state \in States
    /\ uart_data \in 0 .. 2^NumDataBits - 1
    /\ current_data_bit \in 0 .. NumDataBits
    /\ current_stop_bit \in 0 .. stop_bits - 1
    /\ {next_event, trigger, due, now} \subseteq 0 .. TimeMod - 1
    /\ fifo \in Seq(0 .. 2^NumDataBits - 1) /\ Len(fifo) <= Capacity
    /\ {enabled, emptied, inHold, straddled} \subseteq BOOLEAN
    /\ pc \in {"out", "state", "push", "data", "start", "time", "stamp",
               "load", "trigger", "enable", "block", "handle", "sleep"}
    /\ arg \in 0 .. 2^NumDataBits - 1
    /\ spent \in 0 .. CallTicks
    /\ held \in 0 .. 2 * BitTicks + 1

\* The levels a receiver expects for a byte: start, data LSB first, parity, stop.
Frame(d) ==
    <<0>> \o [i \in 1 .. NumDataBits |-> (d \div 2^(i - 1)) % 2]
          \o (IF parity = "none" THEN <<>> ELSE
              LET ones == Cardinality({i \in 0 .. NumDataBits - 1 : (d \div 2^i) % 2 = 1})
              IN  <<IF parity = "even" THEN ones % 2 ELSE (ones + 1) % 2>>)
          \o [i \in 1 .. stop_bits |-> 1]

(* The line carries the frames of the accepted bytes, in the order in      *)
(* which uart_tx accepted them, none lost, repeated, mixed or overwritten, *)
(* whether a byte bypassed the FIFO or went through it.                    *)
WireCarriesAccepted ==
    /\ Len(wire) <= Len(accepted)
    /\ \A i \in 1 .. Len(wire) : wire[i] = Frame(accepted[i])
    /\ frame # <<>> => /\ Len(wire) < Len(accepted)
                       /\ IsPrefix(frame, Frame(accepted[Len(wire) + 1]))

(* The empty callback is made only when every accepted byte has been sent  *)
(* to the end of its last stop bit: the application may then shut the port *)
(* (the test calls uart_tx_deinit as soon as it has seen the callback).    *)
EmptyMeansSent ==
    [][(emptied' /\ ~emptied) \/ (accepted' # accepted /\ pc = "out") =>
         Len(wire) = Len(accepted) /\ held >= BitTicks]_vars

(* Every level of a frame is held for one bit time and the last stop bit   *)
(* for at least one, and a blocking uart_tx returns when its own last stop *)
(* bit has been held, not earlier or later.  Two things are let through.   *)
(* A kick-off decided while the last stop bit was being held may cut short *)
(* that stop bit and the start bit of its own frame, whose first data bit  *)
(* may take from none to two bit times, as the handler may run between any *)
(* two of its stores; every later level of that frame takes its bit time.  *)
(* And in a frame polled across the wrap of the clock levels, and the call,*)
(* end early, in that frame only.                                          *)
BitsHeld ==
    [][/\ frame' # frame =>
            IF inHold /\ Len(frame) <= 2
            THEN held <= (IF Len(frame) = 2 THEN 2 ELSE 1) * BitTicks
            ELSE IF straddled THEN frame # <<>> => held <= BitTicks
            ELSE IF frame = <<>> THEN held >= BitTicks
            ELSE held = BitTicks
       /\ ~buffered /\ pc' = "out" /\ pc # "out" =>
            /\ Len(wire) = Len(accepted)
            /\ IF straddled THEN held <= BitTicks ELSE held = BitTicks]_vars

(* Every accepted byte is sent: none is stranded in the FIFO with the      *)
(* transmitter idle.                                                       *)
EveryByteSent == \A n \in 1 .. MaxBytes : Len(accepted) >= n ~> Len(wire) >= n

(* The empty callback comes: an application that waits for it goes on.     *)
EmptyCallback == (buffered /\ accepted # <<>>) ~> emptied

(* A stop bit is held for a bit time before the next start bit.            *)
StopBitHeld == [][frame' # frame /\ frame = <<>> => held >= BitTicks]_vars

=============================================================================
