------------------------------- MODULE UartRx -------------------------------
(***************************************************************************)
(* The UART receiver (uart_rx.c), buffered (port and timer interrupts put  *)
(* bytes in a FIFO that uart_rx pops) or blocking (uart_rx runs the same   *)
(* handler itself), and a sender that drives the line.                     *)
(*                                                                         *)
(* Time is continuous enough for sampling: the sender's bits and the       *)
(* receiver's are counted in ticks, the sender's clock may be off, and the *)
(* receiver learns of the line only at the falling edge and at its sample  *)
(* points.  Advance moves time to the next instant at which something is   *)
(* due; things due together happen in any order.  Interrupt latency is 0   *)
(* and so are the constants that compensate it.                            *)
(***************************************************************************)
EXTENDS Integers, SequencesExt

CONSTANTS
    Modes,          \* of "buffered", "blocking"
    Parities,       \* of "none", "even", "odd"
    NumDataBits,    \* num_data_bits
    Data,           \* the bytes sent
    Capacity,       \* buffer_size_plus_one - 1
    BitTicks,       \* bit_time_ticks
    SenderTicks,    \* the lengths of a bit at the senders explored
    GlitchTicks,    \* the length of a spurious low pulse
    Kinds           \* of "good", "parity", "framing", "glitch"

ASSUME RxAssumption ==
    /\ Modes \subseteq {"buffered", "blocking"}
    /\ Parities \subseteq {"none", "even", "odd"}
    /\ NumDataBits \in 1 .. 8
    /\ Data \subseteq 0 .. 2^NumDataBits - 1
    /\ Capacity \in Nat \ {0, 1}
    /\ BitTicks \in Nat /\ BitTicks > 1
    /\ SenderTicks \subseteq Nat \ {0}
    /\ GlitchTicks \in 1 .. (BitTicks \div 2) - 1
    /\ Kinds \subseteq {"good", "parity", "framing", "glitch"}

VARIABLES
    mode, parity,               \* set by uart_rx_init
    state, uart_data, current_data_bit, cb_code, fifo,
    port_trigger, timer_trigger,    \* which interrupt is enabled (buffered)
    wait,                       \* ticks to next_event_time_ticks
    pc,                         \* where uart_rx is
    signal,                     \* what the sender still drives: <<level, ticks>>
    frame,                      \* history: the frame sent last
    report,                     \* history: what was reported since it began
    told                        \* history: the last code uart_rx gave the callback

config == <<mode, parity>>
uart == <<state, uart_data, current_data_bit, cb_code>>
triggers == <<port_trigger, timer_trigger, wait>>
sender == <<signal, frame>>
vars == <<config, uart, fifo, triggers, pc, sender, report, told>>

buffered == mode = "buffered"

Init ==
    /\ mode \in Modes /\ parity \in Parities
    /\ state = "IDLE" /\ uart_data = 0 /\ current_data_bit = 0
    /\ cb_code = "RX_COMPLETE"
    /\ fifo = <<>>
    /\ port_trigger = (mode = "buffered") /\ timer_trigger = FALSE
    /\ wait = 0
    /\ pc = "out"
    /\ signal = <<>> /\ frame = [kind |-> "none", data |-> 0] /\ report = <<>>
    /\ told = "RX_COMPLETE"

-----------------------------------------------------------------------------
(* The sender: well-formed frames back to back, or a frame with a wrong    *)
(* parity bit, a low stop bit, or a spurious short low pulse; after the    *)
(* last two it leaves the line idle for long enough to resynchronise.      *)

level == IF signal = <<>> THEN 1 ELSE Head(signal)[1]

Bit(d, i) == (d \div 2^i) % 2

\* The crc32 instruction with polynomial 1 counts the ones of the data modulo 2.
ParityBit(d) ==
    (Cardinality({i \in 0 .. NumDataBits - 1 : Bit(d, i) = 1})
        + (IF parity = "even" THEN 0 ELSE 1)) % 2

Recovery == <<1, (NumDataBits + 4) * BitTicks>>

Signal(kind, d, s) ==
    LET data == [i \in 1 .. NumDataBits |-> <<Bit(d, i - 1), s>>]
        par == IF parity = "none" THEN <<>>
               ELSE IF kind = "parity" THEN <<<<1 - ParityBit(d), s>>>>
               ELSE <<<<ParityBit(d), s>>>>
        stop == IF kind = "framing" THEN <<<<0, s>>, Recovery>> ELSE <<<<1, s>>>>
    IN  IF kind = "glitch" THEN <<<<0, GlitchTicks>>, Recovery>>
        ELSE <<<<0, s>>>> \o data \o par \o stop

SendFrame(kind, d, s) ==
    /\ signal = <<>>
    /\ kind = "parity" => parity # "none"
    /\ buffered \/ pc = "wait"          \* the blocking caller is back in time
    /\ signal' = Signal(kind, d, s)
    /\ frame' = [kind |-> kind, data |-> d]
    /\ report' = <<>>
    /\ UNCHANGED <<config, uart, fifo, triggers, pc, told>>

NextLevel ==
    /\ signal # <<>> /\ Head(signal)[2] = 0
    /\ signal' = Tail(signal)
    /\ UNCHANGED <<config, uart, fifo, triggers, pc, frame, report, told>>

-----------------------------------------------------------------------------
(* uart_rx_handle_event: one action per state.  Report appends what the    *)
(* callbacks are told, and the byte, to the report of the current frame.   *)

Byte(d) == [what |-> "byte", byte |-> d]
Error(code) == [what |-> code, byte |-> 0]
Report(items) == report' = report \o items

WholeBit == BitTicks                \* mutant
HalfBit == BitTicks \div 2

Falling ==
    /\ state = "IDLE"
    /\ level = 0
    /\ wait' = HalfBit
    /\ state' = "START"
    /\ port_trigger' = FALSE
    /\ timer_trigger' = buffered
    /\ UNCHANGED <<uart_data, current_data_bit, cb_code, fifo, report>>

StartBit ==
    /\ state = "START"
    /\ IF level # 0
       THEN cb_code' = "START_BIT_ERROR" /\ Report(<<Error("START_BIT_ERROR")>>)
       ELSE UNCHANGED <<cb_code, report>>
    /\ state' = "DATA"
    /\ uart_data' = 0
    /\ current_data_bit' = 0
    /\ wait' = BitTicks
    /\ UNCHANGED <<fifo, port_trigger, timer_trigger>>

DataBit ==
    /\ state = "DATA"
    /\ uart_data' = uart_data + level * 2^current_data_bit
    /\ current_data_bit' = current_data_bit + 1
    /\ state' = IF current_data_bit' # NumDataBits THEN "DATA"
                ELSE IF parity = "none" THEN "STOP" ELSE "PARITY"
    /\ wait' = BitTicks
    /\ UNCHANGED <<cb_code, fifo, port_trigger, timer_trigger, report>>

Parity ==
    /\ state = "PARITY"
    /\ IF level # ParityBit(uart_data)
       THEN cb_code' = "PARITY_ERROR" /\ Report(<<Error("PARITY_ERROR")>>)
       ELSE UNCHANGED <<cb_code, report>>
    /\ state' = "STOP"
    /\ wait' = BitTicks
    /\ UNCHANGED <<uart_data, current_data_bit, fifo, port_trigger, timer_trigger>>

NeverFull == FALSE                  \* mutant: the push cannot fail
Full == buffered /\ Len(fifo) = Capacity

\* Bytes are kept whatever errors were seen; a full FIFO is an overrun.
StopBit ==
    LET framing == IF level = 1 THEN <<>> ELSE <<Error("FRAMING_ERROR")>>
    IN  /\ state = "STOP"
        /\ Report(framing \o IF Full THEN <<Error("OVERRUN_ERROR")>> ELSE <<Byte(uart_data)>>)
        /\ cb_code' = IF Full THEN "OVERRUN_ERROR"
                      ELSE IF level = 1 THEN "RX_COMPLETE" ELSE "FRAMING_ERROR"
        /\ fifo' = IF buffered /\ ~Full THEN Append(fifo, uart_data) ELSE fifo
        /\ state' = "IDLE"
        /\ port_trigger' = buffered
        /\ timer_trigger' = FALSE
        /\ UNCHANGED <<uart_data, current_data_bit, wait>>

Sample == StartBit \/ DataBit \/ Parity \/ StopBit

-----------------------------------------------------------------------------
(* uart_rx_handle_isr, on the port and on the timer.                       *)

PortDue == port_trigger /\ level = 0
TimerDue == timer_trigger /\ wait = 0

Isr ==
    /\ (PortDue /\ Falling) \/ (TimerDue /\ Sample)
    /\ UNCHANGED <<config, pc, sender, told>>

-----------------------------------------------------------------------------
(* uart_rx.                                                                *)

RxPopTellsLate ==           \* mutant: the code is not stored
    /\ buffered /\ pc = "out"
    /\ IF fifo # <<>>
       THEN fifo' = Tail(fifo) /\ UNCHANGED pc
       ELSE pc' = "underrun" /\ UNCHANGED fifo
    /\ UNCHANGED <<config, uart, triggers, sender, report, told>>

RxPop ==
    /\ buffered /\ pc = "out"
    /\ IF fifo # <<>>
       THEN fifo' = Tail(fifo) /\ UNCHANGED <<cb_code, pc>>
       ELSE cb_code' = "UNDERRUN_ERROR" /\ pc' = "underrun" /\ UNCHANGED fifo
    /\ UNCHANGED <<config, state, uart_data, current_data_bit, triggers, sender,
                   report, told>>

\* The callback is given the code just stored, or what a build that loads the
\* field again finds there: the handler may have stored another.
RxTell ==
    /\ pc = "underrun" /\ pc' = "out"
    /\ told' \in {"UNDERRUN_ERROR", cb_code}
    /\ UNCHANGED <<config, uart, fifo, triggers, sender, report>>

RxCall ==
    /\ ~buffered /\ pc = "out"
    /\ state' = "IDLE"
    /\ pc' = "wait"
    /\ UNCHANGED <<config, uart_data, current_data_bit, cb_code, fifo, triggers,
                   sender, report, told>>

\* sleep_until_start_transition
RxEdge ==
    /\ pc = "wait"
    /\ Falling
    /\ pc' = "sample"
    /\ UNCHANGED <<config, sender, told>>

\* sleep_until_next_sample; once the stop bit is sampled nothing is left to wait for.
RxSample ==
    /\ pc = "sample" /\ wait = 0
    /\ Sample
    /\ pc' = IF state' = "IDLE" THEN "out" ELSE "sample"
    /\ UNCHANGED <<config, sender, told>>

-----------------------------------------------------------------------------
(* Time moves to the next thing due: a level's end or a sample point.      *)

Sampling == timer_trigger \/ pc = "sample"

Pending == (IF signal = <<>> THEN {} ELSE {Head(signal)[2]})
              \union (IF Sampling THEN {wait} ELSE {})

Advance ==
    /\ Pending # {}
    /\ ~PortDue /\ ~(pc = "wait" /\ level = 0)
    /\ \E n \in Pending :
          /\ n > 0 /\ \A m \in Pending : n <= m
          /\ signal' = IF signal = <<>> THEN signal
                       ELSE <<<<level, Head(signal)[2] - n>>>> \o Tail(signal)
          /\ wait' = IF Sampling THEN wait - n ELSE wait
    /\ UNCHANGED <<config, uart, fifo, port_trigger, timer_trigger, pc, frame,
                   report, told>>

Next ==
    \/ \E k \in Kinds, d \in Data, s \in SenderTicks : SendFrame(k, d, s)
    \/ NextLevel \/ Isr \/ RxPop \/ RxTell \/ RxCall \/ RxEdge \/ RxSample
    \/ Advance

Spec == Init /\ [][Next]_vars

-----------------------------------------------------------------------------
(* Properties.                                                             *)

Codes == {"RX_COMPLETE", "UNDERRUN_ERROR", "START_BIT_ERROR", "PARITY_ERROR",
          "FRAMING_ERROR", "OVERRUN_ERROR"}

TypeOK ==
    /\ mode \in Modes /\ parity \in Parities
    /\ state \in {"IDLE", "START", "DATA", "PARITY", "STOP"}
    /\ uart_data \in 0 .. 2^NumDataBits - 1
    /\ current_data_bit \in 0 .. NumDataBits
    /\ cb_code \in Codes
    /\ fifo \in Seq(0 .. 2^NumDataBits - 1) /\ Len(fifo) <= Capacity
    /\ {port_trigger, timer_trigger} \subseteq BOOLEAN
    /\ told \in Codes
    /\ wait \in 0 .. BitTicks
    /\ pc \in {"out", "wait", "sample", "underrun"}

\* What may be reported of a frame: its byte, or the overrun that dropped it.
Kept(f) == {<<Byte(f.data)>>} \union (IF buffered THEN {<<Error("OVERRUN_ERROR")>>} ELSE {})

\* What a frame of each kind leads to.
Reported ==
    CASE frame.kind = "none"    -> report = <<>>
      [] frame.kind = "good"    -> report \in Kept(frame)
      [] frame.kind = "parity"  ->
            report \in {<<Error("PARITY_ERROR")>> \o k : k \in Kept(frame)}
      [] frame.kind = "framing" ->
            \E k \in Kept(frame) : IsPrefix(<<Error("FRAMING_ERROR")>> \o k, report)
      [] frame.kind = "glitch"  -> IsPrefix(<<Error("START_BIT_ERROR")>>, report)

(* Every frame is reported as what it was, whatever came before it, at     *)
(* every sender clock in SenderTicks: a well-formed one as its byte (or as *)
(* an overrun) and nothing else, one with a wrong parity bit with exactly  *)
(* one parity error, a low stop bit with a framing error, a spurious pulse *)
(* with a start bit error.                                                 *)
FramesReported == signal = <<>> => Reported

\* The clocks of the senders are close enough: the middle of the receiver's bit q
\* of a frame, counted from the falling edge, falls inside the sender's bit q.
SamplesInside ==
    \A s \in SenderTicks,
       q \in 0 .. NumDataBits + (IF Parities \subseteq {"none"} THEN 1 ELSE 2) :
          /\ q * s < (BitTicks \div 2) + q * BitTicks
          /\ (BitTicks \div 2) + q * BitTicks < (q + 1) * s

\* What a code says is so: of the FIFO, or of the frame being received.
Holds(code) ==
    \/ code = "UNDERRUN_ERROR"
    \/ code \in {"RX_COMPLETE", "FRAMING_ERROR"} /\ fifo # <<>>
    \/ code = "OVERRUN_ERROR" /\ Full
    \/ code = "PARITY_ERROR" /\ state = "STOP"
    \/ code = "START_BIT_ERROR" /\ state \in {"DATA", "PARITY", "STOP"}

(* A uart_rx that has found the FIFO empty tells the error callback of the *)
(* underrun, or of what the handler has stored over it: that a byte is in  *)
(* the FIFO by now, or of an error in the frame being received.  Whenever  *)
(* the handler runs in between, what it is told is so when it is told: it  *)
(* never tells of an earlier frame, whose code cb_code still held.         *)
ToldHolds == [][pc = "underrun" /\ pc' # "underrun" => Holds(told')]_vars

=============================================================================
