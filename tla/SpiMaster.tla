----------------------------- MODULE SpiMaster -----------------------------
(***************************************************************************)
(* The SPI master (spi_master.c): transactions with several devices on one *)
(* chip select port, over the clock of the reference timer.  The delays    *)
(* between chip select and clock are kept by outputs scheduled on the chip *)
(* select port: port_out_at_time leaves an output pending, port_sync waits *)
(* for it and port_clear_trigger_time lets it go at once.  A byte is       *)
(* represented by its place in the buffer; a transfer may be without a     *)
(* data_out or a data_in.                                                  *)
(***************************************************************************)
EXTENDS Naturals, Sequences

CONSTANTS
    Devices,     \* devices on the bus
    CsToClk, ClkToCs, CsToCs,    \* the delays of each device, in ticks
    Delays,      \* delays asked of spi_master_delay_before_next_transfer
    Lens,        \* lengths of transfers
    Cap          \* bound on the ages counted, no shorter than any delay

None == "none"
AllDelays == Delays \cup UNION {{CsToClk[d], ClkToCs[d], CsToCs[d]} : d \in Devices}

\* A delay of less than SPI_MASTER_MINIMUM_DELAY is not waited for, the code
\* takes that long by itself: it is 0 here.
ASSUME MasterAssumption ==
    /\ CsToClk \in [Devices -> Nat] /\ ClkToCs \in [Devices -> Nat]
    /\ CsToCs \in [Devices -> Nat]
    /\ Cap \in Nat /\ AllDelays \subseteq 0..Cap
    /\ Lens \subseteq Nat \ {0}
    /\ Devices # {} /\ None \notin Devices

VARIABLES
    pc,          \* where the thread is: "off" before spi_master_init, "idle"
                 \* between transactions, "open" inside one, otherwise inside
                 \* a call
    dev,         \* the device of the call
    current,     \* current_device
    delay,       \* delay_before_transfer
    mode, saved, \* mode bits of the thread, and what the device saved of them
    cs,          \* the device whose chip select is asserted, or None
    pending,     \* ticks until the scheduled output on cs_port
    buffers,     \* of the transfer in progress: which of data_out and data_in
                 \* are given
    len,         \* of the transfer in progress
    words,       \* word_count, still to go
    o, n,        \* offsets of data_out and data_in
    clocked,     \* bytes clocked in this transfer
    mosi,        \* bytes clocked out
    groups,      \* groups of bytes sampled on MISO and not yet taken
    data_in,     \* data_in, by offset
    age,         \* history: ticks since chip select was asserted, since the
                 \* delay was asked for, and since the last clock edge
    off,         \* history: ticks since each device was deselected, if it was
                 \* since spi_master_init
    asked        \* history: the delay asked for

call == <<pc, dev>>
ctx == <<current, delay, mode, saved>>
port == <<cs, pending>>
data == <<buffers, len, words, o, n, clocked, mosi, groups, data_in>>
history == <<age, off, asked>>
vars == <<call, ctx, port, data, history>>

Older(t) == IF t < Cap THEN t + 1 ELSE t
Reset(kinds) == [k \in DOMAIN age |-> IF k \in kinds THEN 0 ELSE age[k]]

\* Nothing sets delay_before_transfer before the first transaction does.
Init ==
    /\ pc = "off" /\ dev = CHOOSE d \in Devices : TRUE
    /\ current = None /\ delay \in BOOLEAN
    /\ mode = "normal" /\ saved = "normal"
    /\ cs = None /\ pending = 0
    /\ buffers = {} /\ len = 0 /\ words = 0 /\ o = 0 /\ n = 0
    /\ clocked = 0 /\ mosi = <<>> /\ groups = <<>> /\ data_in = <<>>
    /\ age = [cs |-> Cap, delay |-> Cap, clk |-> Cap]
    /\ off = [d \in Devices |-> Cap]
    /\ asked = 0

Tick ==
    /\ pending' = IF pending > 0 THEN pending - 1 ELSE 0
    /\ age' = [k \in DOMAIN age |-> Older(age[k])]
    /\ off' = [d \in Devices |-> Older(off[d])]
    /\ UNCHANGED <<call, ctx, cs, data, asked>>

\* spi_master_init: the ports start afresh, whatever spi_master_deinit left.
Setup ==
    /\ pc = "off"
    /\ current' = None /\ cs' = None /\ pending' = 0
    /\ off' = [d \in Devices |-> Cap]
    /\ pc' = "idle"
    /\ UNCHANGED <<dev, delay, mode, saved, data, age, asked>>

Deinit ==
    /\ pc = "idle"
    /\ pc' = "off"
    /\ UNCHANGED <<dev, ctx, port, data, history>>

----------------------------------------------------------------------------
(* spi_master_start_transaction *)

\* Another device than last time: the pending deselection is let go at once.
StartOther(d) ==
    /\ pc = "idle" /\ d # current
    /\ saved' = mode /\ mode' = "fast"
    /\ current' = d
    /\ pending' = 0
    /\ pc' = "select" /\ dev' = d
    /\ UNCHANGED <<delay, cs, data, history>>

StartSame(d) ==
    /\ pc = "idle" /\ d = current
    /\ saved' = mode /\ mode' = "fast"
    /\ pc' = "start_sync" /\ dev' = d
    /\ UNCHANGED <<current, delay, port, data, history>>

StartSync ==
    /\ pc = "start_sync" /\ pending = 0
    /\ pc' = "select"
    /\ UNCHANGED <<dev, ctx, port, data, history>>

\* spi_master_delay_before_next_transfer, which asserts chip select.
DelayBeforeNext(t) ==
    /\ delay' = TRUE
    /\ cs' = dev
    /\ pending' = t
    /\ asked' = t
    /\ age' = Reset(IF cs = dev THEN {"delay"} ELSE {"cs", "delay"})
    /\ UNCHANGED <<dev, current, mode, saved, data, off>>

Select ==
    /\ pc = "select"
    /\ DelayBeforeNext(CsToClk[dev])
    /\ pc' = "open"

Delay(t) ==
    /\ pc = "open"
    /\ DelayBeforeNext(t)
    /\ UNCHANGED pc

----------------------------------------------------------------------------
(* spi_master_transfer; a transfer of no bytes changes nothing *)

\* mutant: the delay is forgotten before it is waited for
TransferForgets(l, b) ==
    /\ pc = "open"
    /\ buffers' = b /\ len' = l /\ words' = l \div 2 /\ o' = 0 /\ n' = 0
    /\ clocked' = 0 /\ mosi' = <<>> /\ groups' = <<>> /\ data_in' = <<>>
    /\ pc' = "clock" /\ pending' = 0
    /\ UNCHANGED <<dev, ctx, cs, history>>

Transfer(l, b) ==
    /\ pc = "open"
    /\ buffers' = b /\ len' = l /\ words' = l \div 2 /\ o' = 0 /\ n' = 0
    /\ clocked' = 0 /\ mosi' = <<>> /\ groups' = <<>> /\ data_in' = <<>>
    /\ \/ delay /\ pc' = "sync" /\ UNCHANGED pending
       \/ ~delay /\ pc' = "clock" /\ pending' = 0
    /\ UNCHANGED <<dev, ctx, cs, history>>

TransferSync ==
    /\ pc = "sync" /\ pending = 0
    /\ delay' = FALSE
    /\ pc' = "clock"
    /\ UNCHANGED <<dev, current, mode, saved, port, data, history>>

\* k bytes are clocked, out of data_out and into the port; a word is two bytes.
\* Without a data_out nothing is output, without a data_in nothing is sampled.
ClockOut(k, waiting) ==
    LET group == [b \in 1..k |-> o + b] IN
    /\ clocked' = clocked + k
    /\ mosi' = IF "out" \in buffers THEN mosi \o group ELSE mosi
    /\ groups' = IF "in" \in buffers THEN Append(waiting, group) ELSE groups
    /\ o' = o + 2

\* save_data_in: the oldest group goes to data_in + n.
TakeIn(k) ==
    data_in' = IF "in" \in buffers
               THEN data_in \o SubSeq(Head(groups), 1, k) ELSE data_in
Taken == IF "in" \in buffers THEN Tail(groups) ELSE groups

FirstWord ==
    /\ pc = "clock"
    /\ ClockOut(IF len = 1 THEN 1 ELSE 2, groups)
    /\ pc' = "loop"
    /\ UNCHANGED <<dev, ctx, port, buffers, len, words, n, data_in, history>>

\* In the loop one word goes out before the one before it is taken in.
NextWord ==
    /\ pc = "loop" /\ words > 1
    /\ ClockOut(2, Taken)
    /\ TakeIn(2)
    /\ n' = n + 2
    /\ words' = words - 1
    /\ UNCHANGED <<call, ctx, port, buffers, len, history>>

\* mutant: a remainder is looked for in every transfer
RemainderAlways ==
    /\ pc = "loop" /\ words = 1
    /\ ClockOut(1, Taken)
    /\ TakeIn(2)
    /\ n' = n + 2
    /\ words' = 0
    /\ UNCHANGED <<call, ctx, port, buffers, len, history>>

\* mutant: the word before the remainder is not taken from the port
RemainderLost ==
    /\ pc = "loop" /\ words = 1 /\ len % 2 = 1
    /\ ClockOut(1, groups)
    /\ TakeIn(2)
    /\ n' = n + 2
    /\ words' = 0
    /\ UNCHANGED <<call, ctx, port, buffers, len, history>>

Remainder ==
    /\ pc = "loop" /\ words = 1 /\ len % 2 = 1
    /\ ClockOut(1, Taken)
    /\ TakeIn(2)
    /\ n' = n + 2
    /\ words' = 0
    /\ UNCHANGED <<call, ctx, port, buffers, len, history>>

\* The last group, and the earliest time at which chip select may go.
LastWord ==
    /\ pc = "loop"
    /\ words = 0 \/ (words = 1 /\ len % 2 = 0)
    /\ TakeIn(IF len % 2 = 1 THEN 1 ELSE 2)
    /\ groups' = Taken
    /\ words' = 0
    /\ cs' = dev
    /\ pending' = ClkToCs[dev]
    /\ age' = Reset({"clk"})
    /\ pc' = "open"
    /\ UNCHANGED <<dev, ctx, buffers, len, o, n, clocked, mosi, off, asked>>

----------------------------------------------------------------------------
(* spi_master_end_transaction *)

\* mutant: the mode is not restored
EndKeepsMode ==
    /\ pc = "open"
    /\ pc' = "end"
    /\ UNCHANGED <<dev, ctx, port, data, history>>

End ==
    /\ pc = "open"
    /\ mode' = saved
    /\ pc' = "end"
    /\ UNCHANGED <<dev, current, delay, saved, port, data, history>>

EndSync ==
    /\ pc = "end" /\ pending = 0
    /\ cs' = None
    /\ pending' = CsToCs[dev]
    /\ off' = [off EXCEPT ![dev] = 0]
    /\ pc' = "idle"
    /\ UNCHANGED <<dev, ctx, data, age, asked>>

Next ==
    \/ Tick \/ Setup \/ Deinit
    \/ \E d \in Devices : StartOther(d) \/ StartSame(d)
    \/ StartSync \/ Select
    \/ \E t \in Delays : Delay(t)
    \/ \E l \in Lens, b \in SUBSET {"out", "in"} : Transfer(l, b)
    \/ TransferSync \/ FirstWord \/ NextWord \/ Remainder \/ LastWord
    \/ End \/ EndSync

Spec == Init /\ [][Next]_vars

----------------------------------------------------------------------------
(* Properties *)

\* The types; the loop never reads data_out or stores to data_in past len.
TypeOK ==
    /\ pc \in {"off", "idle", "start_sync", "select", "open", "sync", "clock", "loop", "end"}
    /\ current \in Devices \cup {None} /\ cs \in Devices \cup {None}
    /\ pending \in 0..Cap
    /\ clocked <= len /\ Len(data_in) <= len
    /\ pc = "loop" /\ "in" \in buffers => n = Len(data_in)
    /\ Len(groups) <= 1

\* When spi_master_transfer returns, len bytes were clocked: exactly the bytes of
\* data_out went out, in order, and every byte clocked in is in its place in
\* data_in; a buffer that is not given is not touched.
TransferExact ==
    pc \in {"open", "end", "idle"} =>
        LET all == [k \in 1..len |-> k] IN
        /\ clocked = len /\ groups = <<>>
        /\ mosi = IF "out" \in buffers THEN all ELSE <<>>
        /\ data_in = IF "in" \in buffers THEN all ELSE <<>>

\* Clocks run only with chip select asserted to the device of the call and to
\* no other, and only inside a transaction; between transactions it is
\* deasserted and the thread runs in the mode it had.
SelectedOnly ==
    /\ pc \in {"open", "sync", "clock", "loop", "end"} => cs = dev /\ current = dev
    /\ pc = "idle" => cs = None /\ mode = "normal"

\* The first clock of a transfer is never earlier than the last delay asked
\* for, nor than cs_to_clk_delay_ticks after chip select unless a call of
\* spi_master_delay_before_next_transfer replaced that delay with a shorter one.
\* Chip select is not deasserted earlier than clk_to_cs_delay_ticks after the
\* last clock, unless a delay before a next transfer was asked for and that
\* transfer never made; and two transactions in a row with one device are
\* cs_to_cs_delay_ticks apart.
DelaysKept ==
    [][/\ clocked = 0 /\ clocked' > 0 =>
             /\ age.delay >= asked
             /\ age.cs >= CsToClk[dev] \/ asked < CsToClk[dev]
       /\ cs # None /\ cs' = None => age.clk >= ClkToCs[cs] \/ delay
       /\ pc = "start_sync" /\ pc' = "select" => off[dev] >= CsToCs[dev]]_vars

\* spi.h: cs_to_cs_delay_ticks is the minimum number of ticks "between
\* transactions", de-assertion of chip select and its re-assertion.
ReselectWaits ==
    [][cs = None /\ cs' # None => off[cs'] >= CsToCs[cs']]_vars
============================================================================
