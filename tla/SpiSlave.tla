------------------------------ MODULE SpiSlave ------------------------------
(***************************************************************************)
(* The SPI slave (spi_slave.c): one thread that takes words from MOSI and  *)
(* queues words on MISO, interrupted by the chip select handler cs_isr,    *)
(* which starts and ends transactions over the same context.  A bit is     *)
(* represented by its place in its transaction and a byte by the sequence  *)
(* of its bits, so that a byte received says where it came from.           *)
(*                                                                         *)
(* The master is external.  It clocks any number of bits, and keeps to the *)
(* timing the documentation of spi_slave gives: the first clock comes      *)
(* after the start of transaction was handled, and chip select is asserted *)
(* again after the end of transaction was (Settled).  What spi.h does not  *)
(* say is assumed too: the thread serves a word in the time of a word      *)
(* (CaughtUp), and has read the last one from the port, though perhaps not *)
(* stored it, when chip select is deasserted.                              *)
(***************************************************************************)
EXTENDS Integers, Sequences

CONSTANTS
    ByteBits,    \* bits of a byte; 8 in the code
    WordBytes,   \* bytes of a port word; 4 in the code
    InLens,      \* lengths of in_buf the application supplies; 0 for NULL
    OutLens,     \* lengths of out_buf
    Duplex,      \* whether the slave has a p_miso; {TRUE, FALSE} for either
    MaxBits      \* longest transaction of the master, in bits

ASSUME SpiAssumption ==
    /\ ByteBits \in Nat \ {0} /\ WordBytes \in Nat \ {0}
    /\ InLens \subseteq Nat /\ OutLens \subseteq Nat /\ Duplex \subseteq BOOLEAN

WordBits == ByteBits * WordBytes

VARIABLES
    cs,          \* chip select, TRUE while asserted
    duplex,      \* p_miso is not 0
    cs_val,      \* what cs_isr last saw of it
    running,     \* a transaction is in progress
    in_len, in_buf, in_cur,      \* in_buf, in_buf_cur - in_buf
    out_len, out_cur,            \* out_buf, out_buf_cur - out_buf
    mosi,        \* bits in the shift register of p_mosi, oldest first
    mosi_word,   \* its transfer register, <<>> when empty
    miso,        \* words queued on p_miso, the first one being shifted out
    pc,          \* where the thread is
    in_word, out_word,
    sent, got,   \* history: bits clocked in this transaction, bits of MISO seen
    report       \* history: arguments of the last slave_transaction_ended

bufs == <<in_len, in_buf, in_cur, out_len, out_cur>>
ports == <<mosi, mosi_word, miso>>
thread == <<pc, in_word, out_word>>
wire == <<sent, got>>
vars == <<duplex, cs, cs_val, running, bufs, ports, thread, wire, report>>

Zeros(n) == [k \in 1..n |-> 0]
Least(a, b) == IF a < b THEN a ELSE b

Init ==
    /\ duplex \in Duplex /\ cs = FALSE /\ cs_val = FALSE /\ running = FALSE
    /\ in_len = 0 /\ in_buf = <<>> /\ in_cur = 0
    /\ out_len = 0 /\ out_cur = 0
    /\ mosi = <<>> /\ mosi_word = <<>> /\ miso = <<>>
    /\ pc = "in" /\ in_word = <<>> /\ out_word = Zeros(WordBits)
    /\ sent = 0 /\ got = <<>>
    /\ report = [read |-> 0, bits |-> 0, written |-> 0, late |-> FALSE]

----------------------------------------------------------------------------
(* The words of a transaction *)

\* get_next_word: the word at out_buf_cur, padded with zeros, and how many of
\* its bytes are in out_buf.
Fetched(cur, len) == Least(WordBytes, len - cur)
NextWord(cur, len) ==
    LET n == Fetched(cur, len) * ByteBits IN
    [k \in 1..WordBits |-> IF k <= n THEN cur * ByteBits + k ELSE 0]

\* Byte k, from 0, of a sequence of bits; a partial byte has fewer, and a byte
\* past the end is zero.
ByteOf(bits, k) ==
    SubSeq(bits, k * ByteBits + 1, Least((k + 1) * ByteBits, Len(bits)))

Store(bits, n) ==
    [k \in 1..in_len |-> IF k \in (in_cur + 1)..(in_cur + n)
                         THEN ByteOf(bits, k - in_cur - 1) ELSE in_buf[k]]
\* mutant: the end of in_buf is not looked at
RoomUnchecked == WordBytes
Room == Least(WordBytes, in_len - in_cur)

----------------------------------------------------------------------------
(* The thread *)

PortIn ==
    /\ pc = "in" /\ mosi_word # <<>>
    /\ in_word' = mosi_word
    /\ mosi_word' = <<>>
    /\ pc' = "mask"
    /\ UNCHANGED <<duplex, cs, cs_val, running, bufs, mosi, miso, out_word, wire, report>>

\* The section with interrupts masked: get_next_word, receive_word.
Masked ==
    /\ pc = "mask"
    /\ pc' = "check"
    /\ \/ /\ running
          /\ out_word' = NextWord(out_cur, out_len)
          /\ out_cur' = out_cur + Fetched(out_cur, out_len)
          /\ in_buf' = Store(in_word, Room)
          /\ in_cur' = in_cur + Room
       \/ /\ ~running
          /\ UNCHANGED <<out_word, out_cur, in_buf, in_cur>>
    /\ UNCHANGED <<duplex, cs, cs_val, running, in_len, out_len, ports, in_word, wire, report>>

CheckRunning ==
    /\ pc = "check"
    /\ pc' = IF running /\ duplex THEN "out" ELSE "in"
    /\ UNCHANGED <<duplex, cs, cs_val, running, bufs, ports, in_word, out_word, wire, report>>

\* Blocks while both registers of the port hold a word.
PortOut ==
    /\ pc = "out" /\ Len(miso) < 2
    /\ miso' = Append(miso, out_word)
    /\ pc' = "in"
    /\ UNCHANGED <<duplex, cs, cs_val, running, bufs, mosi, mosi_word, in_word, out_word,
                   wire, report>>

Thread == PortIn \/ Masked \/ CheckRunning \/ PortOut

----------------------------------------------------------------------------
(* cs_isr; interrupts are taken between any two steps of the thread *)

\* mutant: p_miso is not cleared when a transaction starts
TransactionStartedNoClear(il, ol) ==
    /\ cs /\ ~cs_val
    /\ cs_val' = TRUE
    /\ running' = TRUE
    /\ in_len' = il /\ in_buf' = [k \in 1..il |-> <<>>] /\ in_cur' = 0
    /\ out_len' = IF duplex THEN ol ELSE 0
    /\ LET first == Fetched(0, ol) IN
        IF duplex
        THEN /\ miso' = miso \o <<NextWord(0, ol), NextWord(first, ol)>>
             /\ out_cur' = first + Fetched(first, ol)
        ELSE miso' = <<>> /\ out_cur' = 0
    /\ mosi' = <<>> /\ mosi_word' = <<>>
    /\ UNCHANGED <<duplex, cs, thread, wire, report>>

\* Without p_miso out_buf_cur and out_buf_end are NULL.
TransactionStarted(il, ol) ==
    /\ cs /\ ~cs_val
    /\ cs_val' = TRUE
    /\ running' = TRUE
    /\ in_len' = il /\ in_buf' = [k \in 1..il |-> <<>>] /\ in_cur' = 0
    /\ out_len' = IF duplex THEN ol ELSE 0
    /\ LET first == Fetched(0, ol) IN
        IF duplex
        THEN /\ miso' = <<NextWord(0, ol), NextWord(first, ol)>>
             /\ out_cur' = first + Fetched(first, ol)
        ELSE miso' = <<>> /\ out_cur' = 0
    /\ mosi' = <<>> /\ mosi_word' = <<>>
    /\ UNCHANGED <<duplex, cs, thread, wire, report>>

\* receive_part_word: the bits left in the port, and what is counted of them.
PartBytes(v) == v \div ByteBits
PartCur(v) == in_cur + (IF PartBytes(v) < Room THEN PartBytes(v) ELSE Room)
\* mutant: bits are left over although in_buf is full
PartBitsAlways(v) == v % ByteBits
PartBits(v) == IF PartBytes(v) < Room THEN v % ByteBits ELSE 0

TransactionEnded ==
    LET v == Len(mosi) IN
    /\ ~cs /\ cs_val
    /\ cs_val' = FALSE
    /\ running' = FALSE
    /\ in_buf' = IF v > 0 THEN Store(mosi, Room) ELSE in_buf
    /\ in_cur' = IF v > 0 THEN PartCur(v) ELSE in_cur
    /\ report' = [read |-> in_cur', bits |-> IF v > 0 THEN PartBits(v) ELSE 0,
                  written |-> out_cur, late |-> pc = "mask"]
    /\ mosi' = <<>> /\ mosi_word' = <<>> /\ miso' = <<>>
    /\ UNCHANGED <<duplex, cs, in_len, out_len, out_cur, thread, wire>>

CsIsr ==
    \/ \E il \in InLens, ol \in OutLens : TransactionStarted(il, ol)
    \/ TransactionEnded

----------------------------------------------------------------------------
(* The master *)

Settled == cs = cs_val
CaughtUp == pc # "mask" /\ mosi_word = <<>>

CsAssert ==
    /\ ~cs /\ Settled /\ pc = "in"
    /\ cs' = TRUE
    /\ sent' = 0 /\ got' = <<>>
    /\ UNCHANGED <<duplex, cs_val, running, bufs, ports, thread, report>>

\* A clock shifts one bit into p_mosi and one out of p_miso.
Clock ==
    LET shifted == Append(mosi, sent + 1) IN
    /\ cs /\ Settled
    /\ sent < MaxBits
    /\ Len(shifted) = WordBits => CaughtUp /\ pc = "in"
    /\ sent' = sent + 1
    /\ IF Len(shifted) = WordBits
       THEN mosi_word' = shifted /\ mosi' = <<>>
       ELSE mosi' = shifted /\ UNCHANGED mosi_word
    /\ got' = Append(got, IF miso = <<>> THEN -1 ELSE Head(miso)[1])
    /\ miso' = CASE miso = <<>> -> <<>>
                 [] miso # <<>> /\ Len(Head(miso)) = 1 -> Tail(miso)
                 [] miso # <<>> /\ Len(Head(miso)) > 1 ->
                        <<Tail(Head(miso))>> \o Tail(miso)
    /\ UNCHANGED <<duplex, cs, cs_val, running, bufs, thread, report>>

\* The thread has read the last whole word from the port, but may still be
\* about to store it, or to queue one on p_miso.
CsDeassert ==
    /\ cs /\ Settled /\ mosi_word = <<>>
    /\ cs' = FALSE
    /\ UNCHANGED <<duplex, cs_val, running, bufs, ports, thread, wire, report>>

Next == Thread \/ CsIsr \/ CsAssert \/ Clock \/ CsDeassert
Spec == Init /\ [][Next]_vars

----------------------------------------------------------------------------
(* Properties *)

TypeOK ==
    /\ cs \in BOOLEAN /\ cs_val \in BOOLEAN /\ running = cs_val
    /\ Len(in_buf) = in_len /\ in_cur \in 0..in_len
    /\ out_cur \in 0..out_len
    /\ Len(mosi) < WordBits /\ Len(mosi_word) \in {0, WordBits}
    /\ Len(miso) <= 2
    /\ pc \in {"in", "mask", "check", "out"}
    /\ report.bits \in 0..(ByteBits - 1)

\* The bits of this transaction the slave has heard when it ends.  The interrupt
\* of chip select may come between port_in and the section that stores the word:
\* that word, the last whole one, is then dropped, and the bits behind it take
\* its place.
Heard ==
    LET all == [k \in 1..sent |-> k]
        whole == (sent \div WordBits) * WordBits
    IN
    IF report.late
    THEN SubSeq(all, 1, whole - WordBits) \o SubSeq(all, whole + 1, sent)
    ELSE all

\* When slave_transaction_ended is called, bytes_read full bytes of in_buf and
\* read_bits bits of the one after them are what the slave has heard of this
\* transaction, all of it or as much as in_buf has room for (spi.h, "the byte
\* after the last full byte contains the partial bits read"); bytes_written
\* counts at least the bytes of out_buf that left on MISO.
Ended == ~cs /\ Settled
ReportExact ==
    Ended =>
        LET taken == Least(Len(Heard), in_len * ByteBits) IN
        /\ report.read = taken \div ByteBits
        /\ report.bits = taken % ByteBits
        /\ \A k \in 1..report.read :
              in_buf[k] = SubSeq(Heard, (k - 1) * ByteBits + 1, k * ByteBits)
        /\ report.bits > 0 =>
              in_buf[report.read + 1] = SubSeq(Heard, report.read * ByteBits + 1, taken)
        /\ report.written >= Least(out_len, sent \div ByteBits)

\* The master reads out_buf from its first bit, and zeros behind its end: no
\* word of another transaction, none missing, none twice.  Without p_miso nothing
\* is driven.
MisoExact ==
    \A k \in 1..Len(got) :
        got[k] = CASE ~duplex -> -1
                   [] duplex /\ k <= out_len * ByteBits -> k
                   [] duplex /\ k > out_len * ByteBits -> 0
=============================================================================
