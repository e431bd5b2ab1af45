---------------------------- MODULE UartTxProofs ----------------------------
(***************************************************************************)
(* Proofs about UartTx for any modes, formats, FIFO, bit time and range of *)
(* the reference clock, and any number of bytes.                           *)
(***************************************************************************)
EXTENDS UartTx, FiniteSetTheorems, TLAPS

\* TypeOK, with the types it leaves out and the bits still due in each state:
\* of what the handler works on, and of the rest.
HandlerTypes ==
    /\ state \in States
    /\ uart_data \in 0 .. 2^NumDataBits - 1
    /\ current_data_bit \in 0 .. NumDataBits
    /\ state = "DATA" => current_data_bit < NumDataBits
    /\ current_stop_bit \in 0 .. stop_bits - 1
    /\ state # "STOP" => current_stop_bit = 0
    /\ state = "PARITY" => parity # "none"
    /\ next_event \in 0 .. TimeMod - 1 /\ trigger \in 0 .. TimeMod - 1
    /\ fifo \in Seq(0 .. 2^NumDataBits - 1) /\ Len(fifo) <= Capacity
    /\ enabled \in BOOLEAN /\ emptied \in BOOLEAN /\ straddled \in BOOLEAN
    /\ held \in 0 .. 2 * BitTicks + 1
    /\ accepted \in Seq(0 .. 2^NumDataBits - 1)
    /\ frame \in Seq({0, 1}) /\ wire \in Seq(Seq({0, 1}))

CallTypes ==
    /\ mode \in {"buffered", "timer", "poll"} /\ mode \in Modes
    /\ <<parity, stop_bits>> \in Formats
    /\ parity \in {"none", "even", "odd"} /\ stop_bits \in Nat \ {0}
    /\ now \in 0 .. TimeMod - 1
    /\ inHold \in BOOLEAN
    /\ pc \in {"out", "state", "push", "data", "start", "time", "stamp",
               "load", "trigger", "enable", "block", "handle", "sleep"}
    /\ arg \in 0 .. 2^NumDataBits - 1
    /\ spent \in 0 .. CallTicks
    /\ due \in 0 .. TimeMod - 1

Types == HandlerTypes /\ CallTypes

\* Where uart_tx is, in the mode it runs in: a kick-off is decided only with the
\* FIFO empty and the transmitter idle, and stays so until the state is stored;
\* a blocking call returns with it idle.
CallStates ==
    /\ buffered => pc \notin {"block", "handle", "sleep"}
    /\ ~buffered => /\ pc \in {"out", "block", "handle", "sleep"}
                    /\ fifo = <<>> /\ enabled = FALSE
                    /\ pc \in {"out", "block"} => state = "IDLE"
                    /\ pc = "handle" => state # "IDLE"
    /\ pc \in {"state", "data", "start"} => fifo = <<>>
    /\ pc \in {"data", "start"} => state = "IDLE"
    /\ pc = "start" => uart_data = arg

\* Every byte accepted is on the wire, being sent or in the FIFO, in this order.
Sending == IF state = "IDLE" THEN 0 ELSE 1

Accounted ==
    /\ Len(accepted) = Len(wire) + Sending + Len(fifo)
    /\ state # "IDLE" => uart_data = accepted[Len(wire) + 1]
    /\ \A k \in 1 .. Len(fifo) : fifo[k] = accepted[Len(wire) + Sending + k]

\* The frame of a byte in a format.
ParityOf(p, d) ==
    LET ones == Cardinality({i \in 0 .. NumDataBits - 1 : (d \div 2^i) % 2 = 1})
    IN  IF p = "even" THEN ones % 2 ELSE (ones + 1) % 2

FrameOf(p, n, d) ==
    <<0>> \o [i \in 1 .. NumDataBits |-> (d \div 2^(i - 1)) % 2]
          \o (IF p = "none" THEN <<>> ELSE <<ParityOf(p, d)>>)
          \o [i \in 1 .. n |-> 1]

ParityBits(p) == IF p = "none" THEN 0 ELSE 1

\* How far the frame under way has come, and that it is the byte's so far.
Progress ==
    /\ state \in {"IDLE", "START"} => Len(frame) = 0
    /\ state = "DATA" => Len(frame) = 1 + current_data_bit
    /\ state = "PARITY" => Len(frame) = 1 + NumDataBits
    /\ state = "STOP" =>
          Len(frame) = 1 + NumDataBits + ParityBits(parity) + current_stop_bit
    /\ \A i \in 1 .. Len(frame) : frame[i] = FrameOf(parity, stop_bits, uart_data)[i]

FramesSent ==
    \A i \in 1 .. Len(wire) : wire[i] = FrameOf(parity, stop_bits, accepted[i])

Order == Accounted /\ Progress /\ FramesSent

Basics == Types /\ CallStates /\ Order

\* When the handler is due: Off ticks from now, negative when it is late.
At(t, off) == t = Plus(now, off)

\* The first data bit is still to come, at the latest.
Early == state = "START" \/ (state = "DATA" /\ current_data_bit = 0)

Quiet == {"out", "state", "push", "data", "start"}

\* The start bit was sent at the old trigger between uart_tx's load of the time and
\* its store of the trigger: the handler is due at once, before next_event.
Overtaken(late) ==
    /\ state = "DATA" /\ current_data_bit = 0 /\ enabled
    /\ held <= late /\ At(next_event, BitTicks - held)
    /\ \E off \in -late .. 0 : At(trigger, off)

\* Outside a kick-off the trigger of an active transmitter is set and at most a
\* bit away, late only before the first data bit and two bits only while that is
\* sent; of an idle one it is the end of the last stop bit.
Settled ==
    pc \in Quiet =>
        /\ trigger = next_event \/ Overtaken(CallTicks)
        /\ state # "IDLE" =>
              /\ enabled
              /\ \E off \in (IF Early THEN -CallTicks .. BitTicks ELSE 0 .. 2 * BitTicks) :
                    At(trigger, off)
        /\ state = "IDLE" /\ enabled => held <= BitTicks /\ At(trigger, BitTicks - held)

Kicking == {"time", "stamp", "load", "trigger"}

\* A time taken in this call.
Recent(t) == \E off \in -spent .. 0 : At(t, off)

\* In a kick-off the handler may have sent the start bit at the old trigger, and
\* once the new one is set the first data bit; there is no time for another.
KickingOff ==
    /\ pc \in Kicking =>
          /\ Early
          /\ state = "START" /\ enabled => held <= BitTicks /\ At(trigger, BitTicks - held)
          /\ state = "DATA" => enabled /\ held <= spent /\ At(trigger, BitTicks - held)
    /\ pc \in {"time", "stamp"} => trigger = next_event
    /\ pc = "stamp" => Recent(due)
    /\ pc = "load" =>
          Recent(due) /\ (due = next_event \/ (state = "DATA" /\ trigger = next_event))
    /\ pc = "trigger" =>
          \/ due = next_event /\ Recent(due)
          \/ /\ state = "DATA" /\ trigger = next_event
             /\ due = next_event \/ Recent(due)
    /\ pc = "enable" =>
          /\ trigger = next_event \/ Overtaken(spent)
          /\ state # "IDLE"
          /\ \E off \in (IF Early THEN -spent .. BitTicks
                        ELSE BitTicks - spent .. 2 * BitTicks) :
                At(trigger, off)
          /\ state # "START" => enabled

Timing == buffered => Settled /\ KickingOff

-----------------------------------------------------------------------------
(* Powers of two, to the width of a byte.                                  *)

IsPower(n, a) ==
    \/ n = 0 /\ a = 1
    \/ n = 1 /\ a = 2
    \/ n = 2 /\ a = 4
    \/ n = 3 /\ a = 8
    \/ n = 4 /\ a = 16
    \/ n = 5 /\ a = 32
    \/ n = 6 /\ a = 64
    \/ n = 7 /\ a = 128
    \/ n = 8 /\ a = 256

LEMMA PowerTable == \A n \in 0 .. 8 : IsPower(n, 2^n)
  <1>1. TAKE n \in 0 .. 8
  <1>2. PICK a : a = 2^n  OBVIOUS
  <1>3. n = 0 => a = 1  BY ONLY <1>2, 2^0 = 1, Zenon
  <1>4. n = 1 => a = 2  BY ONLY <1>2, 2^1 = 2, Zenon
  <1>5. n = 2 => a = 4  BY ONLY <1>2, 2^2 = 4, Zenon
  <1>6. n = 3 => a = 8  BY ONLY <1>2, 2^3 = 8, Zenon
  <1>7. n = 4 => a = 16  BY ONLY <1>2, 2^4 = 16, Zenon
  <1>8. n = 5 => a = 32  BY ONLY <1>2, 2^5 = 32, Zenon
  <1>9. n = 6 => a = 64  BY ONLY <1>2, 2^6 = 64, Zenon
  <1>10. n = 7 => a = 128  BY ONLY <1>2, 2^7 = 128, Zenon
  <1>11. n = 8 => a = 256  BY ONLY <1>2, 2^8 = 256, Zenon
  <1>12. IsPower(n, a)
    BY <1>3, <1>4, <1>5, <1>6, <1>7, <1>8, <1>9, <1>10, <1>11 DEF IsPower
  <1>13. QED  BY <1>2, <1>12

LEMMA PowerNat == \A n \in 0 .. 8 : 2^n \in Nat \ {0}
  <1>1. TAKE n \in 0 .. 8
  <1>2. PICK a : a = 2^n  OBVIOUS
  <1>3. IsPower(n, a)  BY <1>2, PowerTable
  <1>4. a \in Nat \ {0}  BY <1>3 DEF IsPower
  <1>5. QED  BY <1>2, <1>4

\* A byte's bits are bits, and masking gives a byte.
LEMMA Bits == \A d \in Nat, i \in 0 .. 8 : (d \div 2^i) % 2 \in {0, 1}
  <1>1. \A a \in Nat, b \in Nat \ {0} : a \div b \in Nat  OBVIOUS
  <1>2. \A q \in Nat : q % 2 \in {0, 1}  OBVIOUS
  <1>3. TAKE d \in Nat, i \in 0 .. 8
  <1>4. PICK b : b = 2^i  OBVIOUS
  <1>5. b \in Nat \ {0}  BY <1>4, PowerNat
  <1>6. d \div b \in Nat  BY <1>1, <1>5
  <1>7. (d \div b) % 2 \in {0, 1}  BY <1>2, <1>6
  <1>8. QED  BY <1>4, <1>7

LEMMA Masked ==
    /\ 0 .. 2^NumDataBits - 1 \subseteq Nat /\ 0 \in 0 .. 2^NumDataBits - 1
    /\ \A d \in Data : d % 2^NumDataBits \in 0 .. 2^NumDataBits - 1
  <1>1. PICK b : b = 2^NumDataBits  OBVIOUS
  <1>2. NumDataBits \in 0 .. 8 /\ Data \subseteq Nat  BY TxAssumption DEF TxAssumption
  <1>3. b \in Nat \ {0}  BY <1>1, <1>2, PowerNat
  <1>4. \A d \in Nat : d % b \in 0 .. b - 1  BY <1>3
  <1>5. 0 .. b - 1 \subseteq Nat /\ 0 \in 0 .. b - 1  BY <1>3
  <1>6. \A d \in Data : d % b \in 0 .. b - 1  BY <1>2, <1>4
  <1>7. QED  BY <1>1, <1>5, <1>6

-----------------------------------------------------------------------------
(* Frames.                                                                 *)

LEMMA ParityValue == \A p, d : ParityOf(p, d) \in {0, 1}
  <1>1. TAKE p, d
  <1>2. DEFINE ones == {i \in 0 .. NumDataBits - 1 : (d \div 2^i) % 2 = 1}
  <1>3. IsFiniteSet(0 .. NumDataBits - 1)  BY FS_Interval, TxAssumption DEF TxAssumption
  <1>4. IsFiniteSet(ones)  BY <1>3, FS_Subset
  <1>5. PICK n \in Nat : n = Cardinality(ones)  BY <1>4, FS_CardinalityType
  <1>6. n % 2 \in {0, 1} /\ (n + 1) % 2 \in {0, 1}  OBVIOUS
  <1>7. ParityOf(p, d) \in {n % 2, (n + 1) % 2}  BY <1>5 DEF ParityOf
  <1>8. QED  BY <1>6, <1>7

\* The parity bit the transmitter puts out is that of the frame.
LEMMA ParitySame == \A d : ParityBit(d) = ParityOf(parity, d)
  <1>1. TAKE d
  <1>2. DEFINE ones == {i \in 0 .. NumDataBits - 1 : (d \div 2^i) % 2 = 1}
  <1>3. IsFiniteSet(0 .. NumDataBits - 1)  BY FS_Interval, TxAssumption DEF TxAssumption
  <1>4. IsFiniteSet(ones)  BY <1>3, FS_Subset
  <1>5. PICK n \in Nat : n = Cardinality(ones)  BY <1>4, FS_CardinalityType
  <1>6. ParityBit(d) = (n + (IF parity = "even" THEN 0 ELSE 1)) % 2
    BY <1>5 DEF ParityBit, DataBit
  <1>7. ParityOf(parity, d) = IF parity = "even" THEN n % 2 ELSE (n + 1) % 2
    BY <1>5 DEF ParityOf
  <1>8. n + 0 = n  OBVIOUS
  <1>9. QED  BY <1>6, <1>7, <1>8

LEMMA Concat ==
    \A s, t \in Seq({0, 1}) :
        /\ s \o t \in Seq({0, 1}) /\ Len(s \o t) = Len(s) + Len(t)
        /\ \A i \in 1 .. Len(s) : (s \o t)[i] = s[i]
        /\ \A i \in 1 .. Len(t) : (s \o t)[Len(s) + i] = t[i]
  OBVIOUS

LEMMA FrameShape ==
    ASSUME NEW p \in {"none", "even", "odd"}, NEW n \in Nat, NEW d \in Nat
    PROVE  /\ FrameOf(p, n, d) \in Seq({0, 1})
           /\ Len(FrameOf(p, n, d)) = 1 + NumDataBits + ParityBits(p) + n
           /\ FrameOf(p, n, d)[1] = 0
           /\ \A k \in 0 .. NumDataBits - 1 : FrameOf(p, n, d)[2 + k] = (d \div 2^k) % 2
           /\ p # "none" => FrameOf(p, n, d)[2 + NumDataBits] = ParityOf(p, d)
           /\ \A k \in 0 .. n - 1 : FrameOf(p, n, d)[2 + NumDataBits + ParityBits(p) + k] = 1
  <1> DEFINE data == [i \in 1 .. NumDataBits |-> (d \div 2^(i - 1)) % 2]
             par == IF p = "none" THEN <<>> ELSE <<ParityOf(p, d)>>
             stop == [i \in 1 .. n |-> 1]
  <1>1. NumDataBits \in 1 .. 8  BY TxAssumption DEF TxAssumption
  <1>2. /\ data \in Seq({0, 1}) /\ Len(data) = NumDataBits
        /\ \A k \in 0 .. NumDataBits - 1 : data[1 + k] = (d \div 2^k) % 2
    <2>1. \A i \in 1 .. NumDataBits : (d \div 2^(i - 1)) % 2 \in {0, 1}
      <3>1. TAKE i \in 1 .. NumDataBits
      <3>2. i - 1 \in 0 .. 8  BY <1>1
      <3>3. QED  BY <3>2, Bits
    <2>2. data \in Seq({0, 1}) /\ Len(data) = NumDataBits  BY <1>1, <2>1
    <2>3. ASSUME NEW k \in 0 .. NumDataBits - 1 PROVE data[1 + k] = (d \div 2^k) % 2
      <3>1. PICK i \in 1 .. NumDataBits : i = 1 + k  BY <1>1
      <3>2. i - 1 = k  BY <3>1
      <3>3. data[i] = (d \div 2^(i - 1)) % 2  OBVIOUS
      <3>4. QED  BY <3>1, <3>2, <3>3
    <2>4. QED  BY <2>2, <2>3
  <1>3. /\ par \in Seq({0, 1}) /\ Len(par) = ParityBits(p)
        /\ p # "none" => par[1] = ParityOf(p, d)
    <2>1. PICK b \in {0, 1} : b = ParityOf(p, d)  BY ParityValue
    <2>2. <<b>> \in Seq({0, 1}) /\ Len(<<b>>) = 1 /\ <<b>>[1] = b  OBVIOUS
    <2>3. p = "none" => par = <<>> /\ ParityBits(p) = 0  BY DEF ParityBits
    <2>4. p # "none" => par = <<b>> /\ ParityBits(p) = 1  BY <2>1 DEF ParityBits
    <2>5. <<>> \in Seq({0, 1}) /\ Len(<<>>) = 0  OBVIOUS
    <2> HIDE DEF par
    <2>6. QED  BY <2>1, <2>2, <2>3, <2>4, <2>5
  <1>4. stop \in Seq({0, 1}) /\ Len(stop) = n /\ \A k \in 0 .. n - 1 : stop[1 + k] = 1
    OBVIOUS
  <1>5. <<0>> \in Seq({0, 1}) /\ Len(<<0>>) = 1 /\ <<0>>[1] = 0  OBVIOUS
  <1>6. FrameOf(p, n, d) = ((<<0>> \o data) \o par) \o stop  BY DEF FrameOf
  <1>7. ParityBits(p) \in {0, 1} /\ (p # "none" => ParityBits(p) = 1)  BY DEF ParityBits
  <1> HIDE DEF data, par, stop
  <1>8. PICK u : u = <<0>> \o data  OBVIOUS
  <1>9. /\ u \in Seq({0, 1}) /\ Len(u) = 1 + NumDataBits /\ u[1] = 0
        /\ \A k \in 0 .. NumDataBits - 1 : u[2 + k] = (d \div 2^k) % 2
    <2>1. /\ u \in Seq({0, 1}) /\ Len(u) = 1 + Len(data)
          /\ u[1] = <<0>>[1]
          /\ \A i \in 1 .. Len(data) : u[1 + i] = data[i]
      BY <1>2, <1>5, <1>8, Concat
    <2>2. ASSUME NEW k \in 0 .. NumDataBits - 1 PROVE u[2 + k] = (d \div 2^k) % 2
      <3>1. PICK i \in 1 .. NumDataBits : i = 1 + k  BY <1>1
      <3>2. u[1 + i] = data[i]  BY <1>2, <2>1
      <3>3. 1 + i = 2 + k  BY <3>1
      <3>4. QED  BY <1>2, <3>1, <3>2, <3>3
    <2>3. QED  BY <1>2, <1>5, <2>1, <2>2
  <1>10. PICK v : v = u \o par  OBVIOUS
  <1>11. /\ v \in Seq({0, 1}) /\ Len(v) = 1 + NumDataBits + ParityBits(p)
         /\ \A i \in 1 .. 1 + NumDataBits : v[i] = u[i]
         /\ p # "none" => v[2 + NumDataBits] = ParityOf(p, d)
    <2>1. /\ v \in Seq({0, 1}) /\ Len(v) = Len(u) + Len(par)
          /\ \A i \in 1 .. Len(u) : v[i] = u[i]
          /\ \A i \in 1 .. Len(par) : v[Len(u) + i] = par[i]
      BY <1>3, <1>9, <1>10, Concat
    <2>2. p # "none" => v[Len(u) + 1] = par[1]  BY <1>3, <1>7, <2>1
    <2>3. Len(u) + 1 = 2 + NumDataBits  BY <1>1, <1>9
    <2>4. QED  BY <1>3, <1>9, <2>1, <2>2, <2>3
  <1>12. PICK w : w = v \o stop  OBVIOUS
  <1>13. /\ w \in Seq({0, 1}) /\ Len(w) = 1 + NumDataBits + ParityBits(p) + n
         /\ \A i \in 1 .. 1 + NumDataBits + ParityBits(p) : w[i] = v[i]
         /\ \A k \in 0 .. n - 1 : w[2 + NumDataBits + ParityBits(p) + k] = 1
    <2>1. /\ w \in Seq({0, 1}) /\ Len(w) = Len(v) + Len(stop)
          /\ \A i \in 1 .. Len(v) : w[i] = v[i]
          /\ \A i \in 1 .. Len(stop) : w[Len(v) + i] = stop[i]
      BY <1>4, <1>11, <1>12, Concat
    <2>2. ASSUME NEW k \in 0 .. n - 1 PROVE w[2 + NumDataBits + ParityBits(p) + k] = 1
      <3>1. PICK i \in 1 .. n : i = 1 + k  OBVIOUS
      <3>2. w[Len(v) + i] = stop[i]  BY <1>4, <2>1
      <3>3. Len(v) + i = 2 + NumDataBits + ParityBits(p) + k  BY <1>1, <1>7, <1>11, <3>1
      <3>4. stop[1 + k] = 1  BY <1>4
      <3>5. QED  BY <3>1, <3>2, <3>3, <3>4
    <2>3. QED  BY <1>4, <1>11, <2>1, <2>2
  <1>14. FrameOf(p, n, d) = w  BY <1>6, <1>8, <1>10, <1>12
  <1>15. w[1] = 0
    BY <1>1, <1>7, <1>9, <1>11, <1>13
  <1>16. ASSUME NEW k \in 0 .. NumDataBits - 1 PROVE w[2 + k] = (d \div 2^k) % 2
    <2>1. PICK i \in 1 .. 1 + NumDataBits : i = 2 + k  BY <1>1
    <2>2. i \in 1 .. 1 + NumDataBits + ParityBits(p)  BY <1>1, <1>7
    <2>3. w[i] = u[i]  BY <1>11, <1>13, <2>2
    <2>4. QED  BY <1>9, <2>1, <2>3
  <1>17. ASSUME p # "none" PROVE w[2 + NumDataBits] = ParityOf(p, d)
    <2>1. 2 + NumDataBits \in 1 .. 1 + NumDataBits + ParityBits(p)  BY <1>1, <1>7, <1>17
    <2>2. QED  BY <1>11, <1>13, <1>17, <2>1
  <1>18. QED  BY <1>13, <1>14, <1>15, <1>16, <1>17

-----------------------------------------------------------------------------
(* The clock.                                                              *)

LEMMA Modulo ==
    \A a \in Int :
        /\ a % TimeMod \in 0 .. TimeMod - 1
        /\ 0 <= a /\ a < TimeMod => a % TimeMod = a
        /\ TimeMod <= a /\ a < 2 * TimeMod => a % TimeMod = a - TimeMod
        /\ -TimeMod <= a /\ a < 0 => a % TimeMod = a + TimeMod
  <1>1. TimeMod \in Nat \ {0}
    <2>1. \A b, c \in Nat : b + c \in Nat  OBVIOUS
    <2>2. QED  BY <2>1, TxAssumption DEF TxAssumption
  <1>2. TAKE a \in Int
  <1>3. a % TimeMod \in 0 .. TimeMod - 1  BY <1>1
  <1>4. 0 <= a /\ a < TimeMod => a % TimeMod = a  BY <1>1
  <1>5. TimeMod <= a /\ a < 2 * TimeMod => a % TimeMod = a - TimeMod  BY <1>1
  <1>6. -TimeMod <= a /\ a < 0 => a % TimeMod = a + TimeMod  BY <1>1
  <1>7. QED  BY <1>3, <1>4, <1>5, <1>6

\* One wrap to either side.
Wrap(a, m) == IF a < 0 THEN a + m ELSE IF a >= m THEN a - m ELSE a

LEMMA WrapOnce ==
    \A a \in Int :
        -TimeMod <= a /\ a < 2 * TimeMod
            => a % TimeMod = Wrap(a, TimeMod) /\ a % TimeMod \in 0 .. TimeMod - 1
  <1>1. TAKE a \in Int
  <1>2. HAVE -TimeMod <= a /\ a < 2 * TimeMod
  <1>3. TimeMod \in Nat  BY TxAssumption DEF TxAssumption
  <1>4. PICK r : r = a % TimeMod  OBVIOUS
  <1>5. /\ r \in 0 .. TimeMod - 1
        /\ 0 <= a /\ a < TimeMod => r = a
        /\ TimeMod <= a /\ a < 2 * TimeMod => r = a - TimeMod
        /\ -TimeMod <= a /\ a < 0 => r = a + TimeMod
    BY <1>4, Modulo
  <1>6. r = Wrap(a, TimeMod)  BY <1>2, <1>3, <1>5 DEF Wrap
  <1>7. QED  BY <1>4, <1>5, <1>6

\* The range of the clock is more than a bit and a call to either side.
LEMMA ClockRange ==
    /\ TimeMod \in Nat \ {0} /\ BitTicks \in Nat \ {0} /\ CallTicks \in Nat
    /\ TimeMod > 4 * BitTicks + 2 * CallTicks
  <1>1. /\ BitTicks \in Nat \ {0} /\ CallTicks \in Nat /\ TimeMod \in Nat
        /\ TimeMod > 4 * BitTicks + 2 * CallTicks
    BY TxAssumption DEF TxAssumption
  <1>2. QED  BY ONLY <1>1

LEMMA PlusType == \A a, b \in Int : Plus(a, b) \in 0 .. TimeMod - 1
  <1>1. TAKE a, b \in Int
  <1>2. a + b \in Int  OBVIOUS
  <1>3. QED  BY <1>2, Modulo DEF Plus

\* Nothing added.
LEMMA PlusZero == \A a \in 0 .. TimeMod - 1 : a = Plus(a, 0)
  <1>1. TAKE a \in 0 .. TimeMod - 1
  <1>2. a \in Int /\ 0 <= a /\ a < TimeMod /\ a + 0 = a  BY ClockRange
  <1>3. QED  BY <1>2, Modulo DEF Plus

\* A sum within the range, taken in two parts.
LEMMA PlusPlus ==
    \A a \in 0 .. TimeMod - 1, b, c \in Int :
        -TimeMod < b /\ b < TimeMod /\ -TimeMod < b + c /\ b + c < TimeMod
        /\ -TimeMod < c /\ c < TimeMod
            => Plus(Plus(a, b), c) = Plus(a, b + c)
  <1>1. TAKE a \in 0 .. TimeMod - 1, b, c \in Int
  <1>2. HAVE /\ -TimeMod < b /\ b < TimeMod /\ -TimeMod < b + c /\ b + c < TimeMod
             /\ -TimeMod < c /\ c < TimeMod
  <1>3. PICK m \in Nat \ {0} : m = TimeMod  BY ClockRange
  <1>4. a \in 0 .. m - 1 /\ a \in 0 .. TimeMod - 1  BY <1>3
  <1>5. PICK x : x = Plus(a, b)  OBVIOUS
  <1>6. PICK y : y = Plus(x, c)  OBVIOUS
  <1>7. PICK z : z = Plus(a, b + c)  OBVIOUS
  <1>8. -m < b /\ b < m /\ -m < c /\ c < m /\ -m < b + c /\ b + c < m  BY <1>2, <1>3
  <1>9. x \in 0 .. m - 1 /\ x = Wrap(a + b, m)
    <2>1. PICK t \in Int : t = a + b  BY <1>4
    <2>2. -m <= t /\ t < 2 * m  BY ONLY <1>4, <1>8, <2>1, m \in Nat \ {0}, b \in Int
    <2>3. QED  BY <1>3, <1>5, <2>1, <2>2, WrapOnce DEF Plus
  <1>10. y \in 0 .. m - 1 /\ y = Wrap(x + c, m)
    <2>1. PICK t \in Int : t = x + c  BY <1>9
    <2>2. -m <= t /\ t < 2 * m  BY ONLY <1>9, <1>8, <2>1, m \in Nat \ {0}, c \in Int
    <2>3. QED  BY <1>3, <1>6, <2>1, <2>2, WrapOnce DEF Plus
  <1>11. z \in 0 .. m - 1 /\ z = Wrap(a + (b + c), m)
    <2>1. PICK t \in Int : t = a + (b + c)  BY <1>4
    <2>2. -m <= t /\ t < 2 * m
      BY ONLY <1>4, <1>8, <2>1, m \in Nat \ {0}, b \in Int, c \in Int
    <2>3. QED  BY <1>3, <1>7, <2>1, <2>2, WrapOnce DEF Plus
  <1>12. y = z
    BY ONLY b \in Int, c \in Int, m \in Nat \ {0}, <1>4, <1>9, <1>10, <1>11 DEF Wrap
  <1>13. QED  BY <1>5, <1>6, <1>7, <1>12

\* The comparison of times is right for times up to two bits ahead and a call ago.
LEMMA Due ==
    \A a \in 0 .. TimeMod - 1, off \in -CallTicks .. 2 * BitTicks :
        After(a, Plus(a, off)) <=> off <= 0
  <1>1. TAKE a \in 0 .. TimeMod - 1, off \in -CallTicks .. 2 * BitTicks
  <1>2. PICK m \in Nat \ {0} : m = TimeMod  BY ClockRange
  <1>3. PICK h : h = m \div 2  OBVIOUS
  <1>4. h \in Nat /\ 2 * h <= m /\ m <= 2 * h + 1  BY <1>2, <1>3
  <1>5. /\ off \in Int /\ m > 2 * off /\ m > -2 * off
        /\ -off < h
    <2>1. off \in Int /\ -CallTicks <= off /\ off <= 2 * BitTicks  BY ClockRange
    <2>2. m > 4 * BitTicks + 2 * CallTicks /\ BitTicks >= 1 /\ CallTicks >= 0
          /\ BitTicks \in Nat /\ CallTicks \in Nat
      BY <1>2, ClockRange
    <2>3. QED  BY <1>4, <2>1, <2>2
  <1>6. PICK x : x = Plus(a, off)  OBVIOUS
  <1>7. a \in 0 .. m - 1  BY <1>2
  <1>8. x \in 0 .. m - 1 /\ x = Wrap(a + off, m)
    <2>1. PICK t \in Int : t = a + off  BY <1>5, <1>7
    <2>2. -m <= t /\ t < 2 * m  BY ONLY <1>5, <1>7, <2>1, m \in Nat \ {0}
    <2>3. QED  BY <1>2, <1>6, <2>1, <2>2, WrapOnce DEF Plus
  <1>9. PICK r : r = (a - x) % TimeMod  OBVIOUS
  <1>10. r = Wrap(a - x, m)
    <2>1. PICK t \in Int : t = a - x  BY <1>7, <1>8
    <2>2. -m <= t /\ t < 2 * m  BY ONLY <1>7, <1>8, <2>1, m \in Nat \ {0}
    <2>3. QED  BY <1>2, <1>9, <2>1, <2>2, WrapOnce
  <1>11. r < h <=> off <= 0
    BY ONLY m \in Nat \ {0}, <1>4, <1>5, <1>7, <1>8, <1>10 DEF Wrap
  <1>12. QED  BY <1>2, <1>3, <1>6, <1>9, <1>11 DEF After

-----------------------------------------------------------------------------
(* The handler, one lemma per state, in whichever mode it runs: it keeps   *)
(* the types and the order of the bytes.                                   *)

\* What all its actions have in common.
Around ==
    /\ UNCHANGED config
    /\ trigger' = (IF buffered THEN next_event' ELSE trigger)
    /\ straddled' \in BOOLEAN

LEMMA Longer ==
    \A f, w \in Seq({0, 1}), b \in {0, 1} :
        /\ Len(f) < Len(w) /\ w[Len(f) + 1] = b
        /\ \A i \in 1 .. Len(f) : f[i] = w[i]
        => /\ Append(f, b) \in Seq({0, 1}) /\ Len(Append(f, b)) = Len(f) + 1
           /\ \A i \in 1 .. Len(f) + 1 : Append(f, b)[i] = w[i]
  OBVIOUS

LEMMA SameLevels ==
    \A f, w \in Seq({0, 1}) :
        Len(f) = Len(w) /\ (\A i \in 1 .. Len(f) : f[i] = w[i]) => f = w
  OBVIOUS

\* The frame of the byte being sent.
LEMMA Current ==
    ASSUME Types, NEW w, w = FrameOf(parity, stop_bits, uart_data)
    PROVE  /\ w \in Seq({0, 1}) /\ w[1] = 0
           /\ Len(w) = 1 + NumDataBits + ParityBits(parity) + stop_bits
           /\ \A k \in 0 .. NumDataBits - 1 : w[2 + k] = DataBit(uart_data, k)
           /\ parity # "none" => w[2 + NumDataBits] = ParityBit(uart_data)
           /\ \A k \in 0 .. stop_bits - 1 : w[2 + NumDataBits + ParityBits(parity) + k] = 1
           /\ ParityBits(parity) \in {0, 1} /\ stop_bits \in Nat \ {0}
  <1>1. uart_data \in Nat  BY Masked DEF Types, HandlerTypes
  <1>2. stop_bits \in Nat \ {0} /\ parity \in {"none", "even", "odd"}  BY DEF Types, CallTypes
  <1>3. PICK n \in Nat : n = stop_bits  BY <1>2
  <1>4. PICK p \in {"none", "even", "odd"} : p = parity  BY <1>2
  <1>5. PICK d \in Nat : d = uart_data  BY <1>1
  <1>6. w = FrameOf(p, n, d)  BY <1>3, <1>4, <1>5
  <1>7. /\ w \in Seq({0, 1}) /\ w[1] = 0
        /\ Len(w) = 1 + NumDataBits + ParityBits(p) + n
        /\ \A k \in 0 .. NumDataBits - 1 : w[2 + k] = (d \div 2^k) % 2
        /\ p # "none" => w[2 + NumDataBits] = ParityOf(p, d)
        /\ \A k \in 0 .. n - 1 : w[2 + NumDataBits + ParityBits(p) + k] = 1
    <2>1. /\ FrameOf(p, n, d) \in Seq({0, 1})
          /\ Len(FrameOf(p, n, d)) = 1 + NumDataBits + ParityBits(p) + n
          /\ FrameOf(p, n, d)[1] = 0
          /\ \A k \in 0 .. NumDataBits - 1 : FrameOf(p, n, d)[2 + k] = (d \div 2^k) % 2
          /\ p # "none" => FrameOf(p, n, d)[2 + NumDataBits] = ParityOf(p, d)
          /\ \A k \in 0 .. n - 1 :
                FrameOf(p, n, d)[2 + NumDataBits + ParityBits(p) + k] = 1
      BY FrameShape
    <2>2. QED  BY <1>6, <2>1, Zenon
  <1>8. ParityBits(p) \in {0, 1}  BY DEF ParityBits
  <1>9. ParityBit(d) = ParityOf(p, d)  BY <1>4, ParitySame
  <1>10. \A k \in 0 .. NumDataBits - 1 : w[2 + k] = DataBit(d, k)  BY <1>7 DEF DataBit
  <1>11. QED  BY <1>2, <1>3, <1>4, <1>5, <1>7, <1>8, <1>9, <1>10

LEMMA TimeTypes ==
    ASSUME Types, next_event' = Plus(now, BitTicks) \/ next_event' = Plus(next_event, BitTicks)
           \/ next_event' = now \/ next_event' = next_event,
           Around
    PROVE  next_event' \in 0 .. TimeMod - 1 /\ trigger' \in 0 .. TimeMod - 1
  <1>1. /\ now \in 0 .. TimeMod - 1 /\ next_event \in 0 .. TimeMod - 1
        /\ trigger \in 0 .. TimeMod - 1
    BY DEF Types, HandlerTypes, CallTypes
  <1>2. now \in Int /\ next_event \in Int /\ BitTicks \in Int  BY <1>1, ClockRange
  <1>3. next_event' \in 0 .. TimeMod - 1  BY <1>1, <1>2, PlusType
  <1>4. QED  BY <1>1, <1>3 DEF Around

LEMMA StartBitKeeps ==
    ASSUME Types, Order, Around, StartBit, UNCHANGED accepted
    PROVE  HandlerTypes' /\ Order'
  <1>1. /\ state = "START" /\ state' = "DATA" /\ current_data_bit' = 0
        /\ held' = 0 /\ frame' = Append(frame, 0) /\ wire' = wire
        /\ UNCHANGED <<uart_data, current_stop_bit, fifo, enabled, emptied, accepted>>
        /\ next_event' = Plus(now, BitTicks)
    BY DEF StartBit, PortOut
  <1>2. parity' = parity /\ stop_bits' = stop_bits  BY DEF Around, config
  <1>3. NumDataBits \in 1 .. 8 /\ BitTicks \in Nat  BY TxAssumption DEF TxAssumption
  <1>4. uart_data \in Nat  BY Masked DEF Types, HandlerTypes
  <1>5. PICK w : w = FrameOf(parity, stop_bits, uart_data)  OBVIOUS
  <1>6. w \in Seq({0, 1}) /\ Len(w) > 0 /\ w[1] = 0
    <2>1. /\ w \in Seq({0, 1}) /\ w[1] = 0
          /\ Len(w) = 1 + NumDataBits + ParityBits(parity) + stop_bits
          /\ ParityBits(parity) \in {0, 1} /\ stop_bits \in Nat \ {0}
      BY <1>5, Current
    <2>2. QED  BY <1>3, <2>1
  <1>7. /\ frame' \in Seq({0, 1}) /\ Len(frame') = 1
        /\ \A i \in 1 .. 1 : frame'[i] = w[i]
    <2>1. frame \in Seq({0, 1}) /\ Len(frame) = 0  BY <1>1 DEF Types, HandlerTypes, Order, Progress
    <2>2. \A i \in 1 .. Len(frame) : frame[i] = w[i]  BY <2>1
    <2>3. QED  BY <1>1, <1>6, <2>1, <2>2, Longer
  <1>8. HandlerTypes'
    <2>1. next_event' \in 0 .. TimeMod - 1 /\ trigger' \in 0 .. TimeMod - 1
      BY <1>1, TimeTypes
    <2>2. current_stop_bit' \in 0 .. stop_bits' - 1 /\ current_stop_bit' = 0
      BY <1>1, <1>2 DEF Types, HandlerTypes
    <2>3. current_data_bit' \in 0 .. NumDataBits /\ current_data_bit' < NumDataBits
          /\ held' \in 0 .. 2 * BitTicks + 1
      BY <1>1, <1>3
    <2>4. QED  BY <1>1, <1>7, <2>1, <2>2, <2>3 DEF Types, HandlerTypes, States, Around
  <1>9. Accounted'  BY <1>1 DEF Order, Accounted, Sending
  <1>10. Progress'
    BY <1>1, <1>2, <1>5, <1>7 DEF Progress
  <1>11. FramesSent'  BY <1>1, <1>2 DEF Order, FramesSent
  <1>12. QED  BY <1>8, <1>9, <1>10, <1>11 DEF Order

LEMMA DataBitKeeps ==
    ASSUME Types, Order, Around, SendDataBit, UNCHANGED accepted
    PROVE  HandlerTypes' /\ Order'
  <1>1. /\ state = "DATA" /\ current_data_bit' = current_data_bit + 1
        /\ held' = 0 /\ wire' = wire
        /\ frame' = Append(frame, DataBit(uart_data, current_data_bit))
        /\ UNCHANGED <<uart_data, current_stop_bit, fifo, enabled, emptied, accepted>>
        /\ next_event' = Plus(next_event, BitTicks)
        /\ state' = IF current_data_bit' # NumDataBits THEN "DATA"
                    ELSE IF parity = "none" THEN "STOP" ELSE "PARITY"
    BY DEF SendDataBit, PortOut
  <1>2. parity' = parity /\ stop_bits' = stop_bits  BY DEF Around, config
  <1>3. NumDataBits \in 1 .. 8 /\ BitTicks \in Nat  BY TxAssumption DEF TxAssumption
  <1>4. PICK w : w = FrameOf(parity, stop_bits, uart_data)  OBVIOUS
  <1>5. /\ w \in Seq({0, 1}) /\ Len(w) = 1 + NumDataBits + ParityBits(parity) + stop_bits
        /\ \A k \in 0 .. NumDataBits - 1 : w[2 + k] = DataBit(uart_data, k)
        /\ ParityBits(parity) \in {0, 1} /\ stop_bits \in Nat \ {0}
    BY <1>4, Current
  <1>6. PICK k \in 0 .. NumDataBits - 1 : k = current_data_bit
    <2>1. current_data_bit \in 0 .. NumDataBits /\ current_data_bit < NumDataBits
      BY <1>1 DEF Types, HandlerTypes
    <2>2. QED  BY <1>3, <2>1
  <1>7. PICK b \in {0, 1} : b = DataBit(uart_data, k)
    <2>1. uart_data \in Nat /\ k \in 0 .. 8  BY <1>3, Masked DEF Types, HandlerTypes
    <2>2. QED  BY <2>1, Bits DEF DataBit
  <1>8. /\ frame' \in Seq({0, 1}) /\ Len(frame') = 2 + k
        /\ \A i \in 1 .. 2 + k : frame'[i] = w[i]
    <2>1. frame \in Seq({0, 1}) /\ Len(frame) = 1 + k
      BY <1>1, <1>6 DEF Types, HandlerTypes, Order, Progress
    <2>2. \A i \in 1 .. Len(frame) : frame[i] = w[i]  BY <1>4 DEF Order, Progress
    <2>3. Len(frame) < Len(w) /\ Len(frame) + 1 = 2 + k  BY <1>3, <1>5, <2>1
    <2>4. w[Len(frame) + 1] = b  BY <1>5, <1>7, <2>3
    <2>5. frame' = Append(frame, b)  BY <1>1, <1>6, <1>7
    <2>6. QED  BY <1>5, <2>1, <2>2, <2>3, <2>4, <2>5, Longer
  <1>9. /\ state' \in {"DATA", "STOP", "PARITY"}
        /\ state' = "DATA" <=> current_data_bit' # NumDataBits
        /\ state' = "PARITY" => parity # "none"
        /\ state' = "STOP" => parity = "none"
    BY <1>1
  <1>10. current_data_bit' = k + 1 /\ current_stop_bit' = 0 /\ current_stop_bit = 0
    BY <1>1, <1>6 DEF Types, HandlerTypes
  <1>11. HandlerTypes'
    <2>1. next_event' \in 0 .. TimeMod - 1 /\ trigger' \in 0 .. TimeMod - 1
      BY <1>1, TimeTypes
    <2>2. current_stop_bit' \in 0 .. stop_bits' - 1
      BY <1>1, <1>2 DEF Types, HandlerTypes
    <2>3. current_data_bit' \in 0 .. NumDataBits
          /\ (state' = "DATA" => current_data_bit' < NumDataBits)
      BY <1>3, <1>9, <1>10
    <2>4. held' \in 0 .. 2 * BitTicks + 1  BY <1>1, <1>3
    <2>5. state' \in States /\ (state' = "PARITY" => parity' # "none")
      BY <1>2, <1>9 DEF States
    <2>6. QED
      BY <1>1, <1>8, <1>10, <2>1, <2>2, <2>3, <2>4, <2>5 DEF Types, HandlerTypes, Around
  <1>12. Accounted'
    <2>1. state # "IDLE" /\ state' # "IDLE"  BY <1>1, <1>9
    <2>2. QED  BY <1>1, <2>1 DEF Order, Accounted, Sending
  <1>13. Progress'
    <2>1. state' = "DATA" => Len(frame') = 1 + current_data_bit'  BY <1>8, <1>10
    <2>2. state' # "DATA" => Len(frame') = 1 + NumDataBits  BY <1>3, <1>8, <1>9, <1>10
    <2>3. state' = "STOP" =>
             Len(frame') = 1 + NumDataBits + ParityBits(parity') + current_stop_bit'
      BY <1>2, <1>3, <1>9, <1>10, <2>2 DEF ParityBits
    <2>4. \A i \in 1 .. Len(frame') : frame'[i] = FrameOf(parity', stop_bits', uart_data')[i]
      BY <1>1, <1>2, <1>4, <1>8
    <2>5. QED  BY <1>9, <2>1, <2>2, <2>3, <2>4 DEF Progress
  <1>14. FramesSent'  BY <1>1, <1>2 DEF Order, FramesSent
  <1>15. QED  BY <1>11, <1>12, <1>13, <1>14 DEF Order

LEMMA ParityBitKeeps ==
    ASSUME Types, Order, Around, SendParityBit, UNCHANGED accepted
    PROVE  HandlerTypes' /\ Order'
  <1>1. /\ state = "PARITY" /\ state' = "STOP"
        /\ held' = 0 /\ wire' = wire
        /\ frame' = Append(frame, ParityBit(uart_data))
        /\ UNCHANGED <<uart_data, current_data_bit, current_stop_bit, fifo, enabled, emptied,
                       accepted>>
        /\ next_event' = Plus(next_event, BitTicks)
    BY DEF SendParityBit, PortOut
  <1>2. parity' = parity /\ stop_bits' = stop_bits  BY DEF Around, config
  <1>3. NumDataBits \in 1 .. 8 /\ BitTicks \in Nat  BY TxAssumption DEF TxAssumption
  <1>4. PICK w : w = FrameOf(parity, stop_bits, uart_data)  OBVIOUS
  <1>5. /\ w \in Seq({0, 1}) /\ Len(w) = 1 + NumDataBits + ParityBits(parity) + stop_bits
        /\ parity # "none" => w[2 + NumDataBits] = ParityBit(uart_data)
        /\ stop_bits \in Nat \ {0}
    BY <1>4, Current
  <1>6. parity # "none" /\ ParityBits(parity) = 1
    BY <1>1 DEF Types, HandlerTypes, ParityBits
  <1>7. PICK b \in {0, 1} : b = ParityBit(uart_data)  BY ParitySame, ParityValue
  <1>8. /\ frame' \in Seq({0, 1}) /\ Len(frame') = 2 + NumDataBits
        /\ \A i \in 1 .. 2 + NumDataBits : frame'[i] = w[i]
    <2>1. frame \in Seq({0, 1}) /\ Len(frame) = 1 + NumDataBits
      BY <1>1 DEF Types, HandlerTypes, Order, Progress
    <2>2. \A i \in 1 .. Len(frame) : frame[i] = w[i]  BY <1>4 DEF Order, Progress
    <2>3. Len(frame) < Len(w) /\ Len(frame) + 1 = 2 + NumDataBits  BY <1>3, <1>5, <1>6, <2>1
    <2>4. w[Len(frame) + 1] = b  BY <1>5, <1>6, <1>7, <2>3
    <2>5. frame' = Append(frame, b)  BY <1>1, <1>7
    <2>6. QED  BY <1>5, <2>1, <2>2, <2>3, <2>4, <2>5, Longer
  <1>9. current_stop_bit' = 0 /\ current_stop_bit = 0
    BY <1>1 DEF Types, HandlerTypes
  <1>10. HandlerTypes'
    <2>1. next_event' \in 0 .. TimeMod - 1 /\ trigger' \in 0 .. TimeMod - 1
      BY <1>1, TimeTypes
    <2>2. current_stop_bit' \in 0 .. stop_bits' - 1
      BY <1>1, <1>2 DEF Types, HandlerTypes
    <2>3. held' \in 0 .. 2 * BitTicks + 1  BY <1>1, <1>3
    <2>4. state' \in States /\ state' = "STOP"  BY <1>1 DEF States
    <2>5. QED
      BY <1>1, <1>8, <2>1, <2>2, <2>3, <2>4 DEF Types, HandlerTypes, Around
  <1>11. Accounted'
    <2>1. state # "IDLE" /\ state' # "IDLE"  BY <1>1
    <2>2. QED  BY <1>1, <2>1 DEF Order, Accounted, Sending
  <1>12. Progress'
    <2>1. Len(frame') = 1 + NumDataBits + ParityBits(parity') + current_stop_bit'
      BY <1>2, <1>3, <1>6, <1>8, <1>9
    <2>2. \A i \in 1 .. Len(frame') : frame'[i] = FrameOf(parity', stop_bits', uart_data')[i]
      BY <1>1, <1>2, <1>4, <1>8
    <2>3. QED  BY <1>1, <2>1, <2>2 DEF Progress
  <1>13. FramesSent'  BY <1>1, <1>2 DEF Order, FramesSent
  <1>14. QED  BY <1>10, <1>11, <1>12, <1>13 DEF Order

LEMMA Popped ==
    ASSUME NEW S, NEW q \in Seq(S), q # <<>>
    PROVE  /\ Head(q) \in S /\ Head(q) = q[1]
           /\ Tail(q) \in Seq(S) /\ Len(Tail(q)) = Len(q) - 1 /\ Len(q) \in Nat \ {0}
           /\ \A k \in 1 .. Len(Tail(q)) : Tail(q)[k] = q[1 + k]
  OBVIOUS

\* Of n bytes finished the next is taken from the FIFO, if it is not empty.
LEMMA NextByte ==
    ASSUME Types, CharFinished, accepted' = accepted, NEW n \in Nat,
           Len(accepted) = n + Len(fifo),
           \A k \in 1 .. Len(fifo) : fifo[k] = accepted[n + k]
    PROVE  /\ state' \in {"IDLE", "START"}
           /\ uart_data' \in 0 .. 2^NumDataBits - 1
           /\ fifo' \in Seq(0 .. 2^NumDataBits - 1) /\ Len(fifo') <= Capacity
           /\ Len(accepted') = n + Sending' + Len(fifo')
           /\ state' # "IDLE" => uart_data' = accepted'[n + 1]
           /\ \A k \in 1 .. Len(fifo') : fifo'[k] = accepted'[n + Sending' + k]
  <1>1. /\ fifo \in Seq(0 .. 2^NumDataBits - 1) /\ Len(fifo) <= Capacity
        /\ uart_data \in 0 .. 2^NumDataBits - 1
    BY DEF Types, HandlerTypes
  <1>2. CASE fifo # <<>>
    <2>1. uart_data' = Head(fifo) /\ fifo' = Tail(fifo) /\ state' = "START" /\ Sending' = 1
      BY <1>2 DEF CharFinished, Sending
    <2>2. /\ Head(fifo) \in 0 .. 2^NumDataBits - 1 /\ Head(fifo) = fifo[1]
          /\ Tail(fifo) \in Seq(0 .. 2^NumDataBits - 1)
          /\ Len(Tail(fifo)) = Len(fifo) - 1 /\ Len(fifo) \in Nat \ {0}
          /\ \A k \in 1 .. Len(Tail(fifo)) : Tail(fifo)[k] = fifo[1 + k]
      BY <1>1, <1>2, Popped
    <2>3. Len(fifo') <= Capacity
      BY <1>1, <2>1, <2>2, TxAssumption DEF TxAssumption
    <2>4. Len(accepted') = n + 1 + Len(fifo')  BY <2>1, <2>2
    <2>5. uart_data' = accepted'[n + 1]  BY <2>1, <2>2
    <2>6. ASSUME NEW k \in 1 .. Len(fifo') PROVE fifo'[k] = accepted'[n + 1 + k]
      <3>1. PICK j \in 1 .. Len(fifo) : j = 1 + k  BY <2>1, <2>2
      <3>2. fifo'[k] = fifo[j]  BY <2>1, <2>2, <3>1
      <3>3. fifo[j] = accepted[n + j]  OBVIOUS
      <3>4. n + j = n + 1 + k  BY <3>1
      <3>5. QED  BY <3>2, <3>3, <3>4
    <2>7. QED  BY <2>1, <2>2, <2>3, <2>4, <2>5, <2>6
  <1>3. CASE fifo = <<>>
    <2>1. uart_data' = uart_data /\ fifo' = fifo /\ state' = "IDLE" /\ Sending' = 0
      BY <1>3 DEF CharFinished, Sending
    <2>2. Len(fifo) = 0  BY <1>3
    <2>3. Len(accepted') = n + 0 + Len(fifo')  BY <2>1, <2>2
    <2>4. QED  BY <1>1, <2>1, <2>2, <2>3
  <1>4. QED  BY <1>2, <1>3

LEMMA StopBitKeeps ==
    ASSUME Types, Order, Around, StopBit, UNCHANGED accepted
    PROVE  HandlerTypes' /\ Order'
  <1> DEFINE last == current_stop_bit + 1 = stop_bits
  <1>1. /\ state = "STOP"
        /\ held' = 0 /\ frame' = IF last THEN <<>> ELSE Append(frame, 1)
        /\ wire' = IF last THEN Append(wire, Append(frame, 1)) ELSE wire
        /\ UNCHANGED <<current_data_bit, enabled, emptied, accepted>>
        /\ next_event' = Plus(next_event, BitTicks)
        /\ current_stop_bit' = IF last THEN 0 ELSE current_stop_bit + 1
    BY DEF StopBit, PortOut
  <1>2. parity' = parity /\ stop_bits' = stop_bits  BY DEF Around, config
  <1>3. NumDataBits \in 1 .. 8 /\ BitTicks \in Nat  BY TxAssumption DEF TxAssumption
  <1>4. PICK w : w = FrameOf(parity, stop_bits, uart_data)  OBVIOUS
  <1>5. /\ w \in Seq({0, 1}) /\ Len(w) = 1 + NumDataBits + ParityBits(parity) + stop_bits
        /\ \A k \in 0 .. stop_bits - 1 : w[2 + NumDataBits + ParityBits(parity) + k] = 1
        /\ ParityBits(parity) \in {0, 1} /\ stop_bits \in Nat \ {0}
    BY <1>4, Current
  <1>6. PICK k \in 0 .. stop_bits - 1 : k = current_stop_bit
    BY DEF Types, HandlerTypes
  <1>7. PICK f : f = Append(frame, 1)  OBVIOUS
  <1>8. /\ f \in Seq({0, 1}) /\ Len(f) = 2 + NumDataBits + ParityBits(parity) + k
        /\ \A i \in 1 .. Len(f) : f[i] = w[i]
    <2>1. frame \in Seq({0, 1}) /\ Len(frame) = 1 + NumDataBits + ParityBits(parity) + k
      BY <1>1, <1>6 DEF Types, HandlerTypes, Order, Progress
    <2>2. \A i \in 1 .. Len(frame) : frame[i] = w[i]  BY <1>4 DEF Order, Progress
    <2>3. /\ Len(frame) < Len(w)
          /\ Len(frame) + 1 = 2 + NumDataBits + ParityBits(parity) + k
      BY <1>3, <1>5, <1>6, <2>1
    <2>4. w[Len(frame) + 1] = 1  BY <1>5, <1>6, <2>3
    <2>5. /\ f \in Seq({0, 1}) /\ Len(f) = Len(frame) + 1
          /\ \A i \in 1 .. Len(frame) + 1 : f[i] = w[i]
      BY <1>5, <1>7, <2>1, <2>2, <2>3, <2>4, Longer
    <2>6. QED  BY <2>3, <2>5
  <1>9. next_event' \in 0 .. TimeMod - 1 /\ trigger' \in 0 .. TimeMod - 1
    BY <1>1, TimeTypes
  <1>10. held' \in 0 .. 2 * BitTicks + 1  BY <1>1, <1>3
  <1>11. /\ fifo \in Seq(0 .. 2^NumDataBits - 1) /\ Len(fifo) <= Capacity
         /\ uart_data \in 0 .. 2^NumDataBits - 1
         /\ wire \in Seq(Seq({0, 1})) /\ Len(wire) \in Nat
    BY DEF Types, HandlerTypes
  <1>12. CASE ~last
    <2>1. /\ state' = "STOP" /\ fifo' = fifo /\ uart_data' = uart_data
          /\ wire' = wire /\ frame' = f /\ current_stop_bit' = k + 1
      BY <1>1, <1>6, <1>7, <1>12 DEF StopBit
    <2>2. current_stop_bit' \in 0 .. stop_bits' - 1
      BY <1>2, <1>5, <1>6, <1>12, <2>1
    <2>3. HandlerTypes'
      BY <1>1, <1>8, <1>9, <1>10, <1>11, <2>1, <2>2 DEF Types, HandlerTypes, Around, States
    <2>4. Accounted'
      BY <1>1, <2>1 DEF Order, Accounted, Sending
    <2>5. Progress'
      <3>1. Len(frame') = 1 + NumDataBits + ParityBits(parity') + current_stop_bit'
        BY <1>2, <1>3, <1>5, <1>6, <1>8, <2>1
      <3>2. \A i \in 1 .. Len(frame') : frame'[i] = FrameOf(parity', stop_bits', uart_data')[i]
        BY <1>2, <1>4, <1>8, <2>1
      <3>3. QED  BY <2>1, <3>1, <3>2 DEF Progress
    <2>6. FramesSent'  BY <1>1, <1>2, <2>1 DEF Order, FramesSent
    <2>7. QED  BY <2>3, <2>4, <2>5, <2>6 DEF Order
  <1>13. CASE last
    <2>1. k + 1 = stop_bits  BY <1>6, <1>13
    <2>2. f = w
      <3>1. Len(f) = Len(w)  BY <1>3, <1>5, <1>6, <1>8, <2>1
      <3>2. QED  BY <1>5, <1>8, <3>1, SameLevels
    <2>3. wire' = Append(wire, w) /\ frame' = <<>> /\ current_stop_bit' = 0
      BY <1>1, <1>7, <1>13, <2>2
    <2>4. PICK n \in Nat : n = Len(wire) + 1  BY <1>11
    <2>5. /\ wire' \in Seq(Seq({0, 1})) /\ Len(wire') = n
          /\ wire'[n] = w
          /\ \A i \in 1 .. n - 1 : wire'[i] = wire[i]
      BY <1>5, <1>11, <2>3, <2>4
    <2>6. Sending = 1 /\ Len(fifo) \in Nat  BY <1>1, <1>11 DEF Sending
    <2>7. /\ Len(accepted) = n + Len(fifo)
          /\ \A j \in 1 .. Len(fifo) : fifo[j] = accepted[n + j]
      BY <1>11, <2>4, <2>6 DEF Order, Accounted
    <2>8. /\ state' \in {"IDLE", "START"}
          /\ uart_data' \in 0 .. 2^NumDataBits - 1
          /\ fifo' \in Seq(0 .. 2^NumDataBits - 1) /\ Len(fifo') <= Capacity
          /\ Len(accepted') = n + Sending' + Len(fifo')
          /\ state' # "IDLE" => uart_data' = accepted'[n + 1]
          /\ \A j \in 1 .. Len(fifo') : fifo'[j] = accepted'[n + Sending' + j]
      <3>1. CASE buffered
        <4>1. CharFinished  BY <1>13, <3>1 DEF StopBit
        <4>2. QED  BY <1>1, <2>7, <4>1, NextByte
      <3>2. CASE ~buffered
        <4>1. state' = "IDLE" /\ fifo' = fifo /\ uart_data' = uart_data
          BY <1>13, <3>2 DEF StopBit
        <4>2. Sending' = 0 /\ n + 0 = n  BY <4>1 DEF Sending
        <4>3. QED  BY <1>1, <1>11, <2>7, <4>1, <4>2
      <3>3. QED  BY <3>1, <3>2
    <2>9. HandlerTypes'
      <3>1. current_stop_bit' \in 0 .. stop_bits' - 1  BY <1>2, <1>5, <2>3
      <3>2. frame' \in Seq({0, 1})  BY <2>3
      <3>3. QED
        BY <1>1, <1>9, <1>10, <2>3, <2>5, <2>8, <3>1, <3>2
           DEF Types, HandlerTypes, Around, States
    <2>10. Accounted'  BY <2>5, <2>8 DEF Accounted
    <2>11. Progress'  BY <2>3, <2>8 DEF Progress
    <2>12. FramesSent'
      <3>1. ASSUME NEW i \in 1 .. Len(wire')
            PROVE  wire'[i] = FrameOf(parity', stop_bits', accepted'[i])
        <4>1. CASE i = n
          <5>1. uart_data = accepted[n]  BY <1>1, <2>4 DEF Order, Accounted
          <5>2. QED  BY <1>1, <1>2, <1>4, <2>5, <4>1, <5>1
        <4>2. CASE i # n
          <5>1. i \in 1 .. Len(wire) /\ i \in 1 .. n - 1  BY <1>11, <2>4, <2>5, <4>2
          <5>2. QED  BY <1>1, <1>2, <2>5, <5>1 DEF Order, FramesSent
        <4>3. QED  BY <4>1, <4>2
      <3>2. QED  BY <3>1 DEF FramesSent
    <2>13. QED  BY <2>9, <2>10, <2>11, <2>12 DEF Order
  <1>14. QED  BY <1>12, <1>13

LEMMA IdleKeeps ==
    ASSUME Types, Order, Around, Idle, UNCHANGED accepted
    PROVE  HandlerTypes' /\ Order'
  <1>1. /\ state = "IDLE" /\ CharFinished
        /\ UNCHANGED <<current_data_bit, current_stop_bit, next_event, held, frame, wire>>
        /\ enabled' \in BOOLEAN /\ emptied' \in BOOLEAN
    BY DEF Idle, line
  <1>2. parity' = parity /\ stop_bits' = stop_bits  BY DEF Around, config
  <1>3. PICK n \in Nat : n = Len(wire)  BY DEF Types, HandlerTypes
  <1>4. /\ Len(accepted) = n + Len(fifo)
        /\ \A j \in 1 .. Len(fifo) : fifo[j] = accepted[n + j]
    <2>1. Sending = 0 /\ n + 0 = n  BY <1>1, <1>3 DEF Sending
    <2>2. QED  BY <1>3, <2>1 DEF Order, Accounted
  <1>5. /\ state' \in {"IDLE", "START"}
        /\ uart_data' \in 0 .. 2^NumDataBits - 1
        /\ fifo' \in Seq(0 .. 2^NumDataBits - 1) /\ Len(fifo') <= Capacity
        /\ Len(accepted') = n + Sending' + Len(fifo')
        /\ state' # "IDLE" => uart_data' = accepted'[n + 1]
        /\ \A j \in 1 .. Len(fifo') : fifo'[j] = accepted'[n + Sending' + j]
    BY <1>1, <1>4, NextByte
  <1>6. HandlerTypes'
    <2>1. next_event' \in 0 .. TimeMod - 1 /\ trigger' \in 0 .. TimeMod - 1
      BY <1>1, TimeTypes
    <2>2. current_stop_bit' \in 0 .. stop_bits' - 1 /\ current_stop_bit' = 0
      BY <1>1, <1>2 DEF Types, HandlerTypes
    <2>3. QED  BY <1>1, <1>5, <2>1, <2>2 DEF Types, HandlerTypes, Around, States
  <1>7. Accounted'  BY <1>1, <1>3, <1>5 DEF Accounted
  <1>8. Progress'
    <2>1. Len(frame') = 0  BY <1>1 DEF Order, Progress
    <2>2. QED  BY <1>5, <2>1 DEF Progress
  <1>9. FramesSent'  BY <1>1, <1>2 DEF Order, FramesSent
  <1>10. QED  BY <1>6, <1>7, <1>8, <1>9 DEF Order

\* Accepting a byte leaves the earlier ones where they are.
LEMMA Appended ==
    ASSUME NEW S, NEW q \in Seq(S), NEW v \in S
    PROVE  /\ Append(q, v) \in Seq(S) /\ Len(Append(q, v)) = Len(q) + 1 /\ Len(q) \in Nat
           /\ Append(q, v)[Len(q) + 1] = v
           /\ \A i \in 1 .. Len(q) : Append(q, v)[i] = q[i]
  OBVIOUS

\* A byte that bypasses the empty FIFO of an idle transmitter is the next sent.
LEMMA Bypass ==
    ASSUME Types, Order, state = "IDLE", fifo = <<>>, NEW d \in 0 .. 2^NumDataBits - 1,
           state' = "START", uart_data' = d, accepted' = Append(accepted, d),
           UNCHANGED <<fifo, current_data_bit, current_stop_bit, frame, wire, parity, stop_bits>>
    PROVE  /\ Order'
           /\ accepted' \in Seq(0 .. 2^NumDataBits - 1)
           /\ Len(accepted) = Len(wire)
  <1>1. PICK n \in Nat : n = Len(wire)  BY DEF Types, HandlerTypes
  <1>2. Len(fifo) = 0 /\ Sending = 0 /\ Sending' = 1  BY DEF Sending
  <1>3. Len(accepted) = n  BY <1>1, <1>2 DEF Order, Accounted
  <1>4. accepted \in Seq(0 .. 2^NumDataBits - 1)  BY DEF Types, HandlerTypes
  <1>5. /\ accepted' \in Seq(0 .. 2^NumDataBits - 1) /\ Len(accepted') = n + 1
        /\ accepted'[n + 1] = d
        /\ \A i \in 1 .. n : accepted'[i] = accepted[i]
    BY <1>3, <1>4, Appended
  <1>6. Accounted'
    <2>1. Len(accepted') = Len(wire') + Sending' + Len(fifo')  BY <1>1, <1>2, <1>5
    <2>2. uart_data' = accepted'[Len(wire') + 1]  BY <1>1, <1>5
    <2>3. \A k \in 1 .. Len(fifo') : fifo'[k] = accepted'[Len(wire') + Sending' + k]
      BY <1>2
    <2>4. QED  BY <2>1, <2>2, <2>3 DEF Accounted
  <1>7. Progress'
    <2>1. Len(frame') = 0  BY DEF Order, Progress
    <2>2. QED  BY <2>1 DEF Progress
  <1>8. FramesSent'
    <2>1. ASSUME NEW i \in 1 .. Len(wire') PROVE wire'[i] = FrameOf(parity', stop_bits', accepted'[i])
      <3>1. i \in 1 .. Len(wire) /\ i \in 1 .. n  BY <1>1
      <3>2. wire[i] = FrameOf(parity, stop_bits, accepted[i])  BY <3>1 DEF Order, FramesSent
      <3>3. accepted'[i] = accepted[i]  BY <1>5, <3>1
      <3>4. QED  BY <3>2, <3>3
    <2>2. QED  BY <2>1 DEF FramesSent
  <1>9. QED  BY <1>1, <1>3, <1>5, <1>6, <1>7, <1>8 DEF Order

LEMMA IdleRefillKeeps ==
    ASSUME Types, Order, Around, NEW d \in Data, IdleRefill(d)
    PROVE  HandlerTypes' /\ Order'
  <1>1. /\ state = "IDLE" /\ fifo = <<>> /\ state' = "START"
        /\ uart_data' = d % 2^NumDataBits /\ accepted' = Append(accepted, uart_data')
        /\ UNCHANGED <<fifo, current_data_bit, current_stop_bit, held, frame, wire>>
        /\ enabled' \in BOOLEAN /\ emptied' \in BOOLEAN /\ next_event' = now
    BY DEF IdleRefill, line
  <1>2. parity' = parity /\ stop_bits' = stop_bits  BY DEF Around, config
  <1>3. PICK v \in 0 .. 2^NumDataBits - 1 : v = d % 2^NumDataBits  BY Masked
  <1>4. Order' /\ accepted' \in Seq(0 .. 2^NumDataBits - 1)  BY <1>1, <1>2, <1>3, Bypass
  <1>5. next_event' \in 0 .. TimeMod - 1 /\ trigger' \in 0 .. TimeMod - 1
    BY <1>1, TimeTypes
  <1>6. current_stop_bit' \in 0 .. stop_bits' - 1 /\ current_stop_bit' = 0
    BY <1>1, <1>2 DEF Types, HandlerTypes
  <1>7. HandlerTypes'
    BY <1>1, <1>3, <1>4, <1>5, <1>6 DEF Types, HandlerTypes, Around, States
  <1>8. QED  BY <1>4, <1>7

LEMMA EventKeeps ==
    ASSUME Types, Order, Event
    PROVE  /\ HandlerTypes' /\ Order'
           /\ UNCHANGED <<mode, parity, stop_bits, now>> /\ inHold' \in BOOLEAN
  <1>1. Around
    <2>1. UNCHANGED config /\ trigger' = (IF buffered THEN next_event' ELSE trigger)
      BY DEF Event
    <2>2. straddled' \in BOOLEAN  BY DEF Event
    <2>3. QED  BY <2>1, <2>2 DEF Around
  <1>2. UNCHANGED <<mode, parity, stop_bits, now>> /\ inHold' \in BOOLEAN
    BY DEF Event, config, Types, CallTypes
  <1>3. \/ StartBit /\ UNCHANGED accepted
        \/ SendDataBit /\ UNCHANGED accepted
        \/ SendParityBit /\ UNCHANGED accepted
        \/ StopBit /\ UNCHANGED accepted
        \/ Idle /\ UNCHANGED accepted
        \/ \E d \in Data : IdleRefill(d)
    BY DEF Event
  <1>4. QED
    BY <1>1, <1>2, <1>3, StartBitKeeps, DataBitKeeps, ParityBitKeeps, StopBitKeeps, IdleKeeps,
       IdleRefillKeeps

-----------------------------------------------------------------------------
(* The steps, without the timing.                                          *)

\* What the order of the bytes depends on.
bytes == <<state, uart_data, current_data_bit, current_stop_bit, fifo, frame, wire, accepted,
           parity, stop_bits>>

LEMMA OrderSame == ASSUME Order, UNCHANGED bytes PROVE Order'
  BY DEF Order, bytes, Accounted, Sending, Progress, FramesSent

\* The handler stays out of a kick-off that has been decided.
LEMMA EventCall ==
    ASSUME Types, CallStates, Event, pc \in {"state", "data", "start"}
    PROVE  /\ fifo' = <<>>
           /\ pc \in {"data", "start"} => state' = "IDLE" /\ uart_data' = uart_data
  <1>1. fifo = <<>>  BY DEF CallStates
  <1>2. CharFinished => fifo' = fifo /\ uart_data' = uart_data /\ state' = "IDLE"
    BY <1>1 DEF CharFinished
  <1>3. \/ StartBit \/ SendDataBit \/ SendParityBit \/ StopBit \/ Idle
        \/ \E d \in Data : IdleRefill(d)
    BY DEF Event
  <1>4. ASSUME \E d \in Data : IdleRefill(d) PROVE FALSE
    BY <1>4 DEF IdleRefill
  <1>5. fifo' = fifo
    <2>1. CASE StartBit  BY <2>1 DEF StartBit
    <2>2. CASE SendDataBit  BY <2>2 DEF SendDataBit
    <2>3. CASE SendParityBit  BY <2>3 DEF SendParityBit
    <2>4. CASE StopBit  BY <1>2, <2>4 DEF StopBit
    <2>5. CASE Idle  BY <1>2, <2>5 DEF Idle
    <2>6. QED  BY <1>3, <1>4, <2>1, <2>2, <2>3, <2>4, <2>5
  <1>6. ASSUME pc \in {"data", "start"} PROVE state' = "IDLE" /\ uart_data' = uart_data
    <2>1. state = "IDLE"  BY <1>6 DEF CallStates
    <2>2. Idle
      BY <1>3, <1>4, <2>1 DEF StartBit, SendDataBit, SendParityBit, StopBit
    <2>3. QED  BY <1>2, <2>2 DEF Idle
  <1>7. QED  BY <1>1, <1>5, <1>6

LEMMA BasicsFirst == Init => Basics
  <1>1. SUFFICES ASSUME Init PROVE Basics  OBVIOUS
  <1>2. /\ mode \in Modes /\ state = "IDLE" /\ uart_data = 0
        /\ current_data_bit = 0 /\ current_stop_bit = 0 /\ next_event = 0 /\ trigger = 0
        /\ enabled = FALSE /\ now = 0 /\ pc = "out" /\ arg = 0 /\ spent = 0 /\ due = 0
        /\ held = BitTicks /\ emptied = FALSE /\ inHold = FALSE /\ straddled = FALSE
        /\ fifo = <<>> /\ frame = <<>> /\ wire = <<>> /\ accepted = <<>>
    BY <1>1 DEF Init
  <1>3. PICK f \in Formats : parity = f[1] /\ stop_bits = f[2]  BY <1>1 DEF Init
  <1>4. /\ parity \in {"none", "even", "odd"} /\ stop_bits \in Nat \ {0}
        /\ <<parity, stop_bits>> \in Formats
    <2>1. f \in {"none", "even", "odd"} \X (Nat \ {0})  BY TxAssumption DEF TxAssumption
    <2>2. f = <<parity, stop_bits>>  BY <1>3, <2>1
    <2>3. QED  BY <1>3, <2>1, <2>2
  <1>5. mode \in {"buffered", "timer", "poll"}  BY <1>2, TxAssumption DEF TxAssumption
  <1>6. /\ NumDataBits \in Nat /\ BitTicks \in Nat /\ CallTicks \in Nat
        /\ Capacity \in Nat /\ TimeMod \in Nat \ {0}
    BY ClockRange, TxAssumption DEF TxAssumption
  <1>7. 0 \in 0 .. 2^NumDataBits - 1  BY Masked
  <1>8. Types
    <2>1. /\ current_data_bit \in 0 .. NumDataBits /\ current_stop_bit \in 0 .. stop_bits - 1
          /\ next_event \in 0 .. TimeMod - 1 /\ trigger \in 0 .. TimeMod - 1
          /\ now \in 0 .. TimeMod - 1 /\ spent \in 0 .. CallTicks
          /\ due \in 0 .. TimeMod - 1
          /\ held \in 0 .. 2 * BitTicks + 1
      BY <1>2, <1>4, <1>6
    <2>2. uart_data \in 0 .. 2^NumDataBits - 1 /\ arg \in 0 .. 2^NumDataBits - 1
      BY <1>2, <1>7
    <2>3. /\ fifo \in Seq(0 .. 2^NumDataBits - 1) /\ Len(fifo) <= Capacity
          /\ accepted \in Seq(0 .. 2^NumDataBits - 1)
          /\ frame \in Seq({0, 1}) /\ wire \in Seq(Seq({0, 1}))
      BY <1>2, <1>6
    <2>4. /\ enabled \in BOOLEAN /\ emptied \in BOOLEAN /\ inHold \in BOOLEAN
          /\ straddled \in BOOLEAN
      BY <1>2
    <2>5. state \in States /\ state # "DATA" /\ state # "PARITY"  BY <1>2 DEF States
    <2>6. HandlerTypes  BY <1>2, <2>1, <2>2, <2>3, <2>4, <2>5 DEF HandlerTypes
    <2>7. CallTypes  BY <1>2, <1>4, <1>5, <2>1, <2>2, <2>4 DEF CallTypes
    <2>8. QED  BY <2>6, <2>7 DEF Types
  <1>9. CallStates  BY <1>2 DEF CallStates
  <1>10. Order
    <2>1. /\ Len(fifo) = 0 /\ Len(frame) = 0 /\ Len(wire) = 0 /\ Len(accepted) = 0
          /\ Sending = 0
      BY <1>2 DEF Sending
    <2>2. Accounted  BY <1>2, <2>1 DEF Accounted
    <2>3. Progress  BY <1>2, <2>1 DEF Progress
    <2>4. FramesSent  BY <2>1 DEF FramesSent
    <2>5. QED  BY <2>2, <2>3, <2>4 DEF Order
  <1>11. QED  BY <1>8, <1>9, <1>10 DEF Basics

LEMMA CallKeeps ==
    ASSUME Basics, NEW d \in Data, TxCall(d)
    PROVE  Basics'
  <1>1. /\ pc = "out" /\ arg' = d % 2^NumDataBits /\ spent' = 0
        /\ pc' = IF ~buffered THEN "block" ELSE IF fifo = <<>> THEN "state" ELSE "push"
        /\ UNCHANGED <<mode, parity, stop_bits, state, uart_data, current_data_bit,
                       current_stop_bit, next_event, fifo, trigger, enabled, now, held, frame,
                       wire, accepted, emptied, inHold, straddled, due>>
    BY DEF TxCall, config, uart, timer, line, app
  <1>2. arg' \in 0 .. 2^NumDataBits - 1  BY <1>1, Masked
  <1>3. spent' \in 0 .. CallTicks  BY <1>1, ClockRange
  <1>4. Types'
    <2>1. HandlerTypes'  BY <1>1 DEF Basics, Types, HandlerTypes
    <2>2. CallTypes'  BY <1>1, <1>2, <1>3 DEF Basics, Types, CallTypes
    <2>3. QED  BY <2>1, <2>2 DEF Types
  <1>5. CallStates'
    <2>1. /\ ~buffered => pc' = "block"
          /\ buffered => pc' \in {"state", "push"}
          /\ pc' = "state" => fifo = <<>>
          /\ buffered' = buffered
      BY <1>1 DEF buffered
    <2>2. QED  BY <1>1, <2>1 DEF Basics, CallStates
  <1>6. Order'  BY <1>1, OrderSame DEF Basics, bytes
  <1>7. QED  BY <1>4, <1>5, <1>6 DEF Basics

LEMMA StateKeeps == ASSUME Basics, TxState PROVE Basics'
  <1>1. /\ pc = "state" /\ pc' = IF state = "IDLE" THEN "data" ELSE "push"
        /\ inHold' = (inHold \/ (state = "IDLE" /\ enabled))
        /\ UNCHANGED <<mode, parity, stop_bits, state, uart_data, current_data_bit,
                       current_stop_bit, next_event, fifo, trigger, enabled, now, held, frame,
                       wire, accepted, emptied, straddled, arg, spent, due>>
    BY DEF TxState, Goto, GotoWith, config, uart, timer, line
  <1>2. Types'
    <2>1. HandlerTypes'  BY <1>1 DEF Basics, Types, HandlerTypes
    <2>2. inHold' \in BOOLEAN  BY <1>1 DEF Basics, Types, CallTypes
    <2>3. pc' \in {"data", "push"}  BY <1>1
    <2>4. CallTypes'  BY <1>1, <2>2, <2>3 DEF Basics, Types, CallTypes
    <2>5. QED  BY <2>1, <2>4 DEF Types
  <1>3. CallStates'
    <2>1. buffered' = buffered  BY <1>1 DEF buffered
    <2>2. buffered /\ fifo = <<>>  BY <1>1 DEF Basics, CallStates
    <2>3. pc' \in {"data", "push"} /\ (pc' = "data" => state = "IDLE")  BY <1>1
    <2>4. QED  BY <1>1, <2>1, <2>2, <2>3 DEF CallStates
  <1>4. Order'  BY <1>1, OrderSame DEF Basics, bytes
  <1>5. QED  BY <1>2, <1>3, <1>4 DEF Basics

LEMMA PushKeeps == ASSUME Basics, TxPush PROVE Basics'
  <1>1. /\ pc = "push" /\ pc' = "out"
        /\ UNCHANGED <<mode, parity, stop_bits, state, uart_data, current_data_bit,
                       current_stop_bit, next_event, trigger, enabled, now, held, frame,
                       wire, arg, spent, due>>
    BY DEF TxPush, Goto, GotoWith, config, uart, timer, line
  <1>2. CallStates'
    <2>1. buffered' = buffered  BY <1>1 DEF buffered
    <2>2. buffered  BY <1>1 DEF Basics, CallStates
    <2>3. QED  BY <1>1, <2>1, <2>2 DEF CallStates
  <1>3. CallTypes'
    <2>1. inHold' = inHold  BY DEF TxPush, app
    <2>2. QED  BY <1>1, <2>1 DEF Basics, Types, CallTypes
  <1>4. CASE Len(fifo) < Capacity
    <2>1. /\ fifo' = Append(fifo, arg) /\ accepted' = Append(accepted, arg)
          /\ emptied' = FALSE /\ straddled' = straddled
      BY <1>4 DEF TxPush
    <2>2. PICK n \in Nat : n = Len(fifo)  BY DEF Basics, Types, HandlerTypes
    <2>3. PICK m \in Nat : m = Len(wire) + Sending
      BY DEF Basics, Types, HandlerTypes, Sending
    <2>4. /\ fifo \in Seq(0 .. 2^NumDataBits - 1) /\ accepted \in Seq(0 .. 2^NumDataBits - 1)
          /\ arg \in 0 .. 2^NumDataBits - 1
      BY DEF Basics, Types, HandlerTypes, CallTypes
    <2>5. /\ Len(accepted) = m + n
          /\ \A k \in 1 .. n : fifo[k] = accepted[m + k]
      BY <2>2, <2>3 DEF Basics, Order, Accounted
    <2>6. /\ fifo' \in Seq(0 .. 2^NumDataBits - 1) /\ Len(fifo') = n + 1
          /\ fifo'[n + 1] = arg
          /\ \A k \in 1 .. n : fifo'[k] = fifo[k]
      BY <2>1, <2>2, <2>4, Appended
    <2>7. /\ accepted' \in Seq(0 .. 2^NumDataBits - 1) /\ Len(accepted') = m + n + 1
          /\ accepted'[m + n + 1] = arg
          /\ \A k \in 1 .. m + n : accepted'[k] = accepted[k]
      BY <2>1, <2>4, <2>5, Appended
    <2>8. Len(fifo') <= Capacity
      BY <1>4, <2>2, <2>6, TxAssumption DEF TxAssumption
    <2>9. HandlerTypes'
      BY <1>1, <2>1, <2>6, <2>7, <2>8 DEF Basics, Types, HandlerTypes
    <2>10. Sending' = Sending /\ Len(wire) \in Nat /\ Sending \in {0, 1}
      BY <1>1 DEF Sending, Basics, Types, HandlerTypes
    <2>11. Accounted'
      <3>1. Len(accepted') = Len(wire') + Sending' + Len(fifo')
        BY <1>1, <2>3, <2>6, <2>7, <2>10
      <3>2. state' # "IDLE" => uart_data' = accepted'[Len(wire') + 1]
        <4>1. ASSUME state # "IDLE" PROVE uart_data = accepted'[Len(wire) + 1]
          <5>1. uart_data = accepted[Len(wire) + 1]
            BY <4>1 DEF Basics, Order, Accounted
          <5>2. Sending = 1  BY <4>1 DEF Sending
          <5>3. Len(wire) + 1 \in 1 .. m + n  BY <2>3, <2>10, <5>2
          <5>4. QED  BY <2>7, <5>1, <5>3
        <4>2. QED  BY <1>1, <4>1
      <3>3. ASSUME NEW k \in 1 .. Len(fifo')
            PROVE  fifo'[k] = accepted'[Len(wire') + Sending' + k]
        <4>1. Len(wire') + Sending' + k = m + k  BY <1>1, <2>3, <2>10
        <4>2. CASE k = n + 1
          <5>1. m + k = m + n + 1  BY <4>2
          <5>2. QED  BY <2>6, <2>7, <4>1, <4>2, <5>1
        <4>3. CASE k # n + 1
          <5>1. k \in 1 .. n /\ m + k \in 1 .. m + n  BY <2>6, <4>3
          <5>2. QED  BY <2>5, <2>6, <2>7, <4>1, <5>1
        <4>4. QED  BY <4>2, <4>3
      <3>4. QED  BY <3>1, <3>2, <3>3 DEF Accounted
    <2>12. Progress'  BY <1>1 DEF Basics, Order, Progress
    <2>13. FramesSent'
      <3>1. ASSUME NEW i \in 1 .. Len(wire')
            PROVE  wire'[i] = FrameOf(parity', stop_bits', accepted'[i])
        <4>1. i \in 1 .. Len(wire) /\ i \in 1 .. m + n  BY <1>1, <2>3, <2>10
        <4>2. wire[i] = FrameOf(parity, stop_bits, accepted[i])
          BY <4>1 DEF Basics, Order, FramesSent
        <4>3. accepted'[i] = accepted[i]  BY <2>7, <4>1
        <4>4. QED  BY <1>1, <4>2, <4>3
      <3>2. QED  BY <3>1 DEF FramesSent
    <2>14. QED
      BY <1>2, <1>3, <2>9, <2>11, <2>12, <2>13 DEF Basics, Types, Order
  <1>5. CASE ~(Len(fifo) < Capacity)
    <2>1. UNCHANGED <<fifo, accepted, emptied, straddled>>  BY <1>5 DEF TxPush, app
    <2>2. HandlerTypes'  BY <1>1, <2>1 DEF Basics, Types, HandlerTypes
    <2>3. Order'  BY <1>1, <2>1, OrderSame DEF Basics, bytes
    <2>4. QED  BY <1>2, <1>3, <2>2, <2>3 DEF Basics, Types
  <1>6. QED  BY <1>4, <1>5

LEMMA DataKeeps == ASSUME Basics, TxData PROVE Basics'
  <1>1. /\ pc = "data" /\ pc' = "start" /\ uart_data' = arg
        /\ UNCHANGED <<mode, parity, stop_bits, state, current_data_bit, current_stop_bit,
                       next_event, fifo, trigger, enabled, now, held, frame, wire, accepted,
                       emptied, inHold, straddled, arg, spent, due>>
    BY DEF TxData, Goto, GotoWith, config, timer, line, app
  <1>2. state = "IDLE" /\ fifo = <<>> /\ buffered /\ buffered' = buffered
    BY <1>1 DEF Basics, CallStates, buffered
  <1>3. Types'
    <2>1. uart_data' \in 0 .. 2^NumDataBits - 1  BY <1>1 DEF Basics, Types, CallTypes
    <2>2. HandlerTypes'  BY <1>1, <2>1 DEF Basics, Types, HandlerTypes
    <2>3. CallTypes'  BY <1>1 DEF Basics, Types, CallTypes
    <2>4. QED  BY <2>2, <2>3 DEF Types
  <1>4. CallStates'  BY <1>1, <1>2 DEF CallStates
  <1>5. Order'
    <2>1. Accounted'  BY <1>1, <1>2 DEF Basics, Order, Accounted, Sending
    <2>2. Len(frame') = 0  BY <1>1, <1>2 DEF Basics, Order, Progress
    <2>3. Progress'  BY <1>1, <1>2, <2>2 DEF Progress
    <2>4. FramesSent'  BY <1>1 DEF Basics, Order, FramesSent
    <2>5. QED  BY <2>1, <2>3, <2>4 DEF Order
  <1>6. QED  BY <1>3, <1>4, <1>5 DEF Basics

LEMMA StartKeeps == ASSUME Basics, TxStart PROVE Basics'
  <1>1. /\ pc = "start" /\ pc' = "time" /\ state' = "START"
        /\ accepted' = Append(accepted, arg) /\ emptied' = FALSE
        /\ UNCHANGED <<mode, parity, stop_bits, uart_data, current_data_bit, current_stop_bit,
                       next_event, fifo, trigger, enabled, now, held, frame, wire,
                       inHold, straddled, arg, spent, due>>
    BY DEF TxStart, Goto, GotoWith, config, timer, line
  <1>2. /\ state = "IDLE" /\ fifo = <<>> /\ uart_data = arg
        /\ buffered /\ buffered' = buffered
    BY <1>1 DEF Basics, CallStates, buffered
  <1>3. PICK d \in 0 .. 2^NumDataBits - 1 : d = arg  BY DEF Basics, Types, CallTypes
  <1>4. Order' /\ accepted' \in Seq(0 .. 2^NumDataBits - 1)
    BY <1>1, <1>2, <1>3, Bypass DEF Basics
  <1>5. Types'
    <2>1. current_stop_bit' = 0 /\ state' \in States
      BY <1>1, <1>2 DEF Basics, Types, HandlerTypes, States
    <2>2. HandlerTypes'  BY <1>1, <1>4, <2>1 DEF Basics, Types, HandlerTypes
    <2>3. CallTypes'  BY <1>1 DEF Basics, Types, CallTypes
    <2>4. QED  BY <2>2, <2>3 DEF Types
  <1>6. CallStates'  BY <1>1, <1>2 DEF CallStates
  <1>7. QED  BY <1>4, <1>5, <1>6 DEF Basics

LEMMA TimeKeeps == ASSUME Basics, TxTime PROVE Basics'
  <1>1. /\ pc = "time" /\ pc' = "stamp" /\ due' = now
        /\ UNCHANGED <<mode, parity, stop_bits, state, uart_data, current_data_bit,
                       current_stop_bit, next_event, fifo, trigger, enabled, now, held,
                       frame, wire, accepted, emptied, inHold, straddled, arg, spent>>
    BY DEF TxTime, GotoWith, config, uart, timer, line, app
  <1>2. Types'
    <2>1. HandlerTypes'  BY <1>1 DEF Basics, Types, HandlerTypes
    <2>2. CallTypes'  BY <1>1 DEF Basics, Types, CallTypes
    <2>3. QED  BY <2>1, <2>2 DEF Types
  <1>3. CallStates'  BY <1>1 DEF Basics, CallStates, buffered
  <1>4. Order'  BY <1>1, OrderSame DEF Basics, bytes
  <1>5. QED  BY <1>2, <1>3, <1>4 DEF Basics

LEMMA StampKeeps == ASSUME Basics, TxStamp PROVE Basics'
  <1>1. /\ pc = "stamp" /\ pc' = "load" /\ next_event' = due
        /\ UNCHANGED <<mode, parity, stop_bits, state, uart_data, current_data_bit,
                       current_stop_bit, fifo, trigger, enabled, now, held, frame, wire,
                       accepted, emptied, inHold, straddled, arg, spent, due>>
    BY DEF TxStamp, Goto, GotoWith, config, timer, line, app
  <1>2. Types'
    <2>1. next_event' \in 0 .. TimeMod - 1  BY <1>1 DEF Basics, Types, CallTypes
    <2>2. HandlerTypes'  BY <1>1, <2>1 DEF Basics, Types, HandlerTypes
    <2>3. CallTypes'  BY <1>1 DEF Basics, Types, CallTypes
    <2>4. QED  BY <2>2, <2>3 DEF Types
  <1>3. CallStates'  BY <1>1 DEF Basics, CallStates, buffered
  <1>4. Order'  BY <1>1, OrderSame DEF Basics, bytes
  <1>5. QED  BY <1>2, <1>3, <1>4 DEF Basics

LEMMA LoadKeeps == ASSUME Basics, TxLoad PROVE Basics'
  <1>1. /\ pc = "load" /\ pc' = "trigger" /\ due' \in {due, next_event}
        /\ UNCHANGED <<mode, parity, stop_bits, state, uart_data, current_data_bit,
                       current_stop_bit, next_event, fifo, trigger, enabled, now, held,
                       frame, wire, accepted, emptied, inHold, straddled, arg, spent>>
    BY DEF TxLoad, GotoWith, config, uart, timer, line, app
  <1>2. Types'
    <2>1. due' \in 0 .. TimeMod - 1
      BY <1>1 DEF Basics, Types, HandlerTypes, CallTypes
    <2>2. HandlerTypes'  BY <1>1 DEF Basics, Types, HandlerTypes
    <2>3. CallTypes'  BY <1>1, <2>1 DEF Basics, Types, CallTypes
    <2>4. QED  BY <2>2, <2>3 DEF Types
  <1>3. CallStates'  BY <1>1 DEF Basics, CallStates, buffered
  <1>4. Order'  BY <1>1, OrderSame DEF Basics, bytes
  <1>5. QED  BY <1>2, <1>3, <1>4 DEF Basics

LEMMA TriggerKeeps == ASSUME Basics, TxTrigger PROVE Basics'
  <1>1. /\ pc = "trigger" /\ pc' = "enable" /\ trigger' = due /\ due' = 0
        /\ UNCHANGED <<mode, parity, stop_bits, state, uart_data, current_data_bit,
                       current_stop_bit, next_event, fifo, enabled, now, held, frame, wire,
                       accepted, emptied, inHold, straddled, arg, spent>>
    BY DEF TxTrigger, GotoWith, config, uart, line, app
  <1>2. Types'
    <2>1. trigger' \in 0 .. TimeMod - 1  BY <1>1 DEF Basics, Types, CallTypes
    <2>2. due' \in 0 .. TimeMod - 1  BY <1>1, ClockRange
    <2>3. HandlerTypes'  BY <1>1, <2>1 DEF Basics, Types, HandlerTypes
    <2>4. CallTypes'  BY <1>1, <2>2 DEF Basics, Types, CallTypes
    <2>5. QED  BY <2>3, <2>4 DEF Types
  <1>3. CallStates'  BY <1>1 DEF Basics, CallStates, buffered
  <1>4. Order'  BY <1>1, OrderSame DEF Basics, bytes
  <1>5. QED  BY <1>2, <1>3, <1>4 DEF Basics

LEMMA EnableKeeps == ASSUME Basics, TxEnable PROVE Basics'
  <1>1. /\ pc = "enable" /\ pc' = "out" /\ enabled' = TRUE
        /\ UNCHANGED <<mode, parity, stop_bits, state, uart_data, current_data_bit,
                       current_stop_bit, next_event, trigger, fifo, now, held, frame, wire,
                       accepted, emptied, inHold, straddled, arg, spent, due>>
    BY DEF TxEnable, Goto, GotoWith, config, uart, line, app
  <1>2. Types'
    <2>1. HandlerTypes'  BY <1>1 DEF Basics, Types, HandlerTypes
    <2>2. CallTypes'  BY <1>1 DEF Basics, Types, CallTypes
    <2>3. QED  BY <2>1, <2>2 DEF Types
  <1>3. buffered /\ buffered' = buffered  BY <1>1 DEF Basics, CallStates, buffered
  <1>4. CallStates'  BY <1>1, <1>3 DEF CallStates
  <1>5. Order'  BY <1>1, OrderSame DEF Basics, bytes
  <1>6. QED  BY <1>2, <1>4, <1>5 DEF Basics

LEMMA BlockKeeps == ASSUME Basics, TxBlock PROVE Basics'
  <1>1. /\ pc = "block" /\ pc' = "handle" /\ state' = "START" /\ uart_data' = arg
        /\ accepted' = Append(accepted, arg)
        /\ UNCHANGED <<mode, parity, stop_bits, current_data_bit, current_stop_bit,
                       next_event, fifo, trigger, enabled, now, held, frame, wire,
                       emptied, inHold, straddled, arg, spent, due>>
    BY DEF TxBlock, Goto, GotoWith, config, timer, line
  <1>2. /\ state = "IDLE" /\ fifo = <<>> /\ enabled = FALSE
        /\ ~buffered /\ buffered' = buffered
    BY <1>1 DEF Basics, CallStates, buffered
  <1>3. PICK d \in 0 .. 2^NumDataBits - 1 : d = arg  BY DEF Basics, Types, CallTypes
  <1>4. Order' /\ accepted' \in Seq(0 .. 2^NumDataBits - 1)
    BY <1>1, <1>2, <1>3, Bypass DEF Basics
  <1>5. Types'
    <2>1. current_stop_bit' = 0 /\ state' \in States
      BY <1>1, <1>2 DEF Basics, Types, HandlerTypes, States
    <2>2. HandlerTypes'  BY <1>1, <1>3, <1>4, <2>1 DEF Basics, Types, HandlerTypes
    <2>3. CallTypes'  BY <1>1 DEF Basics, Types, CallTypes
    <2>4. QED  BY <2>2, <2>3 DEF Types
  <1>6. CallStates'  BY <1>1, <1>2 DEF CallStates
  <1>7. QED  BY <1>4, <1>5, <1>6 DEF Basics

LEMMA HandleKeeps == ASSUME Basics, TxHandle PROVE Basics'
  <1>1. pc = "handle" /\ pc' = "sleep" /\ Event /\ arg' = arg /\ spent' = spent /\ due' = due
    BY DEF TxHandle
  <1>2. /\ HandlerTypes' /\ Order'
        /\ UNCHANGED <<mode, parity, stop_bits, now>> /\ inHold' \in BOOLEAN
    BY <1>1, EventKeeps DEF Basics
  <1>3. CallTypes'  BY <1>1, <1>2 DEF Basics, Types, CallTypes
  <1>4. ~buffered /\ buffered' = buffered /\ state # "IDLE" /\ fifo = <<>> /\ enabled = FALSE
    BY <1>1, <1>2 DEF Basics, CallStates, buffered
  <1>5. fifo' = <<>> /\ enabled' = FALSE
    <2>1. StartBit \/ SendDataBit \/ SendParityBit \/ StopBit
      BY <1>1, <1>4 DEF Event, Idle, IdleRefill
    <2>2. CASE StartBit  BY <1>4, <2>2 DEF StartBit
    <2>3. CASE SendDataBit  BY <1>4, <2>3 DEF SendDataBit
    <2>4. CASE SendParityBit  BY <1>4, <2>4 DEF SendParityBit
    <2>5. CASE StopBit  BY <1>4, <2>5 DEF StopBit
    <2>6. QED  BY <2>1, <2>2, <2>3, <2>4, <2>5
  <1>6. CallStates'  BY <1>1, <1>4, <1>5 DEF CallStates
  <1>7. QED  BY <1>2, <1>3, <1>6 DEF Basics, Types

LEMMA WakeKeeps == ASSUME Basics, TxWake PROVE Basics'
  <1>1. /\ pc = "sleep" /\ pc' = IF state = "IDLE" THEN "out" ELSE "handle"
        /\ UNCHANGED <<mode, parity, stop_bits, state, uart_data, current_data_bit,
                       current_stop_bit, next_event, trigger, enabled, fifo, now, held, frame,
                       wire, accepted, emptied, inHold, straddled, arg, spent, due>>
    BY DEF TxWake, Goto, GotoWith, config, uart, timer, line, app
  <1>2. Types'
    <2>1. HandlerTypes'  BY <1>1 DEF Basics, Types, HandlerTypes
    <2>2. CallTypes'  BY <1>1 DEF Basics, Types, CallTypes
    <2>3. QED  BY <2>1, <2>2 DEF Types
  <1>3. ~buffered /\ buffered' = buffered /\ fifo = <<>> /\ enabled = FALSE
    BY <1>1 DEF Basics, CallStates, buffered
  <1>4. CallStates'  BY <1>1, <1>3 DEF CallStates
  <1>5. Order'  BY <1>1, OrderSame DEF Basics, bytes
  <1>6. QED  BY <1>2, <1>4, <1>5 DEF Basics

LEMMA IsrKeeps == ASSUME Basics, Isr PROVE Basics'
  <1>1. buffered /\ Event /\ pc' = pc /\ arg' = arg /\ spent' = spent /\ due' = due
    BY DEF Isr, IsrDue, call
  <1>2. /\ HandlerTypes' /\ Order'
        /\ UNCHANGED <<mode, parity, stop_bits, now>> /\ inHold' \in BOOLEAN
    BY <1>1, EventKeeps DEF Basics
  <1>3. CallTypes'  BY <1>1, <1>2 DEF Basics, Types, CallTypes
  <1>4. buffered' = buffered  BY <1>2 DEF buffered
  <1>5. CallStates'
    <2>1. pc \in {"state", "data", "start"} =>
             /\ fifo' = <<>>
             /\ pc \in {"data", "start"} => state' = "IDLE" /\ uart_data' = uart_data
      BY <1>1, EventCall DEF Basics
    <2>2. QED  BY <1>1, <1>4, <2>1 DEF Basics, CallStates
  <1>6. QED  BY <1>2, <1>3, <1>5 DEF Basics, Types

LEMMA TickKeeps == ASSUME Basics, Tick PROVE Basics'
  <1>1. /\ now' = Plus(now, 1)
        /\ held' = IF held > 2 * BitTicks THEN held ELSE held + 1
        /\ spent' = IF pc # "out" /\ buffered THEN spent + 1 ELSE 0
        /\ UNCHANGED <<mode, parity, stop_bits, state, uart_data, current_data_bit,
                       current_stop_bit, next_event, trigger, enabled, fifo, pc, frame,
                       wire, accepted, emptied, inHold, straddled, arg, due>>
    BY DEF Tick, config, uart, timer, app
  <1>2. held' \in 0 .. 2 * BitTicks + 1
    <2>1. held \in 0 .. 2 * BitTicks + 1 /\ BitTicks \in Nat
      BY ClockRange DEF Basics, Types, HandlerTypes
    <2>2. QED  BY <1>1, <2>1
  <1>3. now' \in 0 .. TimeMod - 1
    <2>1. now \in Int /\ 1 \in Int  BY ClockRange DEF Basics, Types, CallTypes
    <2>2. QED  BY <1>1, <2>1, PlusType
  <1>4. spent' \in 0 .. CallTicks
    <2>1. spent \in 0 .. CallTicks /\ CallTicks \in Nat
      BY ClockRange DEF Basics, Types, CallTypes
    <2>2. pc # "out" /\ buffered => spent < CallTicks
      BY DEF Tick, Basics, CallStates
    <2>3. QED  BY <1>1, <2>1, <2>2
  <1>5. Types'
    <2>1. HandlerTypes'  BY <1>1, <1>2 DEF Basics, Types, HandlerTypes
    <2>2. CallTypes'  BY <1>1, <1>3, <1>4 DEF Basics, Types, CallTypes
    <2>3. QED  BY <2>1, <2>2 DEF Types
  <1>6. CallStates'  BY <1>1 DEF Basics, CallStates, buffered
  <1>7. Order'  BY <1>1, OrderSame DEF Basics, bytes
  <1>8. QED  BY <1>5, <1>6, <1>7 DEF Basics

LEMMA BasicsStep == Basics /\ [Next]_vars => Basics'
  <1> SUFFICES ASSUME Basics, [Next]_vars PROVE Basics'
    OBVIOUS
  <1>1. CASE UNCHANGED vars
    <2>1. UNCHANGED <<mode, parity, stop_bits, state, uart_data, current_data_bit,
                     current_stop_bit, next_event, trigger, enabled, fifo, pc, frame,
                     wire, accepted, emptied, inHold, straddled, arg, spent, due, now, held>>
      BY <1>1 DEF vars, config, uart, timer, call, line, app
    <2>2. Types'  BY <2>1 DEF Basics, Types, HandlerTypes, CallTypes
    <2>3. CallStates'  BY <2>1 DEF Basics, CallStates, buffered
    <2>4. Order'  BY <2>1, OrderSame DEF Basics, bytes
    <2>5. QED  BY <2>2, <2>3, <2>4 DEF Basics
  <1>2. CASE Next
    BY <1>2, CallKeeps, StateKeeps, PushKeeps, DataKeeps, StartKeeps, TimeKeeps, StampKeeps,
       LoadKeeps, TriggerKeeps, EnableKeeps, BlockKeeps, HandleKeeps, WakeKeeps, IsrKeeps, TickKeeps
       DEF Next, Thread
  <1>3. QED  BY <1>1, <1>2

-----------------------------------------------------------------------------
(* The theorems of order.                                                  *)

\* In every mode, and whatever the interrupts: every byte accepted is on the wire,
\* in the frame being sent or in the FIFO.
THEOREM BasicInvariance == Spec => []Basics
  <1>1. QED  BY BasicsFirst, BasicsStep, PTL DEF Spec

\* Every variable keeps its type.
THEOREM TypeCorrect == Spec => []TypeOK
  <1>1. Basics => TypeOK
    BY DEF Basics, Types, HandlerTypes, CallTypes, TypeOK
  <1>2. QED  BY <1>1, BasicInvariance, PTL

\* The line carries the frames of the accepted bytes, in their order.
THEOREM WireCorrect == Spec => []WireCarriesAccepted
  <1>1. Basics => WireCarriesAccepted
    <2> SUFFICES ASSUME Basics PROVE WireCarriesAccepted
      OBVIOUS
    <2>1. PICK n \in Nat : n = Len(wire)  BY DEF Basics, Types, HandlerTypes
    <2>2. Len(accepted) = n + Sending + Len(fifo) /\ Len(fifo) \in Nat /\ Sending \in {0, 1}
      BY <2>1 DEF Basics, Types, HandlerTypes, Order, Accounted, Sending
    <2>3. \A d : Frame(d) = FrameOf(parity, stop_bits, d)
      BY DEF Frame, FrameOf, ParityOf
    <2>4. \A i \in 1 .. Len(wire) : wire[i] = Frame(accepted[i])
      BY <2>3 DEF Basics, Order, FramesSent
    <2>5. ASSUME frame # <<>>
          PROVE  Len(wire) < Len(accepted) /\ IsPrefix(frame, Frame(accepted[Len(wire) + 1]))
      <3>1. frame \in Seq({0, 1}) /\ Len(frame) \in Nat \ {0}
        BY <2>5 DEF Basics, Types, HandlerTypes
      <3>2. state # "IDLE"  BY <3>1 DEF Basics, Order, Progress
      <3>3. Sending = 1 /\ uart_data = accepted[Len(wire) + 1]
        BY <3>2 DEF Sending, Basics, Order, Accounted
      <3>4. Len(wire) < Len(accepted)  BY <2>1, <2>2, <3>3
      <3>5. PICK w : w = FrameOf(parity, stop_bits, uart_data)  OBVIOUS
      <3>6. /\ w \in Seq({0, 1})
            /\ Len(w) = 1 + NumDataBits + ParityBits(parity) + stop_bits
            /\ ParityBits(parity) \in {0, 1} /\ stop_bits \in Nat \ {0}
        BY <3>5, Current DEF Basics
      <3>7. \A i \in 1 .. Len(frame) : frame[i] = w[i]  BY <3>5 DEF Basics, Order, Progress
      <3>8. Len(frame) <= Len(w)
        <4>1. /\ state = "START" => Len(frame) = 0
              /\ state = "DATA" => Len(frame) = 1 + current_data_bit
              /\ state = "PARITY" => Len(frame) = 1 + NumDataBits
              /\ state = "STOP" =>
                    Len(frame) = 1 + NumDataBits + ParityBits(parity) + current_stop_bit
          BY DEF Basics, Order, Progress
        <4>2. /\ current_data_bit \in 0 .. NumDataBits /\ NumDataBits \in Nat
              /\ current_stop_bit \in 0 .. stop_bits - 1
          BY TxAssumption DEF TxAssumption, Basics, Types, HandlerTypes
        <4>3. state \in {"START", "DATA", "PARITY", "STOP"}
          BY <3>2 DEF Basics, Types, HandlerTypes, States
        <4>4. QED  BY <3>6, <4>1, <4>2, <4>3
      <3>9. IsPrefix(frame, w)  BY <3>1, <3>6, <3>7, <3>8 DEF IsPrefix
      <3>10. w = Frame(accepted[Len(wire) + 1])  BY <2>3, <3>3, <3>5
      <3>11. QED  BY <3>4, <3>9, <3>10
    <2>6. Len(wire) <= Len(accepted)  BY <2>1, <2>2
    <2>7. QED  BY <2>4, <2>5, <2>6 DEF WireCarriesAccepted
  <1>2. QED  BY <1>1, BasicInvariance, PTL

-----------------------------------------------------------------------------
(* The timing of the buffered mode, for calls that take less than a bit.   *)

\* When the handler runs, and how late it may be in each state.
LEMMA DueWhen ==
    ASSUME Basics, Timing, CallTicks < BitTicks, IsrDue
    PROVE  /\ state = "IDLE" => pc \in Quiet /\ held = BitTicks /\ trigger = next_event
           /\ state \notin {"IDLE", "START"} =>
                 /\ pc \in Quiet \union {"enable"}
                 /\ pc = "enable" => Early
                 /\ trigger = next_event \/ (Early /\ held <= CallTicks)
                 /\ \E off \in (IF Early THEN -CallTicks .. BitTicks ELSE 0 .. 0) :
                       /\ At(next_event, off)
                       /\ pc = "enable" => off >= -spent
  <1>1. /\ buffered /\ enabled /\ After(now, trigger) /\ Settled /\ KickingOff
    BY DEF IsrDue, Timing
  <1>2. /\ now \in 0 .. TimeMod - 1 /\ spent \in 0 .. CallTicks
        /\ held \in 0 .. 2 * BitTicks + 1
        /\ BitTicks \in Nat \ {0} /\ CallTicks \in Nat
    BY ClockRange DEF Basics, Types, HandlerTypes, CallTypes
  <1>3. \A off \in -CallTicks .. 2 * BitTicks : At(trigger, off) => off <= 0
    BY <1>1, <1>2, Due DEF At
  <1>4. pc \in Quiet \union Kicking \union {"enable"}
    BY <1>1 DEF Basics, Types, CallTypes, CallStates, Quiet, Kicking
  <1>5. ASSUME state = "IDLE"
        PROVE  pc \in Quiet /\ held = BitTicks /\ trigger = next_event
    <2>1. pc \in Quiet  BY <1>1, <1>4, <1>5 DEF KickingOff, Early
    <2>2. trigger = next_event /\ held <= BitTicks /\ At(trigger, BitTicks - held)
      BY <1>1, <1>5, <2>1 DEF Settled, Overtaken
    <2>3. BitTicks - held \in -CallTicks .. 2 * BitTicks  BY <1>2, <2>2
    <2>4. BitTicks - held <= 0  BY <1>3, <2>2, <2>3
    <2>5. QED  BY <1>2, <2>1, <2>2, <2>4
  \* Overtaken, the next event is what is left of the start bit ahead.
  <1>6. ASSUME NEW late \in 0 .. CallTicks, Overtaken(late)
        PROVE  /\ Early /\ held <= CallTicks
               /\ \E off \in -CallTicks .. BitTicks : At(next_event, off) /\ off >= 0
    <2>1. Early /\ held <= late /\ At(next_event, BitTicks - held)
      BY <1>6 DEF Overtaken, Early
    <2>2. held <= CallTicks /\ BitTicks - held \in -CallTicks .. BitTicks
          /\ BitTicks - held >= 0
      BY <1>2, <1>6, <2>1
    <2>3. QED  BY <2>1, <2>2
  <1>7. ASSUME state \notin {"IDLE", "START"}
        PROVE  /\ pc \in Quiet \union {"enable"}
               /\ pc = "enable" => Early
               /\ trigger = next_event \/ (Early /\ held <= CallTicks)
               /\ \E off \in (IF Early THEN -CallTicks .. BitTicks ELSE 0 .. 0) :
                     /\ At(next_event, off)
                     /\ pc = "enable" => off >= -spent
    <2>1. ASSUME pc \in Kicking PROVE FALSE
      <3>1. held <= spent /\ At(trigger, BitTicks - held)
        BY <1>1, <1>7, <2>1 DEF KickingOff, Early
      <3>2. BitTicks - held \in -CallTicks .. 2 * BitTicks /\ BitTicks - held > 0
        BY <1>2, <3>1
      <3>3. QED  BY <1>2, <1>3, <3>1, <3>2
    <2>2. CASE pc = "enable"
      <3>1. PICK off \in (IF Early THEN -spent .. BitTicks
                         ELSE BitTicks - spent .. 2 * BitTicks) :
               At(trigger, off)
        BY <1>1, <2>2 DEF KickingOff
      <3>2. off \in -CallTicks .. 2 * BitTicks /\ off >= -spent
            /\ (~Early => off >= BitTicks - spent)
        BY <1>2, <3>1
      <3>3. off <= 0  BY <1>3, <3>1, <3>2
      <3>4. Early  BY <1>2, <3>2, <3>3
      <3>5. off \in -CallTicks .. BitTicks  BY <1>2, <3>2, <3>3
      <3>6. CASE trigger = next_event  BY <2>2, <3>1, <3>2, <3>4, <3>5, <3>6
      <3>7. CASE trigger # next_event
        <4>1. Overtaken(spent)  BY <1>1, <2>2, <3>7 DEF KickingOff
        <4>2. /\ Early /\ held <= CallTicks
              /\ \E o \in -CallTicks .. BitTicks : At(next_event, o) /\ o >= 0
          BY <1>2, <1>6, <4>1
        <4>3. PICK o \in -CallTicks .. BitTicks : At(next_event, o) /\ o >= 0  BY <4>2
        <4>4. o >= -spent  BY <1>2, <4>3
        <4>5. QED  BY <2>2, <4>2, <4>3, <4>4
      <3>8. QED  BY <3>6, <3>7
    <2>3. CASE pc \in Quiet
      <3>1. pc # "enable"  BY <2>3 DEF Quiet
      <3>2. CASE trigger = next_event
        <4>1. PICK off \in (IF Early THEN -CallTicks .. BitTicks ELSE 0 .. 2 * BitTicks) :
                 At(trigger, off)
          BY <1>1, <1>7, <2>3 DEF Settled
        <4>2. off \in -CallTicks .. 2 * BitTicks /\ (~Early => off >= 0)  BY <1>2, <4>1
        <4>3. off <= 0  BY <1>3, <4>1, <4>2
        <4>4. off \in (IF Early THEN -CallTicks .. BitTicks ELSE 0 .. 0)
          BY <1>2, <4>2, <4>3
        <4>5. QED  BY <2>3, <3>1, <3>2, <4>1, <4>4
      <3>3. CASE trigger # next_event
        <4>1. Overtaken(CallTicks)  BY <1>1, <2>3, <3>3 DEF Settled
        <4>2. CallTicks \in 0 .. CallTicks  BY <1>2
        <4>3. /\ Early /\ held <= CallTicks
              /\ \E o \in -CallTicks .. BitTicks : At(next_event, o) /\ o >= 0
          BY <1>6, <4>1, <4>2
        <4>4. QED  BY <2>3, <3>1, <4>3
      <3>4. QED  BY <3>2, <3>3
    <2>4. QED  BY <1>4, <2>1, <2>2, <2>3
  <1>8. QED  BY <1>5, <1>7

\* A bit added to a time that may be late.
LEMMA BitLater ==
    ASSUME Basics, CallTicks < BitTicks, NEW t, NEW off \in -CallTicks .. BitTicks, At(t, off)
    PROVE  Plus(t, BitTicks) = Plus(now, off + BitTicks)
  <1>1. now \in 0 .. TimeMod - 1  BY DEF Basics, Types, CallTypes
  <1>2. /\ BitTicks \in Nat \ {0} /\ CallTicks \in Nat /\ TimeMod \in Nat
        /\ TimeMod > 4 * BitTicks + 2 * CallTicks
    BY ClockRange
  <1>3. off \in Int /\ BitTicks \in Int /\ -CallTicks <= off /\ off <= BitTicks  BY <1>2
  <1>4. /\ -TimeMod < off /\ off < TimeMod /\ -TimeMod < off + BitTicks
        /\ off + BitTicks < TimeMod /\ -TimeMod < BitTicks /\ BitTicks < TimeMod
    BY <1>2, <1>3
  <1>5. Plus(Plus(now, off), BitTicks) = Plus(now, off + BitTicks)
    BY <1>1, <1>3, <1>4, PlusPlus
  <1>6. QED  BY <1>5 DEF At

LEMMA IsrTiming ==
    ASSUME Basics, Timing, CallTicks < BitTicks, Isr
    PROVE  Timing'
  <1>1. /\ buffered /\ IsrDue /\ enabled /\ Event /\ pc' = pc /\ spent' = spent
        /\ due' = due
        /\ now' = now /\ trigger' = next_event' /\ buffered' = buffered
    BY DEF Isr, IsrDue, Event, call, config, buffered
  <1>2. /\ now \in 0 .. TimeMod - 1 /\ spent \in 0 .. CallTicks /\ CallTicks < BitTicks
        /\ BitTicks \in Nat \ {0} /\ CallTicks \in Nat
        /\ current_data_bit \in 0 .. NumDataBits /\ NumDataBits \in Nat
    BY ClockRange, TxAssumption DEF TxAssumption, Basics, Types, HandlerTypes, CallTypes
  <1>3. pc \in Quiet \union Kicking \union {"enable"}
    BY <1>1 DEF Basics, Types, CallTypes, CallStates, Quiet, Kicking
  <1>4. /\ state = "IDLE" => pc \in Quiet /\ held = BitTicks /\ trigger = next_event
        /\ state \notin {"IDLE", "START"} =>
              /\ pc \in Quiet \union {"enable"}
              /\ pc = "enable" => Early
              /\ trigger = next_event \/ (Early /\ held <= CallTicks)
              /\ \E off \in (IF Early THEN -CallTicks .. BitTicks ELSE 0 .. 0) :
                    /\ At(next_event, off)
                    /\ pc = "enable" => off >= -spent
    BY <1>1, DueWhen
  <1>5. \A x \in Quiet : x \notin {"time", "stamp", "load", "trigger", "enable"}
    BY DEF Quiet
  <1>6. BitTicks \in -CallTicks .. BitTicks /\ BitTicks \in 0 .. 2 * BitTicks
        /\ BitTicks \in -spent .. BitTicks /\ BitTicks \in BitTicks - spent .. 2 * BitTicks
        /\ BitTicks - 0 = BitTicks
    BY <1>2
  <1>7. CASE StartBit
    <2>1. /\ state' = "DATA" /\ current_data_bit' = 0 /\ held' = 0 /\ enabled' = enabled
          /\ state = "START" /\ next_event' = Plus(now, BitTicks)
      BY <1>7 DEF StartBit, PortOut
    <2>2. Early' /\ At(trigger, BitTicks)'  BY <1>1, <2>1 DEF Early, At
    <2>3. Settled'
      <3>1. \E off \in (IF Early' THEN -CallTicks .. BitTicks ELSE 0 .. 2 * BitTicks) :
               At(trigger, off)'
        BY <1>6, <2>2
      <3>2. QED  BY <1>1, <2>1, <3>1 DEF Settled
    <2>4. KickingOff'
      <3>1. \E off \in (IF Early' THEN -spent' .. BitTicks
                       ELSE BitTicks - spent' .. 2 * BitTicks) :
               At(trigger, off)'
        BY <1>1, <1>6, <2>2
      <3>2. held' <= spent' /\ At(trigger, BitTicks - held)'
        BY <1>1, <1>2, <1>6, <2>1, <2>2 DEF At
      <3>3. Recent(due)' <=> Recent(due)  BY <1>1 DEF Recent, At
      <3>4. ~(state = "DATA")  BY <2>1
      <3>5. pc \in {"stamp", "load"} => Recent(due)
        BY <1>1 DEF Timing, KickingOff
      <3>6. pc = "trigger" => Recent(due)  BY <1>1, <3>4 DEF Timing, KickingOff
      <3>7. QED  BY <1>1, <2>1, <2>2, <3>1, <3>2, <3>3, <3>5, <3>6 DEF KickingOff
    <2>5. QED  BY <2>3, <2>4 DEF Timing
  <1>8. CASE SendDataBit
    <2>1. /\ state = "DATA" /\ next_event' = Plus(next_event, BitTicks) /\ enabled' = enabled
          /\ current_data_bit' = current_data_bit + 1
          /\ state' \in {"DATA", "STOP", "PARITY"}
      BY <1>8 DEF SendDataBit
    <2>2. /\ pc \in Quiet \union {"enable"}
          /\ \E off \in (IF Early THEN -CallTicks .. BitTicks ELSE 0 .. 0) :
                At(next_event, off) /\ (pc = "enable" => off >= -spent)
      BY <1>4, <2>1
    <2>3. PICK off \in (IF Early THEN -CallTicks .. BitTicks ELSE 0 .. 0) :
             At(next_event, off) /\ (pc = "enable" => off >= -spent)
      BY <2>2
    <2>4. off \in -CallTicks .. BitTicks  BY <1>2, <2>3
    <2>5. PICK ahead \in Int : ahead = off + BitTicks  BY <1>2, <2>4
    <2>6. trigger' = Plus(now', ahead)
      BY <1>1, <2>1, <2>3, <2>4, <2>5, BitLater
    <2>7. /\ ahead \in 0 .. 2 * BitTicks
          /\ pc = "enable" => ahead \in BitTicks - spent .. 2 * BitTicks
      BY <1>2, <2>3, <2>4, <2>5
    <2>8. ~Early'
      <3>1. current_data_bit' # 0 /\ state' # "START"  BY <1>2, <2>1
      <3>2. QED  BY <3>1 DEF Early
    <2>9. Settled'
      <3>1. \E o \in 0 .. 2 * BitTicks : At(trigger, o)'  BY <2>6, <2>7 DEF At
      <3>2. QED  BY <1>1, <2>1, <2>8, <3>1 DEF Settled
    <2>10. KickingOff'
      <3>1. pc' = "enable" => \E o \in BitTicks - spent' .. 2 * BitTicks : At(trigger, o)'
        BY <1>1, <2>6, <2>7 DEF At
      <3>2. pc' \notin {"time", "stamp", "load", "trigger"}  BY <1>1, <1>5, <2>2
      <3>3. QED  BY <1>1, <2>1, <2>8, <3>1, <3>2 DEF KickingOff, Kicking
    <2>11. QED  BY <2>9, <2>10 DEF Timing
  <1>9. ASSUME state \in {"PARITY", "STOP"}, next_event' = Plus(next_event, BitTicks)
        PROVE  pc \in Quiet /\ trigger' = Plus(now', BitTicks)
    <2>1. ~Early  BY <1>9 DEF Early
    <2>2. pc \in Quiet /\ \E off \in 0 .. 0 : At(next_event, off)
      BY <1>4, <1>9, <2>1
    <2>3. PICK off \in 0 .. 0 : At(next_event, off)  BY <2>2
    <2>4. off = 0 /\ off \in -CallTicks .. BitTicks  BY <1>2, <2>3
    <2>5. off + BitTicks = BitTicks  BY <1>2, <2>4
    <2>6. QED  BY <1>1, <1>9, <2>2, <2>3, <2>4, <2>5, BitLater
  <1>10. CASE SendParityBit
    <2>1. /\ state = "PARITY" /\ next_event' = Plus(next_event, BitTicks) /\ enabled' = enabled
          /\ state' = "STOP"
      BY <1>10 DEF SendParityBit
    <2>2. pc \in Quiet /\ trigger' = Plus(now', BitTicks)  BY <1>9, <2>1
    <2>3. Settled'
      <3>1. \E o \in 0 .. 2 * BitTicks : At(trigger, o)'  BY <1>6, <2>2 DEF At
      <3>2. QED  BY <1>1, <2>1, <3>1 DEF Settled, Early
    <2>4. KickingOff'  BY <1>1, <1>5, <2>2 DEF KickingOff, Kicking
    <2>5. QED  BY <2>3, <2>4 DEF Timing
  <1>11. CASE StopBit
    <2>1. /\ state = "STOP" /\ next_event' = Plus(next_event, BitTicks) /\ enabled' = enabled
          /\ held' = 0 /\ state' \in {"STOP", "IDLE", "START"}
      BY <1>11 DEF StopBit, PortOut, CharFinished
    <2>2. pc \in Quiet /\ trigger' = Plus(now', BitTicks)  BY <1>9, <2>1
    <2>3. Settled'
      <3>1. \E o \in 0 .. 2 * BitTicks : At(trigger, o)'  BY <1>6, <2>2 DEF At
      <3>2. \E o \in -CallTicks .. BitTicks : At(trigger, o)'  BY <1>6, <2>2 DEF At
      <3>3. held' <= BitTicks /\ At(trigger, BitTicks - held)'
        BY <1>2, <1>6, <2>1, <2>2 DEF At
      <3>4. QED  BY <1>1, <2>1, <3>1, <3>2, <3>3 DEF Settled
    <2>4. KickingOff'  BY <1>1, <1>5, <2>2 DEF KickingOff, Kicking
    <2>5. QED  BY <2>3, <2>4 DEF Timing
  <1>12. CASE Idle
    <2>1. /\ state = "IDLE" /\ next_event' = next_event
          /\ enabled' = (fifo # <<>>) /\ held' = held
          /\ state' = IF fifo # <<>> THEN "START" ELSE "IDLE"
      BY <1>12 DEF Idle, CharFinished, line
    <2>2. pc \in Quiet /\ held = BitTicks /\ trigger = next_event  BY <1>4, <2>1
    <2>3. At(trigger, BitTicks - held)  BY <1>1, <2>1, <2>2 DEF Timing, Settled
    <2>4. BitTicks - held = 0 /\ 0 \in -CallTicks .. BitTicks  BY <1>2, <2>2
    <2>5. trigger' = Plus(now', 0)  BY <1>1, <2>1, <2>2, <2>3, <2>4 DEF At
    <2>6. Settled'
      <3>1. CASE fifo # <<>>
        <4>1. Early' /\ state' = "START" /\ enabled'  BY <2>1, <3>1 DEF Early
        <4>2. \E o \in -CallTicks .. BitTicks : At(trigger, o)'  BY <2>4, <2>5 DEF At
        <4>3. QED  BY <1>1, <4>1, <4>2 DEF Settled
      <3>2. CASE fifo = <<>>
        BY <1>1, <2>1, <3>2 DEF Settled
      <3>3. QED  BY <3>1, <3>2
    <2>7. KickingOff'  BY <1>1, <1>5, <2>2 DEF KickingOff, Kicking
    <2>8. QED  BY <2>6, <2>7 DEF Timing
  <1>13. CASE \E d \in Data : IdleRefill(d)
    <2>1. /\ pc = "out" /\ state' = "START" /\ next_event' = now /\ enabled' = TRUE
      BY <1>13 DEF IdleRefill
    <2>2. trigger' = Plus(now', 0) /\ 0 \in -CallTicks .. BitTicks
      BY <1>1, <1>2, <2>1, PlusZero
    <2>3. Settled'
      <3>1. \E o \in -CallTicks .. BitTicks : At(trigger, o)'  BY <2>2 DEF At
      <3>2. QED  BY <1>1, <2>1, <3>1 DEF Settled, Early
    <2>4. KickingOff'  BY <1>1, <2>1 DEF KickingOff, Kicking
    <2>5. QED  BY <2>3, <2>4 DEF Timing
  <1>14. QED
    BY <1>1, <1>7, <1>8, <1>10, <1>11, <1>12, <1>13 DEF Event

\* What the timing depends on, but for the place of the call.
times == <<mode, state, current_data_bit, next_event, trigger, enabled, now, held>>

\* Outside a kick-off uart_tx does not touch it.
LEMMA QuietTiming ==
    ASSUME Timing, pc \in Quiet, pc' \in Quiet \union {"block"}, UNCHANGED times
    PROVE  Timing'
  <1>1. CASE buffered
    <2>1. Settled  BY <1>1 DEF Timing
    <2>2. Settled'  BY <2>1 DEF Settled, times, Early, At, Overtaken
    <2>3. pc' \notin {"time", "stamp", "load", "trigger", "enable"}  BY DEF Quiet
    <2>4. KickingOff'  BY <2>3 DEF KickingOff, Kicking
    <2>5. QED  BY <2>2, <2>4 DEF Timing
  <1>2. CASE ~buffered
    BY <1>2 DEF Timing, buffered, times
  <1>3. QED  BY <1>1, <1>2

LEMMA StartTiming ==
    ASSUME Basics, Timing, TxStart
    PROVE  Timing'
  <1>1. /\ pc = "start" /\ pc' = "time" /\ state' = "START"
        /\ UNCHANGED <<mode, current_data_bit, next_event, trigger, enabled, now, held, spent>>
    BY DEF TxStart, Goto, GotoWith, config, timer, line
  <1>2. buffered /\ state = "IDLE" /\ pc \in Quiet  BY <1>1 DEF Basics, CallStates, Quiet
  <1>3. /\ trigger = next_event
        /\ enabled => held <= BitTicks /\ At(trigger, BitTicks - held)
    BY <1>2 DEF Timing, Settled, Overtaken
  <1>4. KickingOff'
    BY <1>1, <1>3 DEF KickingOff, Kicking, Early, At
  <1>5. Settled'  BY <1>1 DEF Settled, Quiet
  <1>6. QED  BY <1>4, <1>5 DEF Timing

\* What the first steps of a kick-off leave as it is.
LEMMA KickingSame ==
    ASSUME KickingOff, pc \in Kicking, pc' \in Kicking,
           UNCHANGED <<state, current_data_bit, trigger, enabled, now, held, spent>>
    PROVE  /\ Early'
           /\ state' = "START" /\ enabled' => held' <= BitTicks /\ At(trigger, BitTicks - held)'
           /\ state' = "DATA" => enabled' /\ held' <= spent' /\ At(trigger, BitTicks - held)'
  BY DEF KickingOff, Early, At

LEMMA TimeTiming ==
    ASSUME Basics, Timing, TxTime
    PROVE  Timing'
  <1>1. /\ pc = "time" /\ pc' = "stamp" /\ due' = now
        /\ UNCHANGED <<mode, state, current_data_bit, next_event, trigger, enabled, now, held,
                       spent>>
    BY DEF TxTime, GotoWith, config, uart, timer, line
  <1>2. buffered /\ KickingOff  BY <1>1 DEF Basics, CallStates, Timing
  <1>3. Recent(due)'
    <2>1. now \in 0 .. TimeMod - 1 /\ spent \in Nat
      BY ClockRange DEF Basics, Types, CallTypes
    <2>2. 0 \in -spent' .. 0  BY <1>1, <2>1
    <2>3. due' = Plus(now', 0)  BY <1>1, <2>1, PlusZero
    <2>4. QED  BY <2>2, <2>3 DEF Recent, At
  <1>4. pc \in Kicking /\ pc' \in Kicking  BY <1>1 DEF Kicking
  <1>5. /\ Early'
        /\ state' = "START" /\ enabled' => held' <= BitTicks /\ At(trigger, BitTicks - held)'
        /\ state' = "DATA" => enabled' /\ held' <= spent' /\ At(trigger, BitTicks - held)'
    BY <1>1, <1>2, <1>4, KickingSame
  <1>6. trigger' = next_event'  BY <1>1, <1>2 DEF KickingOff
  <1>7. KickingOff'  BY <1>1, <1>3, <1>5, <1>6 DEF KickingOff
  <1>8. Settled'  BY <1>1 DEF Settled, Quiet
  <1>9. QED  BY <1>7, <1>8 DEF Timing

LEMMA StampTiming ==
    ASSUME Basics, Timing, TxStamp
    PROVE  Timing'
  <1>1. /\ pc = "stamp" /\ pc' = "load" /\ next_event' = due
        /\ UNCHANGED <<mode, state, current_data_bit, trigger, enabled, now, held, spent, due>>
    BY DEF TxStamp, Goto, GotoWith, config, timer, line
  <1>2. buffered /\ KickingOff  BY <1>1 DEF Basics, CallStates, Timing
  <1>3. Recent(due)'  BY <1>1, <1>2 DEF KickingOff, Recent, At
  <1>4. pc \in Kicking /\ pc' \in Kicking  BY <1>1 DEF Kicking
  <1>5. /\ Early'
        /\ state' = "START" /\ enabled' => held' <= BitTicks /\ At(trigger, BitTicks - held)'
        /\ state' = "DATA" => enabled' /\ held' <= spent' /\ At(trigger, BitTicks - held)'
    BY <1>1, <1>2, <1>4, KickingSame
  <1>6. KickingOff'  BY <1>1, <1>3, <1>5 DEF KickingOff
  <1>7. Settled'  BY <1>1 DEF Settled, Quiet
  <1>8. QED  BY <1>6, <1>7 DEF Timing

LEMMA LoadTiming ==
    ASSUME Basics, Timing, TxLoad
    PROVE  Timing'
  <1>1. /\ pc = "load" /\ pc' = "trigger" /\ due' \in {due, next_event}
        /\ UNCHANGED <<mode, state, current_data_bit, next_event, trigger, enabled, now, held,
                       spent>>
    BY DEF TxLoad, GotoWith, config, uart, timer, line
  <1>2. buffered /\ KickingOff  BY <1>1 DEF Basics, CallStates, Timing
  <1>3. Recent(due) /\ (due = next_event \/ (state = "DATA" /\ trigger = next_event))
    BY <1>1, <1>2 DEF KickingOff
  <1>4. due' = due => Recent(due)'  BY <1>1, <1>3 DEF Recent, At
  <1>5. \/ due' = next_event' /\ Recent(due)'
        \/ /\ state' = "DATA" /\ trigger' = next_event'
           /\ due' = next_event' \/ Recent(due)'
    <2>1. CASE due = next_event  BY <1>1, <1>4, <2>1
    <2>2. CASE state = "DATA" /\ trigger = next_event  BY <1>1, <1>4, <2>2
    <2>3. QED  BY <1>3, <2>1, <2>2
  <1>6. pc \in Kicking /\ pc' \in Kicking  BY <1>1 DEF Kicking
  <1>7. /\ Early'
        /\ state' = "START" /\ enabled' => held' <= BitTicks /\ At(trigger, BitTicks - held)'
        /\ state' = "DATA" => enabled' /\ held' <= spent' /\ At(trigger, BitTicks - held)'
    BY <1>1, <1>2, <1>6, KickingSame
  <1>8. KickingOff'  BY <1>1, <1>5, <1>7 DEF KickingOff
  <1>9. Settled'  BY <1>1 DEF Settled, Quiet
  <1>10. QED  BY <1>8, <1>9 DEF Timing

LEMMA TriggerTiming ==
    ASSUME Basics, Timing, CallTicks < BitTicks, TxTrigger
    PROVE  Timing'
  <1>1. /\ pc = "trigger" /\ pc' = "enable" /\ trigger' = due
        /\ UNCHANGED <<mode, state, current_data_bit, next_event, enabled, now, held, spent>>
    BY DEF TxTrigger, GotoWith, config, uart, line
  <1>2. buffered /\ KickingOff  BY <1>1 DEF Basics, CallStates, Timing
  <1>3. /\ spent \in 0 .. CallTicks /\ held \in 0 .. 2 * BitTicks + 1
        /\ BitTicks \in Nat \ {0} /\ CallTicks \in Nat
    BY ClockRange DEF Basics, Types, HandlerTypes, CallTypes
  <1>4. Early /\ (state = "DATA" => enabled /\ held <= spent /\ At(trigger, BitTicks - held))
    BY <1>1, <1>2 DEF KickingOff, Kicking
  <1>5. Early' /\ state' # "IDLE" /\ (state' # "START" => enabled')
    BY <1>1, <1>4 DEF Early
  <1>6. ASSUME Recent(due)
        PROVE  /\ \E off \in -spent .. 0 : At(trigger, off)'
               /\ \E off \in -spent .. BitTicks : At(trigger, off)'
    <2>1. PICK off \in -spent .. 0 : At(due, off)  BY <1>6 DEF Recent
    <2>2. off \in -spent .. BitTicks  BY <1>3, <2>1
    <2>3. At(trigger, off)'  BY <1>1, <2>1 DEF At
    <2>4. QED  BY <2>1, <2>2, <2>3
  <1>7. /\ trigger' = next_event' \/ Overtaken(spent)'
        /\ \E off \in -spent .. BitTicks : At(trigger, off)'
    <2>1. CASE due = next_event /\ Recent(due)
      BY <1>1, <1>6, <2>1
    <2>2. CASE state = "DATA" /\ trigger = next_event /\ due = next_event
      <3>1. held <= spent /\ At(trigger, BitTicks - held)  BY <1>4, <2>2
      <3>2. BitTicks - held \in -spent .. BitTicks  BY <1>3, <3>1
      <3>3. At(trigger, BitTicks - held)'  BY <1>1, <2>2, <3>1 DEF At
      <3>4. QED  BY <1>1, <2>2, <3>2, <3>3 DEF At
    <2>3. CASE state = "DATA" /\ trigger = next_event /\ Recent(due)
      <3>1. enabled /\ held <= spent /\ At(next_event, BitTicks - held)  BY <1>4, <2>3
      <3>2. current_data_bit = 0  BY <1>4, <2>3 DEF Early
      <3>3. Overtaken(spent)'
        BY <1>1, <1>6, <2>3, <3>1, <3>2 DEF Overtaken, At
      <3>4. QED  BY <1>6, <2>3, <3>3
    <2>4. QED  BY <1>1, <1>2, <2>1, <2>2, <2>3 DEF KickingOff
  <1>8. \E off \in (IF Early' THEN -spent' .. BitTicks
                   ELSE BitTicks - spent' .. 2 * BitTicks) :
           At(trigger, off)'
    BY <1>1, <1>5, <1>7
  <1>9. KickingOff'  BY <1>1, <1>5, <1>7, <1>8 DEF KickingOff, Kicking, Overtaken
  <1>10. Settled'  BY <1>1 DEF Settled, Quiet
  <1>11. QED  BY <1>9, <1>10 DEF Timing

LEMMA EnableTiming ==
    ASSUME Basics, Timing, CallTicks < BitTicks, TxEnable
    PROVE  Timing'
  <1>1. /\ pc = "enable" /\ pc' = "out" /\ enabled' = TRUE
        /\ UNCHANGED <<mode, state, current_data_bit, next_event, trigger, now, held, spent>>
    BY DEF TxEnable, Goto, GotoWith, config, uart, line
  <1>2. buffered /\ KickingOff  BY <1>1 DEF Basics, CallStates, Timing
  <1>3. /\ spent \in 0 .. CallTicks /\ BitTicks \in Nat \ {0} /\ CallTicks \in Nat
    BY ClockRange DEF Basics, Types, HandlerTypes, CallTypes
  <1>4. state # "IDLE"  BY <1>1, <1>2 DEF KickingOff
  <1>5. PICK off \in (IF Early THEN -spent .. BitTicks ELSE BitTicks - spent .. 2 * BitTicks) :
           At(trigger, off)
    BY <1>1, <1>2 DEF KickingOff
  <1>6. off \in (IF Early THEN -CallTicks .. BitTicks ELSE 0 .. 2 * BitTicks)
    BY <1>3, <1>5
  <1>7. off \in (IF Early' THEN -CallTicks .. BitTicks ELSE 0 .. 2 * BitTicks)
        /\ At(trigger, off)'
    BY <1>1, <1>5, <1>6 DEF Early, At
  <1>8. trigger' = next_event' \/ Overtaken(CallTicks)'
    <2>1. CASE trigger = next_event  BY <1>1, <2>1
    <2>2. CASE Overtaken(spent)
      <3>1. PICK o \in -spent .. 0 : At(trigger, o)  BY <2>2 DEF Overtaken
      <3>2. o \in -CallTicks .. 0 /\ held <= CallTicks
        <4>1. held <= spent /\ held \in Nat
          BY <2>2, ClockRange DEF Overtaken, Basics, Types, HandlerTypes
        <4>2. QED  BY <1>3, <3>1, <4>1
      <3>3. QED  BY <1>1, <2>2, <3>1, <3>2 DEF Overtaken, At
    <2>3. QED  BY <1>1, <1>2, <2>1, <2>2 DEF KickingOff
  <1>9. Settled'  BY <1>1, <1>4, <1>7, <1>8 DEF Settled
  <1>10. KickingOff'  BY <1>1 DEF KickingOff, Kicking
  <1>11. QED  BY <1>9, <1>10 DEF Timing

\* A tick brings every time a tick nearer.
LEMMA Nearer ==
    ASSUME Basics, NEW t, NEW off \in -CallTicks .. 2 * BitTicks, At(t, off), now' = Plus(now, 1)
    PROVE  t = Plus(now', off - 1)
  <1>1. now \in 0 .. TimeMod - 1  BY DEF Basics, Types, CallTypes
  <1>2. /\ BitTicks \in Nat \ {0} /\ CallTicks \in Nat /\ TimeMod \in Nat
        /\ TimeMod > 4 * BitTicks + 2 * CallTicks
    BY ClockRange
  <1>3. PICK c \in Int : c = off - 1  BY <1>2
  <1>4. /\ -TimeMod < 1 /\ 1 < TimeMod /\ -TimeMod < 1 + c
        /\ 1 + c < TimeMod /\ -TimeMod < c /\ c < TimeMod
    BY <1>2, <1>3
  <1>5. Plus(Plus(now, 1), c) = Plus(now, 1 + c)  BY <1>1, <1>4, PlusPlus
  <1>6. 1 + c = off  BY <1>2, <1>3
  <1>7. QED  BY <1>3, <1>5, <1>6 DEF At

LEMMA TickTiming ==
    ASSUME Basics, Timing, CallTicks < BitTicks, Tick
    PROVE  Timing'
  <1>1. /\ now' = Plus(now, 1) /\ ~IsrDue
        /\ held' = IF held > 2 * BitTicks THEN held ELSE held + 1
        /\ spent' = IF pc # "out" /\ buffered THEN spent + 1 ELSE 0
        /\ UNCHANGED <<mode, state, current_data_bit, next_event, trigger, enabled, pc, due>>
    BY DEF Tick, config, uart, timer
  <1>2. SUFFICES ASSUME buffered PROVE Settled' /\ KickingOff'
    <2>1. buffered' = buffered  BY <1>1 DEF buffered
    <2>2. QED  BY <2>1 DEF Timing
  <1>3. Settled /\ KickingOff  BY <1>2 DEF Timing
  <1>4. /\ now \in 0 .. TimeMod - 1 /\ spent \in 0 .. CallTicks
        /\ held \in 0 .. 2 * BitTicks + 1
        /\ BitTicks \in Nat \ {0} /\ CallTicks \in Nat
    BY ClockRange DEF Basics, Types, HandlerTypes, CallTypes
  <1>5. Early' <=> Early  BY <1>1 DEF Early
  <1>6. \A off \in -CallTicks .. 2 * BitTicks : enabled /\ At(trigger, off) => off > 0
    <2>1. TAKE off \in -CallTicks .. 2 * BitTicks
    <2>2. HAVE enabled /\ At(trigger, off)
    <2>3. ~After(now, Plus(now, off))  BY <1>1, <1>2, <2>2 DEF IsrDue, At
    <2>4. ~(off <= 0)  BY <1>4, <2>3, Due
    <2>5. QED  BY <1>4, <2>4
  <1>7. \A off \in -CallTicks .. 2 * BitTicks :
           At(trigger, off) => trigger' = Plus(now', off - 1)
    BY <1>1, Nearer
  \* Time does not pass while the handler is due.
  <1>8. ASSUME NEW late \in 0 .. CallTicks, Overtaken(late) PROVE FALSE
    <2>1. enabled  BY <1>8 DEF Overtaken
    <2>2. PICK off \in -late .. 0 : At(trigger, off)  BY <1>8 DEF Overtaken
    <2>3. off \in -CallTicks .. 2 * BitTicks /\ off <= 0  BY <1>4, <1>8, <2>2
    <2>4. off > 0  BY <1>6, <2>1, <2>2, <2>3
    <2>5. QED  BY <1>4, <2>3, <2>4
  <1>9. ASSUME enabled, held <= BitTicks, At(trigger, BitTicks - held)
        PROVE  held' = held + 1 /\ held' <= BitTicks /\ At(trigger, BitTicks - held)'
    <2>1. BitTicks - held \in -CallTicks .. 2 * BitTicks  BY <1>4, <1>9
    <2>2. BitTicks - held > 0  BY <1>6, <1>9, <2>1
    <2>3. held' = held + 1 /\ held' <= BitTicks  BY <1>1, <1>4, <2>2
    <2>4. trigger' = Plus(now', (BitTicks - held) - 1)  BY <1>7, <1>9, <2>1
    <2>5. (BitTicks - held) - 1 = BitTicks - held'  BY <1>4, <2>3
    <2>6. QED  BY <2>3, <2>4, <2>5 DEF At
  <1>10. Settled'
    <2>1. SUFFICES ASSUME pc \in Quiet
                   PROVE  /\ trigger = next_event
                          /\ state # "IDLE" =>
                                /\ enabled
                                /\ \E off \in (IF Early THEN -CallTicks .. BitTicks
                                              ELSE 0 .. 2 * BitTicks) :
                                      At(trigger, off)'
                          /\ state = "IDLE" /\ enabled =>
                                held' <= BitTicks /\ At(trigger, BitTicks - held)'
      BY <1>1, <1>5 DEF Settled, At
    <2>2. trigger = next_event
      <3>1. CallTicks \in 0 .. CallTicks  BY <1>4
      <3>2. QED  BY <1>3, <1>8, <2>1, <3>1 DEF Settled
    <2>3. ASSUME state # "IDLE"
          PROVE  /\ enabled
                 /\ \E off \in (IF Early THEN -CallTicks .. BitTicks ELSE 0 .. 2 * BitTicks) :
                       At(trigger, off)'
      <3>1. /\ enabled
            /\ \E off \in (IF Early THEN -CallTicks .. BitTicks ELSE 0 .. 2 * BitTicks) :
                  At(trigger, off)
        BY <1>3, <2>1, <2>3 DEF Settled
      <3>2. PICK off \in (IF Early THEN -CallTicks .. BitTicks ELSE 0 .. 2 * BitTicks) :
               At(trigger, off)
        BY <3>1
      <3>3. off \in -CallTicks .. 2 * BitTicks  BY <1>4, <3>2
      <3>4. off > 0 /\ trigger' = Plus(now', off - 1)  BY <1>6, <1>7, <3>1, <3>2, <3>3
      <3>5. PICK o \in Int : o = off - 1  BY <1>4, <3>3
      <3>6. o \in (IF Early THEN -CallTicks .. BitTicks ELSE 0 .. 2 * BitTicks)
        BY <1>4, <3>2, <3>3, <3>4, <3>5
      <3>7. QED  BY <3>1, <3>4, <3>5, <3>6 DEF At
    <2>4. ASSUME state = "IDLE", enabled
          PROVE  held' <= BitTicks /\ At(trigger, BitTicks - held)'
      BY <1>3, <1>9, <2>1, <2>4 DEF Settled
    <2>5. QED  BY <2>2, <2>3, <2>4
  <1>11. ASSUME Recent(due), pc # "out" PROVE Recent(due)'
    <2>1. PICK off \in -spent .. 0 : At(due, off)  BY <1>11 DEF Recent
    <2>2. off \in -CallTicks .. 2 * BitTicks  BY <1>4, <2>1
    <2>3. due' = Plus(now', off - 1)  BY <1>1, <2>1, <2>2, Nearer
    <2>4. spent' = spent + 1  BY <1>1, <1>2, <1>11
    <2>5. PICK o \in Int : o = off - 1  BY <1>4, <2>2
    <2>6. o \in -spent' .. 0  BY <1>4, <2>1, <2>4, <2>5
    <2>7. QED  BY <2>3, <2>5, <2>6 DEF Recent, At
  <1>12. KickingOff'
    <2>1. ASSUME pc \in Kicking
          PROVE  /\ Early'
                 /\ state' = "START" /\ enabled' =>
                       held' <= BitTicks /\ At(trigger, BitTicks - held)'
                 /\ state' = "DATA" =>
                       enabled' /\ held' <= spent' /\ At(trigger, BitTicks - held)'
      <3>1. Early  BY <1>3, <2>1 DEF KickingOff
      <3>2. ASSUME state = "START", enabled
            PROVE  held' <= BitTicks /\ At(trigger, BitTicks - held)'
        BY <1>3, <1>9, <2>1, <3>2 DEF KickingOff
      <3>3. ASSUME state = "DATA"
            PROVE  enabled /\ held' <= spent' /\ At(trigger, BitTicks - held)'
        <4>1. enabled /\ held <= spent /\ At(trigger, BitTicks - held)
          BY <1>3, <2>1, <3>3 DEF KickingOff
        <4>2. held <= BitTicks  BY <1>4, <4>1
        <4>3. held' = held + 1 /\ At(trigger, BitTicks - held)'  BY <1>9, <4>1, <4>2
        <4>4. spent' = spent + 1  BY <1>1, <1>2, <2>1 DEF Kicking
        <4>5. QED  BY <1>4, <4>1, <4>3, <4>4
      <3>4. QED  BY <1>1, <1>5, <3>1, <3>2, <3>3
    <2>2. ASSUME pc = "stamp" PROVE Recent(due)'
      BY <1>3, <1>11, <2>2 DEF KickingOff
    <2>3. ASSUME pc = "load"
          PROVE  /\ Recent(due)'
                 /\ due' = next_event' \/ (state' = "DATA" /\ trigger' = next_event')
      BY <1>1, <1>3, <1>11, <2>3 DEF KickingOff
    <2>4. ASSUME pc = "trigger"
          PROVE  \/ due' = next_event' /\ Recent(due)'
                 \/ /\ state' = "DATA" /\ trigger' = next_event'
                    /\ due' = next_event' \/ Recent(due)'
      BY <1>1, <1>3, <1>11, <2>4 DEF KickingOff
    <2>5. ASSUME pc = "enable"
          PROVE  /\ trigger' = next_event' /\ state' # "IDLE"
                 /\ state' # "START" => enabled'
                 /\ \E off \in (IF Early' THEN -spent' .. BitTicks
                               ELSE BitTicks - spent' .. 2 * BitTicks) :
                       At(trigger, off)'
      <3>1. /\ trigger = next_event /\ state # "IDLE" /\ (state # "START" => enabled)
            /\ \E off \in (IF Early THEN -spent .. BitTicks
                          ELSE BitTicks - spent .. 2 * BitTicks) :
                  At(trigger, off)
        BY <1>3, <1>4, <1>8, <2>5 DEF KickingOff
      <3>2. PICK off \in (IF Early THEN -spent .. BitTicks
                         ELSE BitTicks - spent .. 2 * BitTicks) :
               At(trigger, off)
        BY <3>1
      <3>3. off \in -CallTicks .. 2 * BitTicks  BY <1>4, <3>2
      <3>4. trigger' = Plus(now', off - 1)  BY <1>7, <3>2, <3>3
      <3>5. spent' = spent + 1  BY <1>1, <1>2, <2>5
      <3>6. PICK o \in Int : o = off - 1  BY <1>4, <3>3
      <3>7. o \in (IF Early THEN -spent' .. BitTicks
                   ELSE BitTicks - spent' .. 2 * BitTicks)
        BY <1>4, <3>2, <3>3, <3>5, <3>6
      <3>8. QED  BY <1>1, <1>5, <3>1, <3>4, <3>6, <3>7 DEF At
    <2>6. pc' \in {"time", "stamp"} => trigger' = next_event'  BY <1>1, <1>3 DEF KickingOff
    <2>7. QED  BY <1>1, <2>1, <2>2, <2>3, <2>4, <2>5, <2>6 DEF KickingOff
  <1>13. QED  BY <1>10, <1>12

LEMMA TimingFirst ==
    ASSUME Init
    PROVE  Timing
  <1>1. state = "IDLE" /\ pc = "out" /\ enabled = FALSE /\ trigger = 0 /\ next_event = 0
    BY DEF Init
  <1>2. Settled  BY <1>1 DEF Settled
  <1>3. KickingOff  BY <1>1 DEF KickingOff, Kicking
  <1>4. QED  BY <1>2, <1>3 DEF Timing

LEMMA TimingStep ==
    ASSUME Basics, Timing, CallTicks < BitTicks, [Next]_vars
    PROVE  Timing'
  <1>1. CASE UNCHANGED vars
    BY <1>1 DEF vars, config, uart, timer, line, call, Timing, Settled, KickingOff, Early, At,
                buffered, Overtaken, Recent
  <1>2. CASE \E d \in Data : TxCall(d)
    <2>1. /\ pc = "out" /\ pc' = IF ~buffered THEN "block"
                                 ELSE IF fifo = <<>> THEN "state" ELSE "push"
          /\ UNCHANGED times
      BY <1>2 DEF TxCall, config, uart, timer, line, times
    <2>2. pc \in Quiet /\ pc' \in Quiet \union {"block"}  BY <2>1 DEF Quiet
    <2>3. QED  BY <2>1, <2>2, QuietTiming
  <1>3. CASE TxState
    <2>1. pc = "state" /\ pc' \in {"data", "push"} /\ UNCHANGED times
      BY <1>3 DEF TxState, Goto, GotoWith, config, uart, timer, line, times
    <2>2. pc \in Quiet /\ pc' \in Quiet \union {"block"}  BY <2>1 DEF Quiet
    <2>3. QED  BY <2>1, <2>2, QuietTiming
  <1>4. CASE TxPush
    <2>1. pc = "push" /\ pc' = "out" /\ UNCHANGED times
      BY <1>4 DEF TxPush, Goto, GotoWith, config, uart, timer, line, times
    <2>2. pc \in Quiet /\ pc' \in Quiet \union {"block"}  BY <2>1 DEF Quiet
    <2>3. QED  BY <2>1, <2>2, QuietTiming
  <1>5. CASE TxData
    <2>1. pc = "data" /\ pc' = "start" /\ UNCHANGED times
      BY <1>5 DEF TxData, Goto, GotoWith, config, timer, line, times
    <2>2. pc \in Quiet /\ pc' \in Quiet \union {"block"}  BY <2>1 DEF Quiet
    <2>3. QED  BY <2>1, <2>2, QuietTiming
  <1>6. CASE TxBlock \/ TxHandle \/ TxWake
    <2>1. pc \in {"block", "handle", "sleep"} /\ mode' = mode
      BY <1>6 DEF TxBlock, TxHandle, TxWake, Event, Goto, GotoWith, config
    <2>2. ~buffered  BY <2>1 DEF Basics, CallStates
    <2>3. ~buffered'  BY <2>1, <2>2 DEF buffered
    <2>4. QED  BY <2>3 DEF Timing
  <1>7. CASE TxStart  BY <1>7, StartTiming
  <1>8. CASE TxTime \/ TxStamp \/ TxLoad
    BY <1>8, TimeTiming, StampTiming, LoadTiming
  <1>9. CASE TxTrigger  BY <1>9, TriggerTiming
  <1>10. CASE TxEnable  BY <1>10, EnableTiming
  <1>11. CASE Isr  BY <1>11, IsrTiming
  <1>12. CASE Tick  BY <1>12, TickTiming
  <1>13. QED
    BY <1>1, <1>2, <1>3, <1>4, <1>5, <1>6, <1>7, <1>8, <1>9, <1>10, <1>11, <1>12
       DEF Next, Thread

(* A call of uart_tx shorter than a bit cannot put the handler out: when    *)
(* uart_tx_handle_event runs in buffered mode its trigger is at most late   *)
(* by the call, and in IDLE the last stop bit has been held.                *)
THEOREM TimingInvariance ==
    ASSUME CallTicks < BitTicks
    PROVE  Spec => [](Basics /\ Timing)
  <1>1. Init => Timing  BY TimingFirst
  <1>2. Basics /\ Timing /\ [Next]_vars => Timing'  BY TimingStep
  <1>3. QED  BY <1>1, <1>2, BasicInvariance, PTL DEF Spec

\* Whoever makes the empty callback, the line is quiet.
LEMMA EmptyStep ==
    ASSUME Basics, Timing, CallTicks < BitTicks, Next,
           (emptied' /\ ~emptied) \/ (accepted' # accepted /\ pc = "out")
    PROVE  Len(wire) = Len(accepted) /\ held >= BitTicks
  <1>1. Isr /\ state = "IDLE" /\ fifo = <<>>
    <2>1. ASSUME Event, pc = "handle" \/ IsrDue
          PROVE  state = "IDLE" /\ fifo = <<>>
      <3>1. CASE (StartBit \/ SendDataBit \/ SendParityBit \/ StopBit \/ Idle)
                    /\ UNCHANGED accepted
        <4>1. emptied' /\ ~emptied  BY <3>1
        <4>2. Idle
          BY <3>1, <4>1 DEF StartBit, SendDataBit, SendParityBit, StopBit
        <4>3. QED  BY <4>1, <4>2 DEF Idle
      <3>2. CASE \E d \in Data : IdleRefill(d)
        BY <3>2 DEF IdleRefill
      <3>3. QED  BY <2>1, <3>1, <3>2 DEF Event
    <2>2. CASE Isr
      <3>1. Event /\ IsrDue  BY <2>2 DEF Isr
      <3>2. QED  BY <2>1, <2>2, <3>1
    <2>3. CASE TxHandle
      <3>1. Event /\ pc = "handle"  BY <2>3 DEF TxHandle
      <3>2. state = "IDLE"  BY <2>1, <3>1
      <3>3. ~buffered /\ state # "IDLE"  BY <3>1 DEF Basics, CallStates
      <3>4. QED  BY <3>2, <3>3
    <2>4. CASE ~Isr /\ ~TxHandle
      <3>1. ASSUME emptied' = emptied \/ emptied' = FALSE, accepted' = accepted \/ pc # "out"
            PROVE  FALSE
        BY <3>1
      <3>2. CASE \E d \in Data : TxCall(d)  BY <3>1, <3>2 DEF TxCall, app
      <3>3. CASE TxState  BY <3>1, <3>3 DEF TxState
      <3>4. CASE TxPush  BY <3>1, <3>4 DEF TxPush, Goto, GotoWith, app
      <3>5. CASE TxData  BY <3>1, <3>5 DEF TxData, app
      <3>6. CASE TxStart  BY <3>1, <3>6 DEF TxStart, Goto, GotoWith
      <3>7. CASE TxTime \/ TxStamp \/ TxLoad
        BY <3>1, <3>7 DEF TxTime, TxStamp, TxLoad, app
      <3>8. CASE TxTrigger  BY <3>1, <3>8 DEF TxTrigger, app
      <3>9. CASE TxEnable  BY <3>1, <3>9 DEF TxEnable, app
      <3>10. CASE TxBlock  BY <3>1, <3>10 DEF TxBlock, Goto, GotoWith
      <3>11. CASE TxWake  BY <3>1, <3>11 DEF TxWake, app
      <3>12. CASE Tick  BY <3>1, <3>12 DEF Tick, app
      <3>13. QED
        BY <2>4, <3>2, <3>3, <3>4, <3>5, <3>6, <3>7, <3>8, <3>9, <3>10, <3>11, <3>12
           DEF Next, Thread
    <2>5. QED  BY <2>2, <2>3, <2>4
  <1>2. held = BitTicks  BY <1>1, DueWhen DEF Isr
  <1>3. BitTicks \in Nat  BY ClockRange
  <1>4. held >= BitTicks  BY <1>2, <1>3
  <1>5. Len(accepted) = Len(wire) + Sending + Len(fifo)  BY DEF Basics, Order, Accounted
  <1>6. Sending = 0 /\ Len(fifo) = 0  BY <1>1 DEF Sending
  <1>7. wire \in Seq(Seq({0, 1}))  BY DEF Basics, Types, HandlerTypes
  <1>8. Len(wire) \in Nat  BY <1>7
  <1>9. Len(wire) = Len(accepted)  BY <1>5, <1>6, <1>8
  <1>10. QED  BY <1>4, <1>9

(* The empty callback is made only when every accepted byte has been sent   *)
(* to the end of its last stop bit, provided that a call of uart_tx takes   *)
(* less than a bit time.                                                    *)
THEOREM EmptyCallbackTells ==
    ASSUME CallTicks < BitTicks
    PROVE  Spec => EmptyMeansSent
  <1>1. Basics /\ Timing /\ [Next]_vars =>
            [(emptied' /\ ~emptied) \/ (accepted' # accepted /\ pc = "out") =>
                Len(wire) = Len(accepted) /\ held >= BitTicks]_vars
    BY EmptyStep
  <1>2. QED  BY <1>1, TimingInvariance, PTL DEF Spec, EmptyMeansSent

-----------------------------------------------------------------------------
(* How long the levels are held.                                           *)

KickOff == {"data", "start", "time", "stamp", "load", "trigger", "enable"}

\* The handler is due when the level on the line has been held for a bit.
OnTime == held <= BitTicks /\ At(trigger, BitTicks - held)

\* After a kick-off in a held stop bit it is due by then at the latest, or by twice
\* that while the first data bit is on the line.
AtMost == (IF Len(frame) = 2 THEN 2 ELSE 1) * BitTicks

Cut ==
    /\ held <= AtMost
    /\ \E off \in -CallTicks .. 2 * BitTicks : At(trigger, off) /\ held + off <= AtMost

\* In buffered mode every level but those a kick-off in a held stop bit cuts short
\* is held until the trigger; other kick-offs meet a line at rest.
HeldBuffered ==
    /\ ~straddled
    /\ inHold => enabled /\ (Len(frame) <= 2 => Cut)
    /\ state = "IDLE" /\ ~enabled => held >= BitTicks
    /\ frame # <<>> /\ (inHold => Len(frame) > 2) => OnTime
    /\ state = "START" /\ ~inHold => held >= BitTicks \/ OnTime
    /\ pc = "enable" => Len(frame) <= 2
    /\ pc \in KickOff /\ ~inHold => ~enabled /\ held >= BitTicks

\* How far a sleep has come; polled, the deadline is right or behind, and right
\* as long as no deadline of the frame has wrapped.
Asleep ==
    /\ held <= BitTicks
    /\ IF mode = "timer" THEN At(next_event, BitTicks - held)
       ELSE /\ next_event <= now + (BitTicks - held)
            /\ ~straddled => next_event = now + (BitTicks - held)

HeldBlocking ==
    /\ ~inHold
    /\ mode = "timer" => ~straddled
    /\ pc \in {"out", "block"} /\ ~straddled => held >= BitTicks
    /\ pc = "handle" /\ state = "START" /\ ~straddled => held >= BitTicks
    /\ pc = "handle" /\ state # "START" =>
          Asleep /\ (~straddled => held = BitTicks) /\ (mode = "poll" => next_event <= now)
    /\ pc = "sleep" => Asleep

Holding == IF buffered THEN HeldBuffered ELSE HeldBlocking

LEMMA HeldTypes ==
    ASSUME Basics
    PROVE  /\ held \in 0 .. 2 * BitTicks + 1 /\ now \in 0 .. TimeMod - 1
           /\ next_event \in 0 .. TimeMod - 1
           /\ BitTicks \in Nat \ {0} /\ CallTicks \in Nat /\ TimeMod \in Nat
           /\ TimeMod > 4 * BitTicks + 2 * CallTicks
           /\ enabled \in BOOLEAN /\ straddled \in BOOLEAN /\ inHold \in BOOLEAN
           /\ Len(frame) \in Nat /\ (frame = <<>> <=> Len(frame) = 0)
           /\ NumDataBits \in Nat \ {0} /\ current_data_bit \in 0 .. NumDataBits
  <1>1. frame \in Seq({0, 1})  BY DEF Basics, Types, HandlerTypes
  <1>2. Len(frame) \in Nat /\ (frame = <<>> <=> Len(frame) = 0)  BY <1>1
  <1>3. NumDataBits \in Nat \ {0}  BY TxAssumption DEF TxAssumption
  <1>4. QED  BY <1>2, <1>3, ClockRange DEF Basics, Types, HandlerTypes, CallTypes

\* Which levels of the frame are out, by state.
LEMMA LevelsOut ==
    ASSUME Basics
    PROVE  /\ state \in {"IDLE", "START"} => frame = <<>>
           /\ state \notin {"IDLE", "START"} => frame # <<>>
           /\ Early => Len(frame) <= 1
           /\ Len(frame) > 1 => ~Early
           /\ state \in {"PARITY", "STOP"} => ~Early
  <1>1. Progress /\ state \in States /\ stop_bits \in Nat \ {0}
        /\ current_stop_bit \in 0 .. stop_bits - 1
    BY DEF Basics, Order, Types, HandlerTypes, CallTypes
  <1>2. /\ Len(frame) \in Nat /\ (frame = <<>> <=> Len(frame) = 0)
        /\ NumDataBits \in Nat \ {0} /\ current_data_bit \in 0 .. NumDataBits
    BY HeldTypes
  <1>3. ParityBits(parity) \in Nat  BY DEF ParityBits
  <1>4. state \in {"IDLE", "START"} => Len(frame) = 0  BY <1>1 DEF Progress
  <1>5. state = "DATA" => Len(frame) = 1 + current_data_bit  BY <1>1 DEF Progress
  <1>6. state = "PARITY" => Len(frame) = 1 + NumDataBits  BY <1>1 DEF Progress
  <1>7. state = "STOP" =>
           Len(frame) = 1 + NumDataBits + ParityBits(parity) + current_stop_bit
    BY <1>1 DEF Progress
  <1>8. state \notin {"IDLE", "START"} => Len(frame) > 0
    BY <1>1, <1>2, <1>3, <1>5, <1>6, <1>7 DEF States
  <1>9. Early => Len(frame) <= 1  BY <1>2, <1>4, <1>5 DEF Early
  <1>10. state \in {"PARITY", "STOP"} => ~Early  BY DEF Early
  <1>11. QED  BY <1>2, <1>4, <1>8, <1>9, <1>10

LEMMA OnTimeDue ==
    ASSUME Basics, NEW t, held <= BitTicks, At(t, BitTicks - held), After(now, t)
    PROVE  held = BitTicks /\ At(t, 0)
  <1>1. held \in 0 .. 2 * BitTicks + 1 /\ now \in 0 .. TimeMod - 1 /\ BitTicks \in Nat
        /\ CallTicks \in Nat
    BY HeldTypes
  <1>2. PICK off : off = BitTicks - held  OBVIOUS
  <1>3. off \in -CallTicks .. BitTicks /\ off >= 0  BY <1>1, <1>2
  <1>4. t = Plus(now, off)  BY <1>2 DEF At
  <1>5. off <= 0  BY <1>1, <1>3, <1>4, Due
  <1>6. off = 0 /\ held = BitTicks  BY <1>1, <1>2, <1>3, <1>5
  <1>7. QED  BY <1>4, <1>6 DEF At

LEMMA OnTimeTick ==
    ASSUME Basics, NEW t, held <= BitTicks, At(t, BitTicks - held), ~After(now, t),
           now' = Plus(now, 1), held' = IF held > 2 * BitTicks THEN held ELSE held + 1
    PROVE  held' <= BitTicks /\ t = Plus(now', BitTicks - held')
  <1>1. held \in 0 .. 2 * BitTicks + 1 /\ now \in 0 .. TimeMod - 1 /\ BitTicks \in Nat
        /\ CallTicks \in Nat
    BY HeldTypes
  <1>2. PICK off : off = BitTicks - held  OBVIOUS
  <1>3. off \in -CallTicks .. BitTicks  BY <1>1, <1>2
  <1>4. t = Plus(now, off)  BY <1>2 DEF At
  <1>5. ~(off <= 0)  BY <1>1, <1>3, <1>4, Due
  <1>6. held' = held + 1 /\ held' <= BitTicks  BY <1>1, <1>2, <1>5
  <1>7. At(t, off)  BY <1>4 DEF At
  <1>8. t = Plus(now', off - 1)
    <2>1. off \in -CallTicks .. 2 * BitTicks  BY <1>1, <1>3
    <2>2. QED  BY <2>1, <1>7, Nearer
  <1>9. off - 1 = BitTicks - held'  BY <1>1, <1>2, <1>6
  <1>10. QED  BY <1>6, <1>8, <1>9

LEMMA FreshLevel ==
    ASSUME held' = 0, trigger' = Plus(now', BitTicks)
    PROVE  OnTime'
  <1>1. BitTicks \in Nat  BY ClockRange
  <1>2. held' <= BitTicks /\ BitTicks - held' = BitTicks  BY <1>1
  <1>3. QED  BY <1>2 DEF OnTime, At

LEMMA AtMostValue ==
    ASSUME Basics
    PROVE  /\ AtMost \in Nat /\ BitTicks <= AtMost /\ AtMost <= 2 * BitTicks
           /\ Len(frame) = 2 => AtMost = 2 * BitTicks
           /\ Len(frame) # 2 => AtMost = BitTicks
  <1>1. BitTicks \in Nat  BY ClockRange
  <1>2. CASE Len(frame) = 2
    <2>1. AtMost = 2 * BitTicks  BY <1>2 DEF AtMost
    <2>2. QED  BY <1>1, <1>2, <2>1
  <1>3. CASE Len(frame) # 2
    <2>1. AtMost = 1 * BitTicks  BY <1>3 DEF AtMost
    <2>2. QED  BY <1>1, <1>3, <2>1
  <1>4. QED  BY <1>2, <1>3

LEMMA AtMostNext ==
    /\ AtMost' \in Nat /\ BitTicks <= AtMost'
    /\ Len(frame') = 2 => AtMost' = 2 * BitTicks
  <1>1. BitTicks \in Nat  BY ClockRange
  <1>2. CASE Len(frame') = 2
    <2>1. AtMost' = 2 * BitTicks  BY <1>2 DEF AtMost
    <2>2. QED  BY <1>1, <1>2, <2>1
  <1>3. CASE Len(frame') # 2
    <2>1. AtMost' = 1 * BitTicks  BY <1>3 DEF AtMost
    <2>2. QED  BY <1>1, <1>3, <2>1
  <1>4. QED  BY <1>2, <1>3

\* The same time is reached only by the same distance.
LEMMA OffZero ==
    ASSUME Basics, NEW off \in -CallTicks .. BitTicks, Plus(now, off) = now
    PROVE  off = 0
  <1>1. /\ now \in 0 .. TimeMod - 1 /\ BitTicks \in Nat /\ CallTicks \in Nat
        /\ TimeMod \in Nat /\ TimeMod > 4 * BitTicks + 2 * CallTicks
    BY HeldTypes
  <1>2. PICK t \in Int : t = now + off  BY <1>1
  <1>3. -TimeMod <= t /\ t < 2 * TimeMod  BY <1>1, <1>2
  <1>4. now = Wrap(t, TimeMod)  BY <1>2, <1>3, WrapOnce DEF Plus
  <1>5. QED  BY <1>1, <1>2, <1>4 DEF Wrap

LEMMA OnTimeCut ==
    ASSUME Basics, OnTime
    PROVE  Cut
  <1>1. held \in 0 .. 2 * BitTicks + 1 /\ BitTicks \in Nat /\ CallTicks \in Nat  BY HeldTypes
  <1>2. held <= BitTicks /\ At(trigger, BitTicks - held)  BY DEF OnTime
  <1>3. PICK n \in {1, 2} : AtMost = n * BitTicks  BY DEF AtMost
  <1>4. BitTicks <= AtMost
    <2>1. CASE n = 1  BY <1>1, <1>3, <2>1
    <2>2. CASE n = 2  BY <1>1, <1>3, <2>2
    <2>3. QED  BY <2>1, <2>2
  <1>5. AtMost \in Int
    <2>1. CASE n = 1  BY <1>1, <1>3, <2>1
    <2>2. CASE n = 2  BY <1>1, <1>3, <2>2
    <2>3. QED  BY <2>1, <2>2
  <1>6. PICK off \in -CallTicks .. 2 * BitTicks : off = BitTicks - held  BY <1>1, <1>2
  <1>7. held + off = BitTicks  BY <1>1, <1>6
  <1>8. held <= AtMost /\ held + off <= AtMost  BY <1>1, <1>2, <1>4, <1>5, <1>7
  <1>9. QED  BY <1>2, <1>6, <1>8 DEF Cut

LEMMA Remaining ==
    ASSUME NEW h \in 0 .. BitTicks, NEW most \in Nat, BitTicks <= most
    PROVE  /\ BitTicks - h \in -CallTicks .. 2 * BitTicks
           /\ h <= most /\ h + (BitTicks - h) <= most
  <1>1. BitTicks \in Nat /\ CallTicks \in Nat  BY ClockRange
  <1>2. PICK c \in Int : c = BitTicks - h  BY <1>1
  <1>3. 0 <= c /\ c <= BitTicks /\ h + c = BitTicks  BY <1>1, <1>2
  <1>4. c \in -CallTicks .. 2 * BitTicks  BY <1>1, <1>3
  <1>5. h <= most  BY <1>1
  <1>6. QED  BY <1>2, <1>3, <1>4, <1>5

LEMMA OnTimeCutNext == ASSUME Basics', OnTime' PROVE Cut'
  <1>1. /\ held' \in 0 .. 2 * BitTicks + 1 /\ BitTicks \in Nat
    BY ClockRange DEF Basics, Types, HandlerTypes
  <1>2. held' <= BitTicks  BY DEF OnTime
  <1>3. At(trigger, BitTicks - held)'  BY DEF OnTime
  <1>4. AtMost' \in Nat /\ BitTicks <= AtMost'  BY AtMostNext
  <1>5. PICK h \in 0 .. BitTicks : h = held'  BY <1>1, <1>2
  <1>6. PICK most \in Nat : most = AtMost' /\ BitTicks <= most  BY <1>4
  <1>7. /\ BitTicks - h \in -CallTicks .. 2 * BitTicks
        /\ h <= most /\ h + (BitTicks - h) <= most
    BY <1>6, Remaining
  <1>8. trigger' = Plus(now', BitTicks - h)  BY <1>3, <1>5 DEF At
  <1>9. QED  BY <1>5, <1>6, <1>7, <1>8 DEF Cut, At

LEMMA IsrHolding ==
    ASSUME Basics, Basics', Timing, HeldBuffered, CallTicks < BitTicks, Isr
    PROVE  HeldBuffered'
  <1>1. /\ buffered /\ IsrDue /\ enabled = TRUE /\ Event /\ pc' = pc
        /\ inHold' = (inHold /\ frame' # <<>>)
        /\ now' = now /\ trigger' = next_event' /\ After(now, trigger)
    BY DEF Isr, IsrDue, Event, call, config, Basics, Types, HandlerTypes
  <1>2. straddled' = FALSE
    BY <1>1 DEF Event, buffered
  <1>3. /\ held \in 0 .. 2 * BitTicks + 1 /\ now \in 0 .. TimeMod - 1
        /\ BitTicks \in Nat \ {0}
        /\ CallTicks \in Nat /\ Len(frame) \in Nat /\ (frame = <<>> <=> Len(frame) = 0)
        /\ frame \in Seq({0, 1})
    BY HeldTypes DEF Basics, Types, HandlerTypes
  <1>4. /\ state = "IDLE" => pc \in Quiet /\ held = BitTicks /\ trigger = next_event
        /\ state \notin {"IDLE", "START"} =>
              /\ pc \in Quiet \union {"enable"}
              /\ pc = "enable" => Early
              /\ trigger = next_event \/ (Early /\ held <= CallTicks)
              /\ \E off \in (IF Early THEN -CallTicks .. BitTicks ELSE 0 .. 0) :
                    /\ At(next_event, off)
                    /\ pc = "enable" => off >= -spent
    BY <1>1, DueWhen
  <1>5. pc \in KickOff => inHold  BY <1>1 DEF HeldBuffered
  <1>6. \A l : Len(Append(frame, l)) = Len(frame) + 1 /\ Append(frame, l) # <<>>
    BY <1>3
  \* It is enough that the level put out, if any, is fresh.
  <1>7. ASSUME enabled' = TRUE, frame' # <<>> /\ (inHold => Len(frame') > 2) => OnTime',
               inHold /\ frame' # <<>> /\ Len(frame') <= 2 => Cut',
               state' = "START" => held' >= BitTicks \/ OnTime',
               pc = "enable" => Len(frame') <= 2,
               pc \in KickOff => frame' # <<>>
        PROVE  HeldBuffered'
    BY <1>1, <1>2, <1>5, <1>7 DEF HeldBuffered
  <1>8. CASE StartBit
    <2>1. /\ state' = "DATA" /\ held' = 0 /\ enabled' = enabled
          /\ next_event' = Plus(now, BitTicks) /\ frame = <<>>
          /\ frame' = Append(frame, 0)
      BY <1>8, LevelsOut DEF StartBit, PortOut
    <2>2. OnTime'  BY <1>1, <2>1, FreshLevel
    <2>3. Len(frame') <= 2 /\ frame' # <<>>  BY <1>3, <1>6, <2>1
    <2>4. Cut'  BY <2>2, OnTimeCutNext
    <2>5. QED  BY <1>1, <1>7, <2>1, <2>2, <2>3, <2>4
  <1>9. CASE SendDataBit
    <2>1. /\ state = "DATA" /\ next_event' = Plus(next_event, BitTicks) /\ enabled' = enabled
          /\ held' = 0 /\ state' # "START"
          /\ \E l : frame' = Append(frame, l)
      BY <1>9 DEF SendDataBit, PortOut
    <2>2. Len(frame') = Len(frame) + 1 /\ frame' # <<>>  BY <1>6, <2>1
    <2>3. pc = "enable" => Len(frame') <= 2  BY <1>3, <1>4, <2>1, <2>2, LevelsOut
    <2>4. PICK off \in (IF Early THEN -CallTicks .. BitTicks ELSE 0 .. 0) : At(next_event, off)
      BY <1>4, <2>1
    <2>5. off \in -CallTicks .. BitTicks /\ (~Early => off = 0)  BY <1>3, <2>4
    <2>6. PICK o \in -CallTicks .. 2 * BitTicks : o = off + BitTicks  BY <1>3, <2>5
    <2>7. trigger' = Plus(now', o)  BY <1>1, <2>1, <2>4, <2>5, <2>6, BitLater
    <2>8. ASSUME inHold => Len(frame') > 2
          PROVE  OnTime'
      <3>1. off = 0
        <4>1. CASE inHold
          <5>1. Len(frame) > 1  BY <1>3, <2>2, <2>8, <4>1
          <5>2. ~Early  BY <5>1, LevelsOut
          <5>3. QED  BY <2>5, <5>2
        <4>2. CASE ~inHold
          <5>1. frame # <<>>  BY <2>1, LevelsOut
          <5>2. OnTime  BY <4>2, <5>1 DEF HeldBuffered
          <5>3. held = BitTicks /\ At(trigger, 0)  BY <1>1, <5>2, OnTimeDue DEF OnTime
          <5>4. trigger = next_event  BY <1>3, <1>4, <2>1, <5>3
          <5>5. Plus(next_event, BitTicks) = Plus(now, 0 + BitTicks)
            <6>1. 0 \in -CallTicks .. BitTicks  BY <1>3
            <6>2. QED  BY <5>3, <5>4, <6>1, BitLater
          <5>6. now = Plus(now, 0) /\ Plus(now, off) = now  BY <1>3, <2>4, <5>3, <5>4, PlusZero DEF At
          <5>7. QED  BY <1>3, <2>5, <5>6, OffZero
        <4>3. QED  BY <4>1, <4>2
      <3>2. o = BitTicks  BY <1>3, <2>6, <3>1
      <3>3. trigger' = Plus(now', BitTicks)  BY <2>7, <3>2
      <3>4. QED  BY <2>1, <3>3, FreshLevel
    <2>9. ASSUME inHold, Len(frame') <= 2
          PROVE  Cut'
      <3>1. Len(frame) > 0  BY <1>3, <2>1, LevelsOut
      <3>2. Len(frame') = 2  BY <1>3, <2>2, <2>9, <3>1
      <3>3. AtMost' = 2 * BitTicks  BY <3>2, AtMostNext
      <3>4. held' <= AtMost' /\ held' + o <= AtMost'  BY <1>3, <2>1, <2>6, <3>3
      <3>5. At(trigger, o)'  BY <2>7 DEF At
      <3>6. QED  BY <3>4, <3>5 DEF Cut
    <2>10. QED  BY <1>1, <1>7, <2>1, <2>2, <2>3, <2>8, <2>9
  <1>10. ASSUME state \in {"PARITY", "STOP"}, next_event' = Plus(next_event, BitTicks), held' = 0
         PROVE  pc \notin KickOff /\ pc # "enable" /\ OnTime'
    <2>1. ~Early  BY <1>10 DEF Early
    <2>2. pc \in Quiet /\ \E off \in 0 .. 0 : At(next_event, off)  BY <1>4, <1>10, <2>1
    <2>3. pc \notin {"data", "start"}  BY <1>10 DEF Basics, CallStates
    <2>4. pc \notin KickOff /\ pc # "enable"  BY <2>2, <2>3 DEF Quiet, KickOff
    <2>5. At(next_event, 0)  BY <2>2
    <2>6. 0 \in -CallTicks .. BitTicks /\ 0 + BitTicks = BitTicks  BY <1>3
    <2>7. Plus(next_event, BitTicks) = Plus(now, BitTicks)  BY <2>5, <2>6, BitLater
    <2>8. trigger' = Plus(now', BitTicks)  BY <1>1, <1>10, <2>7
    <2>9. QED  BY <1>10, <2>4, <2>8, FreshLevel
  <1>11. CASE SendParityBit
    <2>1. /\ state = "PARITY" /\ next_event' = Plus(next_event, BitTicks) /\ enabled' = enabled
          /\ state' = "STOP" /\ held' = 0
      BY <1>11 DEF SendParityBit, PortOut
    <2>2. pc \notin KickOff /\ pc # "enable" /\ OnTime'  BY <1>10, <2>1
    <2>3. Cut'  BY <2>2, OnTimeCutNext
    <2>4. QED  BY <1>1, <1>7, <2>1, <2>2, <2>3
  <1>12. CASE StopBit
    <2>1. /\ state = "STOP" /\ next_event' = Plus(next_event, BitTicks) /\ enabled' = enabled
          /\ held' = 0
      BY <1>12 DEF StopBit, PortOut
    <2>2. pc \notin KickOff /\ pc # "enable" /\ OnTime'  BY <1>10, <2>1
    <2>3. Cut'  BY <2>2, OnTimeCutNext
    <2>4. QED  BY <1>1, <1>7, <2>1, <2>2, <2>3
  <1>13. ASSUME state = "IDLE", frame' = frame, held' = held,
                \/ state' = "IDLE" /\ ~enabled'
                \/ state' = "START" /\ enabled' = TRUE /\ pc \notin KickOff
         PROVE  HeldBuffered'
    <2>1. pc \in Quiet /\ held' >= BitTicks  BY <1>3, <1>4, <1>13
    <2>2. frame' = <<>>  BY <1>13, LevelsOut
    <2>3. pc # "enable" /\ ~inHold'  BY <1>1, <2>1, <2>2 DEF Quiet
    <2>4. QED  BY <1>1, <1>2, <1>13, <2>1, <2>2, <2>3 DEF HeldBuffered
  <1>14. CASE Idle
    <2>1. /\ state = "IDLE" /\ enabled' = (fifo # <<>>) /\ held' = held /\ frame' = frame
          /\ state' = IF fifo # <<>> THEN "START" ELSE "IDLE"
      BY <1>14 DEF Idle, CharFinished, line
    <2>2. fifo # <<>> => pc \notin KickOff
      <3>1. pc \in Quiet  BY <1>4, <2>1
      <3>2. fifo # <<>> => pc \notin {"data", "start"}  BY DEF Basics, CallStates
      <3>3. QED  BY <3>1, <3>2 DEF Quiet, KickOff
    <2>3. QED  BY <1>13, <2>1, <2>2
  <1>15. CASE \E d \in Data : IdleRefill(d)
    <2>1. /\ state = "IDLE" /\ state' = "START" /\ enabled' = TRUE
          /\ held' = held /\ frame' = frame /\ pc = "out"
      BY <1>15 DEF IdleRefill, line
    <2>2. QED  BY <1>13, <2>1 DEF KickOff
  <1>16. QED  BY <1>1, <1>8, <1>9, <1>11, <1>12, <1>14, <1>15 DEF Event

LEMMA TickHolding ==
    ASSUME Basics, Timing, HeldBuffered, buffered, Tick
    PROVE  HeldBuffered'
  <1>1. /\ now' = Plus(now, 1) /\ ~IsrDue
        /\ held' = IF held > 2 * BitTicks THEN held ELSE held + 1
        /\ UNCHANGED <<straddled, inHold, state, trigger, enabled, pc, frame>>
    BY DEF Tick, uart, timer, app
  <1>2. /\ held \in 0 .. 2 * BitTicks + 1 /\ BitTicks \in Nat /\ CallTicks \in Nat
        /\ now \in 0 .. TimeMod - 1
    BY HeldTypes
  <1>3. held >= BitTicks => held' >= BitTicks  BY <1>1, <1>2
  <1>4. ASSUME enabled, OnTime  PROVE OnTime'
    <2>1. ~After(now, trigger)  BY <1>1, <1>4 DEF IsrDue
    <2>2. held' <= BitTicks /\ trigger = Plus(now', BitTicks - held')
      BY <1>1, <1>4, <2>1, OnTimeTick DEF OnTime
    <2>3. QED  BY <1>1, <2>2 DEF OnTime, At
  <1>5. pc \in Quiet \union Kicking \union {"enable"}
    BY DEF Basics, Types, CallTypes, CallStates, Quiet, Kicking
  <1>6. ASSUME frame # <<>>, inHold => Len(frame) > 2  PROVE OnTime'
    <2>1. state \notin {"IDLE", "START"}  BY <1>6, LevelsOut
    <2>2. enabled
      <3>1. CASE pc \in Quiet  BY <2>1, <3>1 DEF Timing, Settled
      <3>2. CASE pc \in Kicking
        <4>1. Early  BY <3>2 DEF Timing, KickingOff
        <4>2. state = "DATA"  BY <2>1, <4>1 DEF Early
        <4>3. QED  BY <3>2, <4>2 DEF Timing, KickingOff
      <3>3. CASE pc = "enable"  BY <2>1, <3>3 DEF Timing, KickingOff
      <3>4. QED  BY <1>5, <3>1, <3>2, <3>3
    <2>3. OnTime  BY <1>6 DEF HeldBuffered
    <2>4. QED  BY <1>4, <2>2, <2>3
  <1>7. ASSUME state = "START", ~inHold  PROVE held' >= BitTicks \/ OnTime'
    <2>1. CASE pc \in KickOff  BY <1>3, <1>7, <2>1 DEF HeldBuffered
    <2>2. CASE pc \notin KickOff
      <3>1. pc \in Quiet  BY <1>5, <2>2 DEF KickOff, Kicking
      <3>2. enabled  BY <1>7, <3>1 DEF Timing, Settled
      <3>3. QED  BY <1>3, <1>4, <1>7, <3>2 DEF HeldBuffered
    <2>3. QED  BY <2>1, <2>2
  <1>8. ASSUME inHold, Len(frame) <= 2 PROVE Cut'
    <2>1. enabled /\ Cut  BY <1>8 DEF HeldBuffered
    <2>2. PICK off \in -CallTicks .. 2 * BitTicks : At(trigger, off) /\ held + off <= AtMost
      BY <2>1 DEF Cut
    <2>3. ~After(now, Plus(now, off))  BY <1>1, <2>1, <2>2 DEF IsrDue, At
    <2>4. off > 0  BY <1>2, <2>2, <2>3, Due
    <2>5. AtMost' = AtMost /\ AtMost \in Nat /\ AtMost <= 2 * BitTicks
      BY <1>1, AtMostValue DEF AtMost
    <2>6. held' = held + 1  BY <1>1, <1>2, <2>2, <2>4, <2>5
    <2>7. PICK o \in -CallTicks .. 2 * BitTicks : o = off - 1  BY <1>2, <2>2, <2>4
    <2>8. trigger' = Plus(now', o)  BY <1>1, <2>2, <2>7, Nearer
    <2>9. held' + o = held + off /\ held' <= AtMost  BY <1>2, <2>2, <2>4, <2>5, <2>6, <2>7
    <2>10. QED  BY <2>2, <2>5, <2>8, <2>9 DEF Cut, At
  <1>9. QED  BY <1>1, <1>3, <1>6, <1>7, <1>8 DEF HeldBuffered

\* A call of uart_tx that is not at its trigger changes nothing the line depends on.
lineState == <<straddled, frame, held, trigger, now, enabled>>

LEMMA CallHolding ==
    ASSUME HeldBuffered, UNCHANGED <<lineState, state, inHold>>,
           pc' \in KickOff => pc \in KickOff, pc' = "enable" => pc = "enable"
    PROVE  HeldBuffered'
  <1>1. OnTime' = OnTime /\ Cut' = Cut  BY DEF OnTime, Cut, AtMost, At, lineState
  <1>2. QED  BY <1>1 DEF HeldBuffered, lineState

LEMMA StateHolding ==
    ASSUME Basics, Timing, HeldBuffered, TxState
    PROVE  HeldBuffered'
  <1>1. /\ pc = "state" /\ pc' = IF state = "IDLE" THEN "data" ELSE "push"
        /\ inHold' = (inHold \/ (state = "IDLE" /\ enabled))
        /\ UNCHANGED <<lineState, state>>
    BY DEF TxState, Goto, GotoWith, uart, timer, line, lineState
  <1>2. OnTime' = OnTime /\ Cut' = Cut  BY <1>1 DEF OnTime, Cut, AtMost, At, lineState
  <1>3. pc' \in KickOff /\ ~inHold' => ~enabled /\ held >= BitTicks
    BY <1>1 DEF HeldBuffered, KickOff
  <1>4. (inHold => inHold') /\ pc' # "enable"  BY <1>1
  <1>5. inHold' /\ ~inHold => enabled /\ Cut
    <2>1. HAVE inHold' /\ ~inHold
    <2>2. state = "IDLE" /\ enabled  BY <1>1, <2>1
    <2>3. buffered /\ pc \in Quiet  BY <1>1 DEF Basics, CallStates, Quiet
    <2>4. OnTime  BY <2>2, <2>3 DEF Timing, Settled, OnTime
    <2>5. QED  BY <2>2, <2>4, OnTimeCut
  <1>6. QED  BY <1>1, <1>2, <1>3, <1>4, <1>5 DEF HeldBuffered, lineState

LEMMA StartHolding ==
    ASSUME Basics, HeldBuffered, TxStart
    PROVE  HeldBuffered'
  <1>1. /\ pc = "start" /\ pc' = "time" /\ state' = "START" /\ inHold' = inHold
        /\ UNCHANGED lineState
    BY DEF TxStart, Goto, GotoWith, timer, line, lineState
  <1>2. OnTime' = OnTime /\ Cut' = Cut  BY <1>1 DEF OnTime, Cut, AtMost, At, lineState
  <1>3. pc \in KickOff /\ pc' # "enable" /\ state' # "IDLE"  BY <1>1 DEF KickOff
  <1>4. QED  BY <1>1, <1>2, <1>3 DEF HeldBuffered, lineState

LEMMA TriggerHolding ==
    ASSUME Basics, Timing, HeldBuffered, CallTicks < BitTicks, TxTrigger
    PROVE  HeldBuffered'
  <1>1. /\ pc = "trigger" /\ pc' = "enable" /\ trigger' = due
        /\ UNCHANGED <<straddled, frame, held, now, enabled, state, inHold>>
    BY DEF TxTrigger, GotoWith, uart, line, app
  <1>2. buffered /\ pc \in KickOff /\ KickingOff
    BY <1>1 DEF Basics, CallStates, KickOff, Timing
  <1>3. /\ Early
        /\ state = "START" /\ enabled => held <= BitTicks
        /\ state = "DATA" => enabled /\ held <= spent
    BY <1>1, <1>2 DEF KickingOff, Kicking
  <1>4. Len(frame) <= 1 /\ Len(frame) \in Nat  BY <1>3, LevelsOut, HeldTypes
  <1>5. ~inHold => ~enabled /\ held >= BitTicks  BY <1>2 DEF HeldBuffered
  <1>6. ~inHold => frame = <<>>  BY <1>3, <1>5, LevelsOut DEF Early
  <1>7. Len(frame) <= 2 /\ ~(Len(frame) > 2)  BY <1>4
  <1>8. state # "IDLE"  BY <1>3 DEF Early
  <1>9. ASSUME inHold PROVE Cut'
    <2>1. enabled /\ Cut  BY <1>7, <1>9 DEF HeldBuffered
    <2>2. /\ held \in 0 .. 2 * BitTicks + 1 /\ BitTicks \in Nat /\ CallTicks \in Nat
          /\ spent \in 0 .. CallTicks
      BY HeldTypes DEF Basics, Types, CallTypes
    <2>3. held <= BitTicks  BY <1>3, <2>1, <2>2 DEF Early
    <2>4. AtMost' = AtMost /\ AtMost = BitTicks
      <3>1. Len(frame) # 2  BY <1>4
      <3>2. QED  BY <1>1, <3>1, AtMostValue DEF AtMost
    <2>5. CASE due = trigger  BY <1>1, <2>1, <2>4, <2>5 DEF Cut, At
    <2>6. CASE Recent(due)
      <3>1. PICK off \in -spent .. 0 : At(due, off)  BY <2>6 DEF Recent
      <3>2. off \in -CallTicks .. 2 * BitTicks /\ held + off <= BitTicks  BY <2>2, <2>3, <3>1
      <3>3. At(trigger, off)'  BY <1>1, <3>1 DEF At
      <3>4. QED  BY <1>1, <2>3, <2>4, <3>2, <3>3 DEF Cut
    <2>7. QED  BY <1>1, <1>2, <2>5, <2>6 DEF KickingOff
  <1>10. QED  BY <1>1, <1>5, <1>6, <1>7, <1>8, <1>9 DEF HeldBuffered

LEMMA EnableHolding ==
    ASSUME HeldBuffered, TxEnable
    PROVE  HeldBuffered'
  <1>1. /\ pc = "enable" /\ pc' = "out" /\ enabled' = TRUE
        /\ UNCHANGED <<straddled, frame, held, now, trigger, state, inHold>>
    BY DEF TxEnable, Goto, GotoWith, uart, line, app
  <1>2. OnTime' = OnTime /\ Cut' = Cut  BY <1>1 DEF OnTime, Cut, AtMost, At
  <1>3. pc' \notin KickOff  BY <1>1 DEF KickOff
  <1>4. QED  BY <1>1, <1>2, <1>3 DEF HeldBuffered

\* A bit added to a time: what it is when it has not wrapped.
LEMMA BitAdded ==
    \A a \in 0 .. TimeMod - 1 :
        /\ Plus(a, BitTicks) \in 0 .. TimeMod - 1
        /\ Plus(a, BitTicks) <= a + BitTicks
        /\ a <= Plus(a, BitTicks) => Plus(a, BitTicks) = a + BitTicks
  <1>1. TAKE a \in 0 .. TimeMod - 1
  <1>2. PICK m \in Nat \ {0} : m = TimeMod  BY ClockRange
  <1>3. PICK b \in Nat : b = BitTicks  BY ClockRange
  <1>4. b < m  BY <1>2, <1>3, ClockRange
  <1>5. a \in 0 .. m - 1  BY <1>2
  <1>6. PICK t \in Int : t = a + b  BY <1>5
  <1>7. -m <= t /\ t < 2 * m  BY <1>4, <1>5, <1>6
  <1>8. PICK x : x = Plus(a, b)  OBVIOUS
  <1>9. x \in 0 .. m - 1 /\ x = Wrap(t, m)
    BY <1>2, <1>6, <1>7, <1>8, WrapOnce DEF Plus
  <1>10. x <= t /\ (a <= x => x = t)  BY <1>4, <1>5, <1>6, <1>9 DEF Wrap
  <1>11. QED  BY <1>2, <1>3, <1>6, <1>8, <1>9, <1>10

LEMMA HandleHolding ==
    ASSUME Basics, HeldBlocking, TxHandle
    PROVE  HeldBlocking'
  <1>1. /\ pc = "handle" /\ pc' = "sleep" /\ Event
        /\ mode' = mode /\ now' = now /\ inHold' = (inHold /\ frame' # <<>>)
        /\ straddled' = (mode = "poll"
                          /\ (next_event' < now \/ (straddled /\ state # "START")))
    BY DEF TxHandle, Event, config
  <1>2. ~buffered /\ state # "IDLE"  BY <1>1 DEF Basics, CallStates
  <1>3. /\ held \in 0 .. 2 * BitTicks + 1 /\ now \in 0 .. TimeMod - 1
        /\ next_event \in 0 .. TimeMod - 1
        /\ BitTicks \in Nat /\ TimeMod \in Nat
    BY HeldTypes
  <1>4. mode \in {"timer", "poll"}
    BY <1>2 DEF Basics, Types, CallTypes, buffered
  <1>5. /\ held' = 0
        /\ next_event' = Plus(IF state = "START" THEN now ELSE next_event, BitTicks)
    <2>1. CASE StartBit  BY <2>1 DEF StartBit, PortOut
    <2>2. CASE SendDataBit  BY <2>2 DEF SendDataBit, PortOut
    <2>3. CASE SendParityBit  BY <2>3 DEF SendParityBit, PortOut
    <2>4. CASE StopBit  BY <2>4 DEF StopBit, PortOut
    <2>5. ~Idle /\ ~(\E d \in Data : IdleRefill(d))  BY <1>2 DEF Idle, IdleRefill
    <2>6. QED  BY <1>1, <2>1, <2>2, <2>3, <2>4, <2>5 DEF Event
  <1>6. BitTicks - held' = BitTicks /\ held' <= BitTicks  BY <1>3, <1>5
  <1>7. state # "START" =>
           Asleep /\ (~straddled => held = BitTicks) /\ (mode = "poll" => next_event <= now)
    BY <1>1 DEF HeldBlocking
  <1>8. CASE mode = "timer"
    <2>1. ~straddled' /\ ~straddled  BY <1>1, <1>8 DEF HeldBlocking
    <2>2. next_event' = Plus(now, BitTicks)
      <3>1. CASE state = "START"  BY <1>5, <3>1
      <3>2. CASE state # "START"
        <4>1. held = BitTicks /\ At(next_event, BitTicks - held)
          BY <1>7, <1>8, <2>1, <3>2 DEF Asleep
        <4>2. next_event = Plus(now, 0)
          <5>1. BitTicks - held = 0  BY <1>3, <4>1
          <5>2. QED  BY <4>1, <5>1 DEF At
        <4>3. next_event = now  BY <1>3, <4>2, PlusZero
        <4>4. QED  BY <1>5, <3>2, <4>3
      <3>3. QED  BY <3>1, <3>2
    <2>3. Asleep'  BY <1>1, <1>6, <1>8, <2>2 DEF Asleep, At
    <2>4. QED  BY <1>1, <2>1, <2>3 DEF HeldBlocking
  <1>9. CASE mode = "poll"
    <2>1. PICK t \in 0 .. TimeMod - 1 : t = IF state = "START" THEN now ELSE next_event
      BY <1>3
    <2>2. PICK x : x = Plus(t, BitTicks)  OBVIOUS
    <2>3. /\ x \in 0 .. TimeMod - 1 /\ x <= t + BitTicks
          /\ t <= x => x = t + BitTicks
      BY <2>2, BitAdded
    <2>4. next_event' = x  BY <1>5, <2>1, <2>2
    <2>5. t <= now /\ (~straddled' => t = now)
      <3>1. CASE state = "START"  BY <1>3, <2>1, <3>1
      <3>2. CASE state # "START"
        <4>1. t = next_event /\ t <= now  BY <1>7, <1>9, <2>1, <3>2
        <4>2. ASSUME ~straddled'  PROVE t = now
          <5>1. ~straddled  BY <1>1, <1>9, <3>2, <4>2
          <5>2. held = BitTicks /\ next_event = now + (BitTicks - held)
            BY <1>7, <1>9, <3>2, <5>1 DEF Asleep
          <5>3. QED  BY <1>3, <4>1, <5>2
        <4>3. QED  BY <4>1, <4>2
      <3>3. QED  BY <3>1, <3>2
    <2>6. next_event' <= now + BitTicks  BY <1>3, <2>1, <2>3, <2>4, <2>5
    <2>7. ~straddled' => next_event' = now + BitTicks
      <3>1. HAVE ~straddled'
      <3>2. ~(x < now)  BY <1>1, <1>9, <2>4, <3>1
      <3>3. t = now  BY <2>5, <3>1
      <3>4. QED  BY <1>3, <2>3, <2>4, <3>2, <3>3
    <2>8. Asleep'  BY <1>1, <1>6, <1>9, <2>6, <2>7 DEF Asleep
    <2>9. QED  BY <1>1, <1>9, <2>8 DEF HeldBlocking
  <1>10. QED  BY <1>4, <1>8, <1>9

\* A sleep that is over: in full, or early in a frame with a deadline that wrapped.
LEMMA SleptEnough ==
    ASSUME Basics, ~buffered, HeldBlocking, pc = "sleep", SleepOver
    PROVE  /\ held <= BitTicks /\ (~straddled => held = BitTicks)
           /\ mode = "poll" => next_event <= now
  <1>1. /\ held \in 0 .. 2 * BitTicks + 1 /\ now \in 0 .. TimeMod - 1
        /\ next_event \in 0 .. TimeMod - 1 /\ BitTicks \in Nat /\ TimeMod \in Nat
    BY HeldTypes
  <1>2. Asleep  BY DEF HeldBlocking
  <1>3. mode \in {"timer", "poll"}
    BY DEF Basics, Types, CallTypes, buffered
  <1>4. CASE mode = "timer"
    <2>1. After(now, next_event)  BY <1>4 DEF SleepOver
    <2>2. held <= BitTicks /\ At(next_event, BitTicks - held)  BY <1>2, <1>4 DEF Asleep
    <2>3. held = BitTicks  BY <2>1, <2>2, OnTimeDue
    <2>4. QED  BY <1>4, <2>2, <2>3
  <1>5. CASE mode = "poll"
    <2>1. ~(now < next_event)  BY <1>5 DEF SleepOver
    <2>2. held <= BitTicks /\ (~straddled => next_event = now + (BitTicks - held))
      BY <1>2, <1>5 DEF Asleep
    <2>3. next_event <= now  BY <1>1, <2>1
    <2>4. ~straddled => held = BitTicks
      <3>1. HAVE ~straddled
      <3>2. QED  BY <1>1, <2>2, <2>3, <3>1
    <2>5. QED  BY <2>2, <2>3, <2>4
  <1>6. QED  BY <1>3, <1>4, <1>5

LEMMA WakeHolding ==
    ASSUME Basics, ~buffered, HeldBlocking, TxWake
    PROVE  HeldBlocking'
  <1>1. /\ pc = "sleep" /\ SleepOver /\ pc' = IF state = "IDLE" THEN "out" ELSE "handle"
        /\ UNCHANGED <<mode, state, next_event, now, held, inHold, straddled>>
    BY DEF TxWake, Goto, GotoWith, config, uart, line, app
  <1>2. /\ held <= BitTicks /\ (~straddled => held = BitTicks)
        /\ mode = "poll" => next_event <= now
    BY <1>1, SleptEnough
  <1>3. Asleep' = Asleep  BY <1>1 DEF Asleep, At
  <1>4. Asleep  BY <1>1 DEF HeldBlocking
  <1>5. BitTicks \in Nat  BY ClockRange
  <1>6. ~straddled => held >= BitTicks  BY <1>2, <1>5
  <1>7. QED  BY <1>1, <1>2, <1>3, <1>4, <1>6 DEF HeldBlocking

LEMMA TickBlocking ==
    ASSUME Basics, ~buffered, HeldBlocking, Tick
    PROVE  HeldBlocking'
  <1>1. /\ now' = Plus(now, 1)
        /\ pc = "out" \/ (pc = "sleep" /\ ~SleepOver)
        /\ held' = IF held > 2 * BitTicks THEN held ELSE held + 1
        /\ UNCHANGED <<mode, state, next_event, pc, inHold, straddled>>
    BY DEF Tick, config, uart, app
  <1>2. /\ held \in 0 .. 2 * BitTicks + 1 /\ now \in 0 .. TimeMod - 1
        /\ next_event \in 0 .. TimeMod - 1 /\ BitTicks \in Nat /\ TimeMod \in Nat
    BY HeldTypes
  <1>3. CASE pc = "out"
    <2>1. held >= BitTicks => held' >= BitTicks  BY <1>1, <1>2
    <2>2. QED  BY <1>1, <1>3, <2>1 DEF HeldBlocking
  <1>4. CASE pc = "sleep" /\ ~SleepOver
    <2>1. Asleep  BY <1>4 DEF HeldBlocking
    <2>2. CASE mode = "timer"
      <3>1. ~After(now, next_event)  BY <1>4, <2>2 DEF SleepOver
      <3>2. held' <= BitTicks /\ next_event = Plus(now', BitTicks - held')
        BY <1>1, <2>1, <2>2, <3>1, OnTimeTick DEF Asleep
      <3>3. Asleep'  BY <1>1, <2>2, <3>2 DEF Asleep, At
      <3>4. QED  BY <1>1, <1>4, <3>3 DEF HeldBlocking
    <2>3. CASE mode # "timer"
      <3>1. now < next_event  BY <1>4, <2>3 DEF SleepOver
      <3>2. /\ held <= BitTicks /\ next_event <= now + (BitTicks - held)
            /\ ~straddled => next_event = now + (BitTicks - held)
        BY <2>1, <2>3 DEF Asleep
      <3>3. held < BitTicks /\ held' = held + 1  BY <1>1, <1>2, <3>1, <3>2
      <3>4. now' = now + 1
        <4>1. now + 1 \in Int /\ 0 <= now + 1 /\ now + 1 < TimeMod  BY <1>2, <3>1
        <4>2. QED  BY <1>1, <4>1, Modulo DEF Plus
      <3>5. now' + (BitTicks - held') = now + (BitTicks - held) /\ held' <= BitTicks
        BY <1>2, <3>3, <3>4
      <3>6. Asleep'  BY <1>1, <2>3, <3>2, <3>5 DEF Asleep
      <3>7. QED  BY <1>1, <1>4, <3>6 DEF HeldBlocking
    <2>4. QED  BY <2>2, <2>3
  <1>5. QED  BY <1>1, <1>3, <1>4

LEMMA HoldingFirst ==
    ASSUME Init
    PROVE  Holding
  <1>1. /\ state = "IDLE" /\ pc = "out" /\ enabled = FALSE /\ held = BitTicks
        /\ frame = <<>> /\ inHold = FALSE /\ straddled = FALSE
    BY DEF Init
  <1>2. BitTicks \in Nat  BY ClockRange
  <1>3. HeldBuffered  BY <1>1, <1>2 DEF HeldBuffered, KickOff
  <1>4. HeldBlocking  BY <1>1, <1>2 DEF HeldBlocking
  <1>5. QED  BY <1>3, <1>4 DEF Holding

LEMMA BufferedStep ==
    ASSUME Basics, Timing, HeldBuffered, buffered, CallTicks < BitTicks, [Next]_vars
    PROVE  HeldBuffered'
  <1>1. pc \notin {"block", "handle", "sleep"}  BY DEF Basics, CallStates
  <1>2. ASSUME UNCHANGED <<lineState, state, inHold>>,
               pc' \in KickOff => pc \in KickOff, pc' = "enable" => pc = "enable"
        PROVE  HeldBuffered'
    BY <1>2, CallHolding
  <1>3. CASE UNCHANGED vars
    <2>1. UNCHANGED <<lineState, state, inHold, pc>>
      BY <1>3 DEF vars, uart, timer, line, call, app, lineState
    <2>2. QED  BY <1>2, <2>1
  <1>4. CASE \E d \in Data : TxCall(d)
    <2>1. UNCHANGED <<lineState, state, inHold>> /\ pc' \in {"state", "push"}
      BY <1>4 DEF TxCall, uart, timer, line, app, lineState
    <2>2. QED  BY <1>2, <2>1 DEF KickOff
  <1>5. CASE TxState  BY <1>5, StateHolding
  <1>6. CASE TxPush
    <2>1. UNCHANGED <<lineState, state, inHold>> /\ pc' = "out"
      BY <1>6 DEF TxPush, Goto, GotoWith, uart, timer, line, app, lineState
    <2>2. QED  BY <1>2, <2>1 DEF KickOff
  <1>7. CASE TxData
    <2>1. UNCHANGED <<lineState, state, inHold>> /\ pc = "data" /\ pc' = "start"
      BY <1>7 DEF TxData, Goto, GotoWith, timer, line, app, lineState
    <2>2. QED  BY <1>2, <2>1 DEF KickOff
  <1>8. CASE TxStart  BY <1>8, StartHolding
  <1>9. CASE TxTime \/ TxStamp \/ TxLoad
    <2>1. /\ UNCHANGED <<lineState, state, inHold>>
          /\ pc \in {"time", "stamp", "load"} /\ pc' \in {"stamp", "load", "trigger"}
      BY <1>9 DEF TxTime, TxStamp, TxLoad, Goto, GotoWith, uart, timer, line, app, lineState
    <2>2. QED  BY <1>2, <2>1 DEF KickOff
  <1>10. CASE TxTrigger  BY <1>10, TriggerHolding
  <1>11. CASE TxEnable  BY <1>11, EnableHolding
  <1>12. CASE Isr
    <2>1. Basics'  BY BasicsStep
    <2>2. QED  BY <1>12, <2>1, IsrHolding
  <1>13. CASE Tick  BY <1>13, TickHolding
  <1>14. ~TxBlock /\ ~TxHandle /\ ~TxWake
    BY <1>1 DEF TxBlock, TxHandle, TxWake, Goto, GotoWith
  <1>15. QED
    BY <1>3, <1>4, <1>5, <1>6, <1>7, <1>8, <1>9, <1>10, <1>11, <1>12, <1>13, <1>14
       DEF Next, Thread

LEMMA BlockingStep ==
    ASSUME Basics, HeldBlocking, ~buffered, [Next]_vars
    PROVE  HeldBlocking'
  <1>1. pc \in {"out", "block", "handle", "sleep"}  BY DEF Basics, CallStates
  <1>2. CASE UNCHANGED vars
    BY <1>2 DEF vars, config, uart, line, call, app, HeldBlocking, Asleep, At
  <1>3. CASE \E d \in Data : TxCall(d)
    <2>1. /\ pc = "out" /\ pc' = "block"
          /\ UNCHANGED <<mode, state, next_event, now, held, inHold, straddled>>
      BY <1>3 DEF TxCall, config, uart, line, app
    <2>2. QED  BY <2>1 DEF HeldBlocking
  <1>4. CASE TxBlock
    <2>1. /\ pc = "block" /\ pc' = "handle" /\ state' = "START"
          /\ UNCHANGED <<mode, held, inHold, straddled>>
      BY <1>4 DEF TxBlock, Goto, GotoWith, config, line
    <2>2. QED  BY <2>1 DEF HeldBlocking
  <1>5. CASE TxHandle  BY <1>5, HandleHolding
  <1>6. CASE TxWake  BY <1>6, WakeHolding
  <1>7. CASE Tick  BY <1>7, TickBlocking
  <1>8. /\ ~TxState /\ ~TxPush /\ ~TxData /\ ~TxStart /\ ~TxTime /\ ~TxStamp /\ ~TxLoad
        /\ ~TxTrigger /\ ~TxEnable /\ ~Isr
    BY <1>1
       DEF TxState, TxPush, TxData, TxStart, TxTime, TxStamp, TxLoad, TxTrigger, TxEnable,
           Goto, GotoWith, Isr, IsrDue
  <1>9. QED  BY <1>2, <1>3, <1>4, <1>5, <1>6, <1>7, <1>8 DEF Next, Thread

LEMMA HoldingStep ==
    ASSUME Basics, Timing, Holding, CallTicks < BitTicks, [Next]_vars
    PROVE  Holding'
  <1>1. mode' = mode
    BY DEF vars, config, Next, Thread, TxCall, TxState, TxPush, TxData, TxStart, TxTime,
           TxStamp, TxLoad, TxTrigger, TxEnable, TxBlock, TxHandle, TxWake, Isr, Event, Goto, GotoWith, Tick
  <1>2. buffered' = buffered  BY <1>1 DEF buffered
  <1>3. CASE buffered
    <2>1. HeldBuffered'  BY <1>3, BufferedStep DEF Holding
    <2>2. QED  BY <1>2, <1>3, <2>1 DEF Holding
  <1>4. CASE ~buffered
    <2>1. HeldBlocking'  BY <1>4, BlockingStep DEF Holding
    <2>2. QED  BY <1>2, <1>4, <2>1 DEF Holding
  <1>5. QED  BY <1>3, <1>4

(* The handler finds the level on the line held for a bit, except where a  *)
(* kick-off has cut a stop bit short or a polled deadline has wrapped      *)
(* (uart_tx_handle_event and the three waits of uart_tx, uart_tx.c).       *)
THEOREM HoldingInvariance ==
    ASSUME CallTicks < BitTicks
    PROVE  Spec => [](Basics /\ Timing /\ Holding)
  <1>1. Init => Holding  BY HoldingFirst
  <1>2. Basics /\ Timing /\ Holding /\ [Next]_vars => Holding'  BY HoldingStep
  <1>3. QED  BY <1>1, <1>2, TimingInvariance, PTL DEF Spec

\* What a step that puts out a level finds.
LEMMA LevelHeld ==
    ASSUME Basics, Timing, Holding, CallTicks < BitTicks, Next, frame' # frame
    PROVE  IF inHold /\ Len(frame) <= 2
           THEN held <= (IF Len(frame) = 2 THEN 2 ELSE 1) * BitTicks
           ELSE IF straddled THEN frame # <<>> => held <= BitTicks
           ELSE IF frame = <<>> THEN held >= BitTicks
           ELSE held = BitTicks
  <1>1. Isr \/ TxHandle
    BY DEF Next, Thread, TxCall, TxState, TxPush, TxData, TxStart, TxTime, TxStamp, TxLoad, TxTrigger,
           TxEnable, TxBlock, TxWake, Goto, GotoWith, Tick, line
  <1>2. BitTicks \in Nat /\ (frame = <<>> <=> Len(frame) = 0)  BY HeldTypes
  <1>3. CASE Isr
    <2>1. buffered /\ After(now, trigger) /\ enabled /\ Event  BY <1>3 DEF Isr, IsrDue
    <2>2. HeldBuffered  BY <2>1 DEF Holding
    <2>3. ~straddled  BY <2>2 DEF HeldBuffered
    <2>4. OnTime => held = BitTicks  BY <2>1, OnTimeDue DEF OnTime
    <2>5. CASE inHold /\ Len(frame) <= 2
      <3>1. held <= AtMost  BY <2>2, <2>5 DEF HeldBuffered, Cut
      <3>2. QED  BY <2>5, <3>1 DEF AtMost
    <2>6. CASE ~(inHold /\ Len(frame) <= 2) /\ frame # <<>>
      <3>1. inHold => Len(frame) > 2
        <4>1. Len(frame) \in Nat  BY HeldTypes
        <4>2. QED  BY <2>6, <4>1
      <3>2. OnTime  BY <2>2, <2>6, <3>1 DEF HeldBuffered
      <3>3. QED  BY <2>3, <2>4, <2>6, <3>2
    <2>7. CASE ~(inHold /\ Len(frame) <= 2) /\ frame = <<>>
      <3>1. state \in {"IDLE", "START"}  BY <2>7, LevelsOut
      <3>2. state = "START"
        <4>1. StartBit \/ SendDataBit \/ SendParityBit \/ StopBit
          BY <2>1 DEF Event, Idle, IdleRefill, line
        <4>2. state # "IDLE"
          BY <4>1 DEF StartBit, SendDataBit, SendParityBit, StopBit
        <4>3. QED  BY <3>1, <4>2
      <3>3. ~inHold  BY <1>2, <2>7
      <3>4. held >= BitTicks \/ OnTime  BY <2>2, <3>2, <3>3 DEF HeldBuffered
      <3>5. held >= BitTicks  BY <1>2, <2>4, <3>4
      <3>6. QED  BY <2>3, <2>7, <3>5
    <2>8. QED  BY <2>5, <2>6, <2>7
  <1>4. CASE TxHandle
    <2>1. pc = "handle"  BY <1>4 DEF TxHandle
    <2>2. ~buffered /\ state # "IDLE"  BY <2>1 DEF Basics, CallStates
    <2>3. HeldBlocking  BY <2>2 DEF Holding
    <2>4. ~inHold  BY <2>3 DEF HeldBlocking
    <2>5. CASE frame # <<>>
      <3>1. state # "START"  BY <2>5, LevelsOut
      <3>2. held <= BitTicks /\ (~straddled => held = BitTicks)
        BY <2>1, <2>3, <3>1 DEF HeldBlocking, Asleep
      <3>3. QED  BY <2>4, <2>5, <3>2
    <2>6. CASE frame = <<>>
      <3>1. state = "START"  BY <2>2, <2>6, LevelsOut
      <3>2. ~straddled => held >= BitTicks  BY <2>1, <2>3, <3>1 DEF HeldBlocking
      <3>3. QED  BY <2>4, <2>6, <3>2
    <2>7. QED  BY <2>5, <2>6
  <1>5. QED  BY <1>1, <1>3, <1>4

\* What a blocking call leaves when it returns.
LEMMA ReturnHeld ==
    ASSUME Basics, Holding, Next, ~buffered, pc' = "out", pc # "out"
    PROVE  /\ Len(wire) = Len(accepted)
           /\ IF straddled THEN held <= BitTicks ELSE held = BitTicks
  <1>1. HeldBlocking  BY DEF Holding
  <1>2. pc \in {"block", "handle", "sleep"}  BY DEF Basics, CallStates
  <1>3. TxWake
    BY <1>2 DEF Next, Thread, TxCall, TxState, TxPush, TxData, TxStart, TxTime, TxStamp, TxLoad, TxTrigger,
                TxEnable, TxBlock, TxHandle, Goto, GotoWith, Isr, IsrDue, Tick, call
  <1>4. pc = "sleep" /\ SleepOver /\ state = "IDLE"  BY <1>3 DEF TxWake, Goto, GotoWith
  <1>5. held <= BitTicks /\ (~straddled => held = BitTicks)
    BY <1>1, <1>4, SleptEnough
  <1>6. Len(accepted) = Len(wire) + Sending + Len(fifo) /\ fifo = <<>>
    BY DEF Basics, Order, Accounted, CallStates
  <1>7. wire \in Seq(Seq({0, 1}))  BY DEF Basics, Types, HandlerTypes
  <1>8. Len(wire) \in Nat /\ Sending = 0 /\ Len(fifo) = 0  BY <1>4, <1>6, <1>7 DEF Sending
  <1>9. QED  BY <1>5, <1>6, <1>8

(* Every level is held for one bit time and a blocking call returns when   *)
(* its last stop bit has been, in each of the three modes, with the two    *)
(* exceptions of BitsHeld, provided that a call of a buffered uart_tx takes *)
(* less than a bit time.                                                   *)
THEOREM LevelsHeld ==
    ASSUME CallTicks < BitTicks
    PROVE  Spec => BitsHeld
  <1>1. Basics /\ Timing /\ Holding /\ [Next]_vars =>
          [/\ frame' # frame =>
                IF inHold /\ Len(frame) <= 2
                THEN held <= (IF Len(frame) = 2 THEN 2 ELSE 1) * BitTicks
                ELSE IF straddled THEN frame # <<>> => held <= BitTicks
                ELSE IF frame = <<>> THEN held >= BitTicks
                ELSE held = BitTicks
           /\ ~buffered /\ pc' = "out" /\ pc # "out" =>
                /\ Len(wire) = Len(accepted)
                /\ IF straddled THEN held <= BitTicks ELSE held = BitTicks]_vars
    BY LevelHeld, ReturnHeld
  <1>2. QED  BY <1>1, HoldingInvariance, PTL DEF Spec, BitsHeld

=============================================================================
