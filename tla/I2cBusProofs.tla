---------------------------- MODULE I2cBusProofs ----------------------------
(***************************************************************************)
(* Proofs about I2cBus, for bytes of up to eight bits, any number of       *)
(* devices, any bytes and payloads of any length.                          *)
(***************************************************************************)
EXTENDS I2cBus, TLAPS

Bits == 0..(2^ByteBits - 1)

\* The first k bits of a byte.
Top(v, k) == v \div 2^(ByteBits - k)

SlaveTypes ==
    [state : States, next : {Waiting, "MASTER_READ", "MASTER_WRITE"},
     sda_val : 0..1, scl_val : 0..1, bitnum : 0..ByteBits, rw : 0..1,
     check : BOOLEAN, ignore : BOOLEAN, data : Bits, scl : 0..1, sda : 0..1,
     cb : {"none", "request", "data", "sent", "setup", "stop_seen", "stop"}]

-----------------------------------------------------------------------------
(* Where the bus is: in the bytes of a call, with SCL left low after or    *)
(* before them, with SCL high around a start or stop bit, or off.          *)

InBytes == pc \in {"low", "data", "rise", "high", "end"}
Gap == pc \in {"stop_sda", "stop_rise", "sr_rise"} \/ (pc = "idle" /\ ~stopped)
Mark == pc \in {"sr_high", "start_sda", "stop_high", "stop_release"}
Off == pc = "idle" /\ stopped
Starting == pc = "low" /\ j = 0 /\ i = 1

\* The edges of SCL since the byte began, of the 2 * ByteBits + 2 of its pulses.
Edges ==
    CASE pc = "low" -> 2 * (i - 1)
      [] pc \in {"data", "rise"} -> 2 * i - 1
      [] pc = "high" -> IF SCL = 0 THEN 2 * i - 1
                        ELSE IF i = ByteBits + 1 THEN 0 ELSE 2 * i
      [] OTHER -> 0

\* Those that a slave has served, and the next.
Heard(s) ==
    CASE s.state \in {"ACK_ADDR", "IGNORE_ACK"} ->
             2 * ByteBits + (IF s.cb = "request" THEN 1 ELSE 0)
      [] s.state = "ACK_WAIT_HIGH" -> 2 * ByteBits + 1
      [] s.state = "ACK_WAIT_LOW" -> 0
      [] OTHER -> 2 * s.bitnum + s.scl_val + (IF s.cb \in {"data", "sent"} THEN 1 ELSE 0)
Follow(n) == IF n = 2 * ByteBits + 1 THEN 0 ELSE n + 1

\* A slave in a byte is at most one edge behind the master, and none in a
\* callback or when the master lets SCL rise.
Keeps(s) ==
    \/ Edges = Heard(s)
    \/ s.cb = "none" /\ (pc = "high" => SCL = 1) /\ Edges = Follow(Heard(s))

Addressed(d) == op.dir \in {"read", "write"} /\ op.addr = d

\* The callbacks during which a slave holds SCL low.
Holding == {"request", "data", "sent", "setup", "stop"}

Resting(s) == s.cb = "none" /\ s.sda = 1

\* A slave that looks at SDA for start and stop bits.
Watching(s) == s.state = Waiting \/ s.check

-----------------------------------------------------------------------------
(* What is true of a slave in each of those places.                        *)

\* The start bit is on SDA: it has been seen or is due.
OnStart(s) ==
    /\ Resting(s)
    /\ Watching(s) => s.sda_val = 0
    /\ ~Watching(s) =>
          s.state = "READING_ADDR" /\ s.bitnum = 0 /\ s.scl_val = 0 /\ s.data = 0

\* In a byte, by the state of the slave: the bits of the address so far,
InAddress(d, s) ==
    /\ s.state = "READING_ADDR" =>
          /\ Resting(s) /\ j = 0 /\ pc # "end" /\ s.bitnum < ByteBits
          /\ s.data = Top(AddressByte, s.bitnum)
          /\ Edges = 0 => i = 1
          /\ Addressed(d) => seen = <<>>
    /\ s.state = "ACK_ADDR" =>
          /\ Addressed(d) /\ j = 0 /\ s.sda = 1 /\ s.scl_val = 0
          /\ s.cb \in {"none", "request"}
          /\ s.rw = (IF op.dir = "read" THEN 1 ELSE 0)
          /\ seen = <<>>
    /\ s.state = "IGNORE_ACK" => ~Addressed(d) /\ j = 0 /\ Resting(s) /\ s.scl_val = 0

\* The answers in seen when the acknowledge of the byte is on the bus.
Answers == IF i = 1 THEN j ELSE j + 1

\* the answer that is driven as an acknowledge, and what comes behind it,
InAck(d, s) ==
    /\ s.state = "ACK_WAIT_HIGH" => s.cb \in {"none", "setup"} /\ s.scl_val = 1
    /\ s.state = "ACK_WAIT_LOW" => s.cb = "none" /\ s.scl_val = 0
    /\ s.state \in {"ACK_WAIT_HIGH", "ACK_WAIT_LOW"} =>
          IF Addressed(d)
          THEN /\ Len(seen) = Answers /\ Len(seen) >= 1
               /\ seen[Len(seen)].ok <=> s.sda = 0
               /\ op.dir = "read" => Len(seen) = 1
               /\ s.next = IF Len(seen) = 1 /\ s.sda = 1 THEN Waiting
                           ELSE IF op.dir = "read" THEN "MASTER_READ"
                           ELSE "MASTER_WRITE"
          ELSE s.cb = "none" /\ s.sda = 1 /\ s.next = Waiting

\* the bits of a byte supplied and sent,
InRead(d, s) ==
    s.state = "MASTER_READ" =>
        /\ Addressed(d) /\ op.dir = "read" /\ j >= 1
        /\ s.cb \in {"none", "data", "setup"}
        /\ s.cb = "data" => s.bitnum = 0 /\ s.scl_val = 0
        /\ s.cb = "setup" => s.bitnum = 0 /\ s.scl_val = 1
        /\ Len(seen) = IF i = 1 /\ (Heard(s) \in {0, 2 * ByteBits + 1} \/ s.cb = "data")
                       THEN j ELSE j + 1
        /\ s.bitnum > 0 => Len(seen) >= 2
        /\ Heard(s) = 0 => pc # "end" /\ (pc = "high" => j < op.len)
        /\ pc = "end" => j = op.len
        /\ IF s.bitnum + s.scl_val \in 1..ByteBits
           THEN s.data = seen[j + 1].value /\ s.sda = MsbFirst(s.data, s.bitnum + s.scl_val)
           ELSE s.sda = 1

\* those of a byte written so far,
InWrite(d, s) ==
    s.state = "MASTER_WRITE" =>
        /\ Addressed(d) /\ op.dir = "write" /\ j >= 1 /\ pc # "end"
        /\ s.cb \in {"none", "sent"} /\ s.sda = 1 /\ s.next = "MASTER_WRITE"
        /\ s.cb = "sent" => s.bitnum = ByteBits /\ s.scl_val = 0
        /\ s.bitnum = 0 => s.scl_val = 1
        /\ s.bitnum = ByteBits => s.scl_val = 0
        /\ Len(seen) = j
        /\ s.data = Top(op.bytes[j], s.bitnum)

\* and that the device addressed waits only behind the last byte read.
InWaiting(d, s) ==
    s.state = Waiting =>
        /\ Resting(s)
        /\ Addressed(d) =>
              /\ op.dir = "read" /\ j = op.len
              /\ pc = "end" \/ (pc = "high" /\ i = ByteBits + 1 /\ SCL = 1)

OnByte(d, s) ==
    /\ s.state # Waiting => Keeps(s)
    /\ Watching(s) /\ SCL = 1 => s.sda_val = 1 - SDA
    /\ InAddress(d, s) /\ InAck(d, s) /\ InRead(d, s) /\ InWrite(d, s) /\ InWaiting(d, s)

OnGap(s) ==
    /\ s.cb = "none"
    /\ \/ s.state = Waiting /\ s.sda = 1
       \/ s.state = "ACK_WAIT_LOW" /\ s.scl_val = 0 /\ s.next \in {Waiting, "MASTER_WRITE"}
       \/ s.state = "MASTER_WRITE" /\ s.sda = 1 /\ s.bitnum = 0 /\ s.scl_val = 1

OnMark(s) ==
    /\ Resting(s)
    /\ Watching(s) => s.sda_val = 1 - SDA
    /\ Watching(s) \/ (s.state = "MASTER_WRITE" /\ s.bitnum = 0 /\ s.scl_val = 1)

\* The stop bit has been seen, is due, or the callback it asks for is.
OnOff(s) ==
    /\ s.sda = 1
    /\ Watching(s)
    /\ s.cb \in {"none", "stop_seen", "stop"}
    /\ s.cb # "none" => s.sda_val = 1 /\ ~s.ignore
    /\ s.sda_val = 0 => s.state = Waiting /\ s.ignore

SlaveInv(d) ==
    LET s == slave[d] IN
    /\ s.scl = IF s.cb \in Holding THEN 0 ELSE 1
    /\ s.check <=> s.state = "MASTER_WRITE" /\ s.bitnum = 1 /\ s.scl_val = 0
    /\ Starting => OnStart(s)
    /\ InBytes /\ ~Starting => OnByte(d, s)
    /\ Gap => OnGap(s)
    /\ Mark => OnMark(s)
    /\ Off => OnOff(s)

\* No slave holds SCL for its stop_bit callback while another is to see the
\* stop bit: what StopsTogether assumes of them.
StopHeld ==
    Off => \A d, e \in Devices :
        slave[d].cb = "stop" => ~(slave[e].cb = "none" /\ slave[e].sda_val = 1)

-----------------------------------------------------------------------------
(* What is true of the master, of the answers and of what it keeps.        *)

CallInv ==
    /\ InBytes \/ Gap \/ Mark \/ Off
    /\ stopped \in BOOLEAN
    /\ op \in {Calls!NoCall, Calls!StopCall} \cup Calls!Writes \cup Calls!Reads
    /\ pc = "idle" <=> op = Calls!NoCall
    /\ pc \in {"sr_rise", "sr_high", "start_sda"} \/ InBytes => op.dir \in {"read", "write"}
    /\ pc \in {"stop_sda", "stop_rise", "stop_high", "stop_release"} => op.stop
    /\ pc \in {"sr_rise", "sr_high"} => ~stopped

PlaceInv ==
    /\ i \in 0..(ByteBits + 1) /\ j \in 0..MaxLen
    /\ pc \in {"sr_rise", "sr_high", "start_sda"} \/ Starting =>
          j = 0 /\ i = 1 /\ ack = 0 /\ cur = 0 /\ buf = <<>> /\ seen = <<>>
    /\ InBytes => i >= 1 /\ j <= Calls!Length(op)
    /\ pc = "end" => i = ByteBits + 1

\* The level the master gives SDA in pulse p of byte k.
Level(k, p) ==
    IF p <= ByteBits
    THEN IF k = 0 THEN MsbFirst(AddressByte, p)
         ELSE IF op.dir = "write" THEN MsbFirst(op.bytes[k], p) ELSE 1
    ELSE IF op.dir = "read" /\ k > 0 /\ k # op.len THEN 0 ELSE 1

DriveInv ==
    /\ mscl = IF Gap \/ pc \in {"data", "rise"} THEN 0 ELSE 1
    /\ msda \in 0..1
    /\ pc \in {"idle", "sr_rise", "sr_high", "start_sda", "end", "stop_sda"} => msda = 1
    /\ pc \in {"stop_rise", "stop_high", "stop_release"} => msda = 0
    /\ pc \in {"rise", "high"} => msda = Level(j, i)
    /\ pc = "low" => msda = IF i > 1 THEN Level(j, i - 1)
                            ELSE IF j > 0 THEN Level(j - 1, ByteBits + 1) ELSE 0

\* Every byte but the last has been acknowledged.
AnswerInv ==
    /\ seen \in Seq([value : Bits, ok : BOOLEAN])
    /\ ack \in 0..1
    /\ op.dir = "read" => \A k \in 2..Len(seen) : seen[k].ok
    /\ InBytes /\ pc # "end" =>
          /\ ack = 0 /\ Len(seen) \in j..(j + 1) /\ \A k \in 1..j : seen[k].ok
          /\ op.addr \notin Devices => j = 0 /\ seen = <<>>

\* The bytes read so far are those supplied.
ReadInv ==
    /\ cur \in Bits /\ buf \in Seq(Bits) /\ Len(buf) <= MaxLen
    /\ InBytes /\ pc # "end" =>
          /\ Receiving /\ i > 1 => Len(seen) = j + 1
          /\ cur = IF Receiving /\ i > 1 THEN Top(seen[j + 1].value, i - 1) ELSE 0
          /\ Len(buf) = IF Receiving THEN j - 1 ELSE 0
          /\ \A k \in 1..Len(buf) : buf[k] = seen[k + 1].value

\* The call has done what was asked of it, and will return what it should.
Done ==
    pc \in {"end", "stop_sda", "stop_rise", "stop_high", "stop_release"} =>
        Transfer!Complete /\ Result = Transfer!Outcome

MasterInv == CallInv /\ PlaceInv /\ DriveInv /\ AnswerInv /\ ReadInv /\ Done

Inv ==
    /\ slave \in [Devices -> SlaveTypes]
    /\ \A d \in Devices : SlaveInv(d)
    /\ StopHeld
    /\ MasterInv

-----------------------------------------------------------------------------
(* Powers of two, to the width of a byte.                                  *)

IsPower(n, a) ==
    \/ n = 0 /\ a = 1
    \/ n = 1 /\ a = 2
    \/ n = 2 /\ a = 4
    \/ n = 3 /\ a = 8
    \/ n = 4 /\ a = 16
    \/ n = 5 /\ a = 32
    \/ n = 6 /\ a = 64
    \/ n = 7 /\ a = 128
    \/ n = 8 /\ a = 256

LEMMA Division ==
    /\ \A a \in Nat, b \in Nat \ {0} :
          a \div b \in Nat /\ a % b \in 0..(b - 1) /\ a = (a \div b) * b + (a % b)
    /\ \A q, r \in Nat, b \in Nat \ {0} :
          r < b => (q * b + r) \div b = q /\ (q * b + r) % b = r
  <1>1. \A a \in Nat, b \in Nat \ {0} : a \div b \in Nat
    OBVIOUS
  <1>2. \A a \in Nat, b \in Nat \ {0} : a % b \in 0..(b - 1)
    OBVIOUS
  <1>3. \A a \in Nat, b \in Nat \ {0} : a = (a \div b) * b + (a % b)
    OBVIOUS
  <1>4. \A q, r \in Nat, b \in Nat \ {0} :
          r < b => (q * b + r) \div b = q /\ (q * b + r) % b = r
    OBVIOUS
  <1>5. QED  BY <1>1, <1>2, <1>3, <1>4

LEMMA PowerTable == \A n \in 0..8 : IsPower(n, 2^n)
  <1>1. TAKE n \in 0..8
  <1>2. PICK a : a = 2^n  OBVIOUS
  <1>3. n = 0 => a = 1  BY ONLY <1>2, 2^0 = 1, Zenon
  <1>4. n = 1 => a = 2  BY ONLY <1>2, 2^1 = 2, Zenon
  <1>5. n = 2 => a = 4  BY ONLY <1>2, 2^2 = 4, Zenon
  <1>6. n = 3 => a = 8  BY ONLY <1>2, 2^3 = 8, Zenon
  <1>7. n = 4 => a = 16  BY ONLY <1>2, 2^4 = 16, Zenon
  <1>8. n = 5 => a = 32  BY ONLY <1>2, 2^5 = 32, Zenon
  <1>9. n = 6 => a = 64  BY ONLY <1>2, 2^6 = 64, Zenon
  <1>10. n = 7 => a = 128  BY ONLY <1>2, 2^7 = 128, Zenon
  <1>11. n = 8 => a = 256  BY ONLY <1>2, 2^8 = 256, Zenon
  <1>12. IsPower(n, a)
    BY <1>3, <1>4, <1>5, <1>6, <1>7, <1>8, <1>9, <1>10, <1>11 DEF IsPower
  <1>13. QED  BY <1>2, <1>12

\* The table for the three powers around a bit of a byte.
LEMMA BytePower ==
    \A k \in 0..(ByteBits - 1) :
       \E a, b, c \in Nat :
          /\ a = 2^(ByteBits - (k + 1)) /\ IsPower(ByteBits - (k + 1), a)
          /\ b = 2^(ByteBits - k) /\ b = 2 * a
          /\ c = 2^ByteBits /\ IsPower(ByteBits, c) /\ b <= c
  <1>1. TAKE k \in 0..(ByteBits - 1)
  <1>2. PICK l, m, n \in 0..8 : l = ByteBits - (k + 1) /\ m = ByteBits - k /\ n = ByteBits
    BY BusAssumption DEF BusAssumption
  <1>3. PICK a, b, c : a = 2^l /\ b = 2^m /\ c = 2^n  OBVIOUS
  <1>4. IsPower(l, a) /\ IsPower(m, b) /\ IsPower(n, c)  BY <1>3, PowerTable
  <1>5. m = l + 1 /\ m <= n  BY <1>2, BusAssumption DEF BusAssumption
  <1>6. a \in Nat /\ b \in Nat /\ c \in Nat /\ b = 2 * a /\ b <= c
    BY <1>4, <1>5 DEF IsPower
  <1>7. QED  BY <1>2, <1>3, <1>4, <1>6

LEMMA ByteRange == 2^ByteBits \in Nat /\ 2^ByteBits >= 4
  <1>1. PICK n \in 0..8 : n = ByteBits /\ n >= 2  BY BusAssumption DEF BusAssumption
  <1>2. PICK c : c = 2^n  OBVIOUS
  <1>3. IsPower(n, c)  BY <1>1, <1>2, PowerTable
  <1>4. c \in Nat /\ c >= 4  BY <1>1, <1>3 DEF IsPower
  <1>5. QED  BY <1>1, <1>2, <1>4

\* A bit more of a byte is one more binary digit.
LEMMA OneBit ==
    ASSUME NEW v \in Bits, NEW k \in 0..(ByteBits - 1)
    PROVE  /\ MsbFirst(v, k + 1) \in 0..1
           /\ Top(v, k) \in Bits /\ Top(v, k + 1) \in Bits
           /\ Top(v, k + 1) = 2 * Top(v, k) + MsbFirst(v, k + 1)
           /\ (2 * Top(v, k) + MsbFirst(v, k + 1)) % 2^ByteBits = Top(v, k + 1)
  <1>1. PICK a, b, c \in Nat :
          /\ a = 2^(ByteBits - (k + 1)) /\ IsPower(ByteBits - (k + 1), a)
          /\ b = 2^(ByteBits - k) /\ b = 2 * a
          /\ c = 2^ByteBits /\ IsPower(ByteBits, c) /\ b <= c
    BY BytePower
  <1>2. v \in 0..(c - 1)  BY <1>1 DEF Bits
  <1>3. a \in {1, 2, 4, 8, 16, 32, 64, 128, 256}  BY <1>1 DEF IsPower
  <1>4. PICK p, q \in Int : p = v \div b /\ q = v \div a
    BY <1>1, <1>2, <1>3
  <1>5. PICK e \in 0..1 : e = q % 2 /\ p \in 0..v /\ q \in 0..v /\ q = 2 * p + e
    <2>1. PICK r \in 0..(b - 1) : v = p * b + r
      <3>1. v \in Nat /\ b \in Nat \ {0}  BY <1>1, <1>2, <1>3
      <3>2. v % b \in 0..(b - 1) /\ v = p * b + (v % b)  BY <1>4, <3>1, Division
      <3>3. QED  BY <3>2
    <2>2. p \in Nat /\ a \in Nat \ {0} /\ v \in Nat
      <3>1. v \in Nat /\ b \in Nat \ {0} /\ a \in Nat \ {0}  BY <1>1, <1>2, <1>3
      <3>2. v \div b \in Nat  BY <3>1, Division
      <3>3. QED  BY <1>4, <3>1, <3>2
    <2>3. p * b = (2 * p) * a /\ (2 * p + 1) * a = (2 * p) * a + a
      <3>1. \A x, y \in Nat : x * (2 * y) = (2 * x) * y /\ (2 * x + 1) * y = (2 * x) * y + y
        OBVIOUS
      <3>2. QED  BY <1>1, <2>2, <3>1
    <2>4. \A x \in Nat : x <= x * a
      <3>1. \A x, y \in Nat : y >= 1 => x <= x * y  OBVIOUS
      <3>2. QED  BY <2>2, <3>1
    <2>5. CASE r < a
      <3>1. v = (2 * p) * a + r /\ 2 * p \in Nat  BY <2>1, <2>2, <2>3
      <3>2. q = 2 * p
        <4>1. PICK t \in Nat : t = 2 * p  BY <3>1
        <4>2. v = t * a + r /\ r \in Nat  BY <1>1, <2>1, <3>1, <4>1
        <4>3. (t * a + r) \div a = t  BY <2>2, <2>5, <4>1, <4>2, Division
        <4>4. QED  BY <1>4, <4>1, <4>2, <4>3
      <3>3. PICK m \in Nat : m = (2 * p) * a  BY <2>2
      <3>4. 2 * p <= m  BY <2>2, <2>4, <3>3
      <3>5. v = m + r /\ r \in Nat  BY <1>1, <2>1, <3>1, <3>3
      <3>6. (2 * p) % 2 = 0  BY <2>2
      <3>7. q % 2 = 0  BY <3>2, <3>6
      <3>8. p <= v /\ q <= v /\ q >= 0  BY <2>2, <3>2, <3>3, <3>4, <3>5
      <3>9. PICK e \in 0..1 : e = 0  OBVIOUS
      <3>10. e = q % 2 /\ p \in 0..v /\ q \in 0..v /\ q = 2 * p + e
        BY <2>2, <3>2, <3>7, <3>8, <3>9
      <3>11. QED  BY <3>10
    <2>6. CASE r >= a
      <3>1. v = (2 * p + 1) * a + (r - a) /\ 2 * p + 1 \in Nat
        BY <2>1, <2>2, <2>3, <2>6
      <3>2. r - a \in Nat /\ r - a < a  BY <1>1, <2>1, <2>6
      <3>3. q = 2 * p + 1
        <4>1. PICK t, u \in Nat : t = 2 * p + 1 /\ u = r - a  BY <3>1, <3>2
        <4>2. v = t * a + u  BY <3>1, <4>1
        <4>3. (t * a + u) \div a = t
          <5>1. u < a /\ t \in Nat /\ u \in Nat  BY <3>2, <4>1
          <5>2. QED  BY <2>2, <5>1, Division
        <4>4. QED  BY <1>4, <4>1, <4>2, <4>3
      <3>4. PICK m \in Nat : m = (2 * p + 1) * a  BY <2>2
      <3>5. 2 * p + 1 <= m  BY <2>2, <2>4, <3>4
      <3>6. v = m + (r - a)  BY <3>1, <3>4
      <3>7. (2 * p + 1) % 2 = 1  BY <2>2
      <3>8. q % 2 = 1  BY <3>3, <3>7
      <3>9. p <= v /\ q <= v /\ q >= 0  BY <2>2, <3>2, <3>3, <3>4, <3>5, <3>6
      <3>10. PICK e \in 0..1 : e = 1  OBVIOUS
      <3>11. e = q % 2 /\ p \in 0..v /\ q \in 0..v /\ q = 2 * p + e
        BY <2>2, <3>3, <3>8, <3>9, <3>10
      <3>12. QED  BY <3>11
    <2>7. QED  BY <2>1, <2>2, <2>5, <2>6
  <1>6. q % c = q
    <2>1. q \in 0..(c - 1)  BY <1>2, <1>5
    <2>2. q = 0 * c + q  BY <1>1, <2>1
    <2>3. q \in Nat /\ q < c /\ c \in Nat \ {0}  BY <1>1, <2>1
    <2>4. (0 * c + q) % c = q  BY <2>3, Division
    <2>5. QED  BY <2>2, <2>4
  <1>7. Top(v, k) = p /\ Top(v, k + 1) = q /\ MsbFirst(v, k + 1) = e
    BY <1>1, <1>4, <1>5 DEF Top, MsbFirst
  <1>8. p \in Bits /\ q \in Bits  BY <1>1, <1>2, <1>5 DEF Bits
  <1>9. (2 * p + e) % c = q  BY <1>5, <1>6
  <1>10. (2 * Top(v, k) + MsbFirst(v, k + 1)) % 2^ByteBits = Top(v, k + 1)
    BY <1>1, <1>7, <1>9
  <1>11. MsbFirst(v, k + 1) \in 0..1 /\ Top(v, k) \in Bits /\ Top(v, k + 1) \in Bits
    BY <1>5, <1>7, <1>8
  <1>12. Top(v, k + 1) = 2 * Top(v, k) + MsbFirst(v, k + 1)  BY <1>5, <1>7
  <1>13. QED  BY <1>10, <1>11, <1>12

\* No bit and all of a byte.
LEMMA NoBit == \A v \in Bits : Top(v, 0) = 0
  <1>1. TAKE v \in Bits
  <1>2. PICK c \in Nat : c = 2^ByteBits /\ IsPower(ByteBits, c)
    BY BytePower, BusAssumption DEF BusAssumption
  <1>3. v \in 0..(c - 1)  BY <1>2 DEF Bits
  <1>4. v \div c = 0
    <2>1. v = 0 * c + v  BY <1>2, <1>3
    <2>2. QED  BY <1>2, <1>3, <2>1, Division
  <1>5. ByteBits - 0 = ByteBits  BY BusAssumption DEF BusAssumption
  <1>6. QED  BY <1>2, <1>4, <1>5 DEF Top

LEMMA AllBits == \A v \in Bits : Top(v, ByteBits) = v
  <1>1. TAKE v \in Bits
  <1>2. ByteBits - ByteBits = 0  BY BusAssumption DEF BusAssumption
  <1>3. v \div 1 = v  BY ByteRange DEF Bits
  <1>4. 2^0 = 1
    <2>1. PICK z \in 0..8 : z = 0  OBVIOUS
    <2>2. PICK a : a = 2^z  OBVIOUS
    <2>3. a = 1  BY <2>1, <2>2, PowerTable DEF IsPower
    <2>4. QED  BY <2>1, <2>2, <2>3
  <1>5. QED  BY <1>2, <1>3, <1>4 DEF Top

\* The address and the direction.
LEMMA AddressBits ==
    ASSUME NEW a \in Devices \cup Absent, NEW r \in 0..1
    PROVE  /\ a \in Nat /\ 2 * a + r \in Bits
           /\ Top(2 * a + r, ByteBits - 1) = a
           /\ MsbFirst(2 * a + r, ByteBits) = r
  <1>1. PICK k \in 0..(ByteBits - 1) : k = ByteBits - 1
    BY BusAssumption DEF BusAssumption
  <1>2. PICK h, b, c \in Nat :
          /\ h = 2^(ByteBits - (k + 1)) /\ IsPower(ByteBits - (k + 1), h)
          /\ b = 2^(ByteBits - k) /\ b = 2 * h
          /\ c = 2^ByteBits /\ IsPower(ByteBits, c) /\ b <= c
    BY BytePower
  <1>3. h = 1 /\ b = 2 /\ ByteBits - k = 1  BY <1>1, <1>2, BusAssumption DEF IsPower, BusAssumption
  <1>4. PICK l, n \in 0..8 : l = ByteBits - 1 /\ n = ByteBits
    BY BusAssumption DEF BusAssumption
  <1>5. PICK e : e = 2^l  OBVIOUS
  <1>6. IsPower(l, e)  BY <1>4, <1>5, PowerTable
  <1>7. c = 2 * e /\ e \in Nat  BY <1>2, <1>4, <1>6 DEF IsPower
  <1>8. a \in 0..(e - 1)  BY <1>4, <1>5, BusAssumption DEF BusAssumption
  <1>9. 2 * a + r \in Bits  BY <1>2, <1>7, <1>8 DEF Bits
  <1>10. (2 * a + r) \div 2 = a /\ (2 * a + r) \div 1 = 2 * a + r /\ (2 * a + r) % 2 = r
    BY <1>8
  <1>11. Top(2 * a + r, ByteBits - 1) = a  BY <1>1, <1>2, <1>3, <1>10 DEF Top
  <1>12. MsbFirst(2 * a + r, ByteBits) = r
    <2>1. ByteBits - ByteBits = ByteBits - (k + 1)  BY <1>1, BusAssumption DEF BusAssumption
    <2>2. 2^(ByteBits - ByteBits) = 1  BY <1>2, <1>3, <2>1
    <2>3. QED  BY <1>10, <2>2 DEF MsbFirst
  <1>13. QED  BY <1>8, <1>9, <1>11, <1>12

-----------------------------------------------------------------------------
(* The calls of the master.                                                *)

LEMMA Payloads == \A x \in Calls!BoundedSeq(Written, MaxLen) : x \in Seq(Bits) /\ Len(x) \in 0..MaxLen
  <1>1. TAKE x \in Calls!BoundedSeq(Written, MaxLen)
  <1>2. PICK n \in 0..MaxLen : x \in [1..n -> Written]
    BY DEF Calls!BoundedSeq, Calls!SeqOf
  <1>3. Written \subseteq Bits  BY BusAssumption DEF BusAssumption, Bits
  <1>4. n \in Nat  BY <1>2, BusAssumption DEF BusAssumption
  <1>5. x \in Seq(Bits) /\ Len(x) = n  BY <1>2, <1>3, <1>4
  <1>6. QED  BY <1>2, <1>5

LEMMA CallFacts ==
    ASSUME CallInv
    PROVE  /\ op.dir = "write" =>
                /\ op.addr \in Devices \cup Absent /\ op.stop \in BOOLEAN
                /\ op.bytes \in Seq(Bits) /\ Len(op.bytes) \in 0..MaxLen
                /\ Calls!Length(op) = Len(op.bytes)
           /\ op.dir = "read" =>
                /\ op.addr \in Devices \cup Absent /\ op.stop \in BOOLEAN
                /\ op.len \in 1..MaxLen /\ Calls!Length(op) = op.len
           /\ op.dir \in {"read", "write"} <=> op \notin {Calls!NoCall, Calls!StopCall}
           /\ op = Calls!NoCall => op.dir = "none"
           /\ op = Calls!StopCall => op.dir = "stop" /\ op.stop = TRUE
  <1>1. CASE op = Calls!NoCall
    BY <1>1 DEF Calls!NoCall, Calls!StopCall
  <1>2. CASE op = Calls!StopCall
    BY <1>2 DEF Calls!NoCall, Calls!StopCall
  <1>3. CASE op \in Calls!Writes
    <2>1. /\ op.dir = "write" /\ op.addr \in Devices \cup Absent /\ op.stop \in BOOLEAN
          /\ op.bytes \in Calls!BoundedSeq(Written, MaxLen)
      <3>1. PICK B : B = Calls!BoundedSeq(Written, MaxLen)  OBVIOUS
      <3>2. op \in [dir : {"write"}, addr : Devices \cup Absent, bytes : B, stop : BOOLEAN]
        BY <1>3, <3>1 DEF Calls!Writes
      <3>3. /\ op.dir = "write" /\ op.addr \in Devices \cup Absent /\ op.stop \in BOOLEAN
            /\ op.bytes \in B
        BY ONLY <3>2
      <3>4. QED  BY <3>1, <3>3
    <2>2. op.bytes \in Seq(Bits) /\ Len(op.bytes) \in 0..MaxLen  BY <2>1, Payloads
    <2>3. op # Calls!NoCall /\ op # Calls!StopCall  BY <2>1 DEF Calls!NoCall, Calls!StopCall
    <2>4. QED  BY <2>1, <2>2, <2>3 DEF Calls!Length
  <1>4. CASE op \in Calls!Reads
    <2>1. /\ op.dir = "read" /\ op.addr \in Devices \cup Absent /\ op.stop \in BOOLEAN
          /\ op.len \in 1..MaxLen
      BY <1>4 DEF Calls!Reads
    <2>2. op # Calls!NoCall /\ op # Calls!StopCall  BY <2>1 DEF Calls!NoCall, Calls!StopCall
    <2>3. QED  BY <2>1, <2>2 DEF Calls!Length
  <1>5. QED  BY <1>1, <1>2, <1>3, <1>4 DEF CallInv

LEMMA AddressFacts ==
    ASSUME CallInv, op.dir \in {"read", "write"}
    PROVE  /\ AddressByte \in Bits
           /\ Top(AddressByte, ByteBits - 1) = op.addr
           /\ MsbFirst(AddressByte, ByteBits) = IF op.dir = "read" THEN 1 ELSE 0
  <1>1. op.addr \in Devices \cup Absent  BY CallFacts
  <1>2. PICK r \in 0..1 : r = IF op.dir = "read" THEN 1 ELSE 0  OBVIOUS
  <1>3. AddressByte = 2 * op.addr + r  BY <1>2 DEF AddressByte
  <1>4. QED  BY <1>1, <1>2, <1>3, AddressBits

-----------------------------------------------------------------------------
(* The wires.                                                              *)

LEMMA Wires ==
    /\ SCL \in 0..1 /\ SDA \in 0..1
    /\ SCL = 1 <=> mscl = 1 /\ \A d \in Devices : slave[d].scl = 1
    /\ SDA = 1 <=> msda = 1 /\ \A d \in Devices : slave[d].sda = 1
  BY DEF SCL, SDA, Wire

LEMMA WiresNext ==
    /\ SCL' \in 0..1 /\ SDA' \in 0..1
    /\ SCL' = 1 <=> mscl' = 1 /\ \A d \in Devices : slave'[d].scl = 1
    /\ SDA' = 1 <=> msda' = 1 /\ \A d \in Devices : slave'[d].sda = 1
  BY DEF SCL, SDA, Wire

\* The clock in each place of the bus.
LEMMA Clock ==
    ASSUME Inv
    PROVE  /\ Starting \/ Mark \/ pc \in {"low", "end"} => SCL = 1
           /\ Gap \/ pc \in {"data", "rise"} => SCL = 0
           /\ InBytes /\ ~Starting => (SCL = 1 <=> \E n \in Nat : Edges = 2 * n)
  <1>1. /\ slave \in [Devices -> SlaveTypes] /\ \A d \in Devices : SlaveInv(d)
        /\ DriveInv /\ PlaceInv /\ CallInv
    BY DEF Inv, MasterInv
  <1>2. ByteBits \in 2..8  BY BusAssumption DEF BusAssumption
  <1>3. ASSUME Starting \/ Mark PROVE SCL = 1
    <2>1. mscl = 1  BY <1>1, <1>3 DEF DriveInv, Starting, Mark, Gap
    <2>2. ASSUME NEW d \in Devices PROVE slave[d].scl = 1
      <3>1. slave[d].cb = "none"
        BY <1>1, <1>3 DEF SlaveInv, OnStart, OnMark, Resting
      <3>2. QED  BY <1>1, <3>1 DEF SlaveInv, Holding
    <2>3. QED  BY <2>1, <2>2, Wires
  <1>4. ASSUME pc \in {"low", "end"}, ~Starting PROVE SCL = 1
    <2>1. mscl = 1  BY <1>1, <1>4 DEF DriveInv, Gap
    <2>2. ASSUME NEW d \in Devices PROVE slave[d].scl = 1
      <3>1. slave[d] \in SlaveTypes /\ SlaveInv(d)  BY <1>1
      <3>2. i \in 0..(ByteBits + 1)  BY <1>1 DEF PlaceInv
      <3>3. OnByte(d, slave[d])  BY <1>4, <3>1 DEF SlaveInv, InBytes
      <3>4. SUFFICES ASSUME slave[d].cb \in Holding PROVE FALSE
        BY <3>1 DEF SlaveInv
      <3>5. Edges = Heard(slave[d]) /\ slave[d].state # Waiting
        BY <3>3, <3>4 DEF OnByte, Keeps, InWaiting, Resting, Holding
      <3>6. PICK n \in Int : Edges = 2 * n
        <4>1. i - 1 \in Int /\ 0 = 2 * 0  BY <3>2
        <4>2. CASE pc = "low"  BY <3>2, <4>1, <4>2 DEF Edges
        <4>3. CASE pc = "end"
          <5>1. Edges = 0  BY <4>3 DEF Edges
          <5>2. QED  BY <5>1, <4>1
        <4>4. QED  BY <1>4, <4>2, <4>3
      <3>7. PICK m \in Int : Heard(slave[d]) = 2 * m + 1
        <4>1. CASE slave[d].state \in {"ACK_ADDR", "IGNORE_ACK"}
          BY <1>2, <3>1, <3>3, <3>4, <4>1
          DEF OnByte, InAddress, Resting, Holding, Heard
        <4>2. CASE slave[d].state = "ACK_WAIT_HIGH"
          BY <1>2, <4>2 DEF Heard
        <4>3. CASE slave[d].state = "MASTER_READ"
          <5>1. slave[d].cb \in {"data", "setup"}
            BY <3>3, <3>4, <4>3 DEF OnByte, InRead, Holding
          <5>2. Heard(slave[d]) = 2 * 0 + 1
            BY <3>3, <4>3, <5>1 DEF OnByte, InRead, Heard
          <5>3. QED  BY <5>2
        <4>4. CASE slave[d].state = "MASTER_WRITE"
          BY <1>2, <3>1, <3>3, <3>4, <4>4
          DEF OnByte, InWrite, Holding, Heard, SlaveTypes
        <4>5. slave[d].state \in States \ {Waiting, "READING_ADDR", "ACK_WAIT_LOW"}
          BY <3>1, <3>3, <3>4, <3>5
          DEF OnByte, InAddress, InAck, Resting, Holding, SlaveTypes
        <4>6. QED  BY <4>1, <4>2, <4>3, <4>4, <4>5 DEF States
      <3>8. 2 * n # 2 * m + 1  BY <3>6, <3>7
      <3>9. QED  BY <3>5, <3>6, <3>7, <3>8
    <2>3. QED  BY <2>1, <2>2, Wires
  <1>5. ASSUME Gap \/ pc \in {"data", "rise"} PROVE SCL = 0
    <2>1. mscl = 0  BY <1>1, <1>5 DEF DriveInv
    <2>2. QED  BY <2>1, Wires
  <1>6. ASSUME InBytes, ~Starting PROVE SCL = 1 <=> \E n \in Nat : Edges = 2 * n
    <2>1. i \in 1..(ByteBits + 1)  BY <1>1, <1>6 DEF PlaceInv
    <2>2. CASE pc \in {"low", "end"}
      <3>1. i - 1 \in Nat /\ 0 = 2 * 0  BY <2>1
      <3>2. QED  BY <1>4, <1>6, <2>2, <3>1 DEF Edges
    <2>3. CASE pc \in {"data", "rise"}
      BY <1>5, <2>1, <2>3 DEF Edges
    <2>4. CASE pc = "high"
      <3>1. i \in Nat /\ 0 = 2 * 0  BY <2>1
      <3>2. CASE SCL = 0
        <4>1. Edges = 2 * i - 1  BY <2>4, <3>2 DEF Edges
        <4>2. \A n \in Nat : 2 * i - 1 # 2 * n  BY <3>1
        <4>3. QED  BY <3>2, <4>1, <4>2
      <3>3. CASE SCL = 1
        <4>1. Edges = 2 * i \/ Edges = 0  BY <2>4, <3>3 DEF Edges
        <4>2. QED  BY <3>1, <3>3, <4>1
      <3>4. QED  BY <3>2, <3>3, Wires
    <2>5. QED  BY <1>6, <2>2, <2>3, <2>4 DEF InBytes
  <1>7. QED  BY <1>3, <1>4, <1>5, <1>6

\* The data line in each place of the bus.
LEMMA DataLine ==
    ASSUME Inv
    PROVE  /\ Starting => SDA = 0
           /\ Mark => SDA = msda
           /\ Off => SDA = 1
           /\ InBytes /\ ~Starting =>
                 (SDA = 1 <=> msda = 1 /\ \A d \in Devices : Addressed(d) => slave[d].sda = 1)
           /\ InBytes /\ ~Starting =>
                 \A d \in Devices : slave[d].sda = 0 =>
                    /\ Addressed(d) /\ slave[d].state \in {"ACK_WAIT_HIGH", "ACK_WAIT_LOW", "MASTER_READ"}
  <1>1. /\ slave \in [Devices -> SlaveTypes] /\ \A d \in Devices : SlaveInv(d)
        /\ DriveInv /\ PlaceInv /\ CallInv
    BY DEF Inv, MasterInv
  <1>2. Starting => SDA = 0
    <2>1. Starting => msda = 0  BY <1>1 DEF DriveInv, Starting
    <2>2. QED  BY <2>1, Wires
  <1>3. Mark => SDA = msda
    <2>1. Mark => \A d \in Devices : slave[d].sda = 1
      BY <1>1 DEF SlaveInv, OnMark, Resting
    <2>2. msda \in 0..1  BY <1>1 DEF DriveInv
    <2>3. QED  BY <2>1, <2>2, Wires
  <1>4. Off => SDA = 1
    <2>1. Off => \A d \in Devices : slave[d].sda = 1
      BY <1>1 DEF SlaveInv, OnOff
    <2>2. Off => msda = 1  BY <1>1 DEF DriveInv, Off
    <2>3. QED  BY <2>1, <2>2, Wires
  <1>5. ASSUME InBytes, ~Starting, NEW d \in Devices, slave[d].sda = 0
        PROVE  /\ Addressed(d)
               /\ slave[d].state \in {"ACK_WAIT_HIGH", "ACK_WAIT_LOW", "MASTER_READ"}
    <2>1. slave[d] \in SlaveTypes /\ OnByte(d, slave[d])  BY <1>1, <1>5 DEF SlaveInv
    <2>2. slave[d].state \in States  BY <2>1 DEF SlaveTypes
    <2>3. QED
      BY <1>5, <2>1, <2>2
      DEF States, OnByte, InAddress, InAck, InRead, InWrite, InWaiting, Resting
  <1>6. ASSUME NEW d \in Devices PROVE slave[d].sda \in 0..1
    BY <1>1 DEF SlaveTypes
  <1>7. InBytes /\ ~Starting =>
           (SDA = 1 <=> msda = 1 /\ \A d \in Devices : Addressed(d) => slave[d].sda = 1)
    BY <1>5, <1>6, Wires
  <1>8. QED  BY <1>2, <1>3, <1>4, <1>5, <1>7

-----------------------------------------------------------------------------
(* The step of a slave: what it leaves alone.                              *)

\* The slaves that do not move see the same bus.
LEMMA SameView ==
    ASSUME Inv, NEW e \in Devices, slave'[e] = slave[e], UNCHANGED master,
           SCL' = SCL, SCL = 1 => SDA' = SDA,
           seen' = seen \/ (InBytes /\ ~Starting /\ ~Addressed(e))
    PROVE  SlaveInv(e)'
  <1>1. SlaveInv(e)  BY DEF Inv
  <1>2. UNCHANGED <<pc, op, j, i, stopped>>  BY DEF master
  <1>3. /\ Starting' = Starting /\ InBytes' = InBytes /\ Gap' = Gap /\ Mark' = Mark
        /\ Off' = Off /\ Edges' = Edges /\ Answers' = Answers /\ AddressByte' = AddressByte
    BY <1>2 DEF Starting, InBytes, Gap, Mark, Off, Edges, Answers, AddressByte
  <1>4. Addressed(e)' <=> Addressed(e)  BY <1>2 DEF Addressed
  <1>5. Starting' => OnStart(slave[e])'
    BY <1>1, <1>3 DEF SlaveInv, OnStart, Resting, Watching
  <1>6. Gap' => OnGap(slave[e])'
    BY <1>1, <1>3 DEF SlaveInv, OnGap
  <1>7. Mark' => OnMark(slave[e])'
    BY <1>1, <1>3, Clock DEF SlaveInv, OnMark, Resting, Watching
  <1>8. Off' => OnOff(slave[e])'
    BY <1>1, <1>3 DEF SlaveInv, OnOff, Watching
  <1>9. ASSUME InBytes, ~Starting PROVE OnByte(e, slave[e])'
    <2>1. OnByte(e, slave[e])  BY <1>1, <1>9 DEF SlaveInv
    <2>2. Heard(slave[e])' = Heard(slave[e])  BY DEF Heard
    <2>3. InAddress(e, slave[e])'
      BY <1>2, <1>3, <1>4, <2>1 DEF OnByte, InAddress, Resting, Top
    <2>4. InAck(e, slave[e])'
      BY <1>2, <1>3, <1>4, <2>1 DEF OnByte, InAck
    <2>5. InRead(e, slave[e])'
      BY <1>2, <1>3, <1>4, <2>1, <2>2 DEF OnByte, InRead, MsbFirst
    <2>6. InWrite(e, slave[e])'
      BY <1>2, <1>3, <1>4, <2>1 DEF OnByte, InWrite, Top
    <2>7. InWaiting(e, slave[e])'
      BY <1>2, <1>4, <2>1 DEF OnByte, InWaiting, Resting
    <2>8. QED
      BY <1>2, <1>3, <2>1, <2>2, <2>3, <2>4, <2>5, <2>6, <2>7 DEF OnByte, Keeps, Watching
  <1>10. QED  BY <1>1, <1>3, <1>5, <1>6, <1>7, <1>8, <1>9 DEF SlaveInv

LEMMA MasterKept ==
    ASSUME MasterInv, UNCHANGED <<master, seen>>
    PROVE  MasterInv'
  <1>1. UNCHANGED <<pc, op, j, i, ack, cur, buf, stopped, mscl, msda, seen>>  BY DEF master
  <1>2. CallInv'
    BY <1>1 DEF MasterInv, CallInv, InBytes, Gap, Mark, Off
  <1>3. PlaceInv'
    BY <1>1 DEF MasterInv, PlaceInv, InBytes, Starting
  <1>4. DriveInv'
    BY <1>1 DEF MasterInv, DriveInv, Gap, Level, AddressByte, MsbFirst
  <1>5. AnswerInv'
    BY <1>1 DEF MasterInv, AnswerInv, InBytes
  <1>6. ReadInv'
    BY <1>1 DEF MasterInv, ReadInv, InBytes, Receiving, Top
  <1>7. Done'
    BY <1>1 DEF MasterInv, Done, Transfer!Complete, Transfer!Outcome, Transfer!Length,
                Transfer!Values, Transfer!NoReply, Result
  <1>8. QED  BY <1>2, <1>3, <1>4, <1>5, <1>6, <1>7 DEF MasterInv

\* One that moves, without a callback that answers or releases the clock.
LEMMA SlaveStep ==
    ASSUME Inv, NEW d \in Devices, NEW t, t = slave'[d], t \in SlaveTypes,
           slave' \in [Devices -> SlaveTypes], \A e \in Devices \ {d} : slave'[e] = slave[e],
           UNCHANGED <<master, seen>>,
           t.scl = slave[d].scl \/ (SCL = 0 /\ t.scl = 0),
           t.sda = slave[d].sda \/ SCL = 0,
           t.scl = IF t.cb \in Holding THEN 0 ELSE 1,
           t.check <=> t.state = "MASTER_WRITE" /\ t.bitnum = 1 /\ t.scl_val = 0,
           Starting => OnStart(t), InBytes /\ ~Starting => OnByte(d, t),
           Gap => OnGap(t), Mark => OnMark(t), Off => OnOff(t), StopHeld'
    PROVE  Inv'
  <1>1. UNCHANGED <<pc, op, j, i, stopped, mscl, msda>>  BY DEF master
  <1>2. SCL' = SCL
    BY <1>1, Wires, WiresNext
  <1>3. SCL = 1 => SDA' = SDA
    BY <1>1, Wires, WiresNext
  <1>4. \A e \in Devices \ {d} : SlaveInv(e)'
    BY <1>2, <1>3, SameView
  <1>5. /\ Starting' = Starting /\ InBytes' = InBytes /\ Gap' = Gap /\ Mark' = Mark
        /\ Off' = Off /\ Edges' = Edges /\ Answers' = Answers /\ AddressByte' = AddressByte
    BY <1>1, <1>2 DEF Starting, InBytes, Gap, Mark, Off, Edges, Answers, AddressByte
  <1>6. Addressed(d)' <=> Addressed(d)  BY <1>1 DEF Addressed
  <1>7. Starting' => OnStart(slave[d])'
    BY <1>5 DEF OnStart, Resting, Watching
  <1>8. Gap' => OnGap(slave[d])'
    BY <1>5 DEF OnGap
  <1>9. Mark' => OnMark(slave[d])'
    BY <1>3, <1>5, Clock DEF OnMark, Resting, Watching
  <1>10. Off' => OnOff(slave[d])'
    BY <1>5 DEF OnOff, Watching
  <1>11. ASSUME InBytes, ~Starting PROVE OnByte(d, slave[d])'
    <2>1. OnByte(d, t)  BY <1>11
    <2>2. Heard(slave[d])' = Heard(t)  BY DEF Heard
    <2>3. InAddress(d, slave[d])'
      BY <1>1, <1>5, <1>6, <2>1 DEF OnByte, InAddress, Resting, Top
    <2>4. InAck(d, slave[d])'
      BY <1>1, <1>5, <1>6, <2>1 DEF OnByte, InAck
    <2>5. InRead(d, slave[d])'
      BY <1>1, <1>5, <1>6, <2>1, <2>2 DEF OnByte, InRead, MsbFirst
    <2>6. InWrite(d, slave[d])'
      BY <1>1, <1>5, <1>6, <2>1 DEF OnByte, InWrite, Top
    <2>7. InWaiting(d, slave[d])'
      BY <1>1, <1>2, <1>6, <2>1 DEF OnByte, InWaiting, Resting
    <2>8. QED
      BY <1>1, <1>2, <1>3, <1>5, <2>1, <2>2, <2>3, <2>4, <2>5, <2>6, <2>7
      DEF OnByte, Keeps, Watching
  <1>12. SlaveInv(d)'
    BY <1>5, <1>7, <1>8, <1>9, <1>10, <1>11 DEF SlaveInv
  <1>13. MasterInv'  BY MasterKept DEF Inv
  <1>14. QED  BY <1>4, <1>12, <1>13 DEF Inv

-----------------------------------------------------------------------------
(* When a slave is served.                                                 *)

LEMMA Parts ==
    ASSUME Inv
    PROVE  /\ slave \in [Devices -> SlaveTypes] /\ \A d \in Devices : SlaveInv(d)
           /\ CallInv /\ PlaceInv /\ DriveInv /\ AnswerInv /\ ReadInv /\ Done
           /\ StopHeld /\ ByteBits \in 2..8
  BY BusAssumption DEF Inv, MasterInv, BusAssumption

\* A slave due on SCL is one edge behind the master; one that is not, is not.
LEMMA InTime ==
    ASSUME Inv, InBytes, ~Starting, NEW d \in Devices,
           slave[d].cb = "none", slave[d].state # Waiting
    PROVE  IF SclDue(d) THEN Edges = Follow(Heard(slave[d])) /\ (pc = "high" => SCL = 1)
           ELSE Edges = Heard(slave[d])
  <1>1. /\ slave[d] \in SlaveTypes /\ OnByte(d, slave[d]) /\ ByteBits \in 2..8
    BY Parts DEF SlaveInv
  <1>2. slave[d].scl_val \in 0..1 /\ slave[d].bitnum \in 0..ByteBits /\ slave[d].state \in States
    BY <1>1 DEF SlaveTypes
  <1>3. SCL \in 0..1  BY Wires
  <1>4. SCL = 1 <=> \E n \in Nat : Edges = 2 * n  BY Clock
  <1>5. PICK m \in Nat : Heard(slave[d]) = 2 * m + slave[d].scl_val
    <2>1. CASE slave[d].state = "ACK_WAIT_HIGH"
      <3>1. Heard(slave[d]) = 2 * ByteBits + slave[d].scl_val
        BY <1>1, <1>2, <2>1 DEF OnByte, InAck, Heard
      <3>2. QED  BY <1>1, <3>1
    <2>2. CASE slave[d].state = "ACK_WAIT_LOW"
      <3>1. Heard(slave[d]) = 2 * 0 + slave[d].scl_val
        BY <1>1, <1>2, <2>2 DEF OnByte, InAck, Heard
      <3>2. QED  BY <3>1
    <2>3. CASE slave[d].state \in {"ACK_ADDR", "IGNORE_ACK"}
      <3>1. Heard(slave[d]) = 2 * ByteBits + slave[d].scl_val
        BY <1>1, <1>2, <2>3 DEF OnByte, InAddress, Heard, Resting
      <3>2. QED  BY <1>1, <3>1
    <2>4. CASE slave[d].state \in {"READING_ADDR", "MASTER_READ", "MASTER_WRITE"}
      <3>1. Heard(slave[d]) = 2 * slave[d].bitnum + slave[d].scl_val
        BY <1>2, <2>4 DEF Heard
      <3>2. QED  BY <1>1, <1>2, <3>1
    <2>5. QED  BY <1>2, <2>1, <2>2, <2>3, <2>4 DEF States
  <1>6. SclDue(d) <=> SCL = slave[d].scl_val  BY DEF SclDue
  <1>7. \/ Edges = Heard(slave[d])
        \/ Edges = Follow(Heard(slave[d])) /\ (pc = "high" => SCL = 1)
    BY <1>1 DEF OnByte, Keeps
  <1>8. ASSUME Edges = Heard(slave[d]) PROVE ~SclDue(d)
    <2>1. slave[d].scl_val = 0 => SCL = 1
      BY <1>4, <1>5, <1>8
    <2>2. slave[d].scl_val = 1 => SCL # 1
      <3>1. slave[d].scl_val = 1 => \A n \in Nat : Edges # 2 * n
        BY <1>5, <1>8
      <3>2. QED  BY <1>4, <3>1
    <2>3. QED  BY <1>2, <1>3, <1>6, <2>1, <2>2
  <1>9. ASSUME Edges = Follow(Heard(slave[d])), Edges # Heard(slave[d]) PROVE SclDue(d)
    <2>1. CASE slave[d].scl_val = 0
      <3>1. Edges = 2 * m + 1
        BY <1>1, <1>5, <1>9, <2>1 DEF Follow
      <3>2. \A n \in Nat : Edges # 2 * n  BY <1>5, <3>1
      <3>3. QED  BY <1>3, <1>4, <1>6, <2>1, <3>2
    <2>2. CASE slave[d].scl_val = 1
      <3>1. Edges = 2 * 0 \/ Edges = 2 * (m + 1)
        BY <1>1, <1>5, <1>9, <2>2 DEF Follow
      <3>2. 0 \in Nat /\ m + 1 \in Nat  BY <1>5
      <3>3. SCL = 1  BY <1>4, <3>1, <3>2
      <3>4. QED  BY <1>6, <2>2, <3>3
    <2>3. QED  BY <1>2, <2>1, <2>2
  <1>10. QED  BY <1>7, <1>8, <1>9

\* Where a slave is due on SCL.
LEMMA Served ==
    ASSUME Inv, NEW d \in Devices, slave[d].cb = "none", SclDue(d)
    PROVE  /\ ~Starting /\ ~Off
           /\ Gap => slave[d].state = "ACK_WAIT_LOW"
           /\ Mark => slave[d].state = "MASTER_WRITE" /\ slave[d].bitnum = 0
                        /\ slave[d].scl_val = 1
           /\ InBytes \/ Gap \/ Mark
           /\ InBytes => /\ OnByte(d, slave[d]) /\ Edges = Follow(Heard(slave[d]))
                         /\ pc = "high" => SCL = 1
  <1>1. /\ slave[d] \in SlaveTypes /\ SlaveInv(d) /\ CallInv /\ DriveInv /\ StopHeld
        /\ slave \in [Devices -> SlaveTypes]
    BY Parts
  <1>2. slave[d].state # Waiting /\ SCL = slave[d].scl_val  BY DEF SclDue
  <1>3. ~Starting
    BY <1>1, <1>2, Clock DEF SlaveInv, OnStart, Watching
  <1>4. ~Off
    <2>1. SUFFICES ASSUME Off PROVE FALSE  OBVIOUS
    <2>2. OnOff(slave[d])  BY <1>1, <2>1 DEF SlaveInv
    <2>3. slave[d].scl_val = 0 /\ slave[d].sda_val = 1
      BY <1>1, <1>2, <2>2 DEF SlaveInv, OnOff, Watching, SlaveTypes
    <2>4. mscl = 1  BY <1>1, <2>1 DEF DriveInv, Off, Gap
    <2>5. PICK e \in Devices : slave[e].scl # 1
      <3>1. SCL # 1  BY <1>2, <2>3
      <3>2. QED  BY <2>4, <3>1, Wires
    <2>6. SlaveInv(e)  BY Parts
    <2>7. slave[e].cb = "stop"
      BY <2>1, <2>5, <2>6 DEF SlaveInv, OnOff, Holding
    <2>8. QED  BY <1>1, <2>1, <2>3, <2>5, <2>7 DEF StopHeld
  <1>5. ASSUME Gap PROVE slave[d].state = "ACK_WAIT_LOW"
    <2>1. SCL = 0 /\ OnGap(slave[d])  BY <1>1, <1>5, Clock DEF SlaveInv
    <2>2. QED  BY <1>2, <2>1 DEF OnGap
  <1>6. ASSUME Mark
        PROVE  slave[d].state = "MASTER_WRITE" /\ slave[d].bitnum = 0 /\ slave[d].scl_val = 1
    <2>1. SCL = 1 /\ OnMark(slave[d])  BY <1>1, <1>6, Clock DEF SlaveInv
    <2>2. QED  BY <1>1, <1>2, <2>1 DEF OnMark, Watching, SlaveInv
  <1>7. ASSUME InBytes
        PROVE  /\ OnByte(d, slave[d]) /\ Edges = Follow(Heard(slave[d]))
               /\ pc = "high" => SCL = 1
    BY <1>1, <1>2, <1>3, <1>7, InTime DEF SlaveInv
  <1>8. QED  BY <1>1, <1>3, <1>4, <1>5, <1>6, <1>7 DEF CallInv

\* A slave that does not wait, on a quiet bus.
LEMMA Settled ==
    ASSUME Inv, Quiet, NEW d \in Devices
    PROVE  /\ slave[d].cb = "none" /\ Watching(slave[d]) => slave[d].sda_val = 1 - SDA
           /\ InBytes /\ ~Starting /\ slave[d].state # Waiting => Edges = Heard(slave[d])
           /\ slave[d].cb = "none" => ~SclDue(d)
           /\ SCL = 1 /\ (InBytes \/ Gap \/ Mark) => slave[d].cb = "none"
  <1>1. slave[d] \in SlaveTypes /\ SlaveInv(d)  BY Parts
  <1>2. slave[d].cb = "none" => ~SclDue(d) /\ ~SdaDue(d)  BY DEF Quiet, Due
  <1>3. slave[d].cb = "none" /\ Watching(slave[d]) => slave[d].sda_val = 1 - SDA
    BY <1>1, <1>2, Wires DEF SdaDue, Watching, SlaveTypes
  <1>4. InBytes /\ ~Starting /\ slave[d].state # Waiting => Edges = Heard(slave[d])
    <2>1. CASE slave[d].cb = "none"  BY <1>2, <2>1, InTime
    <2>2. CASE slave[d].cb # "none"  BY <1>1, <2>2 DEF SlaveInv, OnByte, Keeps
    <2>3. QED  BY <2>1, <2>2
  <1>5. SCL = 1 /\ (InBytes \/ Gap \/ Mark) => slave[d].cb = "none"
    <2>1. SCL = 1 => slave[d].cb \notin Holding
      BY <1>1, Wires DEF SlaveInv
    <2>2. Gap \/ Mark => slave[d].cb = "none"
      BY <1>1 DEF SlaveInv, OnGap, OnMark, Resting
    <2>3. Starting => slave[d].cb = "none"
      BY <1>1 DEF SlaveInv, OnStart, Resting
    <2>4. slave[d].state \in States /\ slave[d].cb \in {"none", "stop_seen"} \cup Holding
      BY <1>1 DEF SlaveTypes, Holding
    <2>5. InBytes /\ ~Starting => slave[d].cb # "stop_seen"
      BY <1>1, <2>4
      DEF SlaveInv, OnByte, InAddress, InAck, InRead, InWrite, InWaiting, Resting, States
    <2>6. QED  BY <2>1, <2>2, <2>3, <2>4, <2>5
  <1>6. QED  BY <1>2, <1>3, <1>4, <1>5

\* The bit on the wire behind a rising edge of SCL.
LEMMA PulseLevel ==
    ASSUME Inv, InBytes, ~Starting, NEW k \in 1..ByteBits, Edges = 2 * k
    PROVE  msda = Level(j, k) /\ SCL = 1 /\ pc \in {"low", "high"}
  <1>1. i \in 1..(ByteBits + 1) /\ DriveInv /\ ByteBits \in 2..8
    BY Parts DEF PlaceInv
  <1>2. SCL = 1  BY Clock
  <1>3. pc \notin {"data", "rise"}  BY <1>2, Clock
  <1>4. CASE pc = "low"
    <2>1. 2 * (i - 1) = 2 * k  BY <1>4 DEF Edges
    <2>2. i - 1 = k /\ i > 1  BY <1>1, <2>1
    <2>3. QED  BY <1>1, <1>2, <1>4, <2>2 DEF DriveInv
  <1>5. CASE pc = "high"
    <2>1. i = k  BY <1>1, <1>2, <1>5 DEF Edges
    <2>2. QED  BY <1>1, <1>2, <1>5, <2>1 DEF DriveInv
  <1>6. pc # "end"  BY DEF Edges
  <1>7. QED  BY <1>3, <1>4, <1>5, <1>6 DEF InBytes

\* No slave drives a bit of the address.
LEMMA AddressLine ==
    ASSUME Inv, InBytes, ~Starting, j = 0, NEW k \in 1..ByteBits, Edges = 2 * k
    PROVE  SDA = MsbFirst(AddressByte, k)
  <1>1. ByteBits \in 2..8 /\ DriveInv /\ slave \in [Devices -> SlaveTypes]  BY Parts
  <1>2. ASSUME NEW e \in Devices PROVE slave[e].sda = 1
    <2>1. slave[e].sda \in 0..1  BY <1>1 DEF SlaveTypes
    <2>2. SUFFICES ASSUME slave[e].sda = 0 PROVE FALSE  BY <2>1
    <2>3. slave[e].state \in {"ACK_WAIT_HIGH", "ACK_WAIT_LOW", "MASTER_READ"}
      BY <2>2, DataLine
    <2>4. OnByte(e, slave[e])  BY Parts DEF SlaveInv
    <2>5. slave[e].state # "MASTER_READ"  BY <2>4 DEF OnByte, InRead
    <2>6. CASE slave[e].state = "ACK_WAIT_HIGH"
      <3>1. Heard(slave[e]) = 2 * ByteBits + 1  BY <2>6 DEF Heard
      <3>2. Edges \in {0, 2 * ByteBits + 1}
        BY <2>4, <2>6, <3>1 DEF OnByte, Keeps, Follow, Waiting
      <3>3. QED  BY <1>1, <3>2
    <2>7. CASE slave[e].state = "ACK_WAIT_LOW"
      <3>1. Heard(slave[e]) = 0  BY <2>7 DEF Heard
      <3>2. Edges \in {0, 1}
        BY <1>1, <2>4, <2>7, <3>1 DEF OnByte, Keeps, Follow, Waiting
      <3>3. QED  BY <1>1, <3>2
    <2>8. QED  BY <2>3, <2>5, <2>6, <2>7
  <1>3. msda = Level(0, k)  BY PulseLevel
  <1>4. msda = MsbFirst(AddressByte, k) /\ msda \in 0..1
    BY <1>1, <1>3 DEF Level, DriveInv
  <1>5. QED  BY <1>2, <1>4, Wires

-----------------------------------------------------------------------------
(* The events of SCL.                                                      *)

LEMMA ServedStep ==
    ASSUME Inv, NEW d \in Devices, slave[d].cb = "none", SclDue(d),
           NEW t, t = slave'[d], t \in SlaveTypes,
           slave' \in [Devices -> SlaveTypes], \A e \in Devices \ {d} : slave'[e] = slave[e],
           UNCHANGED <<master, seen>>,
           t.scl = IF t.cb \in Holding THEN 0 ELSE 1,
           t.check <=> t.state = "MASTER_WRITE" /\ t.bitnum = 1 /\ t.scl_val = 0,
           t.cb = "none" \/ SCL = 0, t.sda = slave[d].sda \/ SCL = 0,
           InBytes => OnByte(d, t), Gap => OnGap(t), Mark => OnMark(t)
    PROVE  Inv'
  <1>1. ~Starting /\ ~Off  BY Served
  <1>2. SlaveInv(d)  BY Parts
  <1>3. t.scl \in 0..1 /\ slave[d].scl = 1
    BY <1>2 DEF SlaveTypes, SlaveInv, Holding
  <1>4. t.scl = slave[d].scl \/ (SCL = 0 /\ t.scl = 0)
    BY <1>3 DEF Holding
  <1>5. StopHeld'  BY <1>1 DEF StopHeld, Off, master
  <1>6. QED  BY <1>1, <1>4, <1>5, SlaveStep

LEMMA ReadingAddrInv ==
    ASSUME Inv, NEW d \in Devices, ReadingAddr(d)  PROVE Inv'
  <1>1. /\ slave[d].cb = "none" /\ SclDue(d) /\ slave[d].state = "READING_ADDR"
        /\ UNCHANGED <<master, seen>> /\ SCL = slave[d].scl_val
    BY DEF ReadingAddr, OnScl, SclDue
  <1>2. /\ ~Gap /\ ~Mark /\ InBytes /\ ~Starting
        /\ OnByte(d, slave[d]) /\ Edges = Follow(Heard(slave[d]))
    BY <1>1, Served DEF Waiting
  <1>3. /\ slave \in [Devices -> SlaveTypes] /\ slave[d] \in SlaveTypes /\ SlaveInv(d)
        /\ CallInv /\ AnswerInv /\ ByteBits \in 2..8
    BY Parts
  <1>4. /\ slave[d].sda = 1 /\ j = 0 /\ pc # "end" /\ slave[d].bitnum \in 0..(ByteBits - 1)
        /\ slave[d].data = Top(AddressByte, slave[d].bitnum) /\ slave[d].data \in Bits
        /\ slave[d].check = FALSE /\ slave[d].scl = 1
        /\ Addressed(d) => seen = <<>>
    BY <1>1, <1>2, <1>3 DEF OnByte, InAddress, Resting, SlaveTypes, SlaveInv, Holding
  <1>5. Heard(slave[d]) = 2 * slave[d].bitnum + slave[d].scl_val
    BY <1>1, <1>3, <1>4 DEF Heard, SlaveTypes
  <1>6. AddressByte \in Bits  BY <1>2, <1>3, AddressFacts DEF CallInv
  <1>7. PICK t : t = slave'[d]  OBVIOUS
  <1>8. CASE /\ slave[d].scl_val = 0
             /\ slave' = [slave EXCEPT ![d].scl_val = 1]
    <2>1. /\ slave' \in [Devices -> SlaveTypes]
          /\ \A e \in Devices \ {d} : slave'[e] = slave[e]
          /\ t \in SlaveTypes /\ t = [slave[d] EXCEPT !.scl_val = 1]
      BY <1>3, <1>7, <1>8 DEF SlaveTypes
    <2>2. OnByte(d, t)
      <3>1. /\ t.state = "READING_ADDR" /\ t.cb = "none" /\ t.sda = 1 /\ t.scl_val = 1
            /\ t.bitnum = slave[d].bitnum /\ t.data = slave[d].data /\ t.check = FALSE
        BY <1>1, <1>3, <1>4, <2>1 DEF SlaveTypes
      <3>2. Heard(t) = 2 * slave[d].bitnum + 1  BY <1>4, <3>1 DEF Heard
      <3>3. Edges = Heard(t)  BY <1>2, <1>3, <1>4, <1>5, <1>8, <3>2 DEF Follow
      <3>4. Edges # 0 /\ slave[d].bitnum < ByteBits  BY <1>3, <1>4, <3>2, <3>3
      <3>5. QED
        BY <1>2, <1>4, <3>1, <3>3, <3>4
        DEF OnByte, Keeps, Watching, InAddress, InAck, InRead, InWrite, InWaiting, Resting, Waiting
    <2>3. QED
      BY <1>1, <1>2, <1>3, <1>4, <1>7, <2>1, <2>2, ServedStep DEF SlaveTypes, Holding
  <1>9. ASSUME slave[d].scl_val = 1
        PROVE  /\ Edges = 2 * (slave[d].bitnum + 1) /\ SCL = 1
               /\ SDA = MsbFirst(AddressByte, slave[d].bitnum + 1) /\ SDA \in 0..1
               /\ Top(AddressByte, slave[d].bitnum + 1) = 2 * slave[d].data + SDA
               /\ Top(AddressByte, slave[d].bitnum + 1) \in Bits
    <2>1. Edges = 2 * (slave[d].bitnum + 1)
      BY <1>2, <1>3, <1>4, <1>5, <1>9 DEF Follow
    <2>2. slave[d].bitnum + 1 \in 1..ByteBits  BY <1>3, <1>4
    <2>3. SDA = MsbFirst(AddressByte, slave[d].bitnum + 1)
      BY <1>2, <1>4, <2>1, <2>2, AddressLine
    <2>4. QED  BY <1>1, <1>4, <1>6, <1>9, <2>1, <2>3, OneBit
  <1>10. CASE /\ slave[d].scl_val = 1 /\ slave[d].bitnum < ByteBits - 1
              /\ slave' = [slave EXCEPT ![d].data = 2 * slave[d].data + SDA,
                              ![d].bitnum = slave[d].bitnum + 1, ![d].scl_val = 0]
    <2>1. /\ slave[d].bitnum + 1 \in 0..(ByteBits - 1)
          /\ 2 * slave[d].data + SDA \in Bits
      BY <1>3, <1>4, <1>9, <1>10
    <2>2. PICK a, b : a = 2 * slave[d].data + SDA /\ b = slave[d].bitnum + 1  OBVIOUS
    <2>3. /\ slave' \in [Devices -> SlaveTypes]
          /\ \A e \in Devices \ {d} : slave'[e] = slave[e]
          /\ t \in SlaveTypes
          /\ t = [slave[d] EXCEPT !.data = a, !.bitnum = b, !.scl_val = 0]
      <3>1. slave' = [slave EXCEPT ![d].data = a, ![d].bitnum = b, ![d].scl_val = 0]
        BY <1>10, <2>2
      <3>2. a \in Bits /\ b \in 0..ByteBits  BY <1>3, <2>1, <2>2
      <3>3. t = [slave[d] EXCEPT !.data = a, !.bitnum = b, !.scl_val = 0]
        BY <1>3, <1>7, <3>1
      <3>4. t \in SlaveTypes
        <4>1. PICK c \in 0..1 : c = 0  OBVIOUS
        <4>2. t = [slave[d] EXCEPT !.data = a, !.bitnum = b, !.scl_val = c]  BY <3>3, <4>1
        <4>3. QED  BY <1>3, <3>2, <4>1, <4>2 DEF SlaveTypes
      <3>5. /\ slave' = [slave EXCEPT ![d] = t]
            /\ slave' \in [Devices -> SlaveTypes]
        BY <1>3, <3>1, <3>3, <3>4
      <3>6. QED  BY <1>3, <3>3, <3>4, <3>5
    <2>4. OnByte(d, t)
      <3>1. /\ t.state = "READING_ADDR" /\ t.cb = "none" /\ t.sda = 1 /\ t.scl_val = 0
            /\ t.bitnum = b /\ t.data = a /\ t.check = FALSE
        BY <1>1, <1>3, <1>4, <2>3 DEF SlaveTypes
      <3>2. Heard(t) = 2 * b  BY <1>4, <2>1, <2>2, <3>1 DEF Heard
      <3>3. Edges = Heard(t)  BY <1>9, <1>10, <2>2, <3>2
      <3>4. Edges # 0 /\ b < ByteBits /\ a = Top(AddressByte, b)
        BY <1>3, <1>4, <1>9, <1>10, <2>1, <2>2
      <3>5. QED
        BY <1>2, <1>4, <3>1, <3>3, <3>4
        DEF OnByte, Keeps, Watching, InAddress, InAck, InRead, InWrite, InWaiting, Resting, Waiting
    <2>5. QED
      BY <1>1, <1>2, <1>3, <1>4, <1>7, <2>3, <2>4, ServedStep DEF SlaveTypes, Holding
  <1>11. ASSUME slave[d].scl_val = 1, slave[d].bitnum = ByteBits - 1
         PROVE  /\ Edges = 2 * ByteBits /\ slave[d].data = op.addr
                /\ SDA = IF op.dir = "read" THEN 1 ELSE 0
                /\ op.dir \in {"read", "write"}
    <2>1. op.dir \in {"read", "write"}  BY <1>2, <1>3 DEF CallInv
    <2>2. slave[d].bitnum + 1 = ByteBits  BY <1>3, <1>11
    <2>3. QED  BY <1>3, <1>4, <1>9, <1>11, <2>1, <2>2, AddressFacts
  <1>12. CASE /\ slave[d].scl_val = 1 /\ slave[d].bitnum = ByteBits - 1 /\ slave[d].data # d
              /\ slave' = [slave EXCEPT ![d].state = "IGNORE_ACK", ![d].scl_val = 0]
    <2>1. /\ slave' \in [Devices -> SlaveTypes]
          /\ \A e \in Devices \ {d} : slave'[e] = slave[e]
          /\ t \in SlaveTypes
          /\ t = [slave[d] EXCEPT !.state = "IGNORE_ACK", !.scl_val = 0]
      BY <1>3, <1>7, <1>12 DEF SlaveTypes, States
    <2>2. OnByte(d, t)
      <3>1. /\ t.state = "IGNORE_ACK" /\ t.cb = "none" /\ t.sda = 1 /\ t.scl_val = 0
            /\ t.check = FALSE
        BY <1>1, <1>3, <1>4, <2>1 DEF SlaveTypes
      <3>2. Heard(t) = 2 * ByteBits  BY <1>3, <3>1 DEF Heard
      <3>3. Edges = Heard(t) /\ ~Addressed(d)
        BY <1>11, <1>12, <3>2 DEF Addressed
      <3>4. QED
        BY <1>2, <1>4, <3>1, <3>3
        DEF OnByte, Keeps, Watching, InAddress, InAck, InRead, InWrite, InWaiting, Resting, Waiting
    <2>3. QED
      BY <1>1, <1>2, <1>3, <1>4, <1>7, <2>1, <2>2, ServedStep DEF SlaveTypes, Holding
  <1>13. CASE /\ slave[d].scl_val = 1 /\ slave[d].bitnum = ByteBits - 1 /\ slave[d].data = d
              /\ slave' = [slave EXCEPT ![d].state = "ACK_ADDR", ![d].rw = SDA,
                                        ![d].scl_val = 0]
    <2>1. PICK r \in 0..1 : r = SDA  BY <1>9, <1>13
    <2>2. /\ slave' \in [Devices -> SlaveTypes]
          /\ \A e \in Devices \ {d} : slave'[e] = slave[e]
          /\ t \in SlaveTypes
          /\ t = [slave[d] EXCEPT !.state = "ACK_ADDR", !.rw = r, !.scl_val = 0]
      <3>1. slave' = [slave EXCEPT ![d].state = "ACK_ADDR", ![d].rw = r, ![d].scl_val = 0]
        BY <1>13, <2>1
      <3>2. t = [slave[d] EXCEPT !.state = "ACK_ADDR", !.rw = r, !.scl_val = 0]
        BY <1>3, <1>7, <3>1
      <3>3. t \in SlaveTypes
        <4>1. PICK c \in 0..1, u \in States : c = 0 /\ u = "ACK_ADDR"  BY DEF States
        <4>2. t = [slave[d] EXCEPT !.state = u, !.rw = r, !.scl_val = c]  BY <3>2, <4>1
        <4>3. QED  BY <1>3, <2>1, <4>1, <4>2 DEF SlaveTypes
      <3>4. /\ slave' = [slave EXCEPT ![d] = t]
            /\ slave' \in [Devices -> SlaveTypes]
        BY <1>3, <3>1, <3>2, <3>3
      <3>5. QED  BY <1>3, <3>2, <3>3, <3>4
    <2>3. OnByte(d, t)
      <3>1. /\ t.state = "ACK_ADDR" /\ t.cb = "none" /\ t.sda = 1 /\ t.scl_val = 0
            /\ t.check = FALSE /\ t.rw = r
        BY <1>1, <1>3, <1>4, <2>2 DEF SlaveTypes
      <3>2. Heard(t) = 2 * ByteBits  BY <1>3, <3>1 DEF Heard
      <3>3. Edges = Heard(t) /\ Addressed(d)
        BY <1>11, <1>13, <3>2 DEF Addressed
      <3>4. r = IF op.dir = "read" THEN 1 ELSE 0  BY <1>11, <1>13, <2>1
      <3>5. QED
        BY <1>2, <1>4, <3>1, <3>3, <3>4
        DEF OnByte, Keeps, Watching, InAddress, InAck, InRead, InWrite, InWaiting, Resting, Waiting
    <2>4. QED
      BY <1>1, <1>2, <1>3, <1>4, <1>7, <2>2, <2>3, ServedStep DEF SlaveTypes, Holding
  <1>14. QED  BY <1>8, <1>10, <1>12, <1>13 DEF ReadingAddr

LEMMA IgnoreAckInv ==
    ASSUME Inv, NEW d \in Devices, IgnoreAck(d)  PROVE Inv'
  <1>1. /\ slave[d].cb = "none" /\ SclDue(d) /\ slave[d].state = "IGNORE_ACK"
        /\ UNCHANGED <<master, seen>> /\ SCL = slave[d].scl_val
    BY DEF IgnoreAck, OnScl, SclDue
  <1>2. /\ ~Gap /\ ~Mark /\ InBytes /\ OnByte(d, slave[d]) /\ Edges = Follow(Heard(slave[d]))
        /\ pc = "high" => SCL = 1
    BY <1>1, Served
  <1>3. /\ slave \in [Devices -> SlaveTypes] /\ slave[d] \in SlaveTypes /\ SlaveInv(d)
        /\ ByteBits \in 2..8
    BY Parts
  <1>4. /\ ~Addressed(d) /\ slave[d].sda = 1 /\ slave[d].check = FALSE /\ slave[d].scl = 1
        /\ SCL = 0
    BY <1>1, <1>2, <1>3 DEF OnByte, InAddress, Resting, SlaveTypes, SlaveInv, Holding
  <1>5. PICK t : t = slave'[d]  OBVIOUS
  <1>6. /\ slave' \in [Devices -> SlaveTypes]
        /\ \A e \in Devices \ {d} : slave'[e] = slave[e]
        /\ t \in SlaveTypes
        /\ t = [slave[d] EXCEPT !.next = Waiting, !.scl_val = 1, !.state = "ACK_WAIT_HIGH"]
    <2>1. PICK x \in States, y \in 0..1, z \in {Waiting, "MASTER_READ", "MASTER_WRITE"} :
             x = "ACK_WAIT_HIGH" /\ y = 1 /\ z = Waiting
      BY DEF States
    <2>2. slave' = [slave EXCEPT ![d].next = z, ![d].scl_val = y, ![d].state = x]
      BY <2>1 DEF IgnoreAck
    <2>3. QED  BY <1>3, <1>5, <2>1, <2>2 DEF SlaveTypes
  <1>7. /\ t.state = "ACK_WAIT_HIGH" /\ t.cb = "none" /\ t.sda = 1 /\ t.scl_val = 1
        /\ t.next = Waiting /\ t.check = FALSE
    BY <1>1, <1>3, <1>4, <1>6 DEF SlaveTypes
  <1>8. OnByte(d, t)
    <2>1. Heard(slave[d]) = 2 * ByteBits /\ Heard(t) = 2 * ByteBits + 1
      BY <1>1, <1>3, <1>7 DEF Heard
    <2>2. Edges = Heard(t)  BY <1>2, <1>3, <2>1 DEF Follow
    <2>3. QED
      BY <1>4, <1>7, <2>2
      DEF OnByte, Keeps, Watching, InAddress, InAck, InRead, InWrite, InWaiting, Waiting
  <1>9. QED
    BY <1>1, <1>2, <1>3, <1>4, <1>5, <1>6, <1>7, <1>8, ServedStep DEF SlaveTypes, Holding

LEMMA AckAddrInv ==
    ASSUME Inv, NEW d \in Devices, AckAddr(d)  PROVE Inv'
  <1>1. /\ slave[d].cb = "none" /\ SclDue(d) /\ slave[d].state = "ACK_ADDR"
        /\ UNCHANGED <<master, seen>> /\ SCL = slave[d].scl_val
    BY DEF AckAddr, OnScl, SclDue
  <1>2. /\ ~Gap /\ ~Mark /\ InBytes /\ OnByte(d, slave[d]) /\ Edges = Follow(Heard(slave[d]))
    BY <1>1, Served
  <1>3. /\ slave \in [Devices -> SlaveTypes] /\ slave[d] \in SlaveTypes /\ SlaveInv(d)
        /\ ByteBits \in 2..8
    BY Parts
  <1>4. SCL = 0 /\ slave[d].check = FALSE
    BY <1>1, <1>2, <1>3 DEF OnByte, InAddress, SlaveTypes, SlaveInv
  <1>5. PICK t : t = slave'[d]  OBVIOUS
  <1>6. /\ slave' \in [Devices -> SlaveTypes]
        /\ \A e \in Devices \ {d} : slave'[e] = slave[e]
        /\ t \in SlaveTypes /\ t = [slave[d] EXCEPT !.scl = 0, !.cb = "request"]
    <2>1. PICK z \in 0..1 : z = 0  OBVIOUS
    <2>2. slave' = [slave EXCEPT ![d].scl = z, ![d].cb = "request"]
      BY <2>1 DEF AckAddr, Stretch
    <2>3. QED  BY <1>3, <1>5, <2>1, <2>2 DEF SlaveTypes
  <1>7. /\ t.state = "ACK_ADDR" /\ t.cb = "request" /\ t.scl = 0 /\ t.check = FALSE
        /\ t.sda = slave[d].sda /\ t.scl_val = slave[d].scl_val /\ t.rw = slave[d].rw
    BY <1>1, <1>3, <1>4, <1>6 DEF SlaveTypes
  <1>8. OnByte(d, t)
    <2>1. Heard(slave[d]) = 2 * ByteBits /\ Heard(t) = 2 * ByteBits + 1
      BY <1>1, <1>3, <1>7 DEF Heard
    <2>2. Edges = Heard(t)  BY <1>2, <1>3, <2>1 DEF Follow
    <2>3. QED
      BY <1>1, <1>2, <1>4, <1>7, <2>2
      DEF OnByte, Keeps, Watching, InAddress, InAck, InRead, InWrite, InWaiting, Waiting
  <1>9. QED
    BY <1>1, <1>2, <1>3, <1>4, <1>5, <1>6, <1>7, <1>8, ServedStep DEF Holding

LEMMA AckWaitHighInv ==
    ASSUME Inv, NEW d \in Devices, AckWaitHigh(d)  PROVE Inv'
  <1>1. /\ slave[d].cb = "none" /\ SclDue(d) /\ slave[d].state = "ACK_WAIT_HIGH"
        /\ UNCHANGED <<master, seen>> /\ SCL = slave[d].scl_val
    BY DEF AckWaitHigh, OnScl, SclDue
  <1>2. /\ ~Gap /\ ~Mark /\ InBytes /\ OnByte(d, slave[d]) /\ Edges = Follow(Heard(slave[d]))
    BY <1>1, Served
  <1>3. /\ slave \in [Devices -> SlaveTypes] /\ slave[d] \in SlaveTypes /\ SlaveInv(d)
        /\ ByteBits \in 2..8
    BY Parts
  <1>4. slave[d].check = FALSE /\ slave[d].scl = 1
    BY <1>1, <1>3 DEF SlaveTypes, SlaveInv, Holding
  <1>5. PICK t : t = slave'[d]  OBVIOUS
  <1>6. /\ slave' \in [Devices -> SlaveTypes]
        /\ \A e \in Devices \ {d} : slave'[e] = slave[e]
        /\ t \in SlaveTypes
        /\ t = [slave[d] EXCEPT !.state = "ACK_WAIT_LOW", !.scl_val = 0]
    <2>1. PICK u \in States, z \in 0..1 : u = "ACK_WAIT_LOW" /\ z = 0  BY DEF States
    <2>2. slave' = [slave EXCEPT ![d].state = u, ![d].scl_val = z]
      BY <2>1 DEF AckWaitHigh
    <2>3. QED  BY <1>3, <1>5, <2>1, <2>2 DEF SlaveTypes
  <1>7. /\ t.state = "ACK_WAIT_LOW" /\ t.cb = "none" /\ t.scl = 1 /\ t.check = FALSE
        /\ t.sda = slave[d].sda /\ t.scl_val = 0 /\ t.next = slave[d].next
    BY <1>1, <1>3, <1>4, <1>6 DEF SlaveTypes
  <1>8. OnByte(d, t)
    <2>1. Heard(slave[d]) = 2 * ByteBits + 1 /\ Heard(t) = 0
      BY <1>1, <1>3, <1>7 DEF Heard
    <2>2. Edges = Heard(t)  BY <1>2, <2>1 DEF Follow
    <2>3. QED
      BY <1>1, <1>2, <1>4, <1>7, <2>2
      DEF OnByte, Keeps, Watching, InAddress, InAck, InRead, InWrite, InWaiting, Waiting
  <1>9. QED
    BY <1>1, <1>2, <1>3, <1>4, <1>5, <1>6, <1>7, <1>8, ServedStep DEF Holding

LEMMA AckWaitLowInv ==
    ASSUME Inv, NEW d \in Devices, AckWaitLow(d)  PROVE Inv'
  <1>1. /\ slave[d].cb = "none" /\ SclDue(d) /\ slave[d].state = "ACK_WAIT_LOW"
        /\ UNCHANGED <<master, seen>> /\ SCL = slave[d].scl_val
    BY DEF AckWaitLow, OnScl, SclDue
  <1>2. /\ ~Mark
        /\ InBytes => OnByte(d, slave[d]) /\ Edges = Follow(Heard(slave[d]))
                      /\ (pc = "high" => SCL = 1) /\ ~Starting
    BY <1>1, Served
  <1>3. /\ slave \in [Devices -> SlaveTypes] /\ slave[d] \in SlaveTypes /\ SlaveInv(d)
        /\ ByteBits \in 2..8 /\ CallInv /\ PlaceInv /\ AnswerInv
    BY Parts
  <1>4. InBytes \/ Gap  BY <1>1, <1>2, Served
  <1>5. SCL = 0 /\ slave[d].check = FALSE /\ slave[d].scl = 1
    BY <1>1, <1>2, <1>3, <1>4, Clock DEF OnByte, InAck, SlaveTypes, SlaveInv, Holding
  <1>6. ASSUME InBytes
        PROVE  /\ Edges = 1 /\ pc \in {"data", "rise"} /\ i = 1
               /\ Addressed(d) => /\ Len(seen) = j /\ j >= 1 /\ seen[Len(seen)].ok
                                  /\ slave[d].next # Waiting
    <2>1. Edges = 1
      <3>1. Heard(slave[d]) = 0  BY <1>1 DEF Heard
      <3>2. QED  BY <1>2, <1>3, <1>6, <3>1 DEF Follow
    <2>2. pc \in {"data", "rise"}
      <3>1. SCL # 1  BY <1>5
      <3>2. pc \notin {"low", "end"}  BY <1>6, <3>1, Clock
      <3>3. pc # "high"  BY <1>2, <1>6, <3>1
      <3>4. QED  BY <1>6, <3>2, <3>3 DEF InBytes
    <2>3. i = 1
      <3>1. 2 * i - 1 = 1 /\ i \in 0..(ByteBits + 1)
        BY <1>3, <2>1, <2>2 DEF Edges, PlaceInv
      <3>2. QED  BY <1>3, <3>1
    <2>4. ASSUME Addressed(d)
          PROVE  /\ Len(seen) = j /\ j >= 1 /\ seen[Len(seen)].ok /\ slave[d].next # Waiting
      <3>1. /\ Len(seen) = j /\ Len(seen) >= 1 /\ (seen[Len(seen)].ok <=> slave[d].sda = 0)
            /\ slave[d].next = IF Len(seen) = 1 /\ slave[d].sda = 1 THEN Waiting
                               ELSE IF op.dir = "read" THEN "MASTER_READ"
                               ELSE "MASTER_WRITE"
        BY <1>1, <1>2, <1>6, <2>3, <2>4 DEF OnByte, InAck, Answers
      <3>2. seen[j].ok  BY <1>3, <1>6, <2>2, <3>1 DEF AnswerInv, PlaceInv
      <3>3. QED  BY <3>1, <3>2 DEF Waiting
    <2>5. QED  BY <2>1, <2>2, <2>3, <2>4
  <1>7. PICK t : t = slave'[d]  OBVIOUS
  <1>8. CASE /\ slave[d].next = "MASTER_READ"
             /\ slave' = [slave EXCEPT ![d].state = "MASTER_READ", ![d].bitnum = 0,
                                       ![d].sda = 1, ![d].scl_val = 0]
    <2>1. /\ slave' \in [Devices -> SlaveTypes]
          /\ \A e \in Devices \ {d} : slave'[e] = slave[e]
          /\ t \in SlaveTypes
          /\ t = [slave[d] EXCEPT !.state = "MASTER_READ", !.bitnum = 0,
                                  !.sda = 1, !.scl_val = 0]
      <3>1. PICK u \in States, b \in 0..ByteBits, o \in 0..1, z \in 0..1 :
               u = "MASTER_READ" /\ b = 0 /\ o = 1 /\ z = 0
        BY <1>3 DEF States
      <3>2. slave' = [slave EXCEPT ![d].state = u, ![d].bitnum = b, ![d].sda = o,
                                   ![d].scl_val = z]
        BY <1>8, <3>1
      <3>3. QED  BY <1>3, <1>7, <3>1, <3>2 DEF SlaveTypes
    <2>2. /\ t.state = "MASTER_READ" /\ t.cb = "none" /\ t.scl = 1 /\ t.check = FALSE
          /\ t.sda = 1 /\ t.scl_val = 0 /\ t.bitnum = 0
      BY <1>1, <1>3, <1>5, <2>1 DEF SlaveTypes
    <2>3. ~Gap
      BY <1>1, <1>3, <1>8 DEF SlaveInv, OnGap, Waiting
    <2>4. InBytes  BY <1>4, <2>3
    <2>5. Heard(t) = 0  BY <2>2 DEF Heard
    <2>6. Addressed(d) /\ op.dir = "read" /\ Len(seen) = j /\ j >= 1
      BY <1>1, <1>2, <1>6, <1>8, <2>4 DEF OnByte, InAck, Waiting
    <2>7. InRead(d, t)
      BY <1>3, <1>6, <2>2, <2>4, <2>5, <2>6 DEF InRead
    <2>8. Keeps(t)  BY <1>3, <1>6, <2>2, <2>4, <2>5 DEF Keeps, Follow
    <2>9. OnByte(d, t)
      BY <1>5, <2>2, <2>7, <2>8
      DEF OnByte, Watching, InAddress, InAck, InWrite, InWaiting, Waiting
    <2>10. QED
      BY <1>1, <1>2, <1>3, <1>5, <1>7, <2>1, <2>2, <2>3, <2>9, ServedStep DEF Holding
  <1>9. CASE /\ slave[d].next = "MASTER_WRITE"
             /\ slave' = [slave EXCEPT ![d].state = "MASTER_WRITE", ![d].bitnum = 0,
                                       ![d].sda = 1, ![d].data = 0, ![d].scl_val = 1]
    <2>1. /\ slave' \in [Devices -> SlaveTypes]
          /\ \A e \in Devices \ {d} : slave'[e] = slave[e]
          /\ t \in SlaveTypes
          /\ t = [slave[d] EXCEPT !.state = "MASTER_WRITE", !.bitnum = 0,
                                  !.sda = 1, !.data = 0, !.scl_val = 1]
      <3>1. PICK u \in States, b \in 0..ByteBits, o \in 0..1, z \in Bits :
               u = "MASTER_WRITE" /\ b = 0 /\ o = 1 /\ z = 0
        BY <1>3, ByteRange DEF States, Bits
      <3>2. slave' = [slave EXCEPT ![d].state = u, ![d].bitnum = b, ![d].sda = o,
                                   ![d].data = z, ![d].scl_val = o]
        BY <1>9, <3>1
      <3>3. QED  BY <1>3, <1>7, <3>1, <3>2 DEF SlaveTypes
    <2>2. /\ t.state = "MASTER_WRITE" /\ t.cb = "none" /\ t.scl = 1 /\ t.check = FALSE
          /\ t.sda = 1 /\ t.scl_val = 1 /\ t.bitnum = 0 /\ t.data = 0
          /\ t.next = "MASTER_WRITE"
      BY <1>1, <1>3, <1>5, <1>9, <2>1 DEF SlaveTypes
    <2>3. OnGap(t)  BY <2>2 DEF OnGap
    <2>4. ASSUME InBytes PROVE OnByte(d, t)
      <3>1. Addressed(d) /\ op.dir = "write" /\ Len(seen) = j /\ j >= 1
        <4>1. Addressed(d)
          BY <1>1, <1>2, <1>9, <2>4 DEF OnByte, InAck, Waiting
        <4>2. op.dir # "read"
          BY <1>1, <1>2, <1>9, <2>4, <4>1 DEF OnByte, InAck, Waiting
        <4>3. QED  BY <1>6, <2>4, <4>1, <4>2 DEF Addressed
      <3>2. Heard(t) = 1  BY <2>2 DEF Heard
      <3>3. op.bytes[j] \in Bits
        <4>1. op.bytes \in Seq(Bits) /\ j \in 1..Len(op.bytes)
          BY <1>3, <2>4, <3>1, CallFacts DEF PlaceInv
        <4>2. QED  BY <4>1
      <3>4. t.data = Top(op.bytes[j], 0)  BY <2>2, <3>3, NoBit
      <3>5. InWrite(d, t)
        BY <1>3, <1>6, <2>2, <2>4, <3>1, <3>4 DEF InWrite
      <3>6. Keeps(t)  BY <1>6, <2>4, <3>2 DEF Keeps
      <3>7. QED
        BY <1>5, <2>2, <3>5, <3>6
        DEF OnByte, Watching, InAddress, InAck, InRead, InWaiting, Waiting
    <2>5. t.check <=> t.state = "MASTER_WRITE" /\ t.bitnum = 1 /\ t.scl_val = 0
      BY <2>2
    <2>6. QED
      BY <1>1, <1>2, <1>3, <1>5, <1>7, <2>1, <2>2, <2>3, <2>4, <2>5, ServedStep DEF Holding
  <1>10. CASE /\ slave[d].next = Waiting
              /\ slave' = [slave EXCEPT ![d].state = Waiting, ![d].bitnum = 0,
                                        ![d].sda = 1, ![d].sda_val = 0]
    <2>1. /\ slave' \in [Devices -> SlaveTypes]
          /\ \A e \in Devices \ {d} : slave'[e] = slave[e]
          /\ t \in SlaveTypes
          /\ t = [slave[d] EXCEPT !.state = Waiting, !.bitnum = 0,
                                  !.sda = 1, !.sda_val = 0]
      <3>1. PICK u \in States, b \in 0..ByteBits, o \in 0..1, z \in 0..1 :
               u = Waiting /\ b = 0 /\ o = 1 /\ z = 0
        BY <1>3 DEF States
      <3>2. slave' = [slave EXCEPT ![d].state = u, ![d].bitnum = b, ![d].sda = o,
                                   ![d].sda_val = z]
        BY <1>10, <3>1
      <3>3. QED  BY <1>3, <1>7, <3>1, <3>2 DEF SlaveTypes
    <2>2. /\ t.state = Waiting /\ t.cb = "none" /\ t.scl = 1 /\ t.check = FALSE /\ t.sda = 1
      BY <1>1, <1>3, <1>5, <2>1 DEF SlaveTypes
    <2>3. OnGap(t)  BY <2>2 DEF OnGap
    <2>4. ASSUME InBytes PROVE OnByte(d, t)
      <3>1. ~Addressed(d)  BY <1>6, <1>10, <2>4
      <3>2. QED
        BY <1>5, <2>2, <3>1
        DEF OnByte, Watching, InAddress, InAck, InRead, InWrite, InWaiting, Resting, Waiting
    <2>5. QED
      BY <1>1, <1>2, <1>3, <1>5, <1>7, <2>1, <2>2, <2>3, <2>4, ServedStep DEF Holding, Waiting
  <1>11. QED  BY <1>8, <1>9, <1>10 DEF AckWaitLow

\* What a slave sees at a bit of a byte it sends or receives.
LEMMA ByteFacts ==
    ASSUME Inv, NEW d \in Devices, slave[d].cb = "none", SclDue(d),
           slave[d].state \in {"MASTER_READ", "MASTER_WRITE"}, InBytes
    PROVE  /\ OnByte(d, slave[d]) /\ ~Starting /\ Addressed(d) /\ slave[d].scl = 1
           /\ Heard(slave[d]) = 2 * slave[d].bitnum + slave[d].scl_val
           /\ slave[d].scl_val = 0 =>
                 Edges = 2 * slave[d].bitnum + 1 /\ pc \in {"data", "rise"}
                 /\ i = slave[d].bitnum + 1
           /\ slave[d].scl_val = 1 =>
                 Edges = IF slave[d].bitnum = ByteBits THEN 0 ELSE 2 * (slave[d].bitnum + 1)
  <1>1. /\ slave[d] \in SlaveTypes /\ SlaveInv(d) /\ ByteBits \in 2..8 /\ PlaceInv
    BY Parts
  <1>2. /\ OnByte(d, slave[d]) /\ Edges = Follow(Heard(slave[d])) /\ ~Starting
        /\ pc = "high" => SCL = 1
    BY Served
  <1>3. slave[d].scl_val \in 0..1 /\ slave[d].bitnum \in 0..ByteBits
    BY <1>1 DEF SlaveTypes
  <1>4. Heard(slave[d]) = 2 * slave[d].bitnum + slave[d].scl_val
    BY <1>3 DEF Heard
  <1>5. Addressed(d) /\ slave[d].scl = 1
    BY <1>1, <1>2 DEF OnByte, InRead, InWrite, SlaveInv, Holding
  <1>6. ASSUME slave[d].scl_val = 0
        PROVE  /\ Edges = 2 * slave[d].bitnum + 1 /\ pc \in {"data", "rise"}
               /\ i = slave[d].bitnum + 1
    <2>1. Edges = 2 * slave[d].bitnum + 1
      BY <1>1, <1>2, <1>3, <1>4, <1>6 DEF Follow
    <2>2. SCL = 0  BY <1>6 DEF SclDue
    <2>3. pc \notin {"low", "end"}
      <3>1. SCL # 1  BY <2>2
      <3>2. QED  BY <3>1, Clock
    <2>4. pc # "high"  BY <1>2, <2>2
    <2>5. pc \in {"data", "rise"}  BY <2>3, <2>4 DEF InBytes
    <2>6. Edges = 2 * i - 1  BY <2>5 DEF Edges
    <2>7. QED  BY <1>1, <1>3, <2>1, <2>5, <2>6 DEF PlaceInv
  <1>7. ASSUME slave[d].scl_val = 1
        PROVE  Edges = IF slave[d].bitnum = ByteBits THEN 0 ELSE 2 * (slave[d].bitnum + 1)
    BY <1>1, <1>2, <1>3, <1>4, <1>7 DEF Follow
  <1>8. QED  BY <1>2, <1>4, <1>5, <1>6, <1>7

LEMMA MasterReadRiseInv ==
    ASSUME Inv, NEW d \in Devices, MasterReadRise(d)  PROVE Inv'
  <1>1. /\ slave[d].cb = "none" /\ SclDue(d) /\ slave[d].state = "MASTER_READ"
        /\ UNCHANGED <<master, seen>> /\ SCL = 1 /\ slave[d].scl_val = 1
    BY DEF MasterReadRise, OnScl, SclDue
  <1>2. ~Gap /\ ~Mark /\ InBytes /\ ~Starting
    BY <1>1, Served
  <1>3. /\ slave \in [Devices -> SlaveTypes] /\ slave[d] \in SlaveTypes /\ SlaveInv(d)
        /\ ByteBits \in 2..8 /\ CallInv /\ PlaceInv /\ DriveInv
    BY Parts
  <1>4. /\ OnByte(d, slave[d]) /\ Addressed(d)
        /\ Heard(slave[d]) = 2 * slave[d].bitnum + 1
        /\ Edges = IF slave[d].bitnum = ByteBits THEN 0 ELSE 2 * (slave[d].bitnum + 1)
    BY <1>1, <1>2, ByteFacts
  <1>5. /\ op.dir = "read" /\ j \in 1..op.len /\ slave[d].check = FALSE /\ slave[d].scl = 1
        /\ slave[d].bitnum \in 0..ByteBits /\ op.len \in Nat /\ InRead(d, slave[d])
    <2>1. op.dir = "read" /\ j >= 1 /\ InRead(d, slave[d])
      BY <1>1, <1>4 DEF OnByte, InRead
    <2>2. j \in 0..op.len /\ op.len \in Nat
      BY <1>2, <1>3, <2>1, CallFacts DEF PlaceInv
    <2>3. slave[d].check = FALSE /\ slave[d].scl = 1 /\ slave[d].bitnum \in 0..ByteBits
      BY <1>1, <1>3 DEF SlaveTypes, SlaveInv, Holding
    <2>4. QED  BY <2>1, <2>2, <2>3
  <1>6. PICK t : t = slave'[d]  OBVIOUS
  \* In the acknowledge of a byte sent, SDA is the master's.
  <1>7. ASSUME slave[d].bitnum = ByteBits
        PROVE  /\ slave[d].sda = 1 /\ Edges = 0
               /\ SDA = 1 => j = op.len /\ (pc = "end" \/ (pc = "high" /\ i = ByteBits + 1))
               /\ SDA = 0 => pc # "end" /\ (pc = "high" => j < op.len)
    <2>1. slave[d].sda = 1 /\ Edges = 0
      <3>1. slave[d].bitnum + slave[d].scl_val \notin 1..ByteBits
        BY <1>1, <1>3, <1>7
      <3>2. QED  BY <1>1, <1>4, <1>5, <1>7, <3>1 DEF InRead
    <2>2. SDA = 1 <=> msda = 1
      <3>1. \A e \in Devices : Addressed(e) => e = d  BY <1>4 DEF Addressed
      <3>2. QED  BY <1>2, <2>1, <3>1, DataLine
    <2>3. pc \notin {"data", "rise"}
      <3>1. SCL # 0  BY <1>1
      <3>2. QED  BY <3>1, Clock
    <2>4. i \in 1..(ByteBits + 1)  BY <1>2, <1>3 DEF PlaceInv
    <2>5. CASE pc = "low"
      <3>1. i = 1
        <4>1. 2 * (i - 1) = 0  BY <2>1, <2>5 DEF Edges
        <4>2. QED  BY <2>4, <4>1
      <3>2. Heard(slave[d]) = 2 * ByteBits + 1  BY <1>4, <1>7
      <3>3. Len(seen) = j /\ Len(seen) >= 2
        BY <1>1, <1>3, <1>5, <1>7, <3>1, <3>2 DEF InRead
      <3>4. msda = Level(j - 1, ByteBits + 1)
        BY <1>3, <1>5, <2>5, <3>1 DEF DriveInv
      <3>5. msda = 0
        <4>1. ~(ByteBits + 1 <= ByteBits) /\ j - 1 > 0 /\ j - 1 # op.len
          BY <1>3, <1>5, <3>3
        <4>2. QED  BY <1>5, <3>4, <4>1 DEF Level
      <3>6. SDA = 0  BY <2>2, <3>5, Wires
      <3>7. QED  BY <2>1, <2>5, <3>6
    <2>6. CASE pc = "high"
      <3>1. i = ByteBits + 1
        <4>1. i # ByteBits + 1 => 2 * i = 0  BY <1>1, <2>1, <2>6 DEF Edges
        <4>2. QED  BY <2>4, <4>1
      <3>2. msda = Level(j, ByteBits + 1)  BY <1>3, <2>6, <3>1 DEF DriveInv
      <3>3. msda = IF j # op.len THEN 0 ELSE 1
        <4>1. ~(ByteBits + 1 <= ByteBits) /\ j > 0  BY <1>3, <1>5
        <4>2. QED  BY <1>5, <3>2, <4>1 DEF Level
      <3>4. QED  BY <1>5, <2>1, <2>2, <2>6, <3>1, <3>3
    <2>7. CASE pc = "end"
      <3>1. msda = 1  BY <1>3, <2>7 DEF DriveInv
      <3>2. j = op.len  BY <1>1, <1>5, <2>7 DEF InRead
      <3>3. QED  BY <2>1, <2>2, <2>7, <3>1, <3>2
    <2>8. QED  BY <1>2, <2>3, <2>5, <2>6, <2>7 DEF InBytes
  <1>8. CASE /\ slave[d].bitnum = ByteBits /\ SDA = 1
             /\ slave' = [slave EXCEPT ![d].state = Waiting, ![d].sda_val = 0]
    <2>1. /\ slave' \in [Devices -> SlaveTypes]
          /\ \A e \in Devices \ {d} : slave'[e] = slave[e]
          /\ t \in SlaveTypes
          /\ t = [slave[d] EXCEPT !.state = Waiting, !.sda_val = 0]
      <3>1. PICK u \in States, z \in 0..1 : u = Waiting /\ z = 0  BY DEF States
      <3>2. slave' = [slave EXCEPT ![d].state = u, ![d].sda_val = z]
        BY <1>8, <3>1
      <3>3. QED  BY <1>3, <1>6, <3>1, <3>2 DEF SlaveTypes
    <2>2. /\ t.state = Waiting /\ t.cb = "none" /\ t.scl = 1 /\ t.check = FALSE
          /\ t.sda = slave[d].sda /\ t.sda_val = 0
      BY <1>1, <1>3, <1>5, <2>1 DEF SlaveTypes
    <2>3. OnByte(d, t)
      <3>1. InWaiting(d, t)  BY <1>1, <1>5, <1>7, <1>8, <2>2 DEF InWaiting, Resting
      <3>2. QED
        BY <1>8, <2>2, <3>1 DEF OnByte, Watching, InAddress, InAck, InRead, InWrite, Waiting
    <2>4. QED
      BY <1>1, <1>2, <1>3, <1>6, <2>1, <2>2, <2>3, ServedStep DEF Holding, Waiting
  <1>9. CASE /\ slave[d].bitnum = ByteBits /\ SDA = 0
             /\ slave' = [slave EXCEPT ![d].bitnum = 0, ![d].scl_val = 0]
    <2>1. /\ slave' \in [Devices -> SlaveTypes]
          /\ \A e \in Devices \ {d} : slave'[e] = slave[e]
          /\ t \in SlaveTypes
          /\ t = [slave[d] EXCEPT !.bitnum = 0, !.scl_val = 0]
      <3>1. PICK b \in 0..ByteBits, z \in 0..1 : b = 0 /\ z = 0  BY <1>3
      <3>2. slave' = [slave EXCEPT ![d].bitnum = b, ![d].scl_val = z]
        BY <1>9, <3>1
      <3>3. QED  BY <1>3, <1>6, <3>1, <3>2 DEF SlaveTypes
    <2>2. /\ t.state = "MASTER_READ" /\ t.cb = "none" /\ t.scl = 1 /\ t.check = FALSE
          /\ t.sda = slave[d].sda /\ t.bitnum = 0 /\ t.scl_val = 0
      BY <1>1, <1>3, <1>5, <2>1 DEF SlaveTypes
    <2>3. OnByte(d, t)
      <3>1. Heard(t) = 0  BY <2>2 DEF Heard
      <3>2. Heard(slave[d]) = 2 * ByteBits + 1  BY <1>4, <1>9
      <3>3. InRead(d, t)
        BY <1>1, <1>3, <1>4, <1>5, <1>7, <1>9, <2>2, <3>1, <3>2 DEF InRead
      <3>4. Keeps(t)  BY <1>7, <1>9, <3>1 DEF Keeps
      <3>5. QED
        BY <2>2, <3>3, <3>4
        DEF OnByte, Watching, InAddress, InAck, InWrite, InWaiting, Waiting
    <2>4. QED
      BY <1>1, <1>2, <1>3, <1>6, <2>1, <2>2, <2>3, ServedStep DEF Holding
  <1>10. CASE /\ slave[d].bitnum # ByteBits
              /\ slave' = [slave EXCEPT ![d].bitnum = slave[d].bitnum + 1, ![d].scl_val = 0]
    <2>1. PICK b \in 0..ByteBits : b = slave[d].bitnum + 1  BY <1>3, <1>5, <1>10
    <2>2. /\ slave' \in [Devices -> SlaveTypes]
          /\ \A e \in Devices \ {d} : slave'[e] = slave[e]
          /\ t \in SlaveTypes
          /\ t = [slave[d] EXCEPT !.bitnum = b, !.scl_val = 0]
      <3>1. PICK z \in 0..1 : z = 0  OBVIOUS
      <3>2. slave' = [slave EXCEPT ![d].bitnum = b, ![d].scl_val = z]
        BY <1>10, <2>1, <3>1
      <3>3. QED  BY <1>3, <1>6, <2>1, <3>1, <3>2 DEF SlaveTypes
    <2>3. /\ t.state = "MASTER_READ" /\ t.cb = "none" /\ t.scl = 1 /\ t.check = FALSE
          /\ t.sda = slave[d].sda /\ t.bitnum = b /\ t.scl_val = 0 /\ t.data = slave[d].data
      BY <1>1, <1>3, <1>5, <2>2 DEF SlaveTypes
    <2>4. OnByte(d, t)
      <3>1. Heard(t) = 2 * b  BY <1>3, <2>1, <2>3 DEF Heard
      <3>2. Heard(slave[d]) = 2 * b - 1 /\ Edges = 2 * b  BY <1>4, <1>5, <1>10, <2>1
      <3>3. b \in 1..ByteBits /\ slave[d].bitnum + slave[d].scl_val = b /\ b + 0 = b
        BY <1>1, <1>5, <2>1
      <3>4. /\ 2 * b - 1 \notin {0, 2 * ByteBits + 1} /\ 2 * b \notin {0, 2 * ByteBits + 1}
        BY <1>3, <3>3
      <3>5. Len(seen) = j + 1 /\ Len(seen) >= 2
        BY <1>1, <1>5, <3>2, <3>4 DEF InRead
      <3>6. slave[d].data = seen[j + 1].value /\ slave[d].sda = MsbFirst(slave[d].data, b)
        BY <1>1, <1>5, <3>3 DEF InRead
      <3>7. pc = "end" => j = op.len  BY <1>1, <1>5 DEF InRead
      <3>8. InRead(d, t)
        BY <1>4, <1>5, <2>3, <3>1, <3>3, <3>4, <3>5, <3>6, <3>7 DEF InRead
      <3>9. Keeps(t)  BY <3>1, <3>2 DEF Keeps
      <3>10. QED
        BY <2>3, <3>8, <3>9
        DEF OnByte, Watching, InAddress, InAck, InWrite, InWaiting, Waiting
    <2>5. QED
      BY <1>1, <1>2, <1>3, <1>6, <2>2, <2>3, <2>4, ServedStep DEF Holding
  <1>11. QED  BY <1>8, <1>9, <1>10 DEF MasterReadRise

LEMMA MasterReadFallInv ==
    ASSUME Inv, NEW d \in Devices, MasterReadFall(d)  PROVE Inv'
  <1>1. /\ slave[d].cb = "none" /\ SclDue(d) /\ slave[d].state = "MASTER_READ"
        /\ UNCHANGED <<master, seen>> /\ SCL = 0 /\ slave[d].scl_val = 0
    BY DEF MasterReadFall, OnScl, SclDue
  <1>2. ~Gap /\ ~Mark /\ InBytes /\ ~Starting
    BY <1>1, Served
  <1>3. /\ slave \in [Devices -> SlaveTypes] /\ slave[d] \in SlaveTypes /\ SlaveInv(d)
        /\ ByteBits \in 2..8
    BY Parts
  <1>4. /\ OnByte(d, slave[d]) /\ Addressed(d) /\ InRead(d, slave[d])
        /\ Heard(slave[d]) = 2 * slave[d].bitnum /\ slave[d].scl = 1
        /\ Edges = 2 * slave[d].bitnum + 1 /\ pc \in {"data", "rise"}
        /\ i = slave[d].bitnum + 1 /\ slave[d].bitnum \in 0..ByteBits
        /\ slave[d].check = FALSE /\ slave[d].data \in Bits
    BY <1>1, <1>2, <1>3, ByteFacts DEF OnByte, SlaveTypes, SlaveInv
  <1>5. PICK t : t = slave'[d]  OBVIOUS
  <1>6. CASE /\ slave[d].bitnum = 0
             /\ slave' = [slave EXCEPT ![d].scl = 0, ![d].cb = "data"]
    <2>1. /\ slave' \in [Devices -> SlaveTypes]
          /\ \A e \in Devices \ {d} : slave'[e] = slave[e]
          /\ t \in SlaveTypes /\ t = [slave[d] EXCEPT !.scl = 0, !.cb = "data"]
      <3>1. PICK z \in 0..1 : z = 0  OBVIOUS
      <3>2. slave' = [slave EXCEPT ![d].scl = z, ![d].cb = "data"]
        BY <1>6, <3>1
      <3>3. QED  BY <1>3, <1>5, <3>1, <3>2 DEF SlaveTypes
    <2>2. /\ t.state = "MASTER_READ" /\ t.cb = "data" /\ t.scl = 0 /\ t.check = FALSE
          /\ t.sda = slave[d].sda /\ t.bitnum = 0 /\ t.scl_val = 0
      BY <1>1, <1>3, <1>4, <1>6, <2>1 DEF SlaveTypes
    <2>3. Heard(t) = 1  BY <2>2 DEF Heard
    <2>4. InRead(d, t)
      BY <1>1, <1>3, <1>4, <1>6, <2>2, <2>3 DEF InRead
    <2>5. Keeps(t)  BY <1>4, <1>6, <2>3 DEF Keeps
    <2>6. OnByte(d, t)
      BY <1>1, <2>2, <2>4, <2>5
      DEF OnByte, Watching, InAddress, InAck, InWrite, InWaiting, Waiting
    <2>7. QED
      BY <1>1, <1>2, <1>3, <1>5, <2>1, <2>2, <2>6, ServedStep DEF Holding
  <1>7. CASE /\ slave[d].bitnum \in 1..(ByteBits - 1)
             /\ slave' = [slave EXCEPT ![d].sda = MsbFirst(slave[d].data, slave[d].bitnum + 1),
                                       ![d].scl_val = 1]
    <2>1. PICK k \in 0..(ByteBits - 1), o \in 0..1 :
             k = slave[d].bitnum /\ o = MsbFirst(slave[d].data, slave[d].bitnum + 1)
      BY <1>3, <1>4, <1>7, OneBit
    <2>2. /\ slave' \in [Devices -> SlaveTypes]
          /\ \A e \in Devices \ {d} : slave'[e] = slave[e]
          /\ t \in SlaveTypes /\ t = [slave[d] EXCEPT !.sda = o, !.scl_val = 1]
      <3>1. PICK z \in 0..1 : z = 1  OBVIOUS
      <3>2. slave' = [slave EXCEPT ![d].sda = o, ![d].scl_val = z]
        BY <1>7, <2>1, <3>1
      <3>3. QED  BY <1>3, <1>5, <2>1, <3>1, <3>2 DEF SlaveTypes
    <2>3. /\ t.state = "MASTER_READ" /\ t.cb = "none" /\ t.scl = 1 /\ t.check = FALSE
          /\ t.sda = o /\ t.bitnum = slave[d].bitnum /\ t.scl_val = 1
          /\ t.data = slave[d].data
      BY <1>1, <1>3, <1>4, <2>2 DEF SlaveTypes
    <2>4. Heard(t) = 2 * k + 1 /\ k >= 1 /\ k <= ByteBits - 1
      BY <1>3, <1>7, <2>1, <2>3 DEF Heard
    <2>5. Heard(slave[d]) = 2 * k  BY <1>4, <2>1
    <2>6. /\ 2 * k \notin {0, 2 * ByteBits + 1} /\ 2 * k + 1 \notin {0, 2 * ByteBits + 1}
          /\ k + 0 \in 1..ByteBits /\ k + 1 \in 1..ByteBits
      BY <1>3, <2>4
    <2>7. /\ Len(seen) = j + 1 /\ Len(seen) >= 2 /\ op.dir = "read" /\ j >= 1
          /\ slave[d].data = seen[j + 1].value
      BY <1>1, <1>4, <2>1, <2>4, <2>5, <2>6 DEF InRead
    <2>8. InRead(d, t)
      BY <1>4, <2>1, <2>3, <2>4, <2>6, <2>7 DEF InRead
    <2>9. Keeps(t)  BY <1>4, <2>1, <2>4 DEF Keeps
    <2>10. OnByte(d, t)
      BY <1>1, <2>3, <2>8, <2>9
      DEF OnByte, Watching, InAddress, InAck, InWrite, InWaiting, Waiting
    <2>11. QED
      BY <1>1, <1>2, <1>3, <1>5, <2>2, <2>3, <2>10, ServedStep DEF Holding
  <1>8. CASE /\ slave[d].bitnum >= ByteBits
             /\ slave' = [slave EXCEPT ![d].sda = 1, ![d].scl_val = 1]
    <2>1. slave[d].bitnum = ByteBits  BY <1>3, <1>4, <1>8
    <2>2. /\ slave' \in [Devices -> SlaveTypes]
          /\ \A e \in Devices \ {d} : slave'[e] = slave[e]
          /\ t \in SlaveTypes /\ t = [slave[d] EXCEPT !.sda = 1, !.scl_val = 1]
      <3>1. PICK z \in 0..1 : z = 1  OBVIOUS
      <3>2. slave' = [slave EXCEPT ![d].sda = z, ![d].scl_val = z]
        BY <1>8, <3>1
      <3>3. QED  BY <1>3, <1>5, <3>1, <3>2 DEF SlaveTypes
    <2>3. /\ t.state = "MASTER_READ" /\ t.cb = "none" /\ t.scl = 1 /\ t.check = FALSE
          /\ t.sda = 1 /\ t.bitnum = ByteBits /\ t.scl_val = 1
      BY <1>1, <1>3, <1>4, <2>1, <2>2 DEF SlaveTypes
    <2>4. Heard(t) = 2 * ByteBits + 1  BY <1>3, <2>3 DEF Heard
    <2>5. /\ ByteBits + 1 \notin 1..ByteBits /\ i # 1 /\ 2 * ByteBits + 1 # 0
          /\ ByteBits > 0
      BY <1>3, <1>4, <2>1
    <2>6. /\ Len(seen) = j + 1 /\ Len(seen) >= 2 /\ op.dir = "read" /\ j >= 1
      BY <1>1, <1>4, <2>1, <2>5 DEF InRead
    <2>7. InRead(d, t)
      BY <1>4, <2>3, <2>4, <2>5, <2>6 DEF InRead
    <2>8. Keeps(t)  BY <1>4, <2>1, <2>4 DEF Keeps
    <2>9. OnByte(d, t)
      BY <1>1, <2>3, <2>7, <2>8
      DEF OnByte, Watching, InAddress, InAck, InWrite, InWaiting, Waiting
    <2>10. QED
      BY <1>1, <1>2, <1>3, <1>5, <2>2, <2>3, <2>9, ServedStep DEF Holding
  <1>9. QED  BY <1>6, <1>7, <1>8 DEF MasterReadFall, Stretch

LEMMA MasterWriteRiseInv ==
    ASSUME Inv, NEW d \in Devices, MasterWriteRise(d)  PROVE Inv'
  <1>1. /\ slave[d].cb = "none" /\ SclDue(d) /\ slave[d].state = "MASTER_WRITE"
        /\ UNCHANGED <<master, seen>> /\ SCL = 1 /\ slave[d].scl_val = 1
    BY DEF MasterWriteRise, OnScl, SclDue
  <1>2. ~Gap /\ ~Starting
    BY <1>1, Served
  <1>3. /\ slave \in [Devices -> SlaveTypes] /\ slave[d] \in SlaveTypes /\ SlaveInv(d)
        /\ ByteBits \in 2..8 /\ CallInv /\ PlaceInv /\ DriveInv
    BY Parts
  <1>4. slave[d].check = FALSE /\ slave[d].scl = 1 /\ slave[d].bitnum \in 0..ByteBits
    BY <1>1, <1>3 DEF SlaveTypes, SlaveInv, Holding
  <1>5. PICK o \in 0..1 : o = SDA  BY Wires
  <1>6. slave[d].data \in Nat /\ 2^ByteBits \in Nat \ {0}
    BY <1>3, ByteRange DEF SlaveTypes, Bits
  <1>7. PICK a \in Bits : a = (2 * slave[d].data + SDA) % 2^ByteBits
    <2>1. 2 * slave[d].data + SDA \in Nat  BY <1>5, <1>6
    <2>2. (2 * slave[d].data + SDA) % 2^ByteBits \in 0..(2^ByteBits - 1)
      BY <1>6, <2>1, Division
    <2>3. QED  BY <2>2 DEF Bits
  <1>8. InBytes =>
          /\ InWrite(d, slave[d]) /\ slave[d].bitnum < ByteBits
          /\ Edges = 2 * (slave[d].bitnum + 1) /\ Addressed(d)
    <2>1. SUFFICES ASSUME InBytes
                   PROVE  /\ InWrite(d, slave[d]) /\ slave[d].bitnum < ByteBits
                          /\ Edges = 2 * (slave[d].bitnum + 1) /\ Addressed(d)
      OBVIOUS
    <2>2. /\ OnByte(d, slave[d]) /\ Addressed(d)
          /\ Edges = IF slave[d].bitnum = ByteBits THEN 0 ELSE 2 * (slave[d].bitnum + 1)
      BY <1>1, <2>1, ByteFacts
    <2>3. slave[d].bitnum # ByteBits
      BY <1>1, <2>2 DEF OnByte, InWrite
    <2>4. QED  BY <1>3, <1>4, <2>2, <2>3 DEF OnByte
  <1>9. Mark => slave[d].bitnum = 0 /\ OnMark(slave[d])
    BY <1>1, <1>3, Served DEF SlaveInv
  <1>10. slave[d].bitnum < ByteBits  BY <1>1, <1>2, <1>3, <1>8, <1>9, Served
  <1>11. PICK b \in 0..ByteBits : b = slave[d].bitnum + 1  BY <1>3, <1>4, <1>10
  <1>12. PICK v \in 0..1 : v = IF slave[d].bitnum = 0 THEN 1 - SDA ELSE slave[d].sda_val
    <2>1. slave[d].sda_val \in 0..1 /\ 1 - o \in 0..1  BY <1>3 DEF SlaveTypes
    <2>2. QED  BY <1>5, <2>1
  <1>13. PICK c \in BOOLEAN : c = (slave[d].bitnum = 0)  OBVIOUS
  <1>14. PICK t : t = slave'[d]  OBVIOUS
  <1>15. /\ slave' \in [Devices -> SlaveTypes]
         /\ \A e \in Devices \ {d} : slave'[e] = slave[e]
         /\ t \in SlaveTypes
         /\ t = [slave[d] EXCEPT !.data = a, !.bitnum = b, !.scl_val = 0,
                                 !.sda_val = v, !.check = c]
    <2>1. PICK z \in 0..1 : z = 0  OBVIOUS
    <2>2. (slave[d].bitnum = 0 \/ slave[d].check) = c  BY <1>4, <1>13
    <2>3. slave' = [slave EXCEPT ![d].data = a, ![d].bitnum = b, ![d].scl_val = z,
                                 ![d].sda_val = v, ![d].check = c]
      BY <1>7, <1>11, <1>12, <2>1, <2>2 DEF MasterWriteRise
    <2>4. PICK u : u = [slave[d] EXCEPT !.data = a, !.bitnum = b, !.scl_val = z,
                                        !.sda_val = v, !.check = c]
      OBVIOUS
    <2>5. u \in SlaveTypes  BY <1>3, <2>4 DEF SlaveTypes
    <2>6. slave' = [slave EXCEPT ![d] = u]  BY <1>3, <2>3, <2>4
    <2>7. QED  BY <1>3, <1>14, <2>1, <2>4, <2>5, <2>6
  <1>16. /\ t.state = "MASTER_WRITE" /\ t.cb = "none" /\ t.scl = 1 /\ t.scl_val = 0
         /\ t.sda = slave[d].sda /\ t.bitnum = b /\ t.data = a /\ t.sda_val = v
         /\ t.check = c /\ t.next = slave[d].next
    BY <1>1, <1>3, <1>4, <1>15 DEF SlaveTypes
  <1>17. t.check <=> t.state = "MASTER_WRITE" /\ t.bitnum = 1 /\ t.scl_val = 0
    <2>1. b = 1 <=> slave[d].bitnum = 0  BY <1>4, <1>11
    <2>2. c <=> slave[d].bitnum = 0  BY <1>13, Zenon
    <2>3. QED  BY <1>16, <2>1, <2>2, Zenon
  <1>18. Watching(t) => t.sda_val = 1 - SDA
    <2>1. Watching(t) => c  BY <1>16 DEF Watching, Waiting
    <2>2. QED  BY <1>12, <1>13, <1>16, <2>1
  <1>19. Mark => OnMark(t)
    <2>1. Mark => slave[d].sda = 1 /\ t.check  BY <1>9, <1>13, <1>16 DEF OnMark, Resting
    <2>2. QED  BY <1>16, <1>18, <2>1 DEF OnMark, Resting, Watching
  <1>20. ASSUME InBytes PROVE OnByte(d, t)
    <2>1. /\ Addressed(d) /\ op.dir = "write" /\ j >= 1 /\ pc # "end" /\ slave[d].sda = 1
          /\ Len(seen) = j /\ slave[d].data = Top(op.bytes[j], slave[d].bitnum)
          /\ slave[d].next = "MASTER_WRITE"
      BY <1>1, <1>8, <1>20 DEF InWrite
    <2>2. op.bytes[j] \in Bits
      <3>1. op.bytes \in Seq(Bits) /\ j \in 1..Len(op.bytes)
        BY <1>3, <1>20, <2>1, CallFacts DEF PlaceInv
      <3>2. QED  BY <3>1
    <2>3. b \in 1..ByteBits /\ Edges = 2 * b  BY <1>4, <1>8, <1>11, <1>20
    <2>4. msda = MsbFirst(op.bytes[j], b)
      <3>1. msda = Level(j, b)  BY <1>2, <1>20, <2>3, PulseLevel
      <3>2. b <= ByteBits /\ j # 0  BY <1>3, <2>1, <2>3 DEF PlaceInv
      <3>3. QED  BY <2>1, <3>1, <3>2 DEF Level
    <2>5. SDA = MsbFirst(op.bytes[j], b)
      <3>1. \A e \in Devices : Addressed(e) => e = d  BY <2>1 DEF Addressed
      <3>2. SDA = 1 <=> msda = 1  BY <1>2, <1>20, <2>1, <3>1, DataLine
      <3>3. msda \in 0..1  BY <1>3 DEF DriveInv
      <3>4. QED  BY <2>4, <3>2, <3>3, Wires
    <2>6. a = Top(op.bytes[j], b)
      <3>1. slave[d].bitnum \in 0..(ByteBits - 1)  BY <1>3, <1>4, <1>10
      <3>2. (2 * Top(op.bytes[j], slave[d].bitnum)
               + MsbFirst(op.bytes[j], slave[d].bitnum + 1)) % 2^ByteBits
               = Top(op.bytes[j], slave[d].bitnum + 1)
        BY <2>2, <3>1, OneBit
      <3>3. QED  BY <1>7, <1>11, <2>1, <2>5, <3>2
    <2>7. Heard(t) = 2 * b  BY <1>16, <2>3 DEF Heard
    <2>8. InWrite(d, t)
      <3>1. b # 0  BY <2>3
      <3>2. QED  BY <1>16, <2>1, <2>6, <3>1 DEF InWrite
    <2>9. QED
      BY <1>16, <1>18, <2>3, <2>7, <2>8
      DEF OnByte, Keeps, InAddress, InAck, InRead, InWaiting, Waiting
  <1>21. QED
    BY <1>1, <1>2, <1>3, <1>14, <1>15, <1>16, <1>17, <1>19, <1>20, ServedStep DEF Holding

LEMMA MasterWriteFallInv ==
    ASSUME Inv, NEW d \in Devices, MasterWriteFall(d)  PROVE Inv'
  <1>1. /\ slave[d].cb = "none" /\ SclDue(d) /\ slave[d].state = "MASTER_WRITE"
        /\ UNCHANGED <<master, seen>> /\ SCL = 0 /\ slave[d].scl_val = 0
    BY DEF MasterWriteFall, OnScl, SclDue
  <1>2. ~Gap /\ ~Mark /\ InBytes /\ ~Starting
    BY <1>1, Served
  <1>3. /\ slave \in [Devices -> SlaveTypes] /\ slave[d] \in SlaveTypes /\ SlaveInv(d)
        /\ ByteBits \in 2..8
    BY Parts
  <1>4. /\ OnByte(d, slave[d]) /\ InWrite(d, slave[d]) /\ slave[d].scl = 1
        /\ Edges = 2 * slave[d].bitnum + 1 /\ slave[d].bitnum \in 0..ByteBits
    BY <1>1, <1>2, <1>3, ByteFacts DEF OnByte, SlaveTypes
  <1>5. PICK t : t = slave'[d]  OBVIOUS
  <1>6. CASE /\ slave[d].bitnum = ByteBits
             /\ slave' = [slave EXCEPT ![d].check = FALSE, ![d].scl = 0, ![d].cb = "sent"]
    <2>1. /\ slave' \in [Devices -> SlaveTypes]
          /\ \A e \in Devices \ {d} : slave'[e] = slave[e]
          /\ t \in SlaveTypes
          /\ t = [slave[d] EXCEPT !.check = FALSE, !.scl = 0, !.cb = "sent"]
      <3>1. PICK z \in 0..1 : z = 0  OBVIOUS
      <3>2. PICK c \in BOOLEAN : c = FALSE  OBVIOUS
      <3>3. slave' = [slave EXCEPT ![d].check = c, ![d].scl = z, ![d].cb = "sent"]
        BY <1>6, <3>1, <3>2
      <3>4. QED  BY <1>3, <1>5, <3>1, <3>2, <3>3 DEF SlaveTypes
    <2>2. /\ t.state = "MASTER_WRITE" /\ t.cb = "sent" /\ t.scl = 0 /\ t.check = FALSE
          /\ t.sda = slave[d].sda /\ t.bitnum = ByteBits /\ t.scl_val = 0
          /\ t.data = slave[d].data /\ t.next = slave[d].next
      BY <1>1, <1>3, <1>6, <2>1 DEF SlaveTypes
    <2>3. Heard(t) = 2 * ByteBits + 1  BY <1>3, <2>2 DEF Heard
    <2>4. ByteBits # 1 /\ ByteBits # 0  BY <1>3
    <2>5. InWrite(d, t)
      BY <1>1, <1>4, <1>6, <2>2, <2>4 DEF InWrite
    <2>6. OnByte(d, t)
      BY <1>1, <1>4, <1>6, <2>2, <2>3, <2>5
      DEF OnByte, Keeps, Watching, InAddress, InAck, InRead, InWaiting, Waiting
    <2>7. QED
      BY <1>1, <1>2, <1>3, <1>5, <2>1, <2>2, <2>4, <2>6, ServedStep DEF Holding
  <1>7. CASE /\ slave[d].bitnum # ByteBits
             /\ slave' = [slave EXCEPT ![d].check = FALSE, ![d].scl_val = 1]
    <2>1. /\ slave' \in [Devices -> SlaveTypes]
          /\ \A e \in Devices \ {d} : slave'[e] = slave[e]
          /\ t \in SlaveTypes
          /\ t = [slave[d] EXCEPT !.check = FALSE, !.scl_val = 1]
      <3>1. PICK z \in 0..1 : z = 1  OBVIOUS
      <3>2. PICK c \in BOOLEAN : c = FALSE  OBVIOUS
      <3>3. slave' = [slave EXCEPT ![d].check = c, ![d].scl_val = z]
        BY <1>7, <3>1, <3>2
      <3>4. QED  BY <1>3, <1>5, <3>1, <3>2, <3>3 DEF SlaveTypes
    <2>2. /\ t.state = "MASTER_WRITE" /\ t.cb = "none" /\ t.scl = 1 /\ t.check = FALSE
          /\ t.sda = slave[d].sda /\ t.bitnum = slave[d].bitnum /\ t.scl_val = 1
          /\ t.data = slave[d].data /\ t.next = slave[d].next
      BY <1>1, <1>3, <1>4, <1>7, <2>1 DEF SlaveTypes
    <2>3. Heard(t) = 2 * slave[d].bitnum + 1  BY <1>4, <2>2 DEF Heard
    <2>4. InWrite(d, t)
      BY <1>1, <1>4, <1>7, <2>2 DEF InWrite
    <2>5. OnByte(d, t)
      BY <1>1, <1>4, <2>2, <2>3, <2>4
      DEF OnByte, Keeps, Watching, InAddress, InAck, InRead, InWaiting, Waiting
    <2>6. t.check <=> t.state = "MASTER_WRITE" /\ t.bitnum = 1 /\ t.scl_val = 0
      BY <2>2
    <2>7. QED
      BY <1>1, <1>2, <1>3, <1>5, <2>1, <2>2, <2>5, <2>6, ServedStep DEF Holding
  <1>8. QED  BY <1>6, <1>7 DEF MasterWriteFall

-----------------------------------------------------------------------------
(* The events of SDA, and the stop_bit callback.                           *)

\* With the bus off only the slave that moves matters.
LEMMA OffStep ==
    ASSUME Inv, Off, NEW d \in Devices, NEW t, t = slave'[d], t \in SlaveTypes,
           slave' \in [Devices -> SlaveTypes], \A e \in Devices \ {d} : slave'[e] = slave[e],
           UNCHANGED <<master, seen>>,
           t.scl = IF t.cb \in Holding THEN 0 ELSE 1,
           t.check <=> t.state = "MASTER_WRITE" /\ t.bitnum = 1 /\ t.scl_val = 0,
           OnOff(t), StopHeld'
    PROVE  Inv'
  <1>1. UNCHANGED <<pc, stopped>>  BY DEF master
  <1>2. Off' /\ ~InBytes' /\ ~Gap' /\ ~Mark' /\ ~Starting'
    BY <1>1 DEF Off, InBytes, Gap, Mark, Starting
  <1>3. ASSUME NEW e \in Devices PROVE SlaveInv(e)'
    <2>1. CASE e = d
      <3>1. OnOff(slave'[d])  OBVIOUS
      <3>2. OnOff(slave[d])'  BY <3>1 DEF OnOff, Watching
      <3>3. QED  BY <1>2, <2>1, <3>2 DEF SlaveInv
    <2>2. CASE e # d
      <3>1. slave'[e] = slave[e] /\ OnOff(slave[e]) /\ SlaveInv(e)
        BY <2>2, Parts DEF SlaveInv
      <3>2. OnOff(slave[e])'  BY <3>1 DEF OnOff, Watching
      <3>3. QED  BY <1>2, <3>1, <3>2 DEF SlaveInv
    <2>3. QED  BY <2>1, <2>2
  <1>4. MasterInv'  BY MasterKept DEF Inv
  <1>5. QED  BY <1>3, <1>4 DEF Inv

LEMMA StopHeldKept ==
    ASSUME Inv, NEW d \in Devices, NEW t, t = slave'[d],
           \A e \in Devices \ {d} : slave'[e] = slave[e], UNCHANGED <<master, seen>>,
           t.cb # "stop",
           t.cb = "none" /\ t.sda_val = 1 => slave[d].cb = "none" /\ slave[d].sda_val = 1
    PROVE  StopHeld'
  <1>1. UNCHANGED <<pc, stopped>>  BY DEF master
  <1>2. ASSUME NEW x \in Devices, NEW e \in Devices, Off, slave'[x].cb = "stop"
        PROVE  ~(slave'[e].cb = "none" /\ slave'[e].sda_val = 1)
    <2>1. x # d  BY <1>2
    <2>2. slave[x].cb = "stop"  BY <1>2, <2>1
    <2>3. ~(slave[e].cb = "none" /\ slave[e].sda_val = 1)
      BY <1>2, <2>2, Parts DEF StopHeld
    <2>4. CASE e = d  BY <2>3, <2>4
    <2>5. CASE e # d  BY <2>3, <2>5
    <2>6. QED  BY <2>4, <2>5
  <1>3. QED  BY <1>1, <1>2 DEF StopHeld, Off

LEMMA EventSdaInv ==
    ASSUME Inv, NEW d \in Devices, EventSda(d)  PROVE Inv'
  <1>1. /\ slave[d].cb = "none" /\ Watching(slave[d]) /\ SDA = slave[d].sda_val
        /\ UNCHANGED <<master, seen>>
    BY DEF EventSda, SdaDue, Watching
  <1>2. /\ slave \in [Devices -> SlaveTypes] /\ slave[d] \in SlaveTypes /\ SlaveInv(d)
        /\ ByteBits \in 2..8 /\ CallInv /\ DriveInv /\ StopHeld
    BY Parts
  <1>3. /\ slave[d].scl = 1 /\ slave[d].sda_val \in 0..1
        /\ slave[d].check <=> slave[d].state = "MASTER_WRITE" /\ slave[d].bitnum = 1
                                /\ slave[d].scl_val = 0
    BY <1>1, <1>2 DEF SlaveInv, SlaveTypes, Holding
  <1>4. PICK t : t = slave'[d]  OBVIOUS
  <1>5. ASSUME Off PROVE SCL = 1 /\ SDA = 1 /\ slave[d].sda_val = 1 /\ slave[d].sda = 1
    <2>1. SDA = 1 /\ OnOff(slave[d])  BY <1>2, <1>5, DataLine DEF SlaveInv
    <2>2. ASSUME NEW e \in Devices PROVE slave[e].scl = 1
      <3>1. SlaveInv(e) /\ OnOff(slave[e])  BY <1>5, Parts DEF SlaveInv
      <3>2. slave[e].cb # "stop"  BY <1>1, <1>2, <1>5, <2>1 DEF StopHeld
      <3>3. QED  BY <3>1, <3>2 DEF SlaveInv, OnOff, Holding
    <2>3. mscl = 1  BY <1>2, <1>5 DEF DriveInv, Off, Gap
    <2>4. QED  BY <1>1, <2>1, <2>2, <2>3, Wires DEF OnOff
  <1>6. SCL = 1 => Off \/ Starting
    <2>1. SUFFICES ASSUME SCL = 1, ~Off, ~Starting PROVE FALSE  OBVIOUS
    <2>2. ~Gap  BY <2>1, Clock
    <2>3. slave[d].sda_val = 1 - SDA
      BY <1>1, <1>2, <2>1, <2>2 DEF CallInv, SlaveInv, OnByte, OnMark
    <2>4. QED  BY <1>1, <1>3, <2>3
  <1>7. CASE /\ slave[d].sda_val = 1 /\ SCL = 1 /\ ~slave[d].ignore
             /\ slave' = [slave EXCEPT ![d].cb = "stop_seen"]
    <2>1. /\ slave' \in [Devices -> SlaveTypes]
          /\ \A e \in Devices \ {d} : slave'[e] = slave[e]
          /\ t \in SlaveTypes /\ t = [slave[d] EXCEPT !.cb = "stop_seen"]
      BY <1>2, <1>4, <1>7 DEF SlaveTypes
    <2>2. /\ t.cb = "stop_seen" /\ t.scl = 1 /\ t.state = slave[d].state
          /\ t.check = slave[d].check /\ t.bitnum = slave[d].bitnum
          /\ t.scl_val = slave[d].scl_val /\ t.sda = slave[d].sda
          /\ t.sda_val = slave[d].sda_val /\ t.ignore = slave[d].ignore
      BY <1>2, <1>3, <2>1 DEF SlaveTypes
    <2>3. Off
      <3>1. ~Starting  BY <1>1, <1>7, DataLine
      <3>2. QED  BY <1>6, <1>7, <3>1
    <2>4. OnOff(t)  BY <1>1, <1>5, <1>7, <2>2, <2>3 DEF OnOff, Watching
    <2>5. StopHeld'  BY <1>1, <1>4, <2>1, <2>2, StopHeldKept
    <2>6. QED  BY <1>1, <1>3, <1>4, <2>1, <2>2, <2>3, <2>4, <2>5, OffStep DEF Holding
  <1>8. CASE /\ slave[d].sda_val = 1 /\ SCL = 1 /\ slave[d].ignore
             /\ slave' = [slave EXCEPT ![d].state = Waiting, ![d].sda_val = 0,
                                       ![d].check = FALSE]
    <2>1. /\ slave' \in [Devices -> SlaveTypes]
          /\ \A e \in Devices \ {d} : slave'[e] = slave[e]
          /\ t \in SlaveTypes
          /\ t = [slave[d] EXCEPT !.state = Waiting, !.sda_val = 0, !.check = FALSE]
      <3>1. PICK u \in States, z \in 0..1 : u = Waiting /\ z = 0  BY DEF States
      <3>2. PICK c \in BOOLEAN : c = FALSE  OBVIOUS
      <3>3. slave' = [slave EXCEPT ![d].state = u, ![d].sda_val = z, ![d].check = c]
        BY <1>8, <3>1, <3>2
      <3>4. QED  BY <1>2, <1>4, <3>1, <3>2, <3>3 DEF SlaveTypes
    <2>2. /\ t.cb = "none" /\ t.scl = 1 /\ t.state = Waiting /\ t.check = FALSE
          /\ t.sda = slave[d].sda /\ t.sda_val = 0 /\ t.ignore = slave[d].ignore
      BY <1>1, <1>2, <1>3, <2>1 DEF SlaveTypes
    <2>3. Off
      <3>1. ~Starting  BY <1>1, <1>8, DataLine
      <3>2. QED  BY <1>6, <1>8, <3>1
    <2>4. OnOff(t)  BY <1>5, <1>8, <2>2, <2>3 DEF OnOff, Watching
    <2>5. StopHeld'
      <3>1. t.cb # "stop" /\ t.sda_val # 1  BY <2>2
      <3>2. QED  BY <1>1, <1>4, <2>1, <3>1, StopHeldKept
    <2>6. QED
      BY <1>1, <1>4, <2>1, <2>2, <2>3, <2>4, <2>5, OffStep DEF Holding, Waiting
  <1>9. CASE /\ slave[d].sda_val = 0 /\ SCL = 1
             /\ slave' = [slave EXCEPT ![d].state = "READING_ADDR", ![d].bitnum = 0,
                             ![d].data = 0, ![d].scl_val = 0, ![d].check = FALSE]
    <2>1. /\ slave' \in [Devices -> SlaveTypes]
          /\ \A e \in Devices \ {d} : slave'[e] = slave[e]
          /\ t \in SlaveTypes
          /\ t = [slave[d] EXCEPT !.state = "READING_ADDR", !.bitnum = 0,
                             !.data = 0, !.scl_val = 0, !.check = FALSE]
      <3>1. PICK u \in States, b \in 0..ByteBits, a \in Bits, z \in 0..1 :
               u = "READING_ADDR" /\ b = 0 /\ a = 0 /\ z = 0
        BY <1>2, ByteRange DEF States, Bits
      <3>7. PICK c \in BOOLEAN : c = FALSE  OBVIOUS
      <3>2. slave' = [slave EXCEPT ![d].state = u, ![d].bitnum = b, ![d].data = a,
                                   ![d].scl_val = z, ![d].check = c]
        BY <1>9, <3>1, <3>7
      <3>3. PICK r : r = [slave[d] EXCEPT !.state = u, !.bitnum = b, !.data = a,
                                          !.scl_val = z, !.check = c]
        OBVIOUS
      <3>4. r \in SlaveTypes  BY <1>2, <3>3 DEF SlaveTypes
      <3>5. slave' = [slave EXCEPT ![d] = r]  BY <1>2, <3>2, <3>3
      <3>6. QED  BY <1>2, <1>4, <3>1, <3>3, <3>4, <3>5, <3>7
    <2>2. /\ t.cb = "none" /\ t.scl = 1 /\ t.state = "READING_ADDR" /\ t.check = FALSE
          /\ t.sda = slave[d].sda /\ t.bitnum = 0 /\ t.data = 0 /\ t.scl_val = 0
      BY <1>1, <1>2, <1>3, <2>1 DEF SlaveTypes
    <2>3. Starting  BY <1>5, <1>6, <1>9
    <2>4. ~Off /\ ~Gap /\ ~Mark  BY <2>3 DEF Starting, Off, Gap, Mark
    <2>5. OnStart(t)
      BY <1>2, <2>2, <2>3 DEF SlaveInv, OnStart, Resting, Watching, Waiting
    <2>6. StopHeld'  BY <1>1, <2>4 DEF StopHeld, Off, master
    <2>7. QED
      BY <1>1, <1>3, <1>4, <2>1, <2>2, <2>3, <2>4, <2>5, <2>6, SlaveStep DEF Holding
  <1>10. CASE SCL = 0 /\ slave' = [slave EXCEPT ![d].sda_val = 1 - slave[d].sda_val]
    <2>1. PICK v \in 0..1 : v = 1 - slave[d].sda_val  BY <1>3
    <2>2. /\ slave' \in [Devices -> SlaveTypes]
          /\ \A e \in Devices \ {d} : slave'[e] = slave[e]
          /\ t \in SlaveTypes /\ t = [slave[d] EXCEPT !.sda_val = v]
      BY <1>2, <1>4, <1>10, <2>1 DEF SlaveTypes
    <2>3. /\ t.cb = "none" /\ t.scl = 1 /\ t.state = slave[d].state
          /\ t.check = slave[d].check /\ t.bitnum = slave[d].bitnum
          /\ t.scl_val = slave[d].scl_val /\ t.sda = slave[d].sda /\ t.next = slave[d].next
          /\ t.ignore = slave[d].ignore /\ t.data = slave[d].data /\ t.rw = slave[d].rw
      BY <1>1, <1>2, <1>3, <2>2 DEF SlaveTypes
    <2>4. ~Off /\ ~Starting /\ ~Mark
      <3>1. SCL # 1  BY <1>10
      <3>2. QED  BY <1>5, <3>1, Clock
    <2>5. ASSUME Gap PROVE OnGap(t)
      BY <1>1, <1>2, <2>3, <2>5 DEF SlaveInv, OnGap
    <2>6. ASSUME InBytes PROVE OnByte(d, t)
      <3>1. OnByte(d, slave[d])  BY <1>2, <2>4, <2>6 DEF SlaveInv
      <3>2. Heard(t) = Heard(slave[d])  BY <1>1, <2>3 DEF Heard
      <3>3. InAddress(d, t) /\ InAck(d, t)
        BY <1>1, <2>3, <3>1 DEF OnByte, InAddress, InAck, Resting
      <3>4. InRead(d, t) /\ InWrite(d, t) /\ InWaiting(d, t)
        BY <1>1, <2>3, <3>1, <3>2 DEF OnByte, InRead, InWrite, InWaiting, Resting
      <3>5. QED  BY <1>1, <1>10, <2>3, <3>1, <3>2, <3>3, <3>4 DEF OnByte, Keeps
    <2>7. StopHeld'  BY <1>1, <2>4 DEF StopHeld, Off, master
    <2>8. QED
      BY <1>1, <1>3, <1>4, <2>2, <2>3, <2>4, <2>5, <2>6, <2>7, SlaveStep DEF Holding
  <1>11. QED  BY <1>7, <1>8, <1>9, <1>10 DEF EventSda

\* The stop_bit callback runs with the bus off.
LEMMA StopCallback ==
    ASSUME Inv, NEW d \in Devices, slave[d].cb \in {"stop_seen", "stop"}
    PROVE  Off /\ OnOff(slave[d]) /\ ~slave[d].ignore
  <1>1. slave[d] \in SlaveTypes /\ SlaveInv(d) /\ CallInv  BY Parts
  <1>2. slave[d].state \in States  BY <1>1 DEF SlaveTypes
  <1>3. Off
    BY <1>1, <1>2
    DEF CallInv, SlaveInv, OnStart, OnByte, OnGap, OnMark, InAddress, InAck, InRead, InWrite,
        InWaiting, Resting, States
  <1>4. QED  BY <1>1, <1>3 DEF SlaveInv, OnOff

LEMMA HoldForStopInv ==
    ASSUME Inv, StopsTogether, NEW d \in Devices, HoldForStop(d)  PROVE Inv'
  <1>1. slave[d].cb = "stop_seen" /\ Quiet /\ UNCHANGED <<master, seen>>
    BY DEF HoldForStop
  <1>2. Off /\ OnOff(slave[d])  BY <1>1, StopCallback
  <1>3. slave \in [Devices -> SlaveTypes] /\ slave[d] \in SlaveTypes /\ SlaveInv(d)
    BY Parts
  <1>4. PICK t : t = slave'[d]  OBVIOUS
  <1>5. /\ slave' \in [Devices -> SlaveTypes]
        /\ \A e \in Devices \ {d} : slave'[e] = slave[e]
        /\ t \in SlaveTypes /\ t = [slave[d] EXCEPT !.scl = 0, !.cb = "stop"]
    <2>1. PICK z \in 0..1 : z = 0  OBVIOUS
    <2>2. slave' = [slave EXCEPT ![d].scl = z, ![d].cb = "stop"]
      BY <2>1 DEF HoldForStop, Stretch
    <2>3. QED  BY <1>3, <1>4, <2>1, <2>2 DEF SlaveTypes
  <1>6. /\ t.cb = "stop" /\ t.scl = 0 /\ t.state = slave[d].state
        /\ t.check = slave[d].check /\ t.bitnum = slave[d].bitnum
        /\ t.scl_val = slave[d].scl_val /\ t.sda = slave[d].sda
        /\ t.sda_val = slave[d].sda_val /\ t.ignore = slave[d].ignore
    BY <1>3, <1>5 DEF SlaveTypes
  <1>7. OnOff(t)  BY <1>1, <1>2, <1>6 DEF OnOff, Watching
  <1>8. StopHeld'
    <2>1. ASSUME NEW e \in Devices PROVE ~(slave'[e].cb = "none" /\ slave'[e].sda_val = 1)
      <3>1. CASE e = d  BY <1>4, <1>6, <3>1
      <3>2. CASE e # d
        <4>1. slave'[e] = slave[e] /\ SlaveInv(e)  BY <1>5, <3>2, Parts
        <4>2. OnOff(slave[e]) /\ SDA = 1  BY <1>2, <4>1, DataLine DEF SlaveInv
        <4>3. slave[e].cb = "none" => slave[e].sda_val = 1 - SDA
          BY <1>1, <4>2, Settled DEF OnOff
        <4>4. QED  BY <4>1, <4>2, <4>3
      <3>3. QED  BY <3>1, <3>2
    <2>2. QED  BY <2>1 DEF StopHeld
  <1>9. QED  BY <1>1, <1>2, <1>3, <1>4, <1>5, <1>6, <1>7, <1>8, OffStep DEF Holding, SlaveInv

LEMMA StopBitReturnInv ==
    ASSUME Inv, NEW d \in Devices, StopBitReturn(d)  PROVE Inv'
  <1>1. slave[d].cb = "stop" /\ UNCHANGED <<master, seen>>
    BY DEF StopBitReturn
  <1>2. Off /\ OnOff(slave[d])  BY <1>1, StopCallback
  <1>3. slave \in [Devices -> SlaveTypes] /\ slave[d] \in SlaveTypes /\ StopHeld
    BY Parts
  <1>4. PICK t : t = slave'[d]  OBVIOUS
  <1>5. /\ slave' \in [Devices -> SlaveTypes]
        /\ \A e \in Devices \ {d} : slave'[e] = slave[e]
        /\ t \in SlaveTypes
        /\ t = [slave[d] EXCEPT !.scl = 1, !.cb = "none", !.state = Waiting,
                                !.ignore = TRUE, !.check = FALSE, !.sda_val = 0]
    <2>1. PICK u \in States, o \in 0..1, z \in 0..1 : u = Waiting /\ o = 1 /\ z = 0
      BY DEF States
    <2>7. PICK b \in BOOLEAN : b = TRUE  OBVIOUS
    <2>8. PICK c \in BOOLEAN : c = FALSE  OBVIOUS
    <2>2. slave' = [slave EXCEPT ![d].scl = o, ![d].cb = "none", ![d].state = u,
                                 ![d].ignore = b, ![d].check = c, ![d].sda_val = z]
      BY <2>1, <2>7, <2>8 DEF StopBitReturn
    <2>3. PICK r : r = [slave[d] EXCEPT !.scl = o, !.cb = "none", !.state = u,
                                        !.ignore = b, !.check = c, !.sda_val = z]
      OBVIOUS
    <2>4. r \in SlaveTypes  BY <1>3, <2>3 DEF SlaveTypes
    <2>5. slave' = [slave EXCEPT ![d] = r]  BY <1>3, <2>2, <2>3
    <2>6. QED  BY <1>3, <1>4, <2>1, <2>3, <2>4, <2>5, <2>7, <2>8
  <1>6. /\ t.cb = "none" /\ t.scl = 1 /\ t.state = Waiting /\ t.check = FALSE
        /\ t.sda = slave[d].sda /\ t.sda_val = 0 /\ t.ignore = TRUE
    BY <1>3, <1>5 DEF SlaveTypes
  <1>7. OnOff(t)  BY <1>2, <1>6 DEF OnOff, Watching
  <1>8. StopHeld'
    <2>1. t.cb # "stop" /\ t.sda_val # 1  BY <1>6
    <2>2. QED  BY <1>1, <1>4, <1>5, <2>1, StopHeldKept
  <1>9. QED
    BY <1>1, <1>2, <1>4, <1>5, <1>6, <1>7, <1>8, OffStep DEF Holding, Waiting

-----------------------------------------------------------------------------
(* The callbacks that answer, and the clock released behind them.          *)

LEMMA Answering ==
    ASSUME Inv, NEW d \in Devices, slave[d].cb \in {"request", "data", "sent", "setup"}
    PROVE  /\ InBytes /\ ~Starting /\ OnByte(d, slave[d]) /\ Addressed(d)
           /\ SCL = 0 /\ pc \in {"data", "rise", "high"} /\ slave[d].scl = 0
           /\ Edges = Heard(slave[d]) /\ Edges = 2 * i - 1 /\ i \in 1..(ByteBits + 1)
           /\ slave[d].cb = "request" => slave[d].state = "ACK_ADDR"
           /\ slave[d].cb = "data" => slave[d].state = "MASTER_READ"
           /\ slave[d].cb = "sent" => slave[d].state = "MASTER_WRITE"
           /\ slave[d].cb = "setup" => slave[d].state \in {"ACK_WAIT_HIGH", "MASTER_READ"}
  <1>1. /\ slave[d] \in SlaveTypes /\ SlaveInv(d) /\ CallInv /\ PlaceInv  BY Parts
  <1>2. slave[d].scl = 0 /\ slave[d].state \in States
    BY <1>1 DEF SlaveInv, Holding, SlaveTypes
  <1>3. ~Starting /\ ~Gap /\ ~Mark /\ ~Off
    BY <1>1 DEF SlaveInv, OnStart, OnGap, OnMark, OnOff, Resting
  <1>4. InBytes /\ OnByte(d, slave[d])  BY <1>1, <1>3 DEF CallInv, SlaveInv
  <1>5. /\ slave[d].cb = "request" => slave[d].state = "ACK_ADDR"
        /\ slave[d].cb = "data" => slave[d].state = "MASTER_READ"
        /\ slave[d].cb = "sent" => slave[d].state = "MASTER_WRITE"
        /\ slave[d].cb = "setup" => slave[d].state \in {"ACK_WAIT_HIGH", "MASTER_READ"}
    BY <1>2, <1>4
    DEF OnByte, InAddress, InAck, InRead, InWrite, InWaiting, Resting, States
  <1>6. Addressed(d)
    BY <1>4, <1>5 DEF OnByte, InAddress, InAck, InRead, InWrite
  <1>7. SCL = 0
    <2>1. SCL # 1  BY <1>2, Wires
    <2>2. QED  BY <2>1, Wires
  <1>8. pc \in {"data", "rise", "high"}
    <2>1. SCL # 1  BY <1>7
    <2>2. pc \notin {"low", "end"}  BY <2>1, Clock
    <2>3. QED  BY <1>4, <2>2 DEF InBytes
  <1>9. slave[d].state # Waiting  BY <1>5 DEF Waiting
  <1>10. Edges = Heard(slave[d])  BY <1>4, <1>9 DEF OnByte, Keeps
  <1>11. Edges = 2 * i - 1  BY <1>7, <1>8 DEF Edges
  <1>12. i \in 1..(ByteBits + 1)  BY <1>1, <1>4, BusAssumption DEF PlaceInv, BusAssumption
  <1>13. QED  BY <1>2, <1>3, <1>4, <1>5, <1>6, <1>7, <1>8, <1>10, <1>11, <1>12

LEMMA AnswerStep ==
    ASSUME Inv, NEW d \in Devices, slave[d].cb \in {"request", "data", "sent"},
           NEW t, t = slave'[d], t \in SlaveTypes,
           slave' \in [Devices -> SlaveTypes], \A e \in Devices \ {d} : slave'[e] = slave[e],
           UNCHANGED master, t.scl = 0, t.cb = "setup",
           t.check <=> t.state = "MASTER_WRITE" /\ t.bitnum = 1 /\ t.scl_val = 0,
           Keeps(t), ~Watching(t),
           InAddress(d, slave[d])', InAck(d, slave[d])', InRead(d, slave[d])',
           InWrite(d, slave[d])', InWaiting(d, slave[d])', AnswerInv', ReadInv'
    PROVE  Inv'
  <1>1. UNCHANGED <<pc, op, j, i, ack, cur, buf, stopped, mscl, msda>>  BY DEF master
  <1>2. /\ InBytes /\ ~Starting /\ SCL = 0 /\ slave[d].scl = 0 /\ Addressed(d)
        /\ pc \in {"data", "rise", "high"}
    BY Answering
  <1>3. ~Gap /\ ~Mark /\ ~Off
    BY <1>2 DEF Gap, Mark, Off
  <1>4. SCL' = SCL
    <2>1. SCL' # 1  BY WiresNext
    <2>2. QED  BY <1>2, <2>1, WiresNext
  <1>5. /\ Starting' = Starting /\ InBytes' = InBytes /\ Gap' = Gap /\ Mark' = Mark
        /\ Off' = Off /\ Edges' = Edges
    BY <1>1, <1>4 DEF Starting, InBytes, Gap, Mark, Off, Edges
  <1>6. ASSUME NEW e \in Devices \ {d} PROVE SlaveInv(e)'
    <2>1. ~Addressed(e)  BY <1>2 DEF Addressed
    <2>2. SCL # 1  BY <1>2
    <2>3. QED  BY <1>2, <1>4, <2>1, <2>2, SameView
  <1>7. OnByte(d, slave[d])'
    <2>1. Heard(slave[d])' = Heard(t)  BY DEF Heard
    <2>2. Keeps(slave[d])'  BY <1>1, <1>4, <1>5, <2>1 DEF Keeps
    <2>3. ~Watching(slave[d])'  BY DEF Watching
    <2>4. QED  BY <2>2, <2>3 DEF OnByte
  <1>8. SlaveInv(d)'  BY <1>2, <1>3, <1>5, <1>7 DEF SlaveInv, Holding
  <1>9. MasterInv'
    <2>1. CallInv /\ PlaceInv /\ DriveInv  BY Parts
    <2>2. CallInv'  BY <1>1, <2>1 DEF CallInv, InBytes, Gap, Mark, Off
    <2>3. PlaceInv'  BY <1>1, <1>2, <1>5, <2>1 DEF PlaceInv, InBytes
    <2>4. DriveInv'  BY <1>1, <2>1 DEF DriveInv, Gap, Level, AddressByte, MsbFirst
    <2>5. Done'  BY <1>1, <1>2 DEF Done
    <2>6. QED  BY <2>2, <2>3, <2>4, <2>5 DEF MasterInv
  <1>10. StopHeld'  BY <1>3, <1>5 DEF StopHeld
  <1>11. QED  BY <1>6, <1>8, <1>9, <1>10 DEF Inv

\* The answers of a call so far, and one more.
LEMMA OneAnswer ==
    ASSUME AnswerInv, NEW a \in [value : Bits, ok : BOOLEAN], seen' = Append(seen, a)
    PROVE  /\ Len(seen) \in Nat /\ Len(seen') = Len(seen) + 1
           /\ seen'[Len(seen')] = a /\ seen'[Len(seen) + 1] = a
           /\ \A k \in 1..Len(seen) : seen'[k] = seen[k]
           /\ seen' \in Seq([value : Bits, ok : BOOLEAN])
  <1>1. PICK S : S = [value : Bits, ok : BOOLEAN]  OBVIOUS
  <1>2. seen \in Seq(S) /\ a \in S  BY <1>1 DEF AnswerInv
  <1>3. /\ Len(seen) \in Nat /\ Len(seen') = Len(seen) + 1
        /\ seen'[Len(seen) + 1] = a /\ \A k \in 1..Len(seen) : seen'[k] = seen[k]
        /\ seen' \in Seq(S)
    BY ONLY <1>2, seen' = Append(seen, a)
  <1>4. QED  BY <1>1, <1>3

LEMMA AckAddrReturnInv ==
    ASSUME Inv, NEW d \in Devices, NEW ok \in BOOLEAN, AckAddrReturn(d, ok)  PROVE Inv'
  <1>1. slave[d].cb = "request" /\ UNCHANGED master
    BY DEF AckAddrReturn
  <1>2. /\ InBytes /\ ~Starting /\ Addressed(d) /\ InAddress(d, slave[d])
        /\ slave[d].state = "ACK_ADDR" /\ pc \in {"data", "rise", "high"}
        /\ Edges = Heard(slave[d]) /\ Edges = 2 * i - 1 /\ slave[d].scl = 0
        /\ i \in 1..(ByteBits + 1)
    BY <1>1, Answering DEF OnByte
  <1>3. /\ slave \in [Devices -> SlaveTypes] /\ slave[d] \in SlaveTypes /\ SlaveInv(d)
        /\ ByteBits \in 2..8 /\ AnswerInv /\ ReadInv
    BY Parts
  <1>4. /\ j = 0 /\ seen = <<>> /\ slave[d].rw = (IF op.dir = "read" THEN 1 ELSE 0)
        /\ slave[d].check = FALSE /\ i = ByteBits + 1
    <2>1. Heard(slave[d]) = 2 * ByteBits + 1  BY <1>1, <1>2, <1>3 DEF Heard
    <2>2. i = ByteBits + 1
      <3>1. 2 * i - 1 = 2 * ByteBits + 1  BY <1>2, <2>1
      <3>2. i \in Int /\ ByteBits \in Int  BY <1>2, <1>3
      <3>3. QED  BY <3>1, <3>2
    <2>3. slave[d].check = FALSE  BY <1>2, <1>3 DEF SlaveInv, SlaveTypes
    <2>4. QED  BY <1>2, <2>2, <2>3 DEF InAddress
  <1>5. PICK a \in [value : Bits, ok : BOOLEAN] : a = [value |-> 0, ok |-> ok]
    <2>1. PICK v \in Bits : v = 0  BY ByteRange DEF Bits
    <2>2. [value |-> v, ok |-> ok] \in [value : Bits, ok : BOOLEAN]  OBVIOUS
    <2>3. QED  BY <2>1, <2>2
  <1>6. /\ Len(seen') = 1 /\ seen'[1] = a
        /\ seen' \in Seq([value : Bits, ok : BOOLEAN])
    <2>1. seen' = Append(seen, a)  BY <1>5 DEF AckAddrReturn
    <2>2. Len(seen) = 0  BY <1>4
    <2>3. QED  BY <1>3, <2>1, <2>2, OneAnswer
  <1>7. PICK t : t = slave'[d]  OBVIOUS
  <1>8. PICK n \in {Waiting, "MASTER_READ", "MASTER_WRITE"} :
           n = IF ~ok THEN Waiting
               ELSE IF slave[d].rw = 1 THEN "MASTER_READ" ELSE "MASTER_WRITE"
    OBVIOUS
  <1>9. PICK o \in 0..1 : o = IF ok THEN 0 ELSE 1  OBVIOUS
  <1>10. /\ slave' \in [Devices -> SlaveTypes]
         /\ \A e \in Devices \ {d} : slave'[e] = slave[e]
         /\ t \in SlaveTypes
         /\ t = [slave[d] EXCEPT !.ignore = FALSE, !.cb = "setup", !.sda = o, !.next = n,
                                 !.scl_val = 1, !.state = "ACK_WAIT_HIGH"]
    <2>1. PICK u \in States, z \in 0..1 : u = "ACK_WAIT_HIGH" /\ z = 1  BY DEF States
    <2>2. PICK c \in BOOLEAN : c = FALSE  OBVIOUS
    <2>3. slave' = [slave EXCEPT ![d].ignore = c, ![d].cb = "setup", ![d].sda = o,
                                 ![d].next = n, ![d].scl_val = z, ![d].state = u]
      BY <1>8, <1>9, <2>1, <2>2 DEF AckAddrReturn
    <2>4. PICK r : r = [slave[d] EXCEPT !.ignore = c, !.cb = "setup", !.sda = o,
                                        !.next = n, !.scl_val = z, !.state = u]
      OBVIOUS
    <2>5. r \in SlaveTypes  BY <1>3, <2>4 DEF SlaveTypes
    <2>6. slave' = [slave EXCEPT ![d] = r]  BY <1>3, <2>3, <2>4
    <2>7. QED  BY <1>3, <1>7, <2>1, <2>2, <2>4, <2>5, <2>6
  <1>11. /\ t.state = "ACK_WAIT_HIGH" /\ t.cb = "setup" /\ t.scl = 0 /\ t.check = FALSE
         /\ t.sda = o /\ t.next = n /\ t.scl_val = 1
    BY <1>2, <1>3, <1>4, <1>10 DEF SlaveTypes
  <1>12. UNCHANGED <<pc, op, j, i, ack, cur, buf>>  BY <1>1 DEF master
  <1>13. Keeps(t)
    <2>1. Heard(t) = 2 * ByteBits + 1 /\ Heard(slave[d]) = 2 * ByteBits + 1
      BY <1>1, <1>2, <1>3, <1>11 DEF Heard
    <2>2. QED  BY <1>2, <2>1 DEF Keeps
  <1>14. ~Watching(t)  BY <1>11 DEF Watching, Waiting
  <1>15. InAck(d, slave[d])'
    <2>1. slave'[d] = t  BY <1>7
    <2>2. Addressed(d)'  BY <1>2, <1>12 DEF Addressed
    <2>3. Answers' = 1
      <3>1. ByteBits + 1 # 1  BY <1>3
      <3>2. QED  BY <1>4, <1>12, <3>1 DEF Answers
    <2>4. seen'[1].ok <=> t.sda = 0  BY <1>5, <1>6, <1>9, <1>11
    <2>5. n = IF t.sda = 1 THEN Waiting
              ELSE IF op.dir = "read" THEN "MASTER_READ" ELSE "MASTER_WRITE"
      BY <1>4, <1>8, <1>9, <1>11
    <2>6. QED  BY <1>6, <1>11, <1>12, <2>1, <2>2, <2>3, <2>4, <2>5 DEF InAck
  <1>16. /\ InAddress(d, slave[d])' /\ InRead(d, slave[d])' /\ InWrite(d, slave[d])'
         /\ InWaiting(d, slave[d])'
    BY <1>7, <1>11 DEF InAddress, InRead, InWrite, InWaiting, Waiting
  <1>17. AnswerInv'
    <2>1. op.addr \in Devices  BY <1>2 DEF Addressed
    <2>2. /\ ack' \in 0..1 /\ (\A k \in 2..1 : seen'[k].ok) /\ (\A k \in 1..0 : seen'[k].ok)
          /\ ack' = 0
      BY <1>2, <1>3, <1>12 DEF AnswerInv
    <2>3. Len(seen') \in j'..(j' + 1)  BY <1>4, <1>6, <1>12
    <2>4. QED  BY <1>4, <1>6, <1>12, <2>1, <2>2, <2>3 DEF AnswerInv
  <1>18. ReadInv'
    <2>1. ~Receiving /\ ~Receiving'  BY <1>4, <1>12 DEF Receiving
    <2>2. Len(buf) = 0 /\ cur = 0  BY <1>2, <1>3, <2>1 DEF ReadInv
    <2>3. \A k \in 1..0 : buf'[k] = seen'[k + 1].value  OBVIOUS
    <2>4. QED  BY <1>3, <1>12, <2>1, <2>2, <2>3 DEF ReadInv
  <1>19. t.check <=> t.state = "MASTER_WRITE" /\ t.bitnum = 1 /\ t.scl_val = 0
    BY <1>11
  <1>20. QED
    BY <1>1, <1>7, <1>10, <1>11, <1>13, <1>14, <1>15, <1>16, <1>17, <1>18, <1>19, AnswerStep

LEMMA MasterRequiresDataReturnInv ==
    ASSUME Inv, NEW d \in Devices, NEW v \in Supplied, MasterRequiresDataReturn(d, v)
    PROVE  Inv'
  <1>1. slave[d].cb = "data" /\ UNCHANGED master
    BY DEF MasterRequiresDataReturn
  <1>2. /\ InBytes /\ ~Starting /\ Addressed(d) /\ InRead(d, slave[d])
        /\ slave[d].state = "MASTER_READ" /\ pc \in {"data", "rise", "high"}
        /\ Edges = Heard(slave[d]) /\ Edges = 2 * i - 1 /\ slave[d].scl = 0
        /\ i \in 1..(ByteBits + 1)
    BY <1>1, Answering DEF OnByte
  <1>3. /\ slave \in [Devices -> SlaveTypes] /\ slave[d] \in SlaveTypes /\ SlaveInv(d)
        /\ ByteBits \in 2..8 /\ AnswerInv /\ ReadInv /\ PlaceInv
    BY Parts
  <1>4. /\ op.dir = "read" /\ j >= 1 /\ slave[d].bitnum = 0 /\ slave[d].scl_val = 0
        /\ Heard(slave[d]) = 1 /\ i = 1 /\ Len(seen) = j /\ slave[d].check = FALSE
    <2>1. op.dir = "read" /\ j >= 1 /\ slave[d].bitnum = 0 /\ slave[d].scl_val = 0
      BY <1>1, <1>2 DEF InRead
    <2>2. Heard(slave[d]) = 1  BY <1>1, <1>2, <2>1 DEF Heard
    <2>3. i = 1
      <3>1. 2 * i - 1 = 1  BY <1>2, <2>2
      <3>2. i \in Int  BY <1>2, <1>3
      <3>3. QED  BY <3>1, <3>2
    <2>4. Len(seen) = j  BY <1>1, <1>2, <2>3 DEF InRead
    <2>5. QED  BY <1>2, <1>3, <2>1, <2>2, <2>3, <2>4 DEF SlaveInv, SlaveTypes
  <1>5. v \in Bits  BY BusAssumption DEF BusAssumption, Bits
  <1>6. PICK a \in [value : Bits, ok : BOOLEAN] : a = [value |-> v, ok |-> TRUE]
    BY <1>5
  <1>7. /\ Len(seen') = j + 1 /\ seen'[j + 1] = a
        /\ \A k \in 1..j : seen'[k] = seen[k]
        /\ seen' \in Seq([value : Bits, ok : BOOLEAN])
    <2>1. seen' = Append(seen, a)  BY <1>6 DEF MasterRequiresDataReturn
    <2>2. QED  BY <1>3, <1>4, <2>1, OneAnswer
  <1>8. PICK t : t = slave'[d]  OBVIOUS
  <1>9. PICK o \in 0..1 : o = MsbFirst(v, 1)
    <2>1. PICK k \in 0..(ByteBits - 1) : k = 0  BY <1>3
    <2>2. MsbFirst(v, k + 1) \in 0..1  BY <1>5, OneBit
    <2>3. QED  BY <2>1, <2>2
  <1>10. /\ slave' \in [Devices -> SlaveTypes]
         /\ \A e \in Devices \ {d} : slave'[e] = slave[e]
         /\ t \in SlaveTypes
         /\ t = [slave[d] EXCEPT !.data = v, !.sda = o, !.scl_val = 1, !.cb = "setup"]
    <2>1. PICK z \in 0..1 : z = 1  OBVIOUS
    <2>2. slave' = [slave EXCEPT ![d].data = v, ![d].sda = o, ![d].scl_val = z,
                                 ![d].cb = "setup"]
      BY <1>9, <2>1 DEF MasterRequiresDataReturn
    <2>3. PICK r : r = [slave[d] EXCEPT !.data = v, !.sda = o, !.scl_val = z, !.cb = "setup"]
      OBVIOUS
    <2>4. r \in SlaveTypes  BY <1>3, <1>5, <2>3 DEF SlaveTypes
    <2>5. slave' = [slave EXCEPT ![d] = r]  BY <1>3, <2>2, <2>3
    <2>6. QED  BY <1>3, <1>8, <2>1, <2>3, <2>4, <2>5
  <1>11. /\ t.state = "MASTER_READ" /\ t.cb = "setup" /\ t.scl = 0 /\ t.check = FALSE
         /\ t.sda = o /\ t.data = v /\ t.scl_val = 1 /\ t.bitnum = 0
    BY <1>2, <1>3, <1>4, <1>10 DEF SlaveTypes
  <1>12. UNCHANGED <<pc, op, j, i, ack, cur, buf>>  BY <1>1 DEF master
  <1>13. Heard(t) = 1  BY <1>11 DEF Heard
  <1>14. Keeps(t)  BY <1>2, <1>4, <1>13 DEF Keeps
  <1>15. ~Watching(t)  BY <1>11 DEF Watching, Waiting
  <1>16. InRead(d, slave[d])'
    <2>1. slave'[d] = t  BY <1>8
    <2>2. Addressed(d)'  BY <1>2, <1>12 DEF Addressed
    <2>3. Heard(slave[d])' = 1  BY <1>13, <2>1 DEF Heard
    <2>4. MsbFirst(v, 1)' = MsbFirst(v, 1) /\ MsbFirst(slave[d].data, slave[d].bitnum + slave[d].scl_val)' = MsbFirst(v, 1)
      BY <1>11, <2>1 DEF MsbFirst
    <2>5. 0 + 1 \in 1..ByteBits /\ 1 # 2 * ByteBits + 1  BY <1>3
    <2>6. seen'[j' + 1].value = v  BY <1>6, <1>7, <1>12
    <2>7. Len(seen') = j' + 1  BY <1>7, <1>12
    <2>8. pc' # "end" /\ op'.dir = "read" /\ j' >= 1  BY <1>2, <1>4, <1>12
    <2>9. QED
      BY <1>9, <1>11, <2>1, <2>2, <2>3, <2>4, <2>5, <2>6, <2>7, <2>8 DEF InRead
  <1>17. /\ InAddress(d, slave[d])' /\ InAck(d, slave[d])' /\ InWrite(d, slave[d])'
         /\ InWaiting(d, slave[d])'
    BY <1>8, <1>11 DEF InAddress, InAck, InWrite, InWaiting, Waiting
  <1>18. AnswerInv'
    <2>1. op.addr \in Devices  BY <1>2 DEF Addressed
    <2>2. /\ ack' \in 0..1 /\ ack' = 0 /\ j \in Nat
          /\ \A k \in 2..j : seen[k].ok
          /\ \A k \in 1..j : seen[k].ok
      BY <1>2, <1>3, <1>4, <1>12 DEF AnswerInv, PlaceInv
    <2>3. \A k \in 2..Len(seen') : seen'[k].ok
      <3>1. TAKE k \in 2..Len(seen')
      <3>2. CASE k = j + 1  BY <1>6, <1>7, <3>2
      <3>3. CASE k # j + 1  BY <1>7, <2>2, <3>3
      <3>4. QED  BY <3>2, <3>3
    <2>4. \A k \in 1..j' : seen'[k].ok  BY <1>7, <1>12, <2>2
    <2>5. Len(seen') \in j'..(j' + 1)  BY <1>7, <1>12, <2>2
    <2>6. QED  BY <1>7, <1>12, <2>1, <2>2, <2>3, <2>4, <2>5 DEF AnswerInv
  <1>19. ReadInv'
    <2>1. Receiving /\ Receiving' /\ Len(buf) = j - 1 /\ cur = 0 /\ j \in Nat
      BY <1>2, <1>3, <1>4, <1>12 DEF Receiving, ReadInv, PlaceInv
    <2>2. \A k \in 1..Len(buf) : buf[k] = seen'[k + 1].value
      <3>1. TAKE k \in 1..Len(buf)
      <3>2. k + 1 \in 1..j  BY <2>1
      <3>3. buf[k] = seen[k + 1].value  BY <1>2, <1>3 DEF ReadInv
      <3>4. QED  BY <1>7, <3>2, <3>3
    <2>3. i' = 1 /\ ~(i' > 1)  BY <1>4, <1>12
    <2>4. QED  BY <1>3, <1>12, <2>1, <2>2, <2>3 DEF ReadInv
  <1>20. t.check <=> t.state = "MASTER_WRITE" /\ t.bitnum = 1 /\ t.scl_val = 0
    BY <1>11
  <1>21. QED
    BY <1>1, <1>8, <1>10, <1>11, <1>14, <1>15, <1>16, <1>17, <1>18, <1>19, <1>20, AnswerStep

LEMMA MasterSentDataReturnInv ==
    ASSUME Inv, NEW d \in Devices, NEW ok \in BOOLEAN, MasterSentDataReturn(d, ok)
    PROVE  Inv'
  <1>1. slave[d].cb = "sent" /\ UNCHANGED master
    BY DEF MasterSentDataReturn
  <1>2. /\ InBytes /\ ~Starting /\ Addressed(d) /\ InWrite(d, slave[d])
        /\ slave[d].state = "MASTER_WRITE" /\ pc \in {"data", "rise", "high"}
        /\ Edges = Heard(slave[d]) /\ Edges = 2 * i - 1 /\ slave[d].scl = 0
        /\ i \in 1..(ByteBits + 1)
    BY <1>1, Answering DEF OnByte
  <1>3. /\ slave \in [Devices -> SlaveTypes] /\ slave[d] \in SlaveTypes /\ SlaveInv(d)
        /\ ByteBits \in 2..8 /\ AnswerInv /\ ReadInv /\ PlaceInv
    BY Parts
  <1>4. /\ op.dir = "write" /\ j >= 1 /\ slave[d].bitnum = ByteBits /\ slave[d].scl_val = 0
        /\ Heard(slave[d]) = 2 * ByteBits + 1 /\ i = ByteBits + 1 /\ Len(seen) = j
        /\ slave[d].check = FALSE /\ slave[d].next = "MASTER_WRITE" /\ j \in Nat
    <2>1. /\ op.dir = "write" /\ j >= 1 /\ slave[d].bitnum = ByteBits /\ slave[d].scl_val = 0
          /\ Len(seen) = j /\ slave[d].next = "MASTER_WRITE"
      BY <1>1, <1>2 DEF InWrite
    <2>2. Heard(slave[d]) = 2 * ByteBits + 1  BY <1>1, <1>2, <1>3, <2>1 DEF Heard
    <2>3. i = ByteBits + 1
      <3>1. 2 * i - 1 = 2 * ByteBits + 1  BY <1>2, <2>2
      <3>2. i \in Int /\ ByteBits \in Int  BY <1>2, <1>3
      <3>3. QED  BY <3>1, <3>2
    <2>4. ByteBits # 1 /\ j \in Nat  BY <1>3 DEF PlaceInv
    <2>5. QED  BY <1>3, <2>1, <2>2, <2>3, <2>4 DEF SlaveInv, SlaveTypes
  <1>5. PICK a \in [value : Bits, ok : BOOLEAN] : a = [value |-> slave[d].data, ok |-> ok]
    BY <1>3 DEF SlaveTypes
  <1>6. /\ Len(seen') = j + 1 /\ seen'[j + 1] = a
        /\ \A k \in 1..j : seen'[k] = seen[k]
        /\ seen' \in Seq([value : Bits, ok : BOOLEAN])
    <2>1. seen' = Append(seen, a)  BY <1>5 DEF MasterSentDataReturn
    <2>2. QED  BY <1>3, <1>4, <2>1, OneAnswer
  <1>7. PICK t : t = slave'[d]  OBVIOUS
  <1>8. PICK o \in 0..1 : o = IF ok THEN 0 ELSE 1  OBVIOUS
  <1>9. /\ slave' \in [Devices -> SlaveTypes]
        /\ \A e \in Devices \ {d} : slave'[e] = slave[e]
        /\ t \in SlaveTypes
        /\ t = [slave[d] EXCEPT !.sda = o, !.cb = "setup", !.scl_val = 1,
                                !.state = "ACK_WAIT_HIGH"]
    <2>1. PICK u \in States, z \in 0..1 : u = "ACK_WAIT_HIGH" /\ z = 1  BY DEF States
    <2>2. slave' = [slave EXCEPT ![d].sda = o, ![d].cb = "setup", ![d].scl_val = z,
                                 ![d].state = u]
      BY <1>8, <2>1 DEF MasterSentDataReturn
    <2>3. PICK r : r = [slave[d] EXCEPT !.sda = o, !.cb = "setup", !.scl_val = z, !.state = u]
      OBVIOUS
    <2>4. r \in SlaveTypes  BY <1>3, <2>3 DEF SlaveTypes
    <2>5. slave' = [slave EXCEPT ![d] = r]  BY <1>3, <2>2, <2>3
    <2>6. QED  BY <1>3, <1>7, <2>1, <2>3, <2>4, <2>5
  <1>10. /\ t.state = "ACK_WAIT_HIGH" /\ t.cb = "setup" /\ t.scl = 0 /\ t.check = FALSE
         /\ t.sda = o /\ t.next = "MASTER_WRITE" /\ t.scl_val = 1
    BY <1>2, <1>3, <1>4, <1>9 DEF SlaveTypes
  <1>11. UNCHANGED <<pc, op, j, i, ack, cur, buf>>  BY <1>1 DEF master
  <1>12. Keeps(t)
    <2>1. Heard(t) = 2 * ByteBits + 1  BY <1>10 DEF Heard
    <2>2. QED  BY <1>2, <1>4, <2>1 DEF Keeps
  <1>13. ~Watching(t)  BY <1>10 DEF Watching, Waiting
  <1>14. InAck(d, slave[d])'
    <2>1. slave'[d] = t  BY <1>7
    <2>2. Addressed(d)'  BY <1>2, <1>11 DEF Addressed
    <2>3. Answers' = j + 1
      <3>1. ByteBits + 1 # 1  BY <1>3
      <3>2. QED  BY <1>4, <1>11, <3>1 DEF Answers
    <2>4. seen'[j + 1].ok <=> t.sda = 0  BY <1>5, <1>6, <1>8, <1>10
    <2>5. Len(seen') # 1 /\ Len(seen') >= 1 /\ op'.dir # "read"  BY <1>4, <1>6, <1>11
    <2>6. QED  BY <1>4, <1>6, <1>10, <1>11, <2>1, <2>2, <2>3, <2>4, <2>5 DEF InAck
  <1>15. /\ InAddress(d, slave[d])' /\ InRead(d, slave[d])' /\ InWrite(d, slave[d])'
         /\ InWaiting(d, slave[d])'
    BY <1>7, <1>10 DEF InAddress, InRead, InWrite, InWaiting, Waiting
  <1>16. AnswerInv'
    <2>1. op.addr \in Devices /\ op'.dir # "read"  BY <1>2, <1>4, <1>11 DEF Addressed
    <2>2. /\ ack' \in 0..1 /\ ack' = 0 /\ \A k \in 1..j : seen[k].ok
      BY <1>2, <1>3, <1>11 DEF AnswerInv
    <2>3. \A k \in 1..j' : seen'[k].ok  BY <1>6, <1>11, <2>2
    <2>4. Len(seen') \in j'..(j' + 1)  BY <1>4, <1>6, <1>11
    <2>5. QED  BY <1>6, <1>11, <2>1, <2>2, <2>3, <2>4 DEF AnswerInv
  <1>17. ReadInv'
    <2>1. ~Receiving /\ ~Receiving'  BY <1>4, <1>11 DEF Receiving
    <2>2. Len(buf) = 0 /\ cur = 0  BY <1>2, <1>3, <2>1 DEF ReadInv
    <2>3. \A k \in 1..0 : buf'[k] = seen'[k + 1].value  OBVIOUS
    <2>4. QED  BY <1>3, <1>11, <2>1, <2>2, <2>3 DEF ReadInv
  <1>18. t.check <=> t.state = "MASTER_WRITE" /\ t.bitnum = 1 /\ t.scl_val = 0
    BY <1>10
  <1>19. QED
    BY <1>1, <1>7, <1>9, <1>10, <1>12, <1>13, <1>14, <1>15, <1>16, <1>17, <1>18, AnswerStep

-----------------------------------------------------------------------------
(* SCL in a pulse of a byte: it is low, and may rise.                      *)

LEMMA Rises ==
    ASSUME Inv, SCL = 0, pc \in {"data", "rise", "high"}, pc' \in {"data", "rise", "high"},
           UNCHANGED <<op, j, i, seen>>, NEW e \in Devices, NEW u \in SlaveTypes,
           u = slave'[e], OnByte(e, u),
           SCL' = 1 => pc' = "high" /\ u.cb = "none" /\ (Watching(u) => u.sda_val = 1 - SDA'),
           pc' = "high" /\ u.state # Waiting => Edges = Heard(u)
    PROVE  OnByte(e, slave[e])'
  <1>1. ByteBits \in 2..8 /\ PlaceInv  BY Parts
  <1>2. i \in 1..(ByteBits + 1)
    <2>1. InBytes  BY DEF InBytes
    <2>2. QED  BY <1>1, <2>1 DEF PlaceInv
  <1>3. Edges = 2 * i - 1 /\ Edges # 0 /\ SCL # 1  BY <1>1, <1>2 DEF Edges
  <1>4. Heard(slave[e])' = Heard(u)  BY DEF Heard
  <1>5. SCL' = 0 => Edges' = 2 * i - 1
    BY DEF Edges
  <1>6. SCL' = 1 => Edges' = IF i = ByteBits + 1 THEN 0 ELSE 2 * i
    BY DEF Edges
  <1>7. Answers' = Answers /\ AddressByte' = AddressByte /\ (Addressed(e)' <=> Addressed(e))
    BY DEF Answers, AddressByte, Addressed
  <1>8. u.state # Waiting => Keeps(slave[e])'
    <2>1. CASE SCL' = 0
      <3>1. pc' # "high" => Edges' = Heard(u) \/ (u.cb = "none" /\ Edges' = Follow(Heard(u)))
                            \/ u.state = Waiting
        BY <1>3, <1>5, <2>1 DEF OnByte, Keeps
      <3>2. QED  BY <1>3, <1>4, <1>5, <2>1, <3>1 DEF Keeps, Follow
    <2>2. CASE SCL' = 1
      <3>1. u.state # Waiting => Heard(u) = 2 * i - 1 /\ u.cb = "none"  BY <1>3, <2>2
      <3>2. 2 * i - 1 = 2 * ByteBits + 1 <=> i = ByteBits + 1  BY <1>1, <1>2
      <3>3. 2 * i - 1 + 1 = 2 * i  BY <1>2
      <3>4. u.state # Waiting => Edges' = Follow(Heard(u))
        BY <1>6, <2>2, <3>1, <3>2, <3>3 DEF Follow
      <3>5. QED  BY <1>4, <2>2, <3>1, <3>4 DEF Keeps, Follow
    <2>3. QED  BY <2>1, <2>2, WiresNext
  <1>9. Watching(slave[e])' /\ SCL' = 1 => slave'[e].sda_val = 1 - SDA'
    BY DEF Watching
  <1>10. InAddress(e, slave[e])'
    <2>1. u.state = "READING_ADDR" => Edges' # 0
      <3>1. SUFFICES ASSUME u.state = "READING_ADDR", Edges' = 0 PROVE FALSE  OBVIOUS
      <3>2. SCL' = 1 /\ i = ByteBits + 1
        <4>1. 2 * i - 1 # 0 /\ 2 * i # 0  BY <1>1, <1>2
        <4>2. QED  BY <1>5, <1>6, <3>1, <4>1, WiresNext
      <3>3. Heard(u) = 2 * i - 1  BY <1>3, <3>1, <3>2 DEF Waiting
      <3>4. Heard(u) = 2 * u.bitnum + u.scl_val /\ u.bitnum < ByteBits
        BY <3>1 DEF OnByte, InAddress, Resting, Heard, SlaveTypes
      <3>5. u.bitnum \in 0..ByteBits /\ u.scl_val \in 0..1  BY DEF SlaveTypes
      <3>6. 2 * i - 1 = 2 * ByteBits + 1  BY <1>1, <3>2
      <3>7. QED  BY <1>1, <3>3, <3>4, <3>5, <3>6
    <2>2. QED  BY <1>7, <2>1 DEF OnByte, InAddress, Resting, Top
  <1>11. InAck(e, slave[e])'
    BY <1>7 DEF OnByte, InAck
  <1>12. InRead(e, slave[e])'
    <2>1. Heard(u) = 0 /\ u.state = "MASTER_READ" => pc' # "high"
      BY <1>3 DEF Waiting
    <2>2. QED  BY <1>4, <1>7, <2>1 DEF OnByte, InRead, MsbFirst
  <1>13. InWrite(e, slave[e])'
    BY <1>7 DEF OnByte, InWrite, Top
  <1>14. InWaiting(e, slave[e])'
    BY <1>3, <1>7 DEF OnByte, InWaiting, Resting
  <1>15. QED  BY <1>8, <1>9, <1>10, <1>11, <1>12, <1>13, <1>14 DEF OnByte

LEMMA ReleaseInv ==
    ASSUME Inv, NEW d \in Devices, Release(d)  PROVE Inv'
  <1>1. slave[d].cb = "setup" /\ Quiet /\ UNCHANGED <<master, seen>>
    BY DEF Release
  <1>2. /\ InBytes /\ ~Starting /\ OnByte(d, slave[d]) /\ Addressed(d) /\ SCL = 0
        /\ slave[d].state \in {"ACK_WAIT_HIGH", "MASTER_READ"}
        /\ pc \in {"data", "rise", "high"} /\ Edges = Heard(slave[d])
    BY <1>1, Answering
  <1>3. /\ slave \in [Devices -> SlaveTypes] /\ slave[d] \in SlaveTypes /\ SlaveInv(d)
        /\ DriveInv
    BY Parts
  <1>4. PICK t : t = slave'[d]  OBVIOUS
  <1>5. /\ slave' \in [Devices -> SlaveTypes]
        /\ \A e \in Devices \ {d} : slave'[e] = slave[e]
        /\ t \in SlaveTypes /\ t = [slave[d] EXCEPT !.scl = 1, !.cb = "none"]
    <2>1. PICK z \in 0..1 : z = 1  OBVIOUS
    <2>2. slave' = [slave EXCEPT ![d].scl = z, ![d].cb = "none"]
      BY <2>1 DEF Release
    <2>3. QED  BY <1>3, <1>4, <2>1, <2>2 DEF SlaveTypes
  <1>6. /\ t.cb = "none" /\ t.scl = 1 /\ t.state = slave[d].state
        /\ t.check = slave[d].check /\ t.bitnum = slave[d].bitnum
        /\ t.scl_val = slave[d].scl_val /\ t.sda = slave[d].sda /\ t.next = slave[d].next
        /\ t.ignore = slave[d].ignore /\ t.data = slave[d].data /\ t.rw = slave[d].rw
    BY <1>3, <1>5 DEF SlaveTypes
  <1>7. Heard(t) = Heard(slave[d])
    BY <1>1, <1>2, <1>6 DEF Heard
  <1>8. ~Watching(t)
    BY <1>2, <1>3, <1>6 DEF Watching, Waiting, SlaveInv
  <1>9. OnByte(d, t)
    <2>1. InRead(d, t)
      <3>1. slave[d].state = "MASTER_READ" => Heard(slave[d]) = 1 /\ slave[d].bitnum = 0
        BY <1>1, <1>2 DEF OnByte, InRead, Heard
      <3>2. QED  BY <1>1, <1>2, <1>6, <1>7, <3>1 DEF OnByte, InRead
    <2>2. InAck(d, t)
      BY <1>1, <1>2, <1>6 DEF OnByte, InAck
    <2>3. InAddress(d, t) /\ InWrite(d, t) /\ InWaiting(d, t)
      BY <1>2, <1>6 DEF InAddress, InWrite, InWaiting, Waiting
    <2>4. QED  BY <1>2, <1>7, <1>8, <2>1, <2>2, <2>3 DEF OnByte, Keeps
  <1>10. UNCHANGED <<pc, op, j, i, stopped, mscl, msda>>  BY <1>1 DEF master
  <1>11. SDA' = SDA
    <2>1. \A e \in Devices : slave'[e].sda = slave[e].sda  BY <1>4, <1>5, <1>6
    <2>2. QED  BY <1>10, <2>1, Wires, WiresNext
  <1>12. SCL' = 1 => pc' = "high" /\ \A e \in Devices : slave'[e].scl = 1
    BY <1>2, <1>3, <1>10, WiresNext DEF DriveInv
  <1>13. ~Starting' /\ InBytes' /\ ~Gap' /\ ~Mark' /\ ~Off'
    BY <1>2, <1>10 DEF Starting, InBytes, Gap, Mark, Off
  <1>14. ASSUME NEW e \in Devices PROVE SlaveInv(e)'
    <2>1. CASE e = d
      <3>1. OnByte(d, slave[d])'
        BY <1>1, <1>2, <1>4, <1>5, <1>6, <1>7, <1>8, <1>9, <1>10, <1>12, Rises
      <3>2. QED  BY <1>3, <1>4, <1>6, <1>13, <2>1, <3>1 DEF SlaveInv, Holding
    <2>2. CASE e # d
      <3>1. /\ slave'[e] = slave[e] /\ slave[e] \in SlaveTypes /\ SlaveInv(e)
            /\ OnByte(e, slave[e])
        BY <1>2, <1>5, <2>2, Parts DEF SlaveInv
      <3>2. slave[e].state # Waiting => Edges = Heard(slave[e])
        BY <1>1, <1>2, Settled
      <3>3. SCL' = 1 => slave[e].cb = "none"
        <4>1. slave[e].cb # "stop_seen" /\ slave[e].cb # "stop"
          BY <1>10, <1>13, StopCallback DEF Off
        <4>2. SCL' = 1 => slave[e].scl = 1  BY <1>12, <3>1
        <4>3. QED  BY <3>1, <4>1, <4>2 DEF SlaveInv, Holding, SlaveTypes
      <3>4. slave[e].cb = "none" /\ Watching(slave[e]) => slave[e].sda_val = 1 - SDA
        BY <1>1, Settled
      <3>5. OnByte(e, slave[e])'
        BY <1>1, <1>2, <1>10, <1>11, <1>12, <3>1, <3>2, <3>3, <3>4, Rises
      <3>6. QED  BY <1>13, <3>1, <3>5 DEF SlaveInv
    <2>3. QED  BY <2>1, <2>2
  <1>15. MasterInv'  BY <1>1, MasterKept DEF Inv
  <1>16. QED  BY <1>5, <1>13, <1>14, <1>15 DEF Inv, StopHeld

-----------------------------------------------------------------------------
(* The master in a pulse.                                                  *)

\* What a step of the master has to show.
LEMMA MasterMoves ==
    ASSUME Inv, slave' = slave, ~Off', MasterInv',
           \A e \in Devices : /\ Starting' => OnStart(slave[e])'
                              /\ InBytes' /\ ~Starting' => OnByte(e, slave[e])'
                              /\ Gap' => OnGap(slave[e])'
                              /\ Mark' => OnMark(slave[e])'
    PROVE  Inv'
  <1>1. \A e \in Devices : SlaveInv(e)'
    BY Parts DEF SlaveInv
  <1>2. slave' \in [Devices -> SlaveTypes]  BY Parts
  <1>3. QED  BY <1>1, <1>2 DEF Inv, StopHeld

LEMMA PulseMaster ==
    ASSUME Inv, pc \in {"low", "data", "rise", "high"}, pc' \in {"data", "rise", "high"},
           UNCHANGED <<op, j, i, ack, cur, buf, stopped, seen>>, DriveInv'
    PROVE  MasterInv' /\ InBytes' /\ ~Starting' /\ ~Gap' /\ ~Mark' /\ ~Off'
  <1>1. CallInv /\ PlaceInv /\ AnswerInv /\ ReadInv  BY Parts
  <1>2. InBytes /\ InBytes' /\ ~Starting' /\ ~Gap' /\ ~Mark' /\ ~Off'
    BY DEF InBytes, Starting, Gap, Mark, Off
  <1>3. CallInv'  BY <1>1, <1>2 DEF CallInv
  <1>4. PlaceInv'  BY <1>1, <1>2 DEF PlaceInv
  <1>5. AnswerInv'  BY <1>1, <1>2 DEF AnswerInv
  <1>6. ReadInv'  BY <1>1, <1>2 DEF ReadInv, Receiving, Top
  <1>7. Done'  BY DEF Done
  <1>8. QED  BY <1>2, <1>3, <1>4, <1>5, <1>6, <1>7 DEF MasterInv

LEMMA PulseRiseInv ==
    ASSUME Inv, PulseRise  PROVE Inv'
  <1>1. /\ pc = "rise" /\ Quiet /\ mscl' = 1 /\ pc' = "high" /\ slave' = slave
        /\ UNCHANGED <<op, j, i, ack, cur, buf, stopped, msda, seen>>
    BY DEF PulseRise, Slaves
  <1>2. DriveInv /\ slave \in [Devices -> SlaveTypes] /\ \A e \in Devices : SlaveInv(e)
    BY Parts
  <1>3. InBytes /\ ~Starting /\ SCL = 0  BY <1>1, Clock DEF InBytes, Starting
  <1>4. DriveInv'
    BY <1>1, <1>2 DEF DriveInv, Gap, Level, AddressByte, MsbFirst
  <1>5. MasterInv' /\ InBytes' /\ ~Starting' /\ ~Gap' /\ ~Mark' /\ ~Off'
    BY <1>1, <1>4, PulseMaster
  <1>6. SDA' = SDA  BY <1>1, Wires, WiresNext
  <1>7. ASSUME NEW e \in Devices PROVE OnByte(e, slave[e])'
    <2>1. OnByte(e, slave[e]) /\ slave[e] \in SlaveTypes /\ SlaveInv(e)
      BY <1>2, <1>3 DEF SlaveInv
    <2>2. slave[e].state # Waiting => Edges = Heard(slave[e])  BY <1>1, <1>3, Settled
    <2>3. SCL' = 1 => slave[e].cb = "none"
      <3>1. slave[e].cb # "stop_seen" /\ slave[e].cb # "stop"
        BY <1>1, StopCallback DEF Off
      <3>2. SCL' = 1 => slave[e].scl = 1  BY <1>1, WiresNext
      <3>3. QED  BY <2>1, <3>1, <3>2 DEF SlaveInv, Holding, SlaveTypes
    <2>4. slave[e].cb = "none" /\ Watching(slave[e]) => slave[e].sda_val = 1 - SDA
      BY <1>1, Settled
    <2>5. QED  BY <1>1, <1>3, <1>6, <2>1, <2>2, <2>3, <2>4, Rises
  <1>8. QED  BY <1>1, <1>5, <1>7, MasterMoves

\* The bit the master puts on SDA.
LEMMA LevelBit ==
    ASSUME CallInv, PlaceInv, InBytes
    PROVE  PulseBit = Level(j, i) /\ PulseBit \in 0..1
  <1>1. ByteBits \in 2..8 /\ i \in 1..(ByteBits + 1) /\ j \in 0..MaxLen /\ MaxLen \in Nat
    BY BusAssumption DEF PlaceInv, BusAssumption
  <1>2. op.dir \in {"read", "write"} /\ j <= Calls!Length(op)  BY DEF CallInv, PlaceInv
  <1>3. CASE i > ByteBits
    <2>1. ~(i <= ByteBits)  BY <1>1, <1>3
    <2>2. QED  BY <2>1 DEF PulseBit, Level, AckBit, Receiving
  <1>4. CASE i <= ByteBits
    <2>1. PICK k \in 0..(ByteBits - 1) : i = k + 1
      <3>1. i - 1 \in 0..(ByteBits - 1) /\ i = (i - 1) + 1  BY <1>1, <1>4
      <3>2. QED  BY <3>1
    <2>2. CASE j = 0
      <3>1. MsbFirst(AddressByte, i) \in 0..1  BY <1>2, <2>1, AddressFacts, OneBit
      <3>2. DataBit = MsbFirst(AddressByte, i)
        BY <2>2 DEF DataBit, Receiving
      <3>3. QED  BY <1>4, <2>2, <3>1, <3>2 DEF PulseBit, Level
    <2>3. CASE j # 0 /\ op.dir = "write"
      <3>1. op.bytes[j] \in Bits
        <4>1. op.bytes \in Seq(Bits) /\ j \in 1..Len(op.bytes)
          BY <1>1, <1>2, <2>3, CallFacts
        <4>2. QED  BY <4>1
      <3>2. MsbFirst(op.bytes[j], i) \in 0..1  BY <2>1, <3>1, OneBit
      <3>3. j > 0 /\ ~Receiving  BY <1>1, <2>3 DEF Receiving
      <3>4. DataBit = MsbFirst(op.bytes[j], i)
        BY <2>3, <3>3 DEF DataBit
      <3>5. QED  BY <1>4, <2>3, <3>2, <3>4 DEF PulseBit, Level
    <2>4. CASE j # 0 /\ op.dir = "read"
      <3>1. Receiving /\ j > 0  BY <1>1, <2>4 DEF Receiving
      <3>2. DataBit = 1  BY <2>4, <3>1 DEF DataBit
      <3>3. QED  BY <1>4, <2>4, <3>2 DEF PulseBit, Level
    <2>5. QED  BY <1>2, <2>2, <2>3, <2>4
  <1>5. QED  BY <1>1, <1>3, <1>4

LEMMA PulseDataInv ==
    ASSUME Inv, PulseData  PROVE Inv'
  <1>1. /\ pc = "data" /\ msda' = PulseBit /\ pc' = "rise" /\ slave' = slave
        /\ UNCHANGED <<op, j, i, ack, cur, buf, stopped, mscl, seen>>
    BY DEF PulseData, Slaves
  <1>2. /\ DriveInv /\ slave \in [Devices -> SlaveTypes] /\ \A e \in Devices : SlaveInv(e)
        /\ CallInv /\ PlaceInv
    BY Parts
  <1>3. InBytes /\ ~Starting /\ SCL = 0  BY <1>1, Clock DEF InBytes, Starting
  <1>4. DriveInv'
    <2>1. PulseBit = Level(j, i) /\ PulseBit \in 0..1  BY <1>2, <1>3, LevelBit
    <2>2. Level(j, i)' = Level(j, i)  BY <1>1 DEF Level, AddressByte, MsbFirst
    <2>3. mscl = 0  BY <1>1, <1>2 DEF DriveInv
    <2>4. QED  BY <1>1, <2>1, <2>2, <2>3 DEF DriveInv, Gap
  <1>5. MasterInv' /\ InBytes' /\ ~Starting' /\ ~Gap' /\ ~Mark' /\ ~Off'
    BY <1>1, <1>4, PulseMaster
  <1>6. SCL' # 1
    <2>1. mscl = 0  BY <1>1, <1>2 DEF DriveInv
    <2>2. QED  BY <1>1, <2>1, WiresNext
  <1>7. ASSUME NEW e \in Devices PROVE OnByte(e, slave[e])'
    <2>1. OnByte(e, slave[e]) /\ slave[e] \in SlaveTypes
      BY <1>2, <1>3 DEF SlaveInv
    <2>2. QED  BY <1>1, <1>3, <1>6, <2>1, Rises
  <1>8. QED  BY <1>1, <1>5, <1>7, MasterMoves

LEMMA PulseLowInv ==
    ASSUME Inv, PulseLow  PROVE Inv'
  <1>1. /\ pc = "low" /\ Quiet /\ mscl' = 0 /\ pc' = "data" /\ slave' = slave
        /\ UNCHANGED <<op, j, i, ack, cur, buf, stopped, msda, seen>>
    BY DEF PulseLow, Slaves
  <1>2. /\ DriveInv /\ slave \in [Devices -> SlaveTypes] /\ \A e \in Devices : SlaveInv(e)
        /\ CallInv /\ PlaceInv /\ ByteBits \in 2..8
    BY Parts
  <1>3. InBytes /\ SCL = 1 /\ i \in 1..(ByteBits + 1)
    <2>1. InBytes  BY <1>1 DEF InBytes
    <2>2. QED  BY <1>1, <1>2, <2>1, Clock DEF PlaceInv
  <1>4. DriveInv'
    BY <1>1, <1>2 DEF DriveInv, Gap
  <1>5. MasterInv' /\ InBytes' /\ ~Starting' /\ ~Gap' /\ ~Mark' /\ ~Off'
    BY <1>1, <1>4, PulseMaster
  <1>6. SCL' # 1  BY <1>1, WiresNext
  <1>7. Edges' = 2 * i - 1  BY <1>1 DEF Edges
  <1>8. ASSUME NEW e \in Devices PROVE OnByte(e, slave[e])'
    <2>1. /\ slave[e] \in SlaveTypes /\ SlaveInv(e) /\ slave[e].cb = "none"
          /\ Watching(slave[e]) => slave[e].sda_val = 1 - SDA
      BY <1>1, <1>2, <1>3, Settled
    <2>2. CASE Starting
      <3>1. OnStart(slave[e])  BY <2>1, <2>2 DEF SlaveInv
      <3>2. SDA = 0  BY <2>2, DataLine
      <3>3. ~Watching(slave[e])  BY <2>1, <3>1, <3>2 DEF OnStart
      <3>4. /\ slave[e].state = "READING_ADDR" /\ slave[e].bitnum = 0
            /\ slave[e].scl_val = 0 /\ slave[e].data = 0 /\ Resting(slave[e])
        BY <3>1, <3>3 DEF OnStart
      <3>5. i = 1 /\ j = 0 /\ seen = <<>>  BY <1>2, <2>2 DEF PlaceInv, Starting
      <3>6. Keeps(slave[e])'
        <4>1. Edges' = 1  BY <1>7, <3>5
        <4>2. Heard(slave[e])' = 0  BY <1>1, <3>4 DEF Heard, Resting
        <4>3. Follow(0) = 1  BY <1>2 DEF Follow
        <4>4. QED  BY <1>1, <2>1, <4>1, <4>2, <4>3 DEF Keeps, Follow
      <3>7. InAddress(e, slave[e])'
        <4>1. AddressByte \in Bits  BY <1>2, <1>3, AddressFacts DEF CallInv
        <4>2. Top(AddressByte, 0) = 0  BY <4>1, NoBit
        <4>3. Top(AddressByte, 0)' = Top(AddressByte, 0)  BY <1>1 DEF Top, AddressByte
        <4>4. 0 < ByteBits /\ Edges' # 0  BY <1>2, <1>7, <3>5
        <4>5. Resting(slave[e])'  BY <1>1, <3>4 DEF Resting
        <4>6. (Top(AddressByte, slave[e].bitnum))' = 0
          BY <1>1, <3>4, <4>2, <4>3 DEF Top, AddressByte
        <4>7. QED  BY <1>1, <3>4, <3>5, <4>4, <4>5, <4>6 DEF InAddress
      <3>8. QED
        BY <1>1, <1>6, <3>4, <3>6, <3>7
        DEF OnByte, InAck, InRead, InWrite, InWaiting, Waiting
    <2>3. CASE ~Starting
      <3>1. OnByte(e, slave[e])  BY <1>3, <2>1, <2>3 DEF SlaveInv
      <3>2. Edges = 2 * (i - 1)  BY <1>1 DEF Edges
      <3>3. slave[e].state # Waiting => Edges = Heard(slave[e])
        BY <1>1, <1>3, <2>3, Settled
      <3>4. slave[e].state # Waiting => Keeps(slave[e])'
        <4>1. Heard(slave[e])' = Heard(slave[e])  BY <1>1 DEF Heard
        <4>2. /\ 2 * (i - 1) + 1 = 2 * i - 1 /\ 2 * (i - 1) # 2 * ByteBits + 1
          BY <1>2, <1>3
        <4>3. slave[e].state # Waiting => Edges' = Follow(Heard(slave[e]))
          BY <1>7, <3>2, <3>3, <4>2 DEF Follow
        <4>4. QED  BY <1>1, <2>1, <4>1, <4>3 DEF Keeps, Follow
      <3>5. /\ Answers' = Answers /\ AddressByte' = AddressByte
            /\ Addressed(e)' <=> Addressed(e)
        BY <1>1 DEF Answers, AddressByte, Addressed
      <3>6. InAddress(e, slave[e])'
        <4>1. Edges' # 0  BY <1>3, <1>7
        <4>2. QED  BY <1>1, <3>1, <3>5, <4>1 DEF OnByte, InAddress, Resting, Top
      <3>7. InAck(e, slave[e])'  BY <1>1, <3>1, <3>5 DEF OnByte, InAck
      <3>8. InRead(e, slave[e])'
        <4>1. Heard(slave[e])' = Heard(slave[e])  BY <1>1 DEF Heard
        <4>2. QED  BY <1>1, <3>1, <3>5, <4>1 DEF OnByte, InRead, MsbFirst
      <3>9. InWrite(e, slave[e])'  BY <1>1, <3>1, <3>5 DEF OnByte, InWrite, Top
      <3>10. InWaiting(e, slave[e])'
        BY <1>1, <3>1, <3>5 DEF OnByte, InWaiting, Resting
      <3>11. QED
        BY <1>1, <1>6, <3>4, <3>6, <3>7, <3>8, <3>9, <3>10 DEF OnByte
    <2>4. QED  BY <2>2, <2>3
  <1>9. QED  BY <1>1, <1>5, <1>8, MasterMoves

-----------------------------------------------------------------------------
(* What the master samples.                                                *)

\* The device that sends, behind the rising edge of a bit.
LEMMA Sending ==
    ASSUME Inv, pc = "high", SCL = 1, i <= ByteBits, Receiving
    PROVE  Len(seen) = j + 1 /\ SDA = MsbFirst(seen[j + 1].value, i)
  <1>1. /\ CallInv /\ PlaceInv /\ DriveInv /\ AnswerInv /\ ByteBits \in 2..8
        /\ slave \in [Devices -> SlaveTypes]
    BY Parts
  <1>2. InBytes /\ ~Starting /\ i \in 1..ByteBits
    <2>1. InBytes /\ ~Starting  BY DEF InBytes, Starting
    <2>2. QED  BY <1>1, <2>1 DEF PlaceInv
  <1>3. j > 0 /\ op.dir = "read" /\ j \in Nat  BY <1>1 DEF Receiving, PlaceInv
  <1>4. PICK d \in Devices : d = op.addr
    <2>1. op.addr \notin Devices => j = 0  BY <1>2 , <1>1 DEF AnswerInv
    <2>2. QED  BY <1>3, <2>1
  <1>5. /\ Addressed(d) /\ OnByte(d, slave[d]) /\ slave[d] \in SlaveTypes /\ SlaveInv(d)
    BY <1>1, <1>2, <1>3, <1>4, Parts DEF Addressed, SlaveInv
  <1>6. Edges = 2 * i
    <2>1. i # ByteBits + 1 /\ SCL # 0  BY <1>1, <1>2
    <2>2. QED  BY <2>1 DEF Edges
  <1>7. slave[d].state = "MASTER_READ"
    <2>1. slave[d].state \in States  BY <1>5 DEF SlaveTypes
    <2>2. slave[d].state \notin {"READING_ADDR", "ACK_ADDR", "IGNORE_ACK", "MASTER_WRITE"}
      <3>1. j # 0  BY <1>3
      <3>2. QED  BY <1>3, <1>5, <3>1 DEF OnByte, InAddress, InWrite
    <2>3. slave[d].state # "ACK_WAIT_HIGH"
      <3>1. SUFFICES ASSUME slave[d].state = "ACK_WAIT_HIGH" PROVE FALSE  OBVIOUS
      <3>2. Heard(slave[d]) = 2 * ByteBits + 1  BY <3>1 DEF Heard
      <3>3. Edges \in {0, 2 * ByteBits + 1}
        BY <1>5, <3>1, <3>2 DEF OnByte, Keeps, Follow, Waiting
      <3>4. QED  BY <1>1, <1>2, <1>6, <3>3
    <2>4. slave[d].state # "ACK_WAIT_LOW"
      <3>1. SUFFICES ASSUME slave[d].state = "ACK_WAIT_LOW" PROVE FALSE  OBVIOUS
      <3>2. Heard(slave[d]) = 0  BY <3>1 DEF Heard
      <3>3. Edges \in {0, 1}
        BY <1>1, <1>5, <3>1, <3>2 DEF OnByte, Keeps, Follow, Waiting
      <3>4. QED  BY <1>1, <1>2, <1>6, <3>3
    <2>5. slave[d].state # Waiting
      <3>1. i # ByteBits + 1  BY <1>1, <1>2
      <3>2. QED  BY <1>5, <3>1 DEF OnByte, InWaiting
    <2>6. QED  BY <2>1, <2>2, <2>3, <2>4, <2>5 DEF States
  <1>8. slave[d].cb = "none"
    <2>1. slave[d].scl = 1  BY Wires
    <2>2. QED  BY <1>5, <1>7, <2>1 DEF SlaveInv, Holding, OnByte, InRead
  <1>9. slave[d].bitnum + slave[d].scl_val = i /\ Heard(slave[d]) \in {2 * i, 2 * i - 1}
    <2>1. slave[d].bitnum \in Nat /\ slave[d].scl_val \in 0..1
      BY <1>1, <1>5 DEF SlaveTypes
    <2>2. Heard(slave[d]) = 2 * slave[d].bitnum + slave[d].scl_val
      BY <1>7, <1>8, <2>1 DEF Heard
    <2>3. 2 * i = Heard(slave[d]) \/ 2 * i = Heard(slave[d]) + 1
      <3>1. Edges = Heard(slave[d]) \/ Edges = Follow(Heard(slave[d]))
        BY <1>5, <1>7 DEF OnByte, Keeps, Waiting
      <3>2. Edges # 0  BY <1>2, <1>6
      <3>3. QED  BY <1>6, <3>1, <3>2 DEF Follow
    <2>4. QED  BY <1>2, <2>1, <2>2, <2>3
  <1>10. /\ Len(seen) = j + 1 /\ slave[d].data = seen[j + 1].value
         /\ slave[d].sda = MsbFirst(slave[d].data, i)
    <2>1. Heard(slave[d]) \notin {0, 2 * ByteBits + 1}  BY <1>1, <1>2, <1>9
    <2>2. QED  BY <1>2, <1>5, <1>7, <1>8, <1>9, <2>1 DEF OnByte, InRead
  <1>11. msda = 1
    <2>1. msda = Level(j, i)  BY <1>1 DEF DriveInv
    <2>2. j # 0  BY <1>3
    <2>3. QED  BY <1>3, <2>1, <2>2 DEF Level
  <1>12. SDA = 1 <=> slave[d].sda = 1
    <2>1. \A e \in Devices : Addressed(e) => e = d  BY <1>4 DEF Addressed
    <2>2. QED  BY <1>2, <1>5, <1>11, <2>1, DataLine
  <1>13. slave[d].sda \in 0..1  BY <1>5 DEF SlaveTypes
  <1>14. QED  BY <1>10, <1>12, <1>13, Wires

\* The slaves behind the rising edge of an acknowledge.
LEMMA AtAck ==
    ASSUME Inv, pc = "high", SCL = 1, i = ByteBits + 1, NEW e \in Devices
    PROVE  /\ OnByte(e, slave[e]) /\ slave[e] \in SlaveTypes /\ slave[e].cb = "none"
           /\ slave[e].state \in {Waiting, "ACK_WAIT_HIGH", "ACK_WAIT_LOW", "MASTER_READ"}
           /\ slave[e].state # Waiting => Heard(slave[e]) \in {0, 2 * ByteBits + 1}
           /\ slave[e].state = "MASTER_READ" =>
                slave[e].sda = 1 /\ slave[e].bitnum + slave[e].scl_val \notin 1..ByteBits
  <1>1. /\ CallInv /\ PlaceInv /\ ByteBits \in 2..8 /\ slave[e] \in SlaveTypes /\ SlaveInv(e)
    BY Parts
  <1>2. InBytes /\ ~Starting  BY DEF InBytes, Starting
  <1>3. OnByte(e, slave[e])  BY <1>1, <1>2 DEF SlaveInv
  <1>4. Edges = 0  BY DEF Edges
  <1>5. slave[e].bitnum \in 0..ByteBits /\ slave[e].scl_val \in 0..1 /\ slave[e].state \in States
    BY <1>1 DEF SlaveTypes
  <1>6. slave[e].cb = "none"
    <2>1. slave[e].scl = 1  BY Wires
    <2>2. slave[e].cb # "stop_seen"  BY StopCallback DEF Off
    <2>3. QED  BY <1>1, <2>1, <2>2 DEF SlaveInv, Holding, SlaveTypes
  <1>7. Heard(slave[e]) \in Nat
    <2>1. CASE slave[e].state \in {"ACK_ADDR", "IGNORE_ACK", "ACK_WAIT_HIGH", "ACK_WAIT_LOW"}
      <3>1. Heard(slave[e]) \in {2 * ByteBits + 0, 2 * ByteBits + 1, 0}
        <4>1. slave[e].state \in {"ACK_ADDR", "IGNORE_ACK"} => Heard(slave[e]) = 2 * ByteBits + 0
          BY <1>6 DEF Heard
        <4>2. slave[e].state = "ACK_WAIT_HIGH" => Heard(slave[e]) = 2 * ByteBits + 1
          BY DEF Heard
        <4>3. slave[e].state = "ACK_WAIT_LOW" => Heard(slave[e]) = 0
          BY DEF Heard
        <4>4. QED  BY <2>1, <4>1, <4>2, <4>3
      <3>2. QED  BY <1>1, <3>1
    <2>2. CASE slave[e].state \notin {"ACK_ADDR", "IGNORE_ACK", "ACK_WAIT_HIGH", "ACK_WAIT_LOW"}
      <3>1. Heard(slave[e]) = 2 * slave[e].bitnum + slave[e].scl_val
        BY <1>1, <1>5, <1>6, <2>2 DEF Heard
      <3>2. QED  BY <1>1, <1>5, <3>1
    <2>3. QED  BY <2>1, <2>2
  <1>8. slave[e].state # Waiting => Heard(slave[e]) \in {0, 2 * ByteBits + 1}
    <2>1. slave[e].state # Waiting => Edges = Heard(slave[e]) \/ Edges = Follow(Heard(slave[e]))
      BY <1>3 DEF OnByte, Keeps
    <2>2. Follow(Heard(slave[e])) = 0 => Heard(slave[e]) = 2 * ByteBits + 1
      BY <1>7 DEF Follow
    <2>3. QED  BY <1>4, <2>1, <2>2
  <1>9. slave[e].state # "READING_ADDR"
    <2>1. i # 1  BY <1>1
    <2>2. QED  BY <1>3, <1>4, <2>1 DEF OnByte, InAddress
  <1>10. slave[e].state \notin {"ACK_ADDR", "IGNORE_ACK"}
    <2>1. slave[e].state \in {"ACK_ADDR", "IGNORE_ACK"} => Heard(slave[e]) = 2 * ByteBits + 0
      BY <1>6 DEF Heard
    <2>2. 2 * ByteBits + 0 \notin {0, 2 * ByteBits + 1}  BY <1>1
    <2>3. QED  BY <1>8, <2>1, <2>2 DEF Waiting
  <1>11. slave[e].state \in {"MASTER_WRITE", "MASTER_READ"} =>
            Heard(slave[e]) = 2 * slave[e].bitnum + slave[e].scl_val
    BY <1>1, <1>5, <1>6 DEF Heard
  <1>12. slave[e].state # "MASTER_WRITE"
    <2>1. SUFFICES ASSUME slave[e].state = "MASTER_WRITE" PROVE FALSE  OBVIOUS
    <2>2. /\ slave[e].bitnum = 0 => slave[e].scl_val = 1
          /\ slave[e].bitnum = ByteBits => slave[e].scl_val = 0
      BY <1>3, <2>1 DEF OnByte, InWrite
    <2>3. 2 * slave[e].bitnum + slave[e].scl_val \in {0, 2 * ByteBits + 1}
      BY <1>8, <1>11, <2>1 DEF Waiting
    <2>4. QED  BY <1>1, <1>5, <2>2, <2>3
  <1>13. slave[e].state = "MASTER_READ" =>
            slave[e].sda = 1 /\ slave[e].bitnum + slave[e].scl_val \notin 1..ByteBits
    <2>1. SUFFICES ASSUME slave[e].state = "MASTER_READ"
                   PROVE  /\ slave[e].sda = 1
                          /\ slave[e].bitnum + slave[e].scl_val \notin 1..ByteBits
      OBVIOUS
    <2>2. 2 * slave[e].bitnum + slave[e].scl_val \in {0, 2 * ByteBits + 1}
      BY <1>8, <1>11, <2>1 DEF Waiting
    <2>3. slave[e].bitnum + slave[e].scl_val \notin 1..ByteBits  BY <1>1, <1>5, <2>2
    <2>4. QED  BY <1>3, <2>1, <2>3 DEF OnByte, InRead
  <1>14. QED
    BY <1>1, <1>3, <1>5, <1>6, <1>8, <1>9, <1>10, <1>12, <1>13 DEF States

\* The answer behind it, and the acknowledge of a byte the master sent.
LEMMA Answered ==
    ASSUME Inv, pc = "high", SCL = 1, i = ByteBits + 1
    PROVE  /\ op.addr \in Devices => Len(seen) = j + 1
           /\ op.addr \in Devices /\ ~Receiving => (SDA = 0 <=> seen[j + 1].ok)
           /\ op.addr \notin Devices => SDA = 1 /\ ~Receiving /\ j = 0 /\ seen = <<>>
  <1>1. /\ CallInv /\ PlaceInv /\ ByteBits \in 2..8 /\ DriveInv /\ AnswerInv /\ ReadInv
    BY Parts
  <1>2. InBytes /\ ~Starting /\ i > 1 /\ i # 1 /\ ~(i <= ByteBits) /\ j \in Nat
        /\ op.dir \in {"read", "write"}
    <2>1. InBytes /\ ~Starting  BY DEF InBytes, Starting
    <2>2. QED  BY <1>1, <2>1 DEF CallInv, PlaceInv
  <1>3. ~Receiving => msda = 1
    <2>1. msda = Level(j, ByteBits + 1)  BY <1>1 DEF DriveInv
    <2>2. QED  BY <1>2, <2>1 DEF Level, Receiving
  <1>4. ASSUME op.addr \in Devices
        PROVE  /\ Len(seen) = j + 1 /\ Addressed(op.addr)
               /\ ~Receiving => /\ slave[op.addr].sda \in 0..1
                                /\ slave[op.addr].sda = 0 <=> seen[j + 1].ok
    <2>1. PICK d \in Devices : d = op.addr  BY <1>4
    <2>2. Addressed(d)  BY <1>2, <2>1 DEF Addressed
    <2>3. /\ OnByte(d, slave[d]) /\ slave[d] \in SlaveTypes
          /\ slave[d].state \in {Waiting, "ACK_WAIT_HIGH", "ACK_WAIT_LOW", "MASTER_READ"}
      BY AtAck
    <2>4. CASE slave[d].state \in {"ACK_WAIT_HIGH", "ACK_WAIT_LOW"}
      <3>1. Len(seen) = j + 1 /\ (seen[Len(seen)].ok <=> slave[d].sda = 0)
        BY <1>2, <2>2, <2>3, <2>4 DEF OnByte, InAck, Answers
      <3>2. slave[d].sda \in 0..1  BY <2>3 DEF SlaveTypes
      <3>3. QED  BY <2>1, <2>2, <3>1, <3>2
    <2>5. CASE slave[d].state = "MASTER_READ"
      <3>1. Len(seen) = j + 1 /\ op.dir = "read" /\ j >= 1
        BY <1>2, <2>3, <2>5 DEF OnByte, InRead
      <3>2. Receiving  BY <3>1, <1>2 DEF Receiving
      <3>3. QED  BY <2>1, <2>2, <3>1, <3>2
    <2>6. CASE slave[d].state = Waiting
      <3>1. op.dir = "read" /\ j = op.len
        BY <2>2, <2>3, <2>6 DEF OnByte, InWaiting
      <3>2. Receiving
        <4>1. op.len \in 1..MaxLen  BY <1>1, <3>1, CallFacts
        <4>2. j > 0  BY <1>2, <3>1, <4>1
        <4>3. QED  BY <3>1, <4>2 DEF Receiving
      <3>3. Len(seen) = j + 1  BY <1>1, <1>2, <3>2 DEF ReadInv
      <3>4. QED  BY <2>1, <2>2, <3>2, <3>3
    <2>7. QED  BY <2>3, <2>4, <2>5, <2>6
  <1>5. ASSUME op.addr \in Devices, ~Receiving
        PROVE  SDA = 0 <=> seen[j + 1].ok
    <2>1. \A e \in Devices : Addressed(e) => e = op.addr  BY DEF Addressed
    <2>2. SDA = 1 <=> slave[op.addr].sda = 1
      BY <1>2, <1>3, <1>4, <1>5, <2>1, DataLine
    <2>3. slave[op.addr].sda \in 0..1 /\ (slave[op.addr].sda = 0 <=> seen[j + 1].ok)
      BY <1>4, <1>5
    <2>4. SDA = 0 <=> slave[op.addr].sda = 0  BY <2>2, <2>3, Wires
    <2>5. QED  BY <2>3, <2>4
  <1>6. ASSUME op.addr \notin Devices
        PROVE  SDA = 1 /\ ~Receiving /\ j = 0 /\ seen = <<>>
    <2>1. j = 0 /\ seen = <<>>  BY <1>1, <1>2, <1>6 DEF AnswerInv
    <2>2. ~Receiving  BY <2>1 DEF Receiving
    <2>3. \A e \in Devices : ~Addressed(e)  BY <1>6 DEF Addressed
    <2>4. QED  BY <1>2, <1>3, <2>1, <2>2, <2>3, DataLine
  <1>7. QED  BY <1>4, <1>5, <1>6

\* What a device answered is a byte.
LEMMA SeenValue ==
    ASSUME AnswerInv, NEW k \in 1..Len(seen)
    PROVE  seen[k] \in [value : Bits, ok : BOOLEAN] /\ seen[k].value \in Bits
  <1>1. PICK R : R = [value : Bits, ok : BOOLEAN]  OBVIOUS
  <1>2. seen \in Seq(R)  BY <1>1 DEF AnswerInv
  <1>3. seen[k] \in R  BY <1>2
  <1>4. QED  BY <1>1, <1>3

LEMMA PulseHighInv ==
    ASSUME Inv, PulseHigh  PROVE Inv'
  <1>1. /\ pc = "high" /\ SCL = 1 /\ i <= ByteBits /\ pc' = "low" /\ i' = i + 1
        /\ cur' = (IF Receiving THEN 2 * cur + SDA ELSE cur) /\ slave' = slave
        /\ UNCHANGED <<op, j, ack, buf, stopped, mscl, msda, seen>>
    BY DEF PulseHigh, Slaves
  <1>2. /\ CallInv /\ PlaceInv /\ DriveInv /\ AnswerInv /\ ReadInv /\ ByteBits \in 2..8
        /\ slave \in [Devices -> SlaveTypes] /\ \A e \in Devices : SlaveInv(e)
    BY Parts
  <1>3. InBytes /\ ~Starting /\ i \in 1..ByteBits /\ j \in 0..MaxLen
    <2>1. InBytes /\ ~Starting  BY <1>1 DEF InBytes, Starting
    <2>2. QED  BY <1>1, <1>2, <2>1 DEF PlaceInv
  <1>4. i' \in 2..(ByteBits + 1) /\ i' - 1 = i /\ i' > 1 /\ i' # 1  BY <1>1, <1>2, <1>3
  <1>5. InBytes' /\ ~Starting' /\ ~Gap' /\ ~Mark' /\ ~Off'
    BY <1>1, <1>4 DEF InBytes, Starting, Gap, Mark, Off
  <1>6. AddressByte' = AddressByte /\ (Receiving' <=> Receiving) /\ Calls!Length(op)' = Calls!Length(op)
    BY <1>1 DEF AddressByte, Receiving, Calls!Length
  <1>7. CallInv'  BY <1>1, <1>2, <1>3, <1>5 DEF CallInv
  <1>8. PlaceInv'
    <2>1. i' \in 0..(ByteBits + 1) /\ i' >= 1  BY <1>2, <1>4
    <2>2. QED  BY <1>1, <1>2, <1>3, <1>5, <1>6, <2>1 DEF PlaceInv
  <1>9. DriveInv'
    <2>1. msda = Level(j, i)  BY <1>1, <1>2 DEF DriveInv
    <2>2. Level(j, i - 1)' = Level(j, i)
      BY <1>1, <1>4, <1>6 DEF Level, MsbFirst
    <2>3. mscl = 1  BY <1>1, <1>2 DEF DriveInv, Gap
    <2>4. QED  BY <1>1, <1>2, <1>4, <1>5, <2>1, <2>2, <2>3 DEF DriveInv
  <1>10. AnswerInv'
    BY <1>1, <1>2, <1>3, <1>5 DEF AnswerInv
  <1>11. ReadInv'
    <2>1. ASSUME Receiving PROVE Len(seen) = j + 1 /\ cur' = Top(seen[j + 1].value, i) /\ cur' \in Bits
      <3>1. Len(seen) = j + 1 /\ SDA = MsbFirst(seen[j + 1].value, i)  BY <1>1, <2>1, Sending
      <3>2. PICK v \in Bits : v = seen[j + 1].value
        <4>1. j + 1 \in 1..Len(seen)  BY <1>3, <3>1, BusAssumption DEF BusAssumption
        <4>2. QED  BY <1>2, <4>1, SeenValue
      <3>3. PICK k \in 0..(ByteBits - 1) : i = k + 1 /\ k = i - 1
        <4>1. i - 1 \in 0..(ByteBits - 1) /\ i = (i - 1) + 1  BY <1>2, <1>3
        <4>2. QED  BY <4>1
      <3>4. cur = Top(v, k)
        <4>1. CASE i > 1
          BY <1>2, <1>3, <1>1, <2>1, <3>2, <3>3, <4>1 DEF ReadInv
        <4>2. CASE ~(i > 1)
          <5>1. cur = 0 /\ k = 0  BY <1>1, <1>2, <1>3, <3>3, <4>2 DEF ReadInv
          <5>2. QED  BY <5>1, NoBit
        <4>3. QED  BY <4>1, <4>2
      <3>5. cur' = Top(v, k + 1) /\ Top(v, k + 1) \in Bits
        BY <1>1, <2>1, <3>1, <3>2, <3>3, <3>4, OneBit
      <3>6. QED  BY <3>1, <3>2, <3>3, <3>5
    <2>2. ~Receiving => cur' = cur /\ cur = 0
      BY <1>1, <1>2, <1>3 DEF ReadInv
    <2>3. Top(seen[j + 1].value, i - 1)' = Top(seen[j + 1].value, i)
      BY <1>1, <1>4 DEF Top
    <2>4. cur' \in Bits /\ buf \in Seq(Bits) /\ Len(buf) <= MaxLen
      BY <1>2, <2>1, <2>2 DEF ReadInv
    <2>5. cur' = IF Receiving' /\ i' > 1 THEN Top(seen[j + 1].value, i - 1)' ELSE 0
      BY <1>4, <1>6, <2>1, <2>2, <2>3
    <2>6. Len(buf) = (IF Receiving THEN j - 1 ELSE 0) /\ \A k \in 1..Len(buf) : buf[k] = seen[k + 1].value
      BY <1>1, <1>2, <1>3 DEF ReadInv
    <2>7. QED  BY <1>1, <1>6, <2>1, <2>4, <2>5, <2>6 DEF ReadInv
  <1>12. MasterInv'
    <2>1. Done'  BY <1>1 DEF Done
    <2>2. QED  BY <1>7, <1>8, <1>9, <1>10, <1>11, <2>1 DEF MasterInv
  <1>13. Edges = 2 * i /\ Edges' = 2 * i
    <2>1. i # ByteBits + 1 /\ SCL # 0  BY <1>1, <1>2, <1>3
    <2>2. QED  BY <1>1, <1>4, <2>1 DEF Edges
  <1>14. Edges \notin {0, 1, 2 * ByteBits + 1}  BY <1>2, <1>3, <1>13
  <1>15. SCL' = SCL /\ SDA' = SDA  BY <1>1, Wires, WiresNext
  <1>16. ASSUME NEW e \in Devices PROVE OnByte(e, slave[e])'
    <2>1. OnByte(e, slave[e]) /\ slave[e] \in SlaveTypes /\ SlaveInv(e)
      BY <1>2, <1>3 DEF SlaveInv
    <2>2. Heard(slave[e])' = Heard(slave[e]) /\ (Addressed(e)' <=> Addressed(e))
      BY <1>1 DEF Heard, Addressed
    <2>3. slave[e].state # Waiting => Edges = Heard(slave[e]) \/ Edges = Follow(Heard(slave[e]))
      BY <2>1 DEF OnByte, Keeps
    <2>4. Follow(2 * ByteBits + 1) = 0 /\ Follow(0) = 1  BY <1>2 DEF Follow
    <2>5. slave[e].state # Waiting => Heard(slave[e]) \notin {0, 2 * ByteBits + 1}
      BY <1>14, <2>3, <2>4
    <2>6. slave[e].state \notin {"ACK_WAIT_HIGH", "ACK_WAIT_LOW"}
      BY <2>5 DEF Heard, Waiting
    <2>7. slave[e].state # Waiting => Keeps(slave[e])'
      BY <1>1, <1>13, <2>1, <2>2 DEF OnByte, Keeps, Follow
    <2>8. InAddress(e, slave[e])'
      <3>1. Edges' # 0  BY <1>13, <1>14
      <3>2. QED  BY <1>1, <1>6, <2>1, <2>2, <3>1 DEF OnByte, InAddress, Resting, Top
    <2>9. InAck(e, slave[e])'  BY <1>1, <2>6 DEF InAck
    <2>10. InRead(e, slave[e])'
      <3>1. slave[e].cb # "data"
        <4>1. slave[e].scl = 1  BY <1>1, Wires
        <4>2. QED  BY <2>1, <4>1 DEF SlaveInv, Holding
      <3>2. slave[e].state = "MASTER_READ" => Heard(slave[e]) \notin {0, 2 * ByteBits + 1}
        BY <2>5 DEF Waiting
      <3>3. slave[e].state = "MASTER_READ" => Len(seen) = j + 1
        BY <2>1, <3>1, <3>2 DEF OnByte, InRead
      <3>4. QED  BY <1>1, <1>4, <2>1, <2>2, <3>2, <3>3 DEF OnByte, InRead, MsbFirst
    <2>11. InWrite(e, slave[e])'  BY <1>1, <2>1, <2>2 DEF OnByte, InWrite, Top
    <2>12. InWaiting(e, slave[e])'
      <3>1. i # ByteBits + 1  BY <1>2, <1>3
      <3>2. QED  BY <1>1, <2>1, <2>2, <3>1 DEF OnByte, InWaiting, Resting
    <2>13. Watching(slave[e])' /\ SCL' = 1 => slave'[e].sda_val = 1 - SDA'
      BY <1>1, <1>15, <2>1 DEF OnByte, Watching
    <2>14. QED
      BY <1>1, <2>7, <2>8, <2>9, <2>10, <2>11, <2>12, <2>13 DEF OnByte
  <1>17. QED  BY <1>1, <1>5, <1>12, <1>16, MasterMoves

\* What the master has got behind an acknowledge.
LEMMA AckBytes ==
    ASSUME Inv, AckHigh
    PROVE  /\ ack' \in 0..1 /\ buf' \in Seq(Bits) /\ Len(buf') <= MaxLen
           /\ Len(buf') = (IF Receiving THEN j ELSE 0)
           /\ \A k \in 1..Len(buf') : buf'[k] = seen[k + 1].value
           /\ Receiving => ack' = 0 /\ op.addr \in Devices
           /\ op.addr \in Devices => /\ Len(seen) = j + 1 /\ \A k \in 1..j : seen[k].ok
                                     /\ (ack' = 0 <=> seen[j + 1].ok)
           /\ op.addr \notin Devices => ack' = 1 /\ j = 0 /\ seen = <<>>
  <1>1. /\ pc = "high" /\ SCL = 1 /\ i = ByteBits + 1
        /\ ack' = (IF Receiving THEN ack ELSE SDA)
        /\ buf' = (IF Receiving THEN Append(buf, cur) ELSE buf)
    BY DEF AckHigh
  <1>2. /\ CallInv /\ PlaceInv /\ AnswerInv /\ ReadInv /\ ByteBits \in 2..8
    BY Parts
  <1>3. InBytes /\ pc # "end" /\ i > 1 /\ j \in Nat /\ i - 1 = ByteBits /\ op.dir \in {"read", "write"}
    <2>1. InBytes /\ pc # "end"  BY <1>1 DEF InBytes
    <2>2. QED  BY <1>1, <1>2, <2>1 DEF PlaceInv, CallInv
  <1>4. /\ ack = 0 /\ \A k \in 1..j : seen[k].ok
        /\ op.addr \notin Devices => j = 0 /\ seen = <<>>
    BY <1>2, <1>3 DEF AnswerInv
  <1>5. ack' \in 0..1 /\ (Receiving => ack' = 0)  BY <1>1, <1>4, Wires
  <1>6. Receiving => op.dir = "read" /\ j \in 1..op.len /\ op.addr \in Devices /\ op.len <= MaxLen
    <2>1. op.dir = "read" => op.len \in 1..MaxLen /\ Calls!Length(op) = op.len
      BY <1>2, CallFacts
    <2>2. MaxLen \in Nat  BY BusAssumption DEF BusAssumption
    <2>3. QED  BY <1>2, <1>3, <1>4, <2>1, <2>2 DEF Receiving, PlaceInv
  <1>7. Receiving => Len(seen) = j + 1 /\ seen[j + 1].ok
    <2>1. Receiving => Len(seen) = j + 1 /\ j + 1 \in 2..Len(seen)
      BY <1>1, <1>3, <1>6, Answered
    <2>2. op.dir = "read" => \A k \in 2..Len(seen) : seen[k].ok
      BY <1>2 DEF AnswerInv
    <2>3. QED  BY <1>6, <2>1, <2>2
  <1>8. op.addr \in Devices => Len(seen) = j + 1 /\ (ack' = 0 <=> seen[j + 1].ok)
    <2>1. CASE Receiving  BY <1>1, <1>5, <1>7, <2>1
    <2>2. CASE ~Receiving  BY <1>1, <2>2, Answered
    <2>3. QED  BY <2>1, <2>2
  <1>9. op.addr \notin Devices => ack' = 1
    BY <1>1, Answered
  <1>10. /\ buf \in Seq(Bits) /\ cur \in Bits /\ Len(buf) <= MaxLen
         /\ cur = IF Receiving THEN Top(seen[j + 1].value, ByteBits) ELSE 0
         /\ Len(buf) = IF Receiving THEN j - 1 ELSE 0
         /\ \A k \in 1..Len(buf) : buf[k] = seen[k + 1].value
    BY <1>2, <1>3 DEF ReadInv
  <1>11. CASE ~Receiving
    BY <1>1, <1>4, <1>5, <1>8, <1>9, <1>10, <1>11
  <1>12. CASE Receiving
    <2>1. j + 1 \in 1..Len(seen)  BY <1>3, <1>7, <1>12
    <2>2. seen[j + 1].value \in Bits  BY <1>2, <2>1, SeenValue
    <2>3. cur = seen[j + 1].value  BY <1>10, <1>12, <2>2, AllBits
    <2>4. buf' = Append(buf, cur) /\ Len(buf) = j - 1  BY <1>1, <1>10, <1>12
    <2>5. /\ buf' \in Seq(Bits) /\ Len(buf') = j /\ buf'[j] = cur
          /\ \A k \in 1..(j - 1) : buf'[k] = buf[k]
      BY <1>3, <1>6, <1>10, <1>12, <2>4
    <2>6. j <= MaxLen
      BY <1>2 DEF PlaceInv
    <2>7. \A k \in 1..j : buf'[k] = seen[k + 1].value
      <3>1. TAKE k \in 1..j
      <3>2. CASE k = j  BY <2>3, <2>5, <3>2
      <3>3. CASE k # j
        <4>1. k \in 1..(j - 1)  BY <1>3, <3>3
        <4>2. QED  BY <1>10, <2>4, <2>5, <4>1
      <3>4. QED  BY <3>2, <3>3
    <2>8. QED  BY <1>4, <1>5, <1>6, <1>8, <1>9, <1>12, <2>5, <2>6, <2>7
  <1>13. QED  BY <1>11, <1>12

\* Behind the last acknowledge the call has its result.
LEMMA AckReturns ==
    ASSUME Inv, AckHigh, ~Goes(ack')
    PROVE  Transfer!Complete' /\ Result' = Transfer!Outcome'
  <1>1. /\ pc = "high" /\ UNCHANGED <<op, j, seen>> /\ (ack' # 0 \/ ~(j < Calls!Length(op)))
    BY DEF AckHigh, Slaves, Goes
  <1>2. CallInv /\ PlaceInv /\ AnswerInv  BY Parts
  <1>3. j \in Nat /\ op.dir \in {"read", "write"} /\ j <= Calls!Length(op)
    <2>1. InBytes  BY <1>1 DEF InBytes
    <2>2. QED  BY <1>2, <2>1 DEF PlaceInv, CallInv
  <1>4. /\ op.addr \in Devices \cup Absent /\ Calls!Length(op) \in Nat /\ op # Calls!StopCall
    <2>1. /\ op.addr \in Devices \cup Absent /\ op # Calls!StopCall
      BY <1>2, <1>3, CallFacts
    <2>2. Calls!Length(op) \in Nat
      <3>1. MaxLen \in Nat  BY BusAssumption DEF BusAssumption
      <3>2. QED  BY <1>2, <1>3, <3>1, CallFacts
    <2>3. QED  BY <2>1, <2>2
  <1>5. (ack' # 0) \/ j = Calls!Length(op)  BY <1>1, <1>3, <1>4
  <1>6. /\ ack' \in 0..1 /\ buf' \in Seq(Bits)
        /\ Len(buf') = (IF Receiving THEN j ELSE 0)
        /\ \A k \in 1..Len(buf') : buf'[k] = seen[k + 1].value
        /\ Receiving => ack' = 0
        /\ op.addr \in Devices => /\ Len(seen) = j + 1 /\ \A k \in 1..j : seen[k].ok
                                  /\ (ack' = 0 <=> seen[j + 1].ok)
        /\ op.addr \notin Devices => ack' = 1 /\ j = 0 /\ seen = <<>>
    BY AckBytes
  <1>7. Result' = [ack |-> ack' = 0, count |-> IF op.dir = "write" THEN j ELSE 0, bytes |-> buf']
    BY <1>1, <1>4 DEF Result
  <1>8. ~Receiving => buf' = <<>>  BY <1>6
  <1>9. CASE op.addr \notin Devices
    <2>1. j = 0 /\ ack' = 1 /\ seen = <<>> /\ ~Receiving  BY <1>6, <1>9
    <2>2. Transfer!Complete'
      BY <1>1, <1>3, <1>4, <1>9 DEF Transfer!Complete
    <2>3. Transfer!Outcome' = Transfer!NoReply
      BY <1>1, <2>1 DEF Transfer!Outcome
    <2>4. Result' = [ack |-> FALSE, count |-> 0, bytes |-> <<>>]
      <3>1. (ack' = 0) = FALSE /\ (IF op.dir = "write" THEN j ELSE 0) = 0 /\ buf' = <<>>
        BY <1>8, <2>1
      <3>2. QED  BY <1>7, <3>1
    <2>5. QED  BY <2>2, <2>3, <2>4 DEF Transfer!NoReply
  <1>10. CASE op.addr \in Devices
    <2>1. Len(seen) = j + 1 /\ seen \in Seq([value : Bits, ok : BOOLEAN])
      BY <1>2, <1>6, <1>10 DEF AnswerInv
    <2>2. seen # <<>> /\ Last(seen) = seen[j + 1]
      BY <1>3, <2>1 DEF Last
    <2>3. seen[j + 1].ok \in BOOLEAN
      <3>1. j + 1 \in 1..Len(seen)  BY <1>3, <2>1
      <3>2. QED  BY <1>2, <3>1, SeenValue
    <2>4. Transfer!Complete'
      <3>1. ~Last(seen).ok \/ Len(seen) = Transfer!Length(op) + 1
        BY <1>5, <1>6, <1>10, <2>1, <2>2 DEF Calls!Length, Transfer!Length
      <3>2. QED  BY <1>1, <2>2, <3>1 DEF Transfer!Complete, Transfer!Length, Transfer!Last, Last
    <2>5. CASE op.dir = "write"
      <3>1. ~Receiving  BY <2>5 DEF Receiving
      <3>2. Transfer!Outcome' = [ack |-> Last(seen).ok, count |-> Len(seen) - 1, bytes |-> <<>>]
        BY <1>1, <2>2, <2>5 DEF Transfer!Outcome, Transfer!Last, Last
      <3>3. (ack' = 0) = seen[j + 1].ok  BY <1>6, <1>10, <2>3
      <3>4. Len(seen) - 1 = j  BY <1>3, <2>1
      <3>5. QED  BY <1>7, <1>8, <2>2, <2>4, <2>5, <3>1, <3>2, <3>3, <3>4
    <2>6. CASE op.dir = "read"
      <3>1. Transfer!Outcome' = [ack |-> Head(seen).ok, count |-> 0, bytes |-> Transfer!Values]
        BY <1>1, <2>2, <2>6 DEF Transfer!Outcome, Transfer!Values
      <3>2. (ack' = 0) = Head(seen).ok
        <4>1. Head(seen) = seen[1]  BY <2>1, <2>2
        <4>2. seen[1].ok \in BOOLEAN
          <5>1. 1 \in 1..Len(seen)  BY <1>3, <2>1
          <5>2. QED  BY <1>2, <5>1, SeenValue
        <4>3. ack' = 0 <=> seen[1].ok
          <5>1. CASE j = 0  BY <1>6, <1>10, <5>1
          <5>2. CASE j # 0
            <6>1. Receiving /\ 1 \in 1..j  BY <1>3, <2>6, <5>2 DEF Receiving
            <6>2. QED  BY <1>6, <1>10, <6>1
          <5>3. QED  BY <5>1, <5>2
        <4>4. QED  BY <4>1, <4>2, <4>3
      <3>3. buf' = Transfer!Values
        <4>1. Len(buf') = j
          <5>1. j # 0 => Receiving  BY <1>3, <2>6 DEF Receiving
          <5>2. QED  BY <1>6, <5>1
        <4>2. Len(seen) - 1 = j  BY <1>3, <2>1
        <4>3. buf' = [k \in 1..j |-> buf'[k]]  BY <1>6, <4>1
        <4>4. QED  BY <1>6, <4>1, <4>2, <4>3 DEF Transfer!Values
      <3>4. QED  BY <1>7, <2>4, <2>6, <3>1, <3>2, <3>3
    <2>7. QED  BY <1>3, <2>5, <2>6
  <1>11. QED  BY <1>9, <1>10

LEMMA AckHighInv ==
    ASSUME Inv, AckHigh  PROVE Inv'
  <1>1. /\ pc = "high" /\ SCL = 1 /\ i = ByteBits + 1 /\ slave' = slave
        /\ UNCHANGED <<op, stopped, mscl, msda, seen>>
    BY DEF AckHigh, Slaves
  <1>2. /\ CallInv /\ PlaceInv /\ DriveInv /\ AnswerInv /\ ReadInv /\ ByteBits \in 2..8
        /\ slave \in [Devices -> SlaveTypes] /\ \A e \in Devices : SlaveInv(e)
    BY Parts
  <1>3. /\ InBytes /\ ~Starting /\ i # 1 /\ ~(i <= ByteBits) /\ j \in 0..MaxLen /\ j \in Nat
        /\ op.dir \in {"read", "write"} /\ j <= Calls!Length(op) /\ Calls!Length(op) \in 0..MaxLen
        /\ MaxLen \in Nat /\ (op.dir = "read" => Calls!Length(op) = op.len /\ op.len \in Nat)
    <2>1. InBytes /\ ~Starting  BY <1>1 DEF InBytes, Starting
    <2>2. MaxLen \in Nat /\ op.dir \in {"read", "write"}
      BY <1>2, <2>1, BusAssumption DEF CallInv, BusAssumption
    <2>3. Calls!Length(op) \in 0..MaxLen /\ (op.dir = "read" => Calls!Length(op) = op.len /\ op.len \in Nat)
      BY <1>2, <2>2, CallFacts
    <2>4. j \in 0..MaxLen /\ j <= Calls!Length(op)  BY <1>2, <2>1 DEF PlaceInv
    <2>5. i # 1 /\ ~(i <= ByteBits)  BY <1>1, <1>2
    <2>6. QED  BY <2>1, <2>2, <2>3, <2>4, <2>5
  <1>4. /\ ack' \in 0..1 /\ buf' \in Seq(Bits) /\ Len(buf') <= MaxLen
        /\ Len(buf') = (IF Receiving THEN j ELSE 0)
        /\ \A k \in 1..Len(buf') : buf'[k] = seen[k + 1].value
        /\ Receiving => ack' = 0 /\ op.addr \in Devices
        /\ op.addr \in Devices => /\ Len(seen) = j + 1 /\ \A k \in 1..j : seen[k].ok
                                  /\ (ack' = 0 <=> seen[j + 1].ok)
        /\ op.addr \notin Devices => ack' = 1 /\ j = 0 /\ seen = <<>>
    BY AckBytes
  <1>5. AddressByte' = AddressByte /\ Calls!Length(op)' = Calls!Length(op)
    BY <1>1 DEF AddressByte, Calls!Length
  <1>6. msda = Level(j, ByteBits + 1) /\ mscl = 1
    BY <1>1, <1>2 DEF DriveInv, Gap
  <1>7. Edges = 0  BY <1>1 DEF Edges
  <1>8. SCL' = SCL /\ SDA' = SDA  BY <1>1, Wires, WiresNext
  <1>9. ASSUME NEW e \in Devices
        PROVE  /\ OnByte(e, slave[e]) /\ slave[e] \in SlaveTypes /\ slave[e].cb = "none"
               /\ slave[e].state \in {Waiting, "ACK_WAIT_HIGH", "ACK_WAIT_LOW", "MASTER_READ"}
               /\ slave[e].state # Waiting => Heard(slave[e]) \in {0, 2 * ByteBits + 1}
               /\ slave[e].state = "MASTER_READ" =>
                    slave[e].sda = 1 /\ slave[e].bitnum + slave[e].scl_val \notin 1..ByteBits
    BY <1>1, AtAck
  <1>10. CASE Goes(ack') /\ j' = j + 1 /\ i' = 1 /\ cur' = 0 /\ pc' = "low"
    <2>1. ack' = 0 /\ j < Calls!Length(op) /\ op.addr \in Devices /\ Len(seen) = j + 1
          /\ j' > 0 /\ j' \in Nat /\ j' - 1 = j
      BY <1>3, <1>4, <1>10 DEF Goes
    <2>2. InBytes' /\ ~Starting' /\ ~Gap' /\ ~Mark' /\ ~Off'
      BY <1>10, <2>1 DEF InBytes, Starting, Gap, Mark, Off
    <2>3. CallInv'  BY <1>1, <1>2, <1>3, <1>10, <2>2 DEF CallInv
    <2>4. PlaceInv'
      <3>1. j' \in 0..MaxLen /\ j' <= Calls!Length(op) /\ i' \in 0..(ByteBits + 1) /\ i' >= 1
        BY <1>2, <1>3, <1>10, <2>1
      <3>2. QED  BY <1>5, <1>10, <2>2, <3>1 DEF PlaceInv
    <2>5. DriveInv'
      <3>1. Level(j - 1, ByteBits + 1)' = Level(j, ByteBits + 1)
        BY <1>1, <1>2, <1>5, <2>1 DEF Level, MsbFirst
      <3>2. ~(i' > 1)  BY <1>10
      <3>3. msda \in 0..1  BY <1>2 DEF DriveInv
      <3>4. QED  BY <1>1, <1>6, <1>10, <2>1, <2>2, <3>1, <3>2, <3>3 DEF DriveInv
    <2>6. AnswerInv'
      <3>1. \A k \in 1..j' : seen[k].ok
        <4>1. TAKE k \in 1..j'
        <4>2. CASE k = j + 1  BY <1>4, <2>1, <4>2
        <4>3. CASE k # j + 1
          <5>1. k \in 1..j  BY <1>3, <1>10, <4>3
          <5>2. QED  BY <1>4, <2>1, <5>1
        <4>4. QED  BY <4>2, <4>3
      <3>2. Len(seen) \in j'..(j' + 1)  BY <1>3, <1>10, <2>1
      <3>3. QED  BY <1>1, <1>2, <1>4, <2>1, <3>1, <3>2 DEF AnswerInv
    <2>7. ReadInv'
      <3>1. 0 \in Bits  BY ByteRange DEF Bits
      <3>2. ~(i' > 1)  BY <1>10
      <3>3. Len(buf') = IF Receiving' THEN j' - 1 ELSE 0
        BY <1>1, <1>3, <1>4, <2>1 DEF Receiving
      <3>4. QED  BY <1>1, <1>4, <1>10, <3>1, <3>2, <3>3 DEF ReadInv
    <2>8. MasterInv'
      <3>1. Done'  BY <1>10 DEF Done
      <3>2. QED  BY <2>3, <2>4, <2>5, <2>6, <2>7, <3>1 DEF MasterInv
    <2>9. Edges' = 0  BY <1>10 DEF Edges
    <2>10. ASSUME NEW e \in Devices PROVE OnByte(e, slave[e])'
      <3>1. /\ OnByte(e, slave[e]) /\ slave[e] \in SlaveTypes /\ slave[e].cb = "none"
            /\ slave[e].state \in {Waiting, "ACK_WAIT_HIGH", "ACK_WAIT_LOW", "MASTER_READ"}
            /\ slave[e].state # Waiting => Heard(slave[e]) \in {0, 2 * ByteBits + 1}
            /\ slave[e].state = "MASTER_READ" =>
                 slave[e].sda = 1 /\ slave[e].bitnum + slave[e].scl_val \notin 1..ByteBits
        BY <1>9
      <3>2. Heard(slave[e])' = Heard(slave[e]) /\ (Addressed(e)' <=> Addressed(e))
        BY <1>1 DEF Heard, Addressed
      <3>3. slave[e].state # Waiting => Keeps(slave[e])'
        BY <1>1, <1>7, <1>10, <2>9, <3>1, <3>2 DEF OnByte, Keeps, Follow
      <3>4. InAddress(e, slave[e])' /\ InWrite(e, slave[e])'
        BY <1>1, <3>1 DEF InAddress, InWrite, Waiting
      <3>5. InAck(e, slave[e])'
        <4>1. Answers' = Answers  BY <1>3, <1>10 DEF Answers
        <4>2. QED  BY <1>1, <3>1, <3>2, <4>1 DEF OnByte, InAck
      <3>6. InRead(e, slave[e])'
        <4>1. slave[e].state = "MASTER_READ" => Heard(slave[e]) \in {0, 2 * ByteBits + 1}
          BY <3>1 DEF Waiting
        <4>2. QED
          BY <1>1, <1>3, <1>10, <2>1, <3>1, <3>2, <4>1 DEF OnByte, InRead
      <3>7. InWaiting(e, slave[e])'
        <4>1. slave[e].state = Waiting => ~Addressed(e) /\ Resting(slave[e])
          BY <1>3, <2>1, <3>1 DEF OnByte, InWaiting
        <4>2. QED  BY <1>1, <3>2, <4>1 DEF InWaiting, Resting
      <3>8. Watching(slave[e])' /\ SCL' = 1 => slave'[e].sda_val = 1 - SDA'
        BY <1>1, <1>8, <3>1 DEF OnByte, Watching
      <3>9. QED  BY <1>1, <3>3, <3>4, <3>5, <3>6, <3>7, <3>8 DEF OnByte
    <2>11. QED  BY <1>1, <2>2, <2>8, <2>10, MasterMoves
  <1>11. CASE ~Goes(ack') /\ pc' = "end" /\ UNCHANGED <<j, i, cur>>
    <2>1. InBytes' /\ ~Starting' /\ ~Gap' /\ ~Mark' /\ ~Off'
      BY <1>11 DEF InBytes, Starting, Gap, Mark, Off
    <2>2. Receiving => op.dir = "read" /\ j = op.len
      BY <1>3, <1>4, <1>11 DEF Goes, Receiving
    <2>3. CallInv'  BY <1>1, <1>2, <1>3, <1>11, <2>1 DEF CallInv
    <2>4. PlaceInv'
      BY <1>1, <1>2, <1>3, <1>5, <1>11, <2>1 DEF PlaceInv
    <2>5. DriveInv'
      <3>1. msda = 1
        BY <1>2, <1>3, <1>6, <2>2 DEF Level, Receiving
      <3>2. QED  BY <1>1, <1>6, <1>11, <2>1, <3>1 DEF DriveInv
    <2>6. AnswerInv'  BY <1>1, <1>2, <1>4, <1>11 DEF AnswerInv
    <2>7. ReadInv'  BY <1>1, <1>2, <1>4, <1>11 DEF ReadInv
    <2>8. MasterInv'
      <3>1. Done'  BY <1>11, AckReturns DEF Done
      <3>2. QED  BY <2>3, <2>4, <2>5, <2>6, <2>7, <3>1 DEF MasterInv
    <2>9. Edges' = 0  BY <1>11 DEF Edges
    <2>10. ASSUME NEW e \in Devices PROVE OnByte(e, slave[e])'
      <3>1. /\ OnByte(e, slave[e]) /\ slave[e] \in SlaveTypes /\ slave[e].cb = "none"
            /\ slave[e].state \in {Waiting, "ACK_WAIT_HIGH", "ACK_WAIT_LOW", "MASTER_READ"}
            /\ slave[e].state = "MASTER_READ" =>
                 slave[e].sda = 1 /\ slave[e].bitnum + slave[e].scl_val \notin 1..ByteBits
        BY <1>9
      <3>2. Heard(slave[e])' = Heard(slave[e]) /\ (Addressed(e)' <=> Addressed(e))
        BY <1>1 DEF Heard, Addressed
      <3>3. slave[e].state # Waiting => Keeps(slave[e])'
        BY <1>1, <1>7, <1>11, <2>9, <3>1, <3>2 DEF OnByte, Keeps, Follow
      <3>4. InAddress(e, slave[e])' /\ InWrite(e, slave[e])'
        BY <1>1, <3>1 DEF InAddress, InWrite, Waiting
      <3>5. InAck(e, slave[e])'
        <4>1. Answers' = Answers  BY <1>11 DEF Answers
        <4>2. QED  BY <1>1, <3>1, <3>2, <4>1 DEF OnByte, InAck
      <3>6. InRead(e, slave[e])'
        <4>1. slave[e].state = "MASTER_READ" => j = op.len /\ Heard(slave[e]) # 0
          <5>1. SUFFICES ASSUME slave[e].state = "MASTER_READ"
                         PROVE  j = op.len /\ Heard(slave[e]) # 0
            OBVIOUS
          <5>2. op.dir = "read" /\ j >= 1 /\ (Heard(slave[e]) = 0 => j < op.len)
            BY <1>1, <3>1, <5>1 DEF OnByte, InRead
          <5>3. j = op.len  BY <1>3, <2>2, <5>2 DEF Receiving
          <5>4. QED  BY <1>3, <5>2, <5>3
        <4>2. QED
          BY <1>1, <1>3, <1>11, <3>1, <3>2, <4>1 DEF OnByte, InRead
      <3>7. InWaiting(e, slave[e])'
        BY <1>1, <1>11, <3>1, <3>2 DEF OnByte, InWaiting, Resting
      <3>8. Watching(slave[e])' /\ SCL' = 1 => slave'[e].sda_val = 1 - SDA'
        BY <1>1, <1>8, <3>1 DEF OnByte, Watching
      <3>9. QED  BY <1>1, <3>3, <3>4, <3>5, <3>6, <3>7, <3>8 DEF OnByte
    <2>11. QED  BY <1>1, <2>1, <2>8, <2>10, MasterMoves
  <1>12. QED  BY <1>10, <1>11 DEF AckHigh

-----------------------------------------------------------------------------
(* The master between the bytes: start and stop bits, and its callers.      *)

LEMMA BitMaster ==
    ASSUME Inv,
           \/ pc \in {"sr_rise", "sr_high"} /\ pc' \in {"sr_high", "start_sda"}
           \/ /\ pc \in {"stop_sda", "stop_rise", "stop_high"}
              /\ pc' \in {"stop_rise", "stop_high", "stop_release"},
           UNCHANGED <<op, j, i, ack, cur, buf, stopped, seen>>, DriveInv'
    PROVE  MasterInv' /\ ~InBytes' /\ ~Starting' /\ ~Off'
  <1>1. CallInv /\ PlaceInv /\ AnswerInv /\ ReadInv /\ Done  BY Parts
  <1>2. ~InBytes' /\ ~Starting' /\ ~Off' /\ (Gap' \/ Mark')
    BY DEF InBytes, Starting, Gap, Mark, Off
  <1>3. CallInv'  BY <1>1, <1>2 DEF CallInv
  <1>4. PlaceInv'  BY <1>1, <1>2 DEF PlaceInv
  <1>5. AnswerInv'  BY <1>1, <1>2 DEF AnswerInv
  <1>6. ReadInv'  BY <1>1, <1>2 DEF ReadInv
  <1>7. Done'
    <2>1. Result' = Result  BY DEF Result
    <2>2. Transfer!Complete' = Transfer!Complete /\ Transfer!Outcome' = Transfer!Outcome
      BY DEF Transfer!Complete, Transfer!Outcome, Transfer!Values, Transfer!Length, Transfer!Last
    <2>3. QED  BY <1>1, <2>1, <2>2 DEF Done
  <1>8. QED  BY <1>2, <1>3, <1>4, <1>5, <1>6, <1>7 DEF MasterInv

\* The clock rises with every slave in time.
LEMMA ToMark ==
    ASSUME Inv, Quiet, Gap, Mark', slave' = slave, msda' = msda, NEW e \in Devices
    PROVE  OnMark(slave[e])'
  <1>1. OnGap(slave[e]) /\ slave[e] \in SlaveTypes /\ SlaveInv(e)
    BY Parts DEF SlaveInv
  <1>2. SCL = 0 /\ SDA' = SDA  BY Clock, Wires, WiresNext
  <1>3. slave[e].cb = "none" /\ ~SclDue(e)  BY <1>1, Settled DEF OnGap
  <1>4. slave[e].state # "ACK_WAIT_LOW"
    BY <1>1, <1>2, <1>3 DEF OnGap, SclDue, Waiting
  <1>5. Watching(slave[e]) => slave[e].sda_val = 1 - SDA
    BY <1>3, Settled
  <1>6. QED
    BY <1>1, <1>2, <1>3, <1>4, <1>5 DEF OnGap, OnMark, Watching, Resting

LEMMA StopSdaInv ==
    ASSUME Inv, StopSda  PROVE Inv'
  <1>1. /\ pc = "stop_sda" /\ msda' = 0 /\ pc' = "stop_rise" /\ slave' = slave
        /\ UNCHANGED <<op, j, i, ack, cur, buf, stopped, mscl, seen>>
    BY DEF StopSda, Slaves
  <1>2. Gap /\ Gap' /\ ~Mark'  BY <1>1 DEF Gap, Mark
  <1>3. DriveInv'  BY <1>1, <1>2, Parts DEF DriveInv
  <1>4. \A e \in Devices : OnGap(slave[e])'
    BY <1>1, <1>2, Parts DEF SlaveInv, OnGap
  <1>5. MasterInv' /\ ~InBytes' /\ ~Starting' /\ ~Off'
    BY <1>1, <1>3, BitMaster
  <1>6. QED  BY <1>1, <1>2, <1>4, <1>5, MasterMoves

LEMMA RiseInv ==
    ASSUME Inv, StartRise \/ StopRise  PROVE Inv'
  <1>1. /\ \/ pc = "sr_rise" /\ pc' = "sr_high"
           \/ pc = "stop_rise" /\ pc' = "stop_high"
        /\ Quiet /\ mscl' = 1 /\ slave' = slave
        /\ UNCHANGED <<op, j, i, ack, cur, buf, stopped, msda, seen>>
    BY DEF StartRise, StopRise, Slaves
  <1>2. Gap /\ Mark' /\ ~Gap'  BY <1>1 DEF Gap, Mark
  <1>3. DriveInv'  BY <1>1, <1>2, Parts DEF DriveInv
  <1>4. \A e \in Devices : OnMark(slave[e])'  BY <1>1, <1>2, ToMark
  <1>5. MasterInv' /\ ~InBytes' /\ ~Starting' /\ ~Off'
    BY <1>1, <1>3, BitMaster
  <1>6. QED  BY <1>1, <1>2, <1>4, <1>5, MasterMoves

LEMMA HighInv ==
    ASSUME Inv, StartHigh \/ StopHigh  PROVE Inv'
  <1>1. /\ \/ pc = "sr_high" /\ pc' = "start_sda"
           \/ pc = "stop_high" /\ pc' = "stop_release"
        /\ slave' = slave
        /\ UNCHANGED <<op, j, i, ack, cur, buf, stopped, mscl, msda, seen>>
    BY DEF StartHigh, StopHigh, Slaves
  <1>2. Mark /\ Mark' /\ ~Gap' /\ ~Gap  BY <1>1 DEF Gap, Mark
  <1>3. DriveInv'  BY <1>1, <1>2, Parts DEF DriveInv
  <1>4. \A e \in Devices : OnMark(slave[e])'
    <2>1. SDA' = SDA  BY <1>1, Wires, WiresNext
    <2>2. QED  BY <1>1, <1>2, <2>1, Parts DEF SlaveInv, OnMark, Resting, Watching
  <1>5. MasterInv' /\ ~InBytes' /\ ~Starting' /\ ~Off'
    BY <1>1, <1>3, BitMaster
  <1>6. QED  BY <1>1, <1>2, <1>4, <1>5, MasterMoves

\* A slave in time with the clock high is one that watches for start and stop.
LEMMA AllWatch ==
    ASSUME Inv, Quiet, Mark, NEW e \in Devices
    PROVE  /\ slave[e] \in SlaveTypes /\ Resting(slave[e]) /\ Watching(slave[e])
           /\ slave[e].sda_val = 1 - msda
  <1>1. OnMark(slave[e]) /\ slave[e] \in SlaveTypes  BY Parts DEF SlaveInv
  <1>2. SCL = 1 /\ SDA = msda  BY Clock, DataLine
  <1>3. ~SclDue(e)  BY <1>1, Settled DEF OnMark, Resting
  <1>4. Watching(slave[e])
    BY <1>1, <1>2, <1>3 DEF OnMark, SclDue, Waiting
  <1>5. QED  BY <1>1, <1>2, <1>4 DEF OnMark

LEMMA StartSdaInv ==
    ASSUME Inv, StartSda  PROVE Inv'
  <1>1. /\ pc = "start_sda" /\ Quiet /\ msda' = 0 /\ pc' = "low" /\ slave' = slave
        /\ UNCHANGED <<op, j, i, ack, cur, buf, stopped, mscl, seen>>
    BY DEF StartSda, Slaves
  <1>2. CallInv /\ PlaceInv /\ DriveInv /\ AnswerInv /\ ReadInv  BY Parts
  <1>3. /\ j = 0 /\ i = 1 /\ ack = 0 /\ cur = 0 /\ buf = <<>> /\ seen = <<>>
        /\ op.dir \in {"read", "write"} /\ msda = 1 /\ Mark
    BY <1>1, <1>2 DEF PlaceInv, CallInv, DriveInv, Mark
  <1>4. InBytes' /\ Starting' /\ ~Gap' /\ ~Mark' /\ ~Off' /\ ~Gap
    BY <1>1, <1>3 DEF InBytes, Starting, Gap, Mark, Off
  <1>5. CallInv'  BY <1>1, <1>2, <1>3, <1>4 DEF CallInv
  <1>6. Calls!Length(op)' = Calls!Length(op) /\ Calls!Length(op) \in Nat /\ 0 <= Calls!Length(op)
    <2>1. MaxLen \in Nat  BY BusAssumption DEF BusAssumption
    <2>2. QED  BY <1>1, <1>2, <1>3, <2>1, CallFacts DEF Calls!Length
  <1>7. PlaceInv'
    <2>1. i' >= 1 /\ j' <= Calls!Length(op)  BY <1>1, <1>3, <1>6
    <2>2. QED  BY <1>1, <1>2, <1>3, <1>6, <2>1 DEF PlaceInv
  <1>8. DriveInv'
    <2>1. mscl = 1 /\ ~(i > 1) /\ ~(j > 0)  BY <1>1, <1>2, <1>3, <1>4 DEF DriveInv
    <2>2. QED  BY <1>1, <1>3, <1>4, <2>1 DEF DriveInv
  <1>9. AnswerInv'  BY <1>1, <1>2, <1>3 DEF AnswerInv
  <1>10. ReadInv'
    <2>1. ~Receiving'  BY <1>1, <1>3 DEF Receiving
    <2>2. QED  BY <1>1, <1>2, <1>3, <2>1 DEF ReadInv
  <1>11. MasterInv'
    <2>1. Done'  BY <1>1 DEF Done
    <2>2. QED  BY <1>5, <1>7, <1>8, <1>9, <1>10, <2>1 DEF MasterInv
  <1>12. ASSUME NEW e \in Devices PROVE OnStart(slave[e])'
    <2>1. Resting(slave[e]) /\ Watching(slave[e]) /\ slave[e].sda_val = 0
      BY <1>1, <1>3, AllWatch
    <2>2. QED  BY <1>1, <2>1 DEF OnStart, Resting, Watching
  <1>13. QED  BY <1>1, <1>4, <1>11, <1>12, MasterMoves

LEMMA StopReleaseInv ==
    ASSUME Inv, StopRelease  PROVE Inv'
  <1>1. /\ pc = "stop_release" /\ Quiet /\ msda' = 1 /\ pc' = "idle" /\ slave' = slave
        /\ op' = Calls!NoCall /\ stopped' = TRUE
        /\ UNCHANGED <<j, i, ack, cur, buf, mscl, seen>>
    BY DEF StopRelease, Slaves
  <1>2. /\ CallInv /\ PlaceInv /\ DriveInv /\ AnswerInv /\ ReadInv
        /\ slave \in [Devices -> SlaveTypes] /\ \A e \in Devices : SlaveInv(e)
    BY Parts
  <1>3. Mark /\ ~Gap /\ msda = 0  BY <1>1, <1>2 DEF Mark, Gap, DriveInv
  <1>4. ~InBytes' /\ ~Starting' /\ ~Gap' /\ ~Mark' /\ Off'
    BY <1>1 DEF InBytes, Starting, Gap, Mark, Off
  <1>5. MasterInv'
    <2>1. CallInv'  BY <1>1, <1>4 DEF CallInv
    <2>2. PlaceInv'  BY <1>1, <1>2, <1>4 DEF PlaceInv
    <2>3. DriveInv'  BY <1>1, <1>2, <1>3, <1>4 DEF DriveInv
    <2>4. AnswerInv'
      <3>1. op'.dir # "read"  BY <1>1 DEF Calls!NoCall
      <3>2. QED  BY <1>1, <1>2, <1>4, <3>1 DEF AnswerInv
    <2>5. ReadInv'  BY <1>1, <1>2, <1>4 DEF ReadInv
    <2>6. Done'  BY <1>1 DEF Done
    <2>7. QED  BY <2>1, <2>2, <2>3, <2>4, <2>5, <2>6 DEF MasterInv
  <1>6. ASSUME NEW e \in Devices PROVE OnOff(slave[e]) /\ slave[e].cb = "none"
    <2>1. Resting(slave[e]) /\ Watching(slave[e]) /\ slave[e].sda_val = 1
      BY <1>1, <1>3, AllWatch
    <2>2. QED  BY <2>1 DEF OnOff, Resting
  <1>7. \A e \in Devices : SlaveInv(e)'
    BY <1>1, <1>2, <1>4, <1>6 DEF SlaveInv, OnOff, Watching
  <1>8. StopHeld'  BY <1>1, <1>6 DEF StopHeld
  <1>9. QED  BY <1>1, <1>2, <1>5, <1>7, <1>8 DEF Inv

LEMMA EndLowInv ==
    ASSUME Inv, EndLow  PROVE Inv'
  <1>1. /\ pc = "end" /\ Quiet /\ mscl' = 0 /\ slave' = slave
        /\ UNCHANGED <<j, i, ack, cur, buf, msda, seen>>
        /\ \/ op.stop /\ pc' = "stop_sda" /\ UNCHANGED <<op, stopped>>
           \/ pc' = "idle" /\ op' = Calls!NoCall /\ stopped' = FALSE
    BY DEF EndLow, Slaves
  <1>2. /\ CallInv /\ PlaceInv /\ DriveInv /\ AnswerInv /\ ReadInv /\ Done /\ ByteBits \in 2..8
        /\ slave \in [Devices -> SlaveTypes] /\ \A e \in Devices : SlaveInv(e)
    BY Parts
  <1>3. InBytes /\ ~Starting /\ SCL = 1 /\ Edges = 0 /\ msda = 1
    BY <1>1, <1>2, Clock DEF InBytes, Starting, Edges, DriveInv
  <1>4. ~InBytes' /\ ~Starting' /\ Gap' /\ ~Mark' /\ ~Off'
    BY <1>1 DEF InBytes, Starting, Gap, Mark, Off
  <1>5. MasterInv'
    <2>1. CallInv'
      BY <1>1, <1>2, <1>4 DEF CallInv
    <2>2. PlaceInv'  BY <1>1, <1>2, <1>4 DEF PlaceInv
    <2>3. DriveInv'  BY <1>1, <1>2, <1>3, <1>4 DEF DriveInv
    <2>4. AnswerInv'
      <3>1. op'.dir = "read" => op'.dir = op.dir  BY <1>1 DEF Calls!NoCall
      <3>2. QED  BY <1>1, <1>2, <1>4, <3>1 DEF AnswerInv
    <2>5. ReadInv'  BY <1>1, <1>2, <1>4 DEF ReadInv
    <2>6. Done'
      <3>1. CASE pc' = "idle"  BY <3>1 DEF Done
      <3>2. CASE pc' = "stop_sda"
        <4>1. op' = op  BY <1>1, <3>2
        <4>2. Result' = Result  BY <1>1, <4>1 DEF Result
        <4>3. Transfer!Complete' = Transfer!Complete /\ Transfer!Outcome' = Transfer!Outcome
          BY <1>1, <4>1
          DEF Transfer!Complete, Transfer!Outcome, Transfer!Values, Transfer!Length, Transfer!Last
        <4>4. QED  BY <1>1, <1>2, <4>2, <4>3 DEF Done
      <3>3. QED  BY <1>1, <3>1, <3>2
    <2>7. QED  BY <2>1, <2>2, <2>3, <2>4, <2>5, <2>6 DEF MasterInv
  <1>6. ASSUME NEW e \in Devices PROVE OnGap(slave[e])
    <2>1. /\ OnByte(e, slave[e]) /\ slave[e] \in SlaveTypes /\ slave[e].cb = "none"
          /\ slave[e].state # Waiting => Heard(slave[e]) = 0
      BY <1>1, <1>2, <1>3, Settled DEF SlaveInv
    <2>2. slave[e].state \notin {"READING_ADDR", "MASTER_WRITE"}
      BY <1>1, <2>1 DEF OnByte, InAddress, InWrite
    <2>3. slave[e].state # "MASTER_READ"
      <3>1. slave[e].state = "MASTER_READ" => Heard(slave[e]) = 0  BY <2>1 DEF Waiting
      <3>2. QED  BY <1>1, <2>1, <3>1 DEF OnByte, InRead
    <2>4. slave[e].state \notin {"ACK_ADDR", "IGNORE_ACK", "ACK_WAIT_HIGH"}
      <3>1. slave[e].state \in {"ACK_ADDR", "IGNORE_ACK"} => Heard(slave[e]) = 2 * ByteBits + 0
        BY <2>1 DEF Heard
      <3>2. slave[e].state = "ACK_WAIT_HIGH" => Heard(slave[e]) = 2 * ByteBits + 1
        BY DEF Heard
      <3>3. 2 * ByteBits + 0 # 0 /\ 2 * ByteBits + 1 # 0  BY <1>2
      <3>4. QED  BY <2>1, <3>1, <3>2, <3>3 DEF Waiting
    <2>5. slave[e].state = "ACK_WAIT_LOW" =>
             slave[e].scl_val = 0 /\ slave[e].next \in {Waiting, "MASTER_WRITE"}
      <3>1. SUFFICES ASSUME slave[e].state = "ACK_WAIT_LOW"
                     PROVE  slave[e].scl_val = 0 /\ slave[e].next \in {Waiting, "MASTER_WRITE"}
        OBVIOUS
      <3>2. slave[e].scl_val = 0  BY <2>1, <3>1 DEF OnByte, InAck
      <3>3. CASE ~Addressed(e)  BY <2>1, <3>1, <3>2, <3>3 DEF OnByte, InAck
      <3>4. CASE Addressed(e)
        <4>1. SUFFICES ASSUME slave[e].next \notin {Waiting, "MASTER_WRITE"} PROVE FALSE
          BY <3>2
        <4>2. /\ Len(seen) >= 1 /\ (seen[Len(seen)].ok <=> slave[e].sda = 0)
              /\ (op.dir = "read" => Len(seen) = 1)
              /\ slave[e].next = IF Len(seen) = 1 /\ slave[e].sda = 1 THEN Waiting
                                 ELSE IF op.dir = "read" THEN "MASTER_READ"
                                 ELSE "MASTER_WRITE"
          BY <2>1, <3>1, <3>4 DEF OnByte, InAck
        <4>3. op.dir = "read" /\ Len(seen) = 1 /\ slave[e].sda # 1  BY <4>1, <4>2
        <4>4. slave[e].sda \in 0..1  BY <2>1 DEF SlaveTypes
        <4>5. Last(seen).ok /\ seen # <<>>
          <5>1. seen \in Seq([value : Bits, ok : BOOLEAN])  BY <1>2 DEF AnswerInv
          <5>2. seen # <<>>  BY <4>3, <5>1
          <5>3. QED  BY <4>2, <4>3, <4>4, <5>2 DEF Last
        <4>6. Transfer!Complete  BY <1>1, <1>2 DEF Done
        <4>7. op.addr \notin Absent  BY <3>4, BusAssumption DEF Addressed, BusAssumption
        <4>8. op.len \in 1..MaxLen /\ MaxLen \in Nat
          BY <1>2, <4>3, CallFacts, BusAssumption DEF BusAssumption
        <4>9. Len(seen) = op.len + 1
          BY <4>3, <4>5, <4>6, <4>7
          DEF Transfer!Complete, Transfer!Length, Transfer!Last, Last
        <4>10. QED  BY <4>3, <4>8, <4>9
      <3>5. QED  BY <3>3, <3>4
    <2>6. slave[e].state = Waiting => slave[e].sda = 1
      BY <2>1 DEF OnByte, InWaiting, Resting
    <2>7. slave[e].state \in States  BY <2>1 DEF SlaveTypes
    <2>8. QED  BY <2>1, <2>2, <2>3, <2>4, <2>5, <2>6, <2>7 DEF OnGap, States
  <1>7. \A e \in Devices : OnGap(slave[e])'
    BY <1>1, <1>6 DEF OnGap
  <1>8. QED  BY <1>1, <1>4, <1>5, <1>7, MasterMoves

LEMMA CallKinds ==
    /\ \A c \in Calls!Writes \cup Calls!Reads :
          c.dir \in {"read", "write"} /\ c # Calls!NoCall /\ c # Calls!StopCall
    /\ Calls!StopCall.dir = "stop" /\ Calls!StopCall.stop = TRUE
    /\ Calls!StopCall # Calls!NoCall /\ Calls!NoCall.dir = "none"
  <1>1. /\ Calls!StopCall.dir = "stop" /\ Calls!StopCall.stop = TRUE
        /\ Calls!NoCall.dir = "none"
    BY DEF Calls!StopCall, Calls!NoCall
  <1>2. \A c \in Calls!Writes \cup Calls!Reads : c.dir \in {"read", "write"}
    BY DEF Calls!Writes, Calls!Reads
  <1>3. QED  BY <1>1, <1>2

LEMMA BeginInv ==
    ASSUME Inv, NEW c \in Calls!Writes \cup Calls!Reads \cup {Calls!StopCall}, Begin(c)
    PROVE  Inv'
  <1>1. /\ pc = "idle" /\ Quiet /\ (c = Calls!StopCall => ~stopped) /\ op' = c
        /\ \A e \in Devices : slave[e].cb = "none"
        /\ j' = 0 /\ i' = 1 /\ ack' = 0 /\ cur' = 0 /\ buf' = <<>> /\ seen' = <<>>
        /\ UNCHANGED <<stopped, mscl, msda, slave>>
    BY DEF Begin
  <1>2. /\ CallInv /\ PlaceInv /\ DriveInv /\ AnswerInv /\ ReadInv /\ ByteBits \in 2..8
        /\ slave \in [Devices -> SlaveTypes] /\ \A e \in Devices : SlaveInv(e)
    BY Parts
  <1>3. /\ c = Calls!StopCall => pc' = "stop_sda" /\ ~stopped
        /\ c # Calls!StopCall /\ stopped => pc' = "start_sda"
        /\ c # Calls!StopCall /\ ~stopped => pc' = "sr_rise"
        /\ stopped \in BOOLEAN
    <2>1. c = Calls!StopCall => pc' = "stop_sda"  BY DEF Begin
    <2>2. c # Calls!StopCall /\ stopped => pc' = "start_sda"  BY DEF Begin
    <2>3. c # Calls!StopCall /\ ~stopped => pc' = "sr_rise"  BY DEF Begin
    <2>4. QED  BY <1>1, <1>2, <2>1, <2>2, <2>3 DEF CallInv
  <1>4. /\ pc' \in {"stop_sda", "start_sda", "sr_rise"}
        /\ Gap' <=> ~stopped
        /\ Mark' <=> stopped
        /\ ~InBytes' /\ ~Starting' /\ ~Off'
    BY <1>1, <1>3 DEF InBytes, Starting, Gap, Mark, Off
  <1>5. (Gap <=> ~stopped) /\ (Off <=> stopped)
    BY <1>1, <1>3 DEF Gap, Off
  <1>6. CallInv'
    <2>1. c # Calls!StopCall => c.dir \in {"read", "write"}  BY CallKinds
    <2>2. c = Calls!StopCall => c.stop = TRUE  BY CallKinds
    <2>3. c # Calls!NoCall  BY CallKinds
    <2>4. pc' = "stop_sda" => c = Calls!StopCall  BY <1>3
    <2>5. pc' # "stop_sda" => c # Calls!StopCall  BY <1>3
    <2>6. pc' = "sr_rise" => ~stopped  BY <1>3
    <2>7. op' \in {Calls!NoCall, Calls!StopCall} \cup Calls!Writes \cup Calls!Reads
      BY <1>1
    <2>8. QED
      BY <1>1, <1>3, <1>4, <2>1, <2>2, <2>3, <2>4, <2>5, <2>6, <2>7 DEF CallInv
  <1>7. PlaceInv'
    <2>1. j' \in 0..MaxLen /\ i' \in 0..(ByteBits + 1)
      BY <1>1, <1>2, BusAssumption DEF BusAssumption
    <2>2. QED  BY <1>1, <1>4, <2>1 DEF PlaceInv
  <1>8. DriveInv'
    <2>1. msda = 1  BY <1>1, <1>2 DEF DriveInv
    <2>2. mscl = IF stopped THEN 1 ELSE 0  BY <1>1, <1>2, <1>5 DEF DriveInv
    <2>3. QED  BY <1>1, <1>3, <1>4, <2>1, <2>2 DEF DriveInv
  <1>9. AnswerInv'  BY <1>1, <1>4 DEF AnswerInv
  <1>10. ReadInv'
    <2>1. 0 \in Bits  BY ByteRange DEF Bits
    <2>2. MaxLen \in Nat  BY BusAssumption DEF BusAssumption
    <2>3. QED  BY <1>1, <1>4, <2>1, <2>2 DEF ReadInv
  <1>11. Done'
    <2>1. SUFFICES ASSUME c = Calls!StopCall
                   PROVE  Transfer!Complete' /\ Result' = Transfer!Outcome'
      BY <1>3, <1>4 DEF Done
    <2>2. Transfer!Complete'  BY <1>1, <2>1, CallKinds DEF Transfer!Complete
    <2>3. Result' = Calls!NoReply  BY <1>1, <2>1 DEF Result
    <2>4. Transfer!Outcome' = Transfer!NoReply  BY <1>1 DEF Transfer!Outcome
    <2>5. QED  BY <2>2, <2>3, <2>4 DEF Calls!NoReply, Transfer!NoReply
  <1>12. MasterInv'
    BY <1>6, <1>7, <1>8, <1>9, <1>10, <1>11 DEF MasterInv
  <1>13. ASSUME NEW e \in Devices
         PROVE  (Gap' => OnGap(slave[e])') /\ (Mark' => OnMark(slave[e])')
    <2>1. SlaveInv(e) /\ slave' = slave /\ slave[e].cb = "none"  BY <1>1, <1>2
    <2>2. Gap' => OnGap(slave[e])'  BY <1>4, <1>5, <2>1 DEF SlaveInv, OnGap
    <2>3. ASSUME Mark' PROVE OnMark(slave[e])'
      <3>1. OnOff(slave[e]) /\ SDA' = SDA
        BY <1>1, <1>4, <1>5, <2>1, <2>3, Wires, WiresNext DEF SlaveInv
      <3>2. Watching(slave[e]) => slave[e].sda_val = 1 - SDA
        BY <1>1, <2>1, Settled
      <3>3. QED  BY <2>1, <3>1, <3>2 DEF OnOff, OnMark, Resting, Watching
    <2>4. QED  BY <2>2, <2>3
  <1>14. QED  BY <1>1, <1>4, <1>12, <1>13, MasterMoves

-----------------------------------------------------------------------------
(* What is always true of the bus.                                         *)

LEMMA FirstInv == Init => Inv
  <1>1. SUFFICES ASSUME Init PROVE Inv  OBVIOUS
  <1>2. /\ pc = "idle" /\ op = Calls!NoCall /\ j = 0 /\ i = 0 /\ ack = 0 /\ cur = 0
        /\ buf = <<>> /\ stopped = TRUE /\ mscl = 1 /\ msda = 1
        /\ slave = [d \in Devices |-> SlaveInit] /\ seen = <<>>
    BY <1>1 DEF Init
  <1>3. ~InBytes /\ ~Starting /\ ~Gap /\ ~Mark /\ Off
    BY <1>2 DEF InBytes, Starting, Gap, Mark, Off
  <1>4. MaxLen \in Nat /\ ByteBits \in 2..8 /\ 0 \in Bits /\ 0 \in 0..ByteBits
    BY ByteRange, BusAssumption DEF Bits, BusAssumption
  <1>5. SlaveInit \in SlaveTypes
    <2>1. PICK z \in 0..1, b \in 0..ByteBits, v \in Bits : z = 0 /\ b = 0 /\ v = 0
      BY <1>4
    <2>2. PICK y \in 0..1 : y = 1  OBVIOUS
    <2>3. SlaveInit = [state |-> Waiting, next |-> Waiting, sda_val |-> z, scl_val |-> z,
                       bitnum |-> b, rw |-> z, check |-> FALSE, ignore |-> TRUE, data |-> v,
                       scl |-> y, sda |-> y, cb |-> "none"]
      BY <2>1, <2>2 DEF SlaveInit
    <2>4. Waiting \in States /\ Waiting \in {Waiting, "MASTER_READ", "MASTER_WRITE"}
      BY DEF States
    <2>5. QED  BY <2>3, <2>4 DEF SlaveTypes
  <1>6. slave \in [Devices -> SlaveTypes]  BY <1>2, <1>5
  <1>7. ASSUME NEW d \in Devices PROVE SlaveInv(d) /\ slave[d].cb = "none"
    <2>1. slave[d] = SlaveInit  BY <1>2
    <2>2. OnOff(SlaveInit)
      BY DEF OnOff, SlaveInit, Watching
    <2>3. /\ SlaveInit.scl = 1 /\ SlaveInit.cb = "none" /\ ~SlaveInit.check
          /\ SlaveInit.state = Waiting
      BY DEF SlaveInit
    <2>4. QED  BY <1>3, <2>1, <2>2, <2>3 DEF SlaveInv, Holding, Waiting
  <1>8. MasterInv
    <2>1. CallInv  BY <1>2, <1>3 DEF CallInv
    <2>2. PlaceInv  BY <1>2, <1>3, <1>4 DEF PlaceInv
    <2>3. DriveInv  BY <1>2, <1>3 DEF DriveInv
    <2>4. AnswerInv  BY <1>2, <1>3 DEF AnswerInv
    <2>5. ReadInv  BY <1>2, <1>3, <1>4 DEF ReadInv
    <2>6. Done  BY <1>2 DEF Done
    <2>7. QED  BY <2>1, <2>2, <2>3, <2>4, <2>5, <2>6 DEF MasterInv
  <1>9. QED  BY <1>6, <1>7, <1>8 DEF Inv, StopHeld

LEMMA Stutter ==
    ASSUME Inv, UNCHANGED vars  PROVE Inv'
  <1>1. UNCHANGED <<master, seen>> /\ slave' = slave  BY DEF vars
  <1>2. UNCHANGED <<pc, op, j, i, stopped, mscl, msda>>  BY <1>1 DEF master
  <1>3. SCL' = SCL /\ SDA' = SDA  BY <1>1, <1>2, Wires, WiresNext
  <1>4. \A e \in Devices : SlaveInv(e)'
    BY <1>1, <1>3, SameView
  <1>5. MasterInv'  BY <1>1, MasterKept DEF Inv
  <1>6. StopHeld'  BY <1>1, <1>2, Parts DEF StopHeld, Off
  <1>7. QED  BY <1>1, <1>4, <1>5, <1>6 DEF Inv

LEMMA InvStep ==
    ASSUME StopsTogether, Inv, [Next]_vars  PROVE Inv'
  <1>1. ASSUME NEW d \in Devices, Event(d) PROVE Inv'
    BY <1>1, ReadingAddrInv, IgnoreAckInv, AckAddrInv, AckWaitHighInv, AckWaitLowInv,
       MasterReadRiseInv, MasterReadFallInv, MasterWriteRiseInv, MasterWriteFallInv,
       EventSdaInv
    DEF Event
  <1>2. ASSUME NEW d \in Devices, Callback(d) PROVE Inv'
    BY <1>2, AckAddrReturnInv, MasterSentDataReturnInv, MasterRequiresDataReturnInv,
       HoldForStopInv, StopBitReturnInv, ReleaseInv
    DEF Callback
  <1>3. ASSUME MasterStep PROVE Inv'
    BY <1>3, RiseInv, HighInv, StartSdaInv, PulseLowInv, PulseDataInv, PulseRiseInv,
       PulseHighInv, AckHighInv, EndLowInv, StopSdaInv, StopReleaseInv
    DEF MasterStep
  <1>4. ASSUME NEW c \in Calls!Writes \cup Calls!Reads \cup {Calls!StopCall}, Begin(c)
        PROVE Inv'
    BY <1>4, BeginInv
  <1>5. ASSUME UNCHANGED vars PROVE Inv'  BY <1>5, Stutter
  <1>6. QED  BY <1>1, <1>2, <1>3, <1>4, <1>5 DEF Next

\* Every slave follows the master edge by edge, is addressed by the address it
\* reads off the wires, and sees the bits that were sent, in every byte of
\* every call; outside the bytes it is ready for the start or stop bit.
THEOREM Invariance ==
    ASSUME StopsTogether PROVE Spec => []Inv
  <1>1. Init => Inv  BY FirstInv
  <1>2. Inv /\ [Next]_vars => Inv'  BY InvStep
  <1>3. QED  BY <1>1, <1>2, PTL DEF Spec

\* The ranges of TypeOK: no loop of the master or of a slave runs past the bits
\* of its byte or the bytes of its buffer.
THEOREM TypeCorrect ==
    ASSUME StopsTogether PROVE Spec => []TypeOK
  <1>1. ASSUME Inv PROVE TypeOK
    <2>1. /\ CallInv /\ PlaceInv /\ DriveInv /\ AnswerInv /\ ReadInv
          /\ slave \in [Devices -> SlaveTypes]
      BY <1>1, Parts
    <2>2. pc \in {"idle", "sr_rise", "sr_high", "start_sda", "low", "data", "rise",
                  "high", "end", "stop_sda", "stop_rise", "stop_high", "stop_release"}
      BY <2>1 DEF CallInv, InBytes, Gap, Mark, Off
    <2>3. (pc = "idle" <=> op = Calls!NoCall) /\ stopped \in BOOLEAN
      BY <2>1 DEF CallInv
    <2>4. j \in 0..MaxLen /\ i \in 0..(ByteBits + 1)  BY <2>1 DEF PlaceInv
    <2>5. ack \in 0..1 /\ cur \in 0..(2^ByteBits - 1) /\ Len(buf) <= MaxLen
      BY <2>1 DEF AnswerInv, ReadInv, Bits
    <2>6. mscl \in 0..1 /\ msda \in 0..1  BY <2>1 DEF DriveInv
    <2>7. ASSUME NEW d \in Devices
          PROVE  /\ slave[d].state \in States
                 /\ slave[d].next \in {Waiting, "MASTER_READ", "MASTER_WRITE"}
                 /\ slave[d].bitnum \in 0..ByteBits
                 /\ slave[d].data \in 0..(2^ByteBits - 1)
                 /\ slave[d].cb \in {"none", "request", "data", "sent", "setup",
                                     "stop_seen", "stop"}
      BY <2>1 DEF SlaveTypes, Bits
    <2>8. QED  BY <2>2, <2>3, <2>4, <2>5, <2>6, <2>7 DEF TypeOK
  <1>2. QED  BY <1>1, Invariance, PTL

\* Between calls SDA is high, and SCL is low exactly when the last call left out
\* the stop bit; once the bus is at rest after one, each device addressed has run
\* its stop_bit callback.
THEOREM RestCorrect ==
    ASSUME StopsTogether PROVE Spec => []BusAtRest
  <1>1. ASSUME Inv PROVE BusAtRest
    <2>1. SUFFICES ASSUME pc = "idle", Quiet, \A d \in Devices : slave[d].cb = "none"
                   PROVE  /\ SDA = 1 /\ SCL = (IF stopped THEN 1 ELSE 0)
                          /\ \A d \in Devices : slave[d].sda = 1 /\ slave[d].scl = 1
                          /\ stopped => \A d \in Devices :
                                slave[d].state = Waiting /\ slave[d].ignore
      BY DEF BusAtRest
    <2>2. CallInv /\ DriveInv /\ \A d \in Devices : SlaveInv(d)  BY <1>1, Parts
    <2>3. msda = 1 /\ stopped \in BOOLEAN /\ (Gap <=> ~stopped) /\ (Off <=> stopped)
      BY <2>1, <2>2 DEF DriveInv, CallInv, Gap, Off
    <2>4. \A d \in Devices : slave[d].scl = 1
      BY <2>1, <2>2 DEF SlaveInv, Holding
    <2>5. SCL = IF stopped THEN 1 ELSE 0
      <3>1. ~stopped => SCL = 0  BY <1>1, <2>3, Clock
      <3>2. stopped => mscl = 1  BY <2>1, <2>2, <2>3 DEF DriveInv
      <3>3. QED  BY <2>3, <2>4, <3>1, <3>2, Wires
    <2>6. \A d \in Devices : slave[d].sda = 1
      <3>1. TAKE d \in Devices
      <3>2. ~SclDue(d)  BY <1>1, <2>1, Settled
      <3>3. CASE stopped  BY <2>2, <2>3, <3>3 DEF SlaveInv, OnOff
      <3>4. CASE ~stopped
        <4>1. OnGap(slave[d]) /\ SCL = 0  BY <2>2, <2>3, <2>5, <3>4 DEF SlaveInv
        <4>2. slave[d].state # "ACK_WAIT_LOW"
          BY <3>2, <4>1 DEF OnGap, SclDue, Waiting
        <4>3. QED  BY <4>1, <4>2 DEF OnGap
      <3>5. QED  BY <3>3, <3>4
    <2>7. SDA = 1  BY <2>3, <2>6, Wires
    <2>8. ASSUME stopped, NEW d \in Devices PROVE slave[d].state = Waiting /\ slave[d].ignore
      <3>1. OnOff(slave[d])  BY <2>2, <2>3, <2>8 DEF SlaveInv
      <3>2. slave[d].sda_val = 1 - SDA
        BY <1>1, <2>1, <3>1, Settled DEF OnOff
      <3>3. slave[d].sda_val = 0  BY <2>7, <3>2
      <3>4. QED  BY <3>1, <3>3 DEF OnOff
    <2>9. QED  BY <2>4, <2>5, <2>6, <2>7, <2>8
  <1>2. QED  BY <1>1, Invariance, PTL

-----------------------------------------------------------------------------
(* Start and stop bits.                                                    *)

StartStopStep ==
    /\ SCL = 1 /\ SCL' = 1 /\ SDA' # SDA => pc \in {"start_sda", "stop_release"}
    /\ \A d \in Devices :
          /\ slave[d].state # "READING_ADDR" /\ slave'[d].state = "READING_ADDR"
                => pc = "low" /\ j = 0 /\ i = 1
          /\ slave[d].cb # "stop" /\ slave'[d].cb = "stop" => pc = "idle" /\ stopped

\* A step of a slave that leaves the others alone, and moves SDA only under a low
\* clock, begins an address only at a start bit and a callback only at a stop.
LEMMA SlaveMarks ==
    ASSUME Inv, NEW d \in Devices, UNCHANGED master,
           \A e \in Devices \ {d} : slave'[e] = slave[e],
           SCL = 0 \/ slave'[d].sda = slave[d].sda,
           slave'[d].state = "READING_ADDR" => slave[d].state = "READING_ADDR" \/ Starting,
           slave'[d].cb = "stop" => slave[d].cb = "stop" \/ Off
    PROVE  StartStopStep
  <1>1. msda' = msda  BY DEF master
  <1>2. SCL = 1 => SDA' = SDA
    <2>1. SCL = 1 => \A e \in Devices : slave'[e].sda = slave[e].sda  OBVIOUS
    <2>2. QED  BY <1>1, <2>1, Wires, WiresNext
  <1>3. QED  BY <1>2 DEF StartStopStep, Starting, Off

\* What each event leaves of a slave.
LEMMA EventMarks ==
    ASSUME Inv, NEW d \in Devices, Event(d)
    PROVE  StartStopStep
  <1>1. slave \in [Devices -> SlaveTypes]  BY Parts
  <1>2. CASE ReadingAddr(d)
    <2>1. /\ slave[d].state = "READING_ADDR" /\ UNCHANGED master
          /\ \A e \in Devices \ {d} : slave'[e] = slave[e]
          /\ slave'[d].sda = slave[d].sda /\ slave'[d].cb = slave[d].cb
      BY <1>1, <1>2 DEF ReadingAddr, OnScl, SlaveTypes
    <2>2. QED  BY <2>1, SlaveMarks
  <1>3. CASE IgnoreAck(d) \/ AckAddr(d) \/ AckWaitHigh(d)
    <2>1. /\ UNCHANGED master /\ \A e \in Devices \ {d} : slave'[e] = slave[e]
          /\ slave'[d].sda = slave[d].sda /\ slave'[d].state # "READING_ADDR"
          /\ slave'[d].cb = "stop" => slave[d].cb = "stop"
      BY <1>1, <1>3 DEF IgnoreAck, AckAddr, AckWaitHigh, Stretch, OnScl, SlaveTypes
    <2>2. QED  BY <2>1, SlaveMarks
  <1>4. CASE AckWaitLow(d)
    <2>1. /\ slave[d].cb = "none" /\ SclDue(d) /\ slave[d].state = "ACK_WAIT_LOW"
          /\ SCL = slave[d].scl_val
      BY <1>4 DEF AckWaitLow, OnScl, SclDue
    <2>2. SCL = 0
      <3>1. /\ ~Starting /\ (InBytes \/ Gap)
            /\ InBytes => OnByte(d, slave[d])
        BY <2>1, Served
      <3>2. InBytes => slave[d].scl_val = 0  BY <2>1, <3>1 DEF OnByte, InAck
      <3>3. QED  BY <2>1, <3>1, <3>2, Clock
    <2>3. /\ UNCHANGED master /\ \A e \in Devices \ {d} : slave'[e] = slave[e]
          /\ slave'[d].state # "READING_ADDR" /\ slave'[d].cb = slave[d].cb
      BY <1>1, <1>4 DEF AckWaitLow, SlaveTypes, Waiting
    <2>4. QED  BY <2>2, <2>3, SlaveMarks
  <1>5. CASE MasterReadRise(d)
    <2>1. /\ UNCHANGED master /\ \A e \in Devices \ {d} : slave'[e] = slave[e]
          /\ slave'[d].sda = slave[d].sda /\ slave'[d].state # "READING_ADDR"
          /\ slave'[d].cb = slave[d].cb
      BY <1>1, <1>5 DEF MasterReadRise, OnScl, SlaveTypes, Waiting
    <2>2. QED  BY <2>1, SlaveMarks
  <1>6. CASE MasterReadFall(d)
    <2>1. SCL = 0 /\ slave[d].state = "MASTER_READ" /\ UNCHANGED master
      BY <1>6 DEF MasterReadFall, OnScl, SclDue
    <2>2. /\ \A e \in Devices \ {d} : slave'[e] = slave[e]
          /\ slave'[d].state # "READING_ADDR" /\ (slave'[d].cb = "stop" => slave[d].cb = "stop")
      BY <1>1, <1>6, <2>1 DEF MasterReadFall, Stretch, SlaveTypes
    <2>3. QED  BY <2>1, <2>2, SlaveMarks
  <1>7. CASE MasterWriteRise(d) \/ MasterWriteFall(d)
    <2>1. /\ slave[d].state = "MASTER_WRITE" /\ UNCHANGED master
          /\ \A e \in Devices \ {d} : slave'[e] = slave[e]
          /\ slave'[d].state = slave[d].state /\ slave'[d].sda = slave[d].sda
          /\ slave'[d].cb = "stop" => slave[d].cb = "stop"
      BY <1>1, <1>7 DEF MasterWriteRise, MasterWriteFall, OnScl, SlaveTypes
    <2>2. QED  BY <2>1, SlaveMarks
  <1>8. CASE EventSda(d)
    <2>1. slave[d].cb = "none" /\ Watching(slave[d]) /\ SDA = slave[d].sda_val /\ UNCHANGED master
      BY <1>8 DEF EventSda, SdaDue, Watching
    <2>2. /\ \A e \in Devices \ {d} : slave'[e] = slave[e]
          /\ slave'[d].sda = slave[d].sda /\ (slave'[d].cb = "stop" => slave[d].cb = "stop")
      BY <1>1, <1>8 DEF EventSda, SlaveTypes
    <2>3. slave'[d].state = "READING_ADDR" =>
             slave[d].state = "READING_ADDR" \/ (SCL = 1 /\ slave[d].sda_val = 0)
      BY <1>1, <1>8 DEF EventSda, SlaveTypes, Waiting
    <2>4. ASSUME SCL = 1, slave[d].sda_val = 0 PROVE Starting
      <3>1. SlaveInv(d) /\ CallInv  BY Parts
      <3>2. SDA = 0 /\ slave[d].sda_val # 1 - SDA  BY <2>1, <2>4
      <3>3. ~(InBytes /\ ~Starting)  BY <2>1, <2>4, <3>1, <3>2 DEF SlaveInv, OnByte
      <3>4. ~Gap  BY <2>4, Clock
      <3>5. ~Mark  BY <2>1, <3>1, <3>2 DEF SlaveInv, OnMark
      <3>6. ~Off  BY <3>2, DataLine
      <3>7. QED  BY <3>1, <3>3, <3>4, <3>5, <3>6 DEF CallInv
    <2>5. QED  BY <2>1, <2>2, <2>3, <2>4, SlaveMarks
  <1>9. QED
    BY <1>2, <1>3, <1>4, <1>5, <1>6, <1>7, <1>8 DEF Event

LEMMA CallbackMarks ==
    ASSUME Inv, NEW d \in Devices, Callback(d)
    PROVE  StartStopStep
  <1>1. slave \in [Devices -> SlaveTypes]  BY Parts
  <1>2. ASSUME NEW ok \in BOOLEAN, AckAddrReturn(d, ok)  PROVE StartStopStep
    <2>1. slave[d].cb = "request" /\ UNCHANGED master  BY <1>2 DEF AckAddrReturn
    <2>2. SCL = 0  BY <2>1, Answering
    <2>3. /\ \A e \in Devices \ {d} : slave'[e] = slave[e]
          /\ slave'[d].state = "ACK_WAIT_HIGH" /\ slave'[d].cb = "setup"
      BY <1>1, <1>2 DEF AckAddrReturn, SlaveTypes
    <2>4. QED  BY <2>1, <2>2, <2>3, SlaveMarks
  <1>3. ASSUME NEW ok \in BOOLEAN, MasterSentDataReturn(d, ok)  PROVE StartStopStep
    <2>1. slave[d].cb = "sent" /\ UNCHANGED master  BY <1>3 DEF MasterSentDataReturn
    <2>2. SCL = 0  BY <2>1, Answering
    <2>3. /\ \A e \in Devices \ {d} : slave'[e] = slave[e]
          /\ slave'[d].state = "ACK_WAIT_HIGH" /\ slave'[d].cb = "setup"
      BY <1>1, <1>3 DEF MasterSentDataReturn, SlaveTypes
    <2>4. QED  BY <2>1, <2>2, <2>3, SlaveMarks
  <1>4. ASSUME NEW v \in Supplied, MasterRequiresDataReturn(d, v)  PROVE StartStopStep
    <2>1. slave[d].cb = "data" /\ UNCHANGED master  BY <1>4 DEF MasterRequiresDataReturn
    <2>2. SCL = 0 /\ slave[d].state = "MASTER_READ"  BY <2>1, Answering
    <2>3. /\ \A e \in Devices \ {d} : slave'[e] = slave[e]
          /\ slave'[d].state = slave[d].state /\ slave'[d].cb = "setup"
      BY <1>1, <1>4 DEF MasterRequiresDataReturn, SlaveTypes
    <2>4. QED  BY <2>1, <2>2, <2>3, SlaveMarks
  <1>5. CASE HoldForStop(d)
    <2>1. slave[d].cb = "stop_seen" /\ UNCHANGED master  BY <1>5 DEF HoldForStop
    <2>2. Off  BY <2>1, StopCallback
    <2>3. /\ \A e \in Devices \ {d} : slave'[e] = slave[e]
          /\ slave'[d].state = slave[d].state /\ slave'[d].sda = slave[d].sda
      BY <1>1, <1>5 DEF HoldForStop, Stretch, SlaveTypes
    <2>4. QED  BY <2>1, <2>2, <2>3, SlaveMarks
  <1>6. CASE StopBitReturn(d) \/ Release(d)
    <2>1. /\ UNCHANGED master /\ \A e \in Devices \ {d} : slave'[e] = slave[e]
          /\ slave'[d].cb = "none" /\ slave'[d].sda = slave[d].sda
          /\ slave'[d].state = "READING_ADDR" => slave[d].state = "READING_ADDR"
      BY <1>1, <1>6 DEF StopBitReturn, Release, SlaveTypes, Waiting
    <2>2. QED  BY <2>1, SlaveMarks
  <1>7. QED  BY <1>2, <1>3, <1>4, <1>5, <1>6 DEF Callback

\* Only the master sends start and stop bits, and a slave takes for one only what
\* the master has sent as one: no data bit, no acknowledge and no answer of
\* another slave.
THEOREM StartStop ==
    ASSUME StopsTogether PROVE Spec => StartsAndStops
  <1>1. ASSUME Inv, [Next]_vars PROVE StartStopStep \/ UNCHANGED vars
    <2>1. CASE \E d \in Devices : Event(d) \/ Callback(d)
      BY <1>1, <2>1, EventMarks, CallbackMarks
    <2>2. ASSUME slave' = slave, msda' = msda PROVE StartStopStep
      <3>1. SDA' = SDA  BY <2>2, Wires, WiresNext
      <3>2. QED  BY <2>2, <3>1 DEF StartStopStep
    <2>3. CASE \E c \in Calls!Writes \cup Calls!Reads \cup {Calls!StopCall} : Begin(c)
      BY <2>2, <2>3 DEF Begin
    <2>4. ASSUME slave' = slave, pc \in {"start_sda", "stop_release"} \/ SCL = 0
          PROVE StartStopStep
      BY <2>4 DEF StartStopStep
    <2>5. CASE StartSda \/ StopRelease
      BY <2>4, <2>5 DEF StartSda, StopRelease, Slaves
    <2>6. CASE PulseData \/ StopSda
      <3>1. slave' = slave /\ pc \in {"data", "stop_sda"}
        BY <2>6 DEF PulseData, StopSda, Slaves
      <3>2. SCL = 0  BY <1>1, <3>1, Clock DEF Gap
      <3>3. QED  BY <2>4, <3>1, <3>2
    <2>7. CASE \/ StartRise \/ StartHigh \/ PulseLow \/ PulseRise \/ PulseHigh \/ AckHigh
               \/ EndLow \/ StopRise \/ StopHigh
      BY <2>2, <2>7
      DEF StartRise, StartHigh, PulseLow, PulseRise, PulseHigh, AckHigh, EndLow, StopRise,
          StopHigh, Slaves
    <2>8. QED
      BY <1>1, <2>1, <2>3, <2>5, <2>6, <2>7 DEF Next, MasterStep
  <1>2. QED
    BY <1>1, Invariance, PTL DEF Spec, StartsAndStops, StartStopStep

-----------------------------------------------------------------------------
(* The bus implements I2cTransfer.                                         *)

LEMMA Records ==
    /\ Transfer!NoCall = Calls!NoCall /\ Transfer!StopCall = Calls!StopCall
    /\ Transfer!NoReply = Calls!NoReply
    /\ Transfer!Writes = Calls!Writes /\ Transfer!Reads = Calls!Reads
  BY DEF Transfer!NoCall, Calls!NoCall, Transfer!StopCall, Calls!StopCall,
         Transfer!NoReply, Calls!NoReply, Transfer!Writes, Calls!Writes,
         Transfer!Reads, Calls!Reads, Transfer!BoundedSeq, Calls!BoundedSeq,
         Transfer!SeqOf, Calls!SeqOf

LEMMA FirstCall == Init => Transfer!Init
  <1>1. SUFFICES ASSUME Init PROVE Transfer!Init  OBVIOUS
  <1>2. /\ op = Calls!NoCall /\ reply = Calls!NoReply /\ seen = <<>> /\ stopped = TRUE
        /\ slave = [d \in Devices |-> SlaveInit]
    BY <1>1 DEF Init
  <1>3. \A d \in Devices : slave[d].ignore  BY <1>2 DEF SlaveInit
  <1>4. Stopping = {}  BY <1>3 DEF Stopping
  <1>5. Owed = {}  BY <1>3 DEF Owed
  <1>6. QED  BY <1>2, <1>4, <1>5, Records DEF Transfer!Init

\* A step the callers and the applications do not see.
LEMMA Unseen ==
    ASSUME UNCHANGED <<op, seen, reply, stopped>>, Off' <=> Off,
           \A d \in Devices : slave'[d].ignore = slave[d].ignore
    PROVE  UNCHANGED Transfer!vars
  <1>1. Stopping' = Stopping
    <2>1. Stopping = (IF Off THEN {d \in Devices : ~slave[d].ignore} ELSE {})
      BY DEF Stopping, Off
    <2>2. Stopping' = (IF Off' THEN {d \in Devices : ~slave'[d].ignore} ELSE {})
      BY DEF Stopping, Off
    <2>3. QED  BY <2>1, <2>2
  <1>2. Owed' = Owed  BY <1>1 DEF Owed
  <1>3. QED  BY <1>1, <1>2 DEF Transfer!vars

LEMMA EventUnseen ==
    ASSUME Inv, NEW d \in Devices, Event(d) \/ HoldForStop(d) \/ Release(d)
    PROVE  UNCHANGED Transfer!vars
  <1>1. slave \in [Devices -> SlaveTypes]  BY Parts
  <1>2. UNCHANGED <<master, seen>>
    BY DEF Event, HoldForStop, Release, ReadingAddr, IgnoreAck, AckAddr, AckWaitHigh,
           AckWaitLow, MasterReadRise, MasterReadFall, MasterWriteRise, MasterWriteFall,
           EventSda
  <1>3. \A e \in Devices \ {d} : slave'[e] = slave[e]
    <2>1. CASE ReadingAddr(d)  BY <1>1, <2>1 DEF ReadingAddr
    <2>2. CASE IgnoreAck(d)  BY <1>1, <2>2 DEF IgnoreAck
    <2>3. CASE AckAddr(d)  BY <1>1, <2>3 DEF AckAddr, Stretch
    <2>4. CASE AckWaitHigh(d)  BY <1>1, <2>4 DEF AckWaitHigh
    <2>5. CASE AckWaitLow(d)  BY <1>1, <2>5 DEF AckWaitLow
    <2>6. CASE MasterReadRise(d)  BY <1>1, <2>6 DEF MasterReadRise
    <2>7. CASE MasterReadFall(d)  BY <1>1, <2>7 DEF MasterReadFall, Stretch
    <2>8. CASE MasterWriteRise(d)  BY <1>1, <2>8 DEF MasterWriteRise
    <2>9. CASE MasterWriteFall(d)  BY <1>1, <2>9 DEF MasterWriteFall
    <2>10. CASE EventSda(d)  BY <1>1, <2>10 DEF EventSda
    <2>11. CASE HoldForStop(d) \/ Release(d)
      BY <1>1, <2>11 DEF HoldForStop, Release, Stretch
    <2>12. QED
      BY <2>1, <2>2, <2>3, <2>4, <2>5, <2>6, <2>7, <2>8, <2>9, <2>10, <2>11 DEF Event
  <1>4. slave'[d].ignore = slave[d].ignore
    <2>1. CASE ReadingAddr(d)  BY <1>1, <2>1 DEF ReadingAddr, SlaveTypes
    <2>2. CASE IgnoreAck(d)  BY <1>1, <2>2 DEF IgnoreAck, SlaveTypes
    <2>3. CASE AckAddr(d)  BY <1>1, <2>3 DEF AckAddr, Stretch, SlaveTypes
    <2>4. CASE AckWaitHigh(d)  BY <1>1, <2>4 DEF AckWaitHigh, SlaveTypes
    <2>5. CASE AckWaitLow(d)  BY <1>1, <2>5 DEF AckWaitLow, SlaveTypes
    <2>6. CASE MasterReadRise(d)  BY <1>1, <2>6 DEF MasterReadRise, SlaveTypes
    <2>7. CASE MasterReadFall(d)  BY <1>1, <2>7 DEF MasterReadFall, Stretch, SlaveTypes
    <2>8. CASE MasterWriteRise(d)  BY <1>1, <2>8 DEF MasterWriteRise, SlaveTypes
    <2>9. CASE MasterWriteFall(d)  BY <1>1, <2>9 DEF MasterWriteFall, SlaveTypes
    <2>10. CASE EventSda(d)  BY <1>1, <2>10 DEF EventSda, SlaveTypes
    <2>11. CASE HoldForStop(d) \/ Release(d)
      BY <1>1, <2>11 DEF HoldForStop, Release, Stretch, SlaveTypes
    <2>12. QED
      BY <2>1, <2>2, <2>3, <2>4, <2>5, <2>6, <2>7, <2>8, <2>9, <2>10, <2>11 DEF Event
  <1>5. UNCHANGED <<op, seen, reply, stopped>> /\ (Off' <=> Off)
    BY <1>2 DEF master, Off
  <1>6. \A e \in Devices : slave'[e].ignore = slave[e].ignore
    BY <1>3, <1>4
  <1>7. QED  BY <1>5, <1>6, Unseen

\* A callback that returns is the answer of one device.
LEMMA RequestStep ==
    ASSUME Inv, NEW d \in Devices, NEW ok \in BOOLEAN, AckAddrReturn(d, ok)
    PROVE  Transfer!Request(d, ok)
  <1>1. slave \in [Devices -> SlaveTypes] /\ CallInv  BY Parts
  <1>2. slave[d].cb = "request" /\ UNCHANGED <<pc, op, stopped, reply>>
    BY DEF AckAddrReturn, master
  <1>3. InBytes /\ Addressed(d) /\ OnByte(d, slave[d]) /\ slave[d].state = "ACK_ADDR"
    BY <1>2, Answering
  <1>4. seen = <<>>  BY <1>3 DEF OnByte, InAddress
  <1>5. seen' = <<[value |-> 0, ok |-> ok]>>
    <2>1. seen' = Append(<<>>, [value |-> 0, ok |-> ok])  BY <1>4 DEF AckAddrReturn
    <2>2. QED  BY <2>1
  <1>6. /\ \A e \in Devices \ {d} : slave'[e] = slave[e]
        /\ slave'[d].ignore = FALSE
    BY <1>1 DEF AckAddrReturn, SlaveTypes
  <1>7. Stopping = {} /\ Stopping' = {}
    BY <1>2, <1>3 DEF Stopping, InBytes
  <1>8. Owed' = Owed \cup {d}
    <2>1. Owed = {e \in Devices : ~slave[e].ignore}  BY <1>7 DEF Owed
    <2>2. Owed' = {e \in Devices : ~slave'[e].ignore}  BY <1>7 DEF Owed
    <2>3. QED  BY <1>6, <2>1, <2>2
  <1>9. QED
    BY <1>2, <1>3, <1>4, <1>5, <1>7, <1>8 DEF Transfer!Request, Addressed

\* Between the first answer and the last, the transfer goes on.
LEMMA NotComplete ==
    ASSUME Inv, InBytes, pc # "end", NEW d \in Devices, Addressed(d),
           j >= 1, Len(seen) = j
    PROVE  seen # <<>> /\ ~Transfer!Complete
  <1>1. CallInv /\ PlaceInv /\ AnswerInv  BY Parts
  <1>2. j \in Nat /\ j <= Calls!Length(op) /\ op.dir \in {"read", "write"}
    BY <1>1 DEF PlaceInv, CallInv
  <1>3. MaxLen \in Nat /\ op.addr \notin Absent
    BY BusAssumption DEF BusAssumption, Addressed
  <1>4. Calls!Length(op) \in Nat  BY <1>1, <1>2, <1>3, CallFacts
  <1>5. seen # <<>> /\ seen \in Seq([value : Bits, ok : BOOLEAN])
    BY <1>1, <1>2 DEF AnswerInv
  <1>6. Last(seen).ok
    <2>1. j \in 1..j  BY <1>2
    <2>2. seen[j].ok  BY <1>1, <2>1 DEF AnswerInv
    <2>3. QED  BY <2>2 DEF Last
  <1>7. Len(seen) # Calls!Length(op) + 1  BY <1>2, <1>4
  <1>8. QED
    BY <1>2, <1>3, <1>5, <1>6, <1>7
    DEF Transfer!Complete, Transfer!Length, Calls!Length, Transfer!Last, Last

LEMMA SentStep ==
    ASSUME Inv, NEW d \in Devices, NEW ok \in BOOLEAN, MasterSentDataReturn(d, ok)
    PROVE  Transfer!Sent(d, ok)
  <1>1. slave \in [Devices -> SlaveTypes] /\ CallInv /\ PlaceInv /\ AnswerInv
        /\ ByteBits \in 2..8
    BY Parts
  <1>2. slave[d].cb = "sent" /\ UNCHANGED <<pc, op, stopped, reply>>
    BY DEF MasterSentDataReturn, master
  <1>3. InBytes /\ Addressed(d) /\ OnByte(d, slave[d]) /\ slave[d].state = "MASTER_WRITE"
        /\ pc # "end"
    BY <1>2, Answering
  <1>4. /\ op.dir = "write" /\ j >= 1 /\ Len(seen) = j
        /\ slave[d].data = Top(op.bytes[j], slave[d].bitnum) /\ slave[d].bitnum = ByteBits
    BY <1>2, <1>3 DEF OnByte, InWrite
  <1>5. seen # <<>> /\ ~Transfer!Complete  BY <1>3, <1>4, NotComplete
  <1>6. slave[d].data = op.bytes[Len(seen)]
    <2>1. op.bytes \in Seq(Bits) /\ j \in 1..Len(op.bytes)
      BY <1>1, <1>3, <1>4, CallFacts DEF PlaceInv
    <2>2. op.bytes[j] \in Bits  BY <2>1
    <2>3. QED  BY <1>4, <2>2, AllBits
  <1>7. seen' = Append(seen, [value |-> slave[d].data, ok |-> ok])
    BY DEF MasterSentDataReturn
  <1>8. /\ \A e \in Devices : slave'[e].ignore = slave[e].ignore
    BY <1>1 DEF MasterSentDataReturn, SlaveTypes
  <1>9. Stopping' = Stopping /\ Owed' = Owed
    BY <1>2, <1>3, <1>8 DEF Stopping, Owed, InBytes
  <1>10. QED
    BY <1>2, <1>3, <1>4, <1>5, <1>6, <1>7, <1>9 DEF Transfer!Sent, Addressed

LEMMA RequiredStep ==
    ASSUME Inv, NEW d \in Devices, NEW v \in Supplied, MasterRequiresDataReturn(d, v)
    PROVE  Transfer!Required(d, v)
  <1>1. slave \in [Devices -> SlaveTypes] /\ ByteBits \in 2..8  BY Parts
  <1>2. slave[d].cb = "data" /\ UNCHANGED <<pc, op, stopped, reply>>
    BY DEF MasterRequiresDataReturn, master
  <1>3. /\ InBytes /\ Addressed(d) /\ OnByte(d, slave[d]) /\ slave[d].state = "MASTER_READ"
        /\ pc # "end" /\ Edges = Heard(slave[d]) /\ Edges = 2 * i - 1
        /\ i \in 1..(ByteBits + 1)
    BY <1>2, Answering
  <1>4. op.dir = "read" /\ j >= 1 /\ slave[d].bitnum = 0 /\ slave[d].scl_val = 0
    BY <1>2, <1>3 DEF OnByte, InRead
  <1>5. i = 1
    <2>1. Heard(slave[d]) = 2 * 0 + 0 + 1  BY <1>2, <1>3, <1>4 DEF Heard
    <2>2. 2 * i - 1 = 1
      <3>1. 2 * 0 + 0 + 1 = 1  OBVIOUS
      <3>2. QED  BY <1>3, <2>1, <3>1
    <2>3. i \in Nat  BY <1>1, <1>3
    <2>4. QED  BY <2>2, <2>3
  <1>6. Len(seen) = j  BY <1>2, <1>3, <1>5 DEF OnByte, InRead
  <1>7. seen # <<>> /\ ~Transfer!Complete  BY <1>3, <1>4, <1>6, NotComplete
  <1>8. seen' = Append(seen, [value |-> v, ok |-> TRUE])
    BY DEF MasterRequiresDataReturn
  <1>9. \A e \in Devices : slave'[e].ignore = slave[e].ignore
    BY <1>1 DEF MasterRequiresDataReturn, SlaveTypes
  <1>10. Stopping' = Stopping /\ Owed' = Owed
    BY <1>2, <1>3, <1>9 DEF Stopping, Owed, InBytes
  <1>11. QED
    BY <1>2, <1>3, <1>4, <1>7, <1>8, <1>10 DEF Transfer!Required, Addressed

LEMMA StopSeenStep ==
    ASSUME Inv, NEW d \in Devices, StopBitReturn(d)
    PROVE  Transfer!StopSeen(d)
  <1>1. slave \in [Devices -> SlaveTypes]  BY Parts
  <1>2. slave[d].cb = "stop" /\ UNCHANGED <<pc, op, stopped, reply, seen>>
    BY DEF StopBitReturn, master
  <1>3. Off /\ Off' /\ ~slave[d].ignore  BY <1>2, StopCallback DEF Off
  <1>4. /\ \A e \in Devices \ {d} : slave'[e] = slave[e]
        /\ slave'[d].ignore = TRUE
    BY <1>1 DEF StopBitReturn, SlaveTypes
  <1>5. /\ Stopping = {e \in Devices : ~slave[e].ignore}
        /\ Stopping' = {e \in Devices : ~slave'[e].ignore}
    BY <1>3 DEF Stopping, Off
  <1>6. d \in Stopping /\ Stopping' = Stopping \ {d}  BY <1>3, <1>4, <1>5
  <1>7. Owed' = Owed  BY <1>5 DEF Owed
  <1>8. QED  BY <1>2, <1>6, <1>7 DEF Transfer!StopSeen

LEMMA BeginStep ==
    ASSUME Inv, NEW c \in Calls!Writes \cup Calls!Reads \cup {Calls!StopCall}, Begin(c)
    PROVE  Transfer!Begin(c)
  <1>1. /\ pc = "idle" /\ Quiet /\ (c = Calls!StopCall => ~stopped) /\ op' = c
        /\ \A e \in Devices : slave[e].cb = "none"
        /\ seen' = <<>> /\ reply' = Calls!NoReply /\ UNCHANGED <<stopped, slave>>
    BY DEF Begin
  <1>2. CallInv /\ \A d \in Devices : SlaveInv(d)  BY Parts
  <1>3. op = Calls!NoCall  BY <1>1, <1>2 DEF CallInv
  <1>4. pc' # "idle"
    <2>1. stopped \in BOOLEAN  BY <1>2 DEF CallInv
    <2>2. c = Calls!StopCall => pc' = "stop_sda"  BY DEF Begin
    <2>3. c # Calls!StopCall /\ stopped => pc' = "start_sda"  BY DEF Begin
    <2>4. c # Calls!StopCall /\ ~stopped => pc' = "sr_rise"  BY DEF Begin
    <2>5. QED  BY <2>1, <2>2, <2>3, <2>4
  <1>5. Stopping = {} /\ Stopping' = {}
    <2>1. Stopping' = {}  BY <1>4 DEF Stopping
    <2>2. ASSUME stopped, NEW e \in Devices PROVE slave[e].ignore
      <3>1. Off  BY <1>1, <2>2 DEF Off
      <3>2. OnOff(slave[e])  BY <1>2, <3>1 DEF SlaveInv
      <3>3. slave[e].sda_val = 1 - SDA  BY <1>1, <3>2, Settled DEF OnOff
      <3>4. SDA = 1  BY <3>1, DataLine
      <3>5. slave[e].sda_val = 0  BY <3>3, <3>4
      <3>6. QED  BY <3>2, <3>5 DEF OnOff
    <2>3. QED  BY <2>1, <2>2 DEF Stopping
  <1>6. Owed' = Owed  BY <1>1, <1>5 DEF Owed
  <1>7. QED  BY <1>1, <1>3, <1>5, <1>6, Records DEF Transfer!Begin

\* The two ends of a call.
LEMMA ReturnStep ==
    ASSUME Inv, StopRelease \/ (EndLow /\ pc' = "idle")
    PROVE  Transfer!Return
  <1>1. /\ pc \in {"end", "stop_release"} /\ pc' = "idle" /\ op' = Calls!NoCall
        /\ stopped' = (pc = "stop_release") /\ reply' = Result /\ slave' = slave /\ seen' = seen
        /\ (pc = "end" => ~op.stop)
    <2>1. CASE StopRelease
      BY <2>1 DEF StopRelease, Slaves
    <2>2. CASE EndLow /\ pc' = "idle"
      BY <2>2 DEF EndLow, Slaves
    <2>3. QED  BY <2>1, <2>2
  <1>2. CallInv /\ Done  BY Parts
  <1>3. op # Calls!NoCall  BY <1>1, <1>2 DEF CallInv
  <1>4. Transfer!Complete /\ reply' = Transfer!Outcome
    BY <1>1, <1>2 DEF Done
  <1>5. op.stop \in BOOLEAN /\ op.stop = (pc = "stop_release")
    <2>1. CASE pc = "end"
      <3>1. op.dir \in {"read", "write"}  BY <1>2, <2>1 DEF CallInv, InBytes
      <3>2. op.stop \in BOOLEAN  BY <1>2, <3>1, CallFacts
      <3>3. QED  BY <1>1, <2>1, <3>2
    <2>2. CASE pc = "stop_release"
      <3>1. op.stop  BY <1>2, <2>2 DEF CallInv
      <3>2. op \in {Calls!StopCall} \cup Calls!Writes \cup Calls!Reads
        BY <1>2, <1>3 DEF CallInv
      <3>3. op.stop \in BOOLEAN
        <4>1. op.dir \in {"read", "write"} => op.stop \in BOOLEAN  BY <1>2, CallFacts
        <4>2. op.dir \in {"read", "write"} \/ op = Calls!StopCall  BY <3>2, CallKinds
        <4>3. QED  BY <4>1, <4>2, CallKinds
      <3>4. QED  BY <2>2, <3>1, <3>3
    <2>3. QED  BY <1>1, <2>1, <2>2
  <1>6. Stopping = {} /\ Owed = {d \in Devices : ~slave[d].ignore}
    BY <1>1 DEF Stopping, Owed
  <1>7. Stopping' = (IF op.stop THEN Owed ELSE {})
    BY <1>1, <1>5, <1>6 DEF Stopping
  <1>8. Owed' = (IF op.stop THEN {} ELSE Owed)
    BY <1>1, <1>6, <1>7 DEF Owed
  <1>9. (~stopped)' = ~op.stop  BY <1>1, <1>5
  <1>10. QED
    BY <1>1, <1>3, <1>4, <1>7, <1>8, <1>9, Records DEF Transfer!Return

\* The other steps of the master are its own.
LEMMA MasterUnseen ==
    ASSUME Inv, MasterStep, ~StopRelease, ~(EndLow /\ pc' = "idle")
    PROVE  UNCHANGED Transfer!vars
  <1>1. /\ UNCHANGED <<op, seen, reply, stopped, slave>> /\ pc # "idle" /\ pc' # "idle"
    <2>1. CASE StartRise \/ StartHigh \/ StartSda
      BY <2>1 DEF StartRise, StartHigh, StartSda, Slaves
    <2>2. CASE PulseLow \/ PulseData \/ PulseRise \/ PulseHigh
      BY <2>2 DEF PulseLow, PulseData, PulseRise, PulseHigh, Slaves
    <2>3. CASE AckHigh  BY <2>3 DEF AckHigh, Slaves
    <2>4. CASE EndLow  BY <2>4 DEF EndLow, Slaves
    <2>5. CASE StopSda \/ StopRise \/ StopHigh
      BY <2>5 DEF StopSda, StopRise, StopHigh, Slaves
    <2>6. QED  BY <2>1, <2>2, <2>3, <2>4, <2>5 DEF MasterStep
  <1>2. Off' <=> Off  BY <1>1 DEF Off
  <1>3. QED  BY <1>1, <1>2, Unseen

\* The wires and the two ends of them do what I2cTransfer promises: the callbacks
\* of the device addressed run in order with the bytes of the call, the call
\* returns what they answered, and each device addressed hears of the stop bit
\* once, for every number of devices and every length of payload.
THEOREM Refinement ==
    ASSUME StopsTogether PROVE Spec => ImplementsTransfer
  <1>1. Init => Transfer!Init  BY FirstCall
  <1>2. Inv /\ [Next]_vars => [Transfer!Next]_Transfer!vars
    <2>1. SUFFICES ASSUME Inv, [Next]_vars PROVE [Transfer!Next]_Transfer!vars
      OBVIOUS
    <2>2. CASE UNCHANGED vars
      <3>1. UNCHANGED <<op, seen, reply, stopped, slave, pc>>  BY <2>2 DEF vars, master
      <3>2. QED  BY <3>1, Unseen DEF Off
    <2>3. ASSUME NEW d \in Devices, Event(d) PROVE UNCHANGED Transfer!vars
      BY <2>1, <2>3, EventUnseen
    <2>4. ASSUME NEW d \in Devices, Callback(d) PROVE [Transfer!Next]_Transfer!vars
      <3>1. ASSUME NEW ok \in BOOLEAN, AckAddrReturn(d, ok) PROVE Transfer!Next
        BY <2>1, <3>1, RequestStep DEF Transfer!Next
      <3>2. ASSUME NEW ok \in BOOLEAN, MasterSentDataReturn(d, ok) PROVE Transfer!Next
        BY <2>1, <3>2, SentStep DEF Transfer!Next
      <3>3. ASSUME NEW v \in Supplied, MasterRequiresDataReturn(d, v) PROVE Transfer!Next
        BY <2>1, <3>3, RequiredStep DEF Transfer!Next
      <3>4. ASSUME StopBitReturn(d) PROVE Transfer!Next
        BY <2>1, <3>4, StopSeenStep DEF Transfer!Next
      <3>5. ASSUME HoldForStop(d) \/ Release(d) PROVE UNCHANGED Transfer!vars
        BY <2>1, <3>5, EventUnseen
      <3>6. QED  BY <2>4, <3>1, <3>2, <3>3, <3>4, <3>5 DEF Callback
    <2>5. ASSUME NEW c \in Calls!Writes \cup Calls!Reads \cup {Calls!StopCall}, Begin(c)
          PROVE Transfer!Next
      BY <2>1, <2>5, BeginStep, Records DEF Transfer!Next
    <2>6. ASSUME MasterStep PROVE [Transfer!Next]_Transfer!vars
      <3>1. CASE StopRelease \/ (EndLow /\ pc' = "idle")
        BY <2>1, <3>1, ReturnStep DEF Transfer!Next
      <3>2. CASE ~StopRelease /\ ~(EndLow /\ pc' = "idle")
        BY <2>1, <2>6, <3>2, MasterUnseen
      <3>3. QED  BY <3>1, <3>2
    <2>7. QED  BY <2>1, <2>2, <2>3, <2>4, <2>5, <2>6 DEF Next
  <1>3. QED
    BY <1>1, <1>2, Invariance, PTL DEF Spec, ImplementsTransfer, Transfer!Spec

=============================================================================
