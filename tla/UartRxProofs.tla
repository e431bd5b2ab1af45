---------------------------- MODULE UartRxProofs ----------------------------
(***************************************************************************)
(* Proofs about the receiver: first UartRx, for any number of data bits,   *)
(* any bit times of the receiver and the senders, any capacity and any     *)
(* mixture of frames (its types, what the callback is told of an empty FIFO, and, where *)
(* the clocks of the senders allow it, what each frame is reported as);    *)
(* then UartFifo, the queue between handler and uart_rx, access by access, *)
(* for every size of the storage and every set of bytes.                   *)
(***************************************************************************)
EXTENDS UartRx, UartFifo, FiniteSetTheorems, TLAPS

Levels == {0, 1} \X Nat

\* TypeOK, with the types it leaves out and bounds that depend on the state:
\* what is gathered fits the bits counted, and a bit is due while in DATA.
HandlerTypes ==
    /\ state \in {"IDLE", "START", "DATA", "PARITY", "STOP"}
    /\ current_data_bit \in 0 .. NumDataBits
    /\ state = "DATA" => current_data_bit < NumDataBits
    /\ uart_data \in 0 .. 2^current_data_bit - 1
    /\ cb_code \in Codes
    /\ fifo \in Seq(0 .. 2^NumDataBits - 1) /\ Len(fifo) <= Capacity
    /\ port_trigger \in BOOLEAN /\ timer_trigger \in BOOLEAN
    /\ wait \in 0 .. BitTicks

OtherTypes ==
    /\ mode \in Modes /\ parity \in Parities
    /\ told \in Codes
    /\ pc \in {"out", "wait", "sample", "underrun"}
    /\ signal \in Seq(Levels)

\* While uart_rx is about to call back, what cb_code says is so.
CodeHolds == pc = "underrun" => buffered /\ Holds(cb_code)

Inv == HandlerTypes /\ OtherTypes /\ CodeHolds

-----------------------------------------------------------------------------
(* Powers of two, to the width of a byte.                                  *)

IsPower(n, a) ==
    \/ n = 0 /\ a = 1
    \/ n = 1 /\ a = 2
    \/ n = 2 /\ a = 4
    \/ n = 3 /\ a = 8
    \/ n = 4 /\ a = 16
    \/ n = 5 /\ a = 32
    \/ n = 6 /\ a = 64
    \/ n = 7 /\ a = 128
    \/ n = 8 /\ a = 256

LEMMA PowerTable == \A n \in 0 .. 8 : IsPower(n, 2^n)
  <1>1. TAKE n \in 0 .. 8
  <1>2. PICK a : a = 2^n  OBVIOUS
  <1>3. n = 0 => a = 1  BY ONLY <1>2, 2^0 = 1, Zenon
  <1>4. n = 1 => a = 2  BY ONLY <1>2, 2^1 = 2, Zenon
  <1>5. n = 2 => a = 4  BY ONLY <1>2, 2^2 = 4, Zenon
  <1>6. n = 3 => a = 8  BY ONLY <1>2, 2^3 = 8, Zenon
  <1>7. n = 4 => a = 16  BY ONLY <1>2, 2^4 = 16, Zenon
  <1>8. n = 5 => a = 32  BY ONLY <1>2, 2^5 = 32, Zenon
  <1>9. n = 6 => a = 64  BY ONLY <1>2, 2^6 = 64, Zenon
  <1>10. n = 7 => a = 128  BY ONLY <1>2, 2^7 = 128, Zenon
  <1>11. n = 8 => a = 256  BY ONLY <1>2, 2^8 = 256, Zenon
  <1>12. IsPower(n, a)
    BY <1>3, <1>4, <1>5, <1>6, <1>7, <1>8, <1>9, <1>10, <1>11 DEF IsPower
  <1>13. QED  BY <1>2, <1>12

LEMMA PowerNat == \A n \in 0 .. 8 : 2^n \in Nat \ {0}
  <1>1. TAKE n \in 0 .. 8
  <1>2. PICK a : a = 2^n  OBVIOUS
  <1>3. IsPower(n, a)  BY <1>2, PowerTable
  <1>4. a \in Nat \ {0}  BY <1>3 DEF IsPower
  <1>5. QED  BY <1>2, <1>4

\* A bit more doubles the range.
LEMMA PowerStep ==
    \A n \in 0 .. 7 : 2^n \in Nat \ {0} /\ 2^(n + 1) = 2 * 2^n
  <1>1. TAKE n \in 0 .. 7
  <1>2. PICK m \in 0 .. 8 : m = n + 1  OBVIOUS
  <1>3. PICK a : a = 2^n  OBVIOUS
  <1>4. PICK b : b = 2^m  OBVIOUS
  <1>5. n \in 0 .. 8  OBVIOUS
  <1>6. IsPower(n, a) /\ IsPower(m, b)  BY <1>3, <1>4, <1>5, PowerTable
  <1>7. a \in Nat \ {0} /\ b = 2 * a  BY <1>2, <1>6 DEF IsPower
  <1>8. QED  BY <1>2, <1>3, <1>4, <1>7

\* Fewer bits fit where more do.
LEMMA PowerOrder ==
    \A m, n \in 0 .. 8 : m <= n => 2^m \in Nat \ {0} /\ 2^n \in Nat /\ 2^m <= 2^n
  <1>1. TAKE m, n \in 0 .. 8
  <1>2. HAVE m <= n
  <1>3. PICK a : a = 2^m  OBVIOUS
  <1>4. PICK b : b = 2^n  OBVIOUS
  <1>5. IsPower(m, a) /\ IsPower(n, b)  BY <1>3, <1>4, PowerTable
  <1>6. a \in Nat \ {0} /\ b \in Nat /\ a <= b  BY <1>2, <1>5 DEF IsPower
  <1>7. QED  BY <1>3, <1>4, <1>6

-----------------------------------------------------------------------------
(* What the sender drives.                                                 *)

LEMMA Bits == \A d \in Nat, i \in 0 .. 8 : Bit(d, i) \in {0, 1}
  <1>1. \A a \in Nat, b \in Nat \ {0} : a \div b \in Nat  OBVIOUS
  <1>2. \A q \in Nat : q % 2 \in {0, 1}  OBVIOUS
  <1>3. TAKE d \in Nat, i \in 0 .. 8
  <1>4. PICK b : b = 2^i  OBVIOUS
  <1>5. b \in Nat \ {0}  BY <1>4, PowerNat
  <1>6. d \div b \in Nat  BY <1>1, <1>5
  <1>7. (d \div b) % 2 \in {0, 1}  BY <1>2, <1>6
  <1>8. QED  BY <1>4, <1>7 DEF Bit

LEMMA ParityBits == \A d : ParityBit(d) \in {0, 1}
  <1>1. TAKE d
  <1>2. DEFINE ones == {i \in 0 .. NumDataBits - 1 : Bit(d, i) = 1}
  <1>3. IsFiniteSet(0 .. NumDataBits - 1)  BY FS_Interval, RxAssumption DEF RxAssumption
  <1>4. IsFiniteSet(ones)  BY <1>3, FS_Subset
  <1>5. PICK n \in Nat : n = Cardinality(ones)  BY <1>4, FS_CardinalityType
  <1>6. PICK p \in {0, 1} : p = IF parity = "even" THEN 0 ELSE 1  OBVIOUS
  <1>7. (n + p) % 2 \in {0, 1}  OBVIOUS
  <1>8. ParityBit(d) = (n + p) % 2  BY <1>5, <1>6 DEF ParityBit
  <1>9. QED  BY <1>7, <1>8

\* A level and how long it is driven, alone and in sequence.
LEMMA OneLevel == \A v \in {0, 1}, n \in Nat : <<v, n>> \in Levels /\ <<<<v, n>>>> \in Seq(Levels)
  BY DEF Levels

LEMMA SignalType ==
    ASSUME NEW kind \in Kinds, NEW d \in Data, NEW s \in SenderTicks
    PROVE  Signal(kind, d, s) \in Seq(Levels)
  <1>1. d \in Nat /\ s \in Nat /\ GlitchTicks \in Nat /\ NumDataBits \in 1 .. 8
    <2>1. 2^NumDataBits \in Nat  BY RxAssumption, PowerOrder DEF RxAssumption
    <2>2. QED  BY <2>1, RxAssumption DEF RxAssumption
  <1>2. Recovery \in Levels
    <2>1. \A a, b \in Nat : a * b \in Nat  OBVIOUS
    <2>2. NumDataBits + 4 \in Nat /\ BitTicks \in Nat  BY RxAssumption DEF RxAssumption
    <2>3. (NumDataBits + 4) * BitTicks \in Nat  BY <2>1, <2>2
    <2>4. QED  BY <2>3, OneLevel DEF Recovery
  <1>3. CASE kind = "glitch"
    <2>1. <<0, GlitchTicks>> \in Levels  BY <1>1, OneLevel
    <2>2. <<<<0, GlitchTicks>>, Recovery>> \in Seq(Levels)  BY <1>2, <2>1
    <2>3. QED  BY <1>3, <2>2 DEF Signal
  <1>4. CASE kind # "glitch"
    <2> DEFINE word == [i \in 1 .. NumDataBits |-> <<Bit(d, i - 1), s>>]
               par == IF parity = "none" THEN <<>>
                      ELSE IF kind = "parity" THEN <<<<1 - ParityBit(d), s>>>>
                      ELSE <<<<ParityBit(d), s>>>>
               stop == IF kind = "framing" THEN <<<<0, s>>, Recovery>> ELSE <<<<1, s>>>>
    <2>1. word \in Seq(Levels)
      <3>1. \A i \in 1 .. NumDataBits : Bit(d, i - 1) \in {0, 1}
        <4>1. TAKE i \in 1 .. NumDataBits
        <4>2. i - 1 \in 0 .. 8  BY <1>1
        <4>3. QED  BY <1>1, <4>2, Bits
      <3>2. \A i \in 1 .. NumDataBits : <<Bit(d, i - 1), s>> \in Levels
        BY <1>1, <3>1, OneLevel
      <3>3. NumDataBits \in Nat  BY <1>1
      <3>4. QED  BY <3>2, <3>3
    <2>2. par \in Seq(Levels)
      <3>1. PICK p \in {0, 1} : p = ParityBit(d)  BY ParityBits
      <3>2. 1 - p \in {0, 1}  OBVIOUS
      <3>3. <<<<p, s>>>> \in Seq(Levels) /\ <<<<1 - p, s>>>> \in Seq(Levels)
        BY <1>1, <3>2, OneLevel
      <3>4. par = <<>> \/ par = <<<<1 - p, s>>>> \/ par = <<<<p, s>>>>  BY <3>1
      <3>5. QED  BY <3>3, <3>4
    <2>3. stop \in Seq(Levels)
      <3>1. <<0, s>> \in Levels /\ <<<<1, s>>>> \in Seq(Levels)  BY <1>1, OneLevel
      <3>2. <<<<0, s>>, Recovery>> \in Seq(Levels)  BY <1>2, <3>1
      <3>3. QED  BY <3>1, <3>2
    <2>4. <<<<0, s>>>> \in Seq(Levels)  BY <1>1, OneLevel
    <2>5. Signal(kind, d, s) = <<<<0, s>>>> \o word \o par \o stop  BY <1>4 DEF Signal
    <2> HIDE DEF word, par, stop
    <2>6. QED  BY <2>1, <2>2, <2>3, <2>4, <2>5
  <1>5. QED  BY <1>3, <1>4

-----------------------------------------------------------------------------
(* The handler keeps its types, in whichever of the two modes it runs.     *)

LEMMA LevelType == ASSUME OtherTypes PROVE level \in {0, 1}
  <1>1. CASE signal = <<>>  BY <1>1 DEF level
  <1>2. CASE signal # <<>>
    <2>1. Head(signal) \in Levels  BY <1>2 DEF OtherTypes
    <2>2. QED  BY <1>2, <2>1 DEF level, Levels
  <1>3. QED  BY <1>1, <1>2

\* A byte of fewer bits is a byte.
LEMMA DataFits ==
    \A m \in 0 .. NumDataBits : 0 .. 2^m - 1 \subseteq 0 .. 2^NumDataBits - 1
  <1>1. TAKE m \in 0 .. NumDataBits
  <1>2. m \in 0 .. 8 /\ NumDataBits \in 0 .. 8 /\ m <= NumDataBits
    BY RxAssumption DEF RxAssumption
  <1>3. PICK a : a = 2^m  OBVIOUS
  <1>4. PICK b : b = 2^NumDataBits  OBVIOUS
  <1>5. a \in Nat \ {0} /\ b \in Nat /\ a <= b  BY <1>2, <1>3, <1>4, PowerOrder
  <1>6. 0 .. a - 1 \subseteq 0 .. b - 1  BY <1>5
  <1>7. QED  BY <1>3, <1>4, <1>6

LEMMA HandlerKeeps ==
    ASSUME HandlerTypes, OtherTypes, Falling \/ Sample
    PROVE  HandlerTypes'
  <1>1. /\ NumDataBits \in 1 .. 8 /\ BitTicks \in Nat /\ BitTicks > 1
        /\ HalfBit \in 0 .. BitTicks /\ BitTicks \in 0 .. BitTicks
    BY RxAssumption DEF RxAssumption, HalfBit
  <1>2. buffered \in BOOLEAN  BY DEF buffered
  <1>3. 2^0 = 1  OBVIOUS
  <1>4. 0 \in 0 .. 2^0 - 1  BY ONLY <1>3
  <1>5. CASE Falling
    BY <1>1, <1>2, <1>5 DEF Falling, HandlerTypes
  <1>6. CASE StartBit
    BY <1>1, <1>4, <1>6 DEF StartBit, HandlerTypes, Codes
  <1>7. CASE DataBit
    <2>1. PICK l \in {0, 1} : l = level  BY LevelType
    <2>2. PICK a : a = 2^current_data_bit  OBVIOUS
    <2>3. PICK b : b = 2^(current_data_bit + 1)  OBVIOUS
    <2>4. current_data_bit \in 0 .. 7 /\ current_data_bit + 1 \in 0 .. NumDataBits
      BY <1>1, <1>7 DEF DataBit, HandlerTypes
    <2>5. a \in Nat \ {0} /\ b = 2 * a  BY <2>2, <2>3, <2>4, PowerStep
    <2>6. uart_data \in 0 .. a - 1  BY <2>2 DEF HandlerTypes
    <2>7. uart_data' = uart_data + l * a  BY <1>7, <2>1, <2>2 DEF DataBit
    <2>8. uart_data' \in 0 .. b - 1
      <3>1. CASE l = 0  BY <2>5, <2>6, <2>7, <3>1
      <3>2. CASE l = 1  BY <2>5, <2>6, <2>7, <3>2
      <3>3. QED  BY <3>1, <3>2
    <2>9. current_data_bit' = current_data_bit + 1  BY <1>7 DEF DataBit
    <2>10. uart_data' \in 0 .. 2^current_data_bit' - 1  BY <2>3, <2>8, <2>9
    <2>11. state' \in {"DATA", "PARITY", "STOP"}
           /\ (state' = "DATA" => current_data_bit' # NumDataBits)
      BY <1>7 DEF DataBit
    <2>12. current_data_bit' \in 0 .. NumDataBits
           /\ (state' = "DATA" => current_data_bit' < NumDataBits)
      BY <1>1, <2>4, <2>9, <2>11
    <2>13. QED  BY <1>1, <1>7, <2>10, <2>11, <2>12 DEF DataBit, HandlerTypes
  <1>8. CASE Parity
    BY <1>1, <1>8 DEF Parity, HandlerTypes, Codes
  <1>9. CASE StopBit
    <2>1. uart_data \in 0 .. 2^NumDataBits - 1
      BY DataFits DEF HandlerTypes
    <2>2. fifo' \in Seq(0 .. 2^NumDataBits - 1) /\ Len(fifo') <= Capacity
      <3>1. Capacity \in Nat /\ Len(fifo) \in Nat  BY RxAssumption DEF RxAssumption, HandlerTypes
      <3>2. CASE buffered /\ ~Full
        <4>1. fifo' = Append(fifo, uart_data) /\ Len(fifo) # Capacity
          BY <1>9, <3>2 DEF StopBit, Full
        <4>2. QED  BY <2>1, <3>1, <4>1 DEF HandlerTypes
      <3>3. CASE ~(buffered /\ ~Full)
        <4>1. fifo' = fifo  BY <1>9, <3>3 DEF StopBit
        <4>2. QED  BY <4>1 DEF HandlerTypes
      <3>4. QED  BY <3>2, <3>3
    <2>3. cb_code' \in Codes  BY <1>9 DEF StopBit, Codes
    <2>4. state' = "IDLE" /\ port_trigger' \in BOOLEAN /\ timer_trigger' \in BOOLEAN
      BY <1>2, <1>9 DEF StopBit
    <2>5. UNCHANGED <<uart_data, current_data_bit, wait>>  BY <1>9 DEF StopBit
    <2>6. QED  BY <2>2, <2>3, <2>4, <2>5 DEF HandlerTypes
  <1>10. QED  BY <1>5, <1>6, <1>7, <1>8, <1>9 DEF Sample

-----------------------------------------------------------------------------
(* The steps.                                                              *)

\* Taking time off the level being driven leaves a signal.
LEMMA Shortened ==
    \A q \in Seq(Levels), n \in Nat :
        q # <<>> /\ n <= Head(q)[2]
            => <<<<Head(q)[1], Head(q)[2] - n>>>> \o Tail(q) \in Seq(Levels)
  <1>1. TAKE q \in Seq(Levels), n \in Nat
  <1>2. HAVE q # <<>> /\ n <= Head(q)[2]
  <1>3. Tail(q) \in Seq(Levels)  BY <1>2
  <1>4. PICK h \in Levels : h = Head(q)  BY <1>2
  <1>5. PICK v \in {0, 1}, m \in Nat : h[1] = v /\ h[2] = m  BY DEF Levels
  <1>6. m - n \in Nat  BY <1>2, <1>4, <1>5
  <1>7. <<<<v, m - n>>>> \in Seq(Levels)  BY <1>6, OneLevel
  <1>8. QED  BY <1>3, <1>4, <1>5, <1>7

LEMMA Initially == Init => Inv
  <1>1. SUFFICES ASSUME Init PROVE Inv  OBVIOUS
  <1>2. 2^0 = 1  OBVIOUS
  <1>3. uart_data \in 0 .. 2^current_data_bit - 1  BY <1>1, <1>2 DEF Init
  <1>4. HandlerTypes
    <2>1. Capacity \in Nat /\ BitTicks \in Nat /\ NumDataBits \in Nat
      BY RxAssumption DEF RxAssumption
    <2>2. port_trigger \in BOOLEAN  BY <1>1 DEF Init
    <2>3. /\ state = "IDLE" /\ current_data_bit = 0 /\ cb_code = "RX_COMPLETE"
          /\ fifo = <<>> /\ timer_trigger = FALSE /\ wait = 0
      BY <1>1 DEF Init
    <2>4. fifo \in Seq(0 .. 2^NumDataBits - 1) /\ Len(fifo) <= Capacity
      BY <2>1, <2>3
    <2>5. cb_code \in Codes  BY <2>3 DEF Codes
    <2>6. timer_trigger \in BOOLEAN  BY <2>3
    <2>7. state \in {"IDLE", "START", "DATA", "PARITY", "STOP"} /\ state # "DATA"  BY <2>3
    <2>8. current_data_bit \in 0 .. NumDataBits /\ wait \in 0 .. BitTicks  BY <2>1, <2>3
    <2>9. QED  BY <1>3, <2>2, <2>4, <2>5, <2>6, <2>7, <2>8 DEF HandlerTypes
  <1>5. OtherTypes
    <2>1. /\ mode \in Modes /\ parity \in Parities
          /\ told = "RX_COMPLETE" /\ pc = "out" /\ signal = <<>>
      BY <1>1 DEF Init
    <2>2. told \in Codes  BY <2>1 DEF Codes
    <2>3. signal \in Seq(Levels)  BY <2>1
    <2>4. pc \in {"out", "wait", "sample", "underrun"}  BY <2>1
    <2>5. QED  BY <2>1, <2>2, <2>3, <2>4 DEF OtherTypes
  <1>6. pc = "out"  BY <1>1 DEF Init
  <1>7. QED  BY <1>4, <1>5, <1>6 DEF Inv, CodeHolds

\* The handler, in any state, keeps what cb_code says so while uart_rx calls back:
\* bytes only join the FIFO, and a code of a frame is replaced when the frame ends.
LEMMA HandlerHolds ==
    ASSUME buffered, mode' = mode, Holds(cb_code), Falling \/ Sample
    PROVE  Holds(cb_code)'
  <1>1. CASE Falling
    <2>1. UNCHANGED <<cb_code, fifo>> /\ state = "IDLE"  BY <1>1 DEF Falling
    <2>2. QED  BY <2>1 DEF Holds, Full, buffered
  <1>2. CASE StartBit
    <2>1. /\ fifo' = fifo /\ state = "START" /\ state' = "DATA"
          /\ cb_code' = cb_code \/ cb_code' = "START_BIT_ERROR"
      BY <1>2 DEF StartBit
    <2>2. QED  BY <2>1 DEF Holds, Full, buffered
  <1>3. CASE DataBit
    <2>1. /\ UNCHANGED <<cb_code, fifo>> /\ state = "DATA"
          /\ state' \in {"DATA", "PARITY", "STOP"}
      BY <1>3 DEF DataBit
    <2>2. QED  BY <2>1 DEF Holds, Full, buffered
  <1>4. CASE Parity
    <2>1. /\ fifo' = fifo /\ state = "PARITY" /\ state' = "STOP"
          /\ cb_code' = cb_code \/ cb_code' = "PARITY_ERROR"
      BY <1>4 DEF Parity
    <2>2. QED  BY <2>1 DEF Holds, Full, buffered
  <1>5. CASE StopBit
    <2>1. CASE Full
      <3>1. cb_code' = "OVERRUN_ERROR" /\ fifo' = fifo  BY <1>5, <2>1 DEF StopBit
      <3>2. QED  BY <2>1, <3>1 DEF Holds, Full, buffered
    <2>2. CASE ~Full
      <3>1. cb_code' \in {"RX_COMPLETE", "FRAMING_ERROR"}  BY <1>5, <2>2 DEF StopBit
      <3>2. fifo' = Append(fifo, uart_data)  BY <1>5, <2>2 DEF StopBit
      <3>3. fifo' # <<>>  BY <3>2
      <3>4. QED  BY <3>1, <3>3 DEF Holds
    <2>3. QED  BY <2>1, <2>2
  <1>6. QED  BY <1>1, <1>2, <1>3, <1>4, <1>5 DEF Sample

LEMMA Steps == Inv /\ [Next]_vars => Inv'
  <1> SUFFICES ASSUME Inv, [Next]_vars PROVE Inv'
    OBVIOUS
  <1> USE DEF Inv
  <1>1. CASE UNCHANGED vars
    BY <1>1 DEF vars, config, uart, triggers, sender, HandlerTypes, OtherTypes,
                CodeHolds, Holds, Full, buffered
  <1>2. ASSUME NEW k \in Kinds, NEW d \in Data, NEW s \in SenderTicks, SendFrame(k, d, s)
        PROVE  Inv'
    <2>1. signal' \in Seq(Levels)  BY <1>2, SignalType DEF SendFrame
    <2>2. QED
      BY <1>2, <2>1 DEF SendFrame, config, uart, triggers, HandlerTypes, OtherTypes,
                        CodeHolds, Holds, Full, buffered
  <1>3. CASE NextLevel
    <2>1. signal' \in Seq(Levels)  BY <1>3 DEF NextLevel, OtherTypes
    <2>2. QED
      BY <1>3, <2>1 DEF NextLevel, config, uart, triggers, HandlerTypes, OtherTypes,
                        CodeHolds, Holds, Full, buffered
  <1>4. CASE Isr
    <2>1. HandlerTypes'  BY <1>4, HandlerKeeps DEF Isr
    <2>2. OtherTypes'  BY <1>4 DEF Isr, config, sender, OtherTypes
    <2>3. pc' = pc /\ mode' = mode /\ (Falling \/ Sample)  BY <1>4 DEF Isr, config
    <2>4. CodeHolds'  BY <2>3, HandlerHolds DEF CodeHolds, buffered
    <2>5. QED  BY <2>1, <2>2, <2>4
  <1>5. CASE RxPop
    <2>1. CASE fifo # <<>>
      <3>1. fifo' \in Seq(0 .. 2^NumDataBits - 1) /\ Len(fifo') <= Capacity
        <4>1. Capacity \in Nat /\ Len(fifo) \in Nat
          BY RxAssumption DEF RxAssumption, HandlerTypes
        <4>2. QED  BY <1>5, <2>1, <4>1 DEF RxPop, HandlerTypes
      <3>2. QED
        BY <1>5, <2>1, <3>1 DEF RxPop, config, triggers, sender, HandlerTypes,
                                OtherTypes, CodeHolds, Holds, Full, buffered
    <2>2. CASE fifo = <<>>
      BY <1>5, <2>2 DEF RxPop, config, triggers, sender, HandlerTypes,
                        OtherTypes, CodeHolds, Holds, Full, buffered, Codes
    <2>3. QED  BY <2>1, <2>2
  <1>6. CASE RxTell
    BY <1>6 DEF RxTell, config, uart, triggers, sender, HandlerTypes, OtherTypes,
                CodeHolds, Holds, Full, buffered, Codes
  <1>7. CASE RxCall
    BY <1>7 DEF RxCall, config, triggers, sender, HandlerTypes, OtherTypes,
                CodeHolds, Holds, Full, buffered
  <1>8. CASE RxEdge
    <2>1. HandlerTypes'  BY <1>8, HandlerKeeps DEF RxEdge
    <2>2. QED
      BY <1>8, <2>1 DEF RxEdge, config, sender, OtherTypes, CodeHolds, Holds, Full, buffered
  <1>9. CASE RxSample
    <2>1. HandlerTypes'  BY <1>9, HandlerKeeps DEF RxSample
    <2>2. pc' \in {"out", "sample"}  BY <1>9 DEF RxSample
    <2>3. QED
      BY <1>9, <2>1, <2>2 DEF RxSample, config, sender, OtherTypes,
                              CodeHolds, Holds, Full, buffered
  <1>10. CASE Advance
    <2>1. PICK n \in Pending :
             /\ n > 0 /\ \A m \in Pending : n <= m
             /\ signal' = IF signal = <<>> THEN signal
                          ELSE <<<<level, Head(signal)[2] - n>>>> \o Tail(signal)
             /\ wait' = IF Sampling THEN wait - n ELSE wait
      BY <1>10 DEF Advance
    <2>2. n \in Nat
      <3>1. signal # <<>> => Head(signal)[2] \in Nat
        <4>1. signal # <<>> => Head(signal) \in Levels  BY DEF OtherTypes
        <4>2. QED  BY <4>1 DEF Levels
      <3>2. wait \in Nat  BY RxAssumption DEF RxAssumption, HandlerTypes
      <3>3. QED  BY <2>1, <3>1, <3>2 DEF Pending
    <2>3. signal' \in Seq(Levels)
      <3>1. CASE signal = <<>>  BY <2>1, <3>1 DEF OtherTypes
      <3>2. CASE signal # <<>>
        <4>1. n <= Head(signal)[2]  BY <2>1, <3>2 DEF Pending
        <4>2. level = Head(signal)[1]  BY <3>2 DEF level
        <4>3. signal' = <<<<Head(signal)[1], Head(signal)[2] - n>>>> \o Tail(signal)
          BY <2>1, <3>2, <4>2
        <4>4. QED  BY <2>2, <3>2, <4>1, <4>3, Shortened DEF OtherTypes
      <3>3. QED  BY <3>1, <3>2
    <2>4. wait' \in 0 .. BitTicks
      <3>1. BitTicks \in Nat /\ wait \in 0 .. BitTicks
        BY RxAssumption DEF RxAssumption, HandlerTypes
      <3>2. Sampling => n <= wait  BY <2>1 DEF Pending
      <3>3. QED  BY <2>1, <2>2, <3>1, <3>2
    <2>5. QED
      BY <1>10, <2>3, <2>4 DEF Advance, config, uart, HandlerTypes, OtherTypes,
                               CodeHolds, Holds, Full, buffered
  <1>11. QED
    BY <1>1, <1>2, <1>3, <1>4, <1>5, <1>6, <1>7, <1>8, <1>9, <1>10 DEF Next

-----------------------------------------------------------------------------
(* The theorems.                                                           *)

\* The handler and uart_rx, in any interleaving, keep the strengthened invariant.
THEOREM Invariance == Spec => []Inv
  <1>1. QED  BY Initially, Steps, PTL DEF Spec

\* Every variable keeps its type: the byte gathered fits num_data_bits, the FIFO
\* its buffer, and the time to the next sample is at most a bit.
THEOREM TypeCorrect == Spec => []TypeOK
  <1>1. Inv => TypeOK
    <2>1. SUFFICES ASSUME Inv PROVE TypeOK  OBVIOUS
    <2>2. uart_data \in 0 .. 2^NumDataBits - 1  BY <2>1, DataFits DEF Inv, HandlerTypes
    <2>3. QED  BY <2>1, <2>2 DEF Inv, HandlerTypes, OtherTypes, TypeOK
  <1>2. QED  BY <1>1, Invariance, PTL

\* The error callback uart_rx makes on an empty FIFO is told what is so when it is
\* made, with any interrupts, frames and errors since the FIFO was found empty.
THEOREM EmptyTold == Spec => ToldHolds
  <1>1. Inv /\ [Next]_vars => [pc = "underrun" /\ pc' # "underrun" => Holds(told')]_vars
    <2>1. SUFFICES ASSUME Inv, Next, pc = "underrun", pc' # "underrun" PROVE Holds(told')
      OBVIOUS
    <2>2. RxTell
      BY <2>1 DEF Next, SendFrame, NextLevel, Isr, RxPop, RxTell, RxCall, RxEdge, RxSample,
                  Advance, Inv, CodeHolds
    <2>3. Holds(cb_code) /\ Holds("UNDERRUN_ERROR")  BY <2>1 DEF Inv, CodeHolds, Holds
    <2>4. QED  BY <2>2, <2>3 DEF RxTell
  <1>2. QED  BY <1>1, Invariance, PTL DEF Spec, ToldHolds

-----------------------------------------------------------------------------
(* Frames: sender and handler in step.  The time since the falling edge is *)
(* the same counted in the bits of the one and in the samples of the other; *)
(* SamplesInside then puts each sample in the bit it is meant for.         *)

(* The samples of a frame are numbered from 0, the start bit's, to LastSample,   *)
(* the stop bit's; Taken is the number of those already taken.             *)

LastSample == IF parity = "none" THEN NumDataBits + 1 ELSE NumDataBits + 2

Taken == IF state = "START" THEN 0
         ELSE IF state = "DATA" THEN 1 + current_data_bit
         ELSE IF state = "PARITY" THEN NumDataBits + 1
         ELSE LastSample

\* The level of bit k of the frame sent last.
FrameLevel(k) ==
    IF k = 0 THEN 0
    ELSE IF k <= NumDataBits THEN Bit(frame.data, k - 1)
    ELSE IF k = LastSample THEN (IF frame.kind = "framing" THEN 0 ELSE 1)
    ELSE IF frame.kind = "parity" THEN 1 - ParityBit(frame.data)
    ELSE ParityBit(frame.data)

\* What a sender with bits of s ticks still drives, r ticks before the end of bit p.
Driven(p, r, s) ==
    /\ Len(signal) = LastSample + 1 - p + (IF frame.kind = "framing" THEN 1 ELSE 0)
    /\ signal[1] = <<FrameLevel(p), r>>
    /\ \A k \in p + 1 .. LastSample : signal[k + 1 - p] = <<FrameLevel(k), s>>
    /\ frame.kind = "framing" => signal[LastSample + 2 - p] = Recovery

\* A pulse, or a stop bit that is low, and the idle time behind it.
Low(r) == signal = <<<<0, r>>, Recovery>>
High(r) == signal = <<<<1, r>>>>

\* The ticks until the sender is done (of what Low and High describe), and those
\* until the handler is.
Left == IF signal = <<>> THEN 0
        ELSE IF Len(signal) = 1 THEN signal[1][2] ELSE signal[1][2] + Recovery[2]
Needed == wait + (LastSample - Taken) * BitTicks

(* The frame is sent and its start bit not yet noticed.                    *)
Ready ==
    /\ state = "IDLE" /\ report = <<>>
    /\ ~buffered => pc = "wait"
    /\ \/ frame.kind = "glitch" /\ Low(GlitchTicks)
       \/ /\ frame.kind \in {"good", "parity", "framing"}
          /\ \E s \in SenderTicks : Driven(0, s, s)

(* The handler takes samples, each inside its bit.                         *)
Receiving ==
    /\ state # "IDLE"
    /\ frame.kind \in {"good", "parity", "framing"}
    /\ \E s \in SenderTicks, p \in 0 .. LastSample : \E r \in 0 .. s :
          /\ Driven(p, r, s)
          /\ (p + 1) * s - r = HalfBit + Taken * BitTicks - wait
    /\ state = "DATA" => uart_data = frame.data % 2^current_data_bit
    /\ state \in {"PARITY", "STOP"} => uart_data = frame.data
    /\ report = IF state = "STOP" /\ frame.kind = "parity" THEN <<Error("PARITY_ERROR")>>
                ELSE <<>>

(* The handler has taken a pulse for a start bit: it is over at the sample.*)
Glitching ==
    /\ state = "START" /\ frame.kind = "glitch" /\ report = <<>>
    /\ \/ \E r \in Nat : Low(r) /\ r < wait
       \/ \E r \in Nat : High(r)
    /\ Needed < Left

(* The frame is reported.  Behind a low stop bit or a pulse the handler    *)
(* may still sample, but not until the sender goes on.                     *)
After ==
    /\ Reported
    /\ \/ signal = <<>>
       \/ \E r \in Nat : High(r)
       \/ frame.kind = "framing" /\ \E r \in Nat : Low(r)
    /\ state # "IDLE" => frame.kind \in {"framing", "glitch"} /\ Needed < Left

(* Which interrupt is on, and where uart_rx is, tell whether samples are   *)
(* being taken.                                                            *)
ModeInv ==
    /\ buffered => /\ pc \in {"out", "underrun"}
                   /\ port_trigger = (state = "IDLE") /\ timer_trigger = (state # "IDLE")
    /\ ~buffered => /\ pc \in {"out", "wait", "sample"} /\ (pc = "sample" <=> state # "IDLE")
                    /\ ~port_trigger /\ ~timer_trigger

Items == {Byte(d) : d \in Nat} \union {Error(c) : c \in Codes}

FrameTypes ==
    /\ frame.kind \in {"none", "good", "parity", "framing", "glitch"}
    /\ frame.kind \in {"good", "parity", "framing"} => frame.data \in Data
    /\ frame.kind = "parity" => parity # "none"
    /\ state = "PARITY" => parity # "none"
    /\ report \in Seq(Items)

FrameInv == FrameTypes /\ ModeInv /\ (Ready \/ Receiving \/ Glitching \/ After)

-----------------------------------------------------------------------------
(* Numbers.                                                                *)

LEMMA Parameters ==
    /\ NumDataBits \in 1 .. 8 /\ BitTicks \in Nat /\ HalfBit \in Nat /\ HalfBit < BitTicks
    /\ GlitchTicks \in Nat /\ 0 < GlitchTicks /\ GlitchTicks < HalfBit
    /\ \A s \in SenderTicks : s \in Nat /\ s > 0
    /\ \A d \in Data : d \in Nat /\ d < 2^NumDataBits
    /\ (NumDataBits + 4) * BitTicks \in Nat
    /\ Recovery[1] = 1 /\ Recovery[2] = (NumDataBits + 4) * BitTicks
  <1>1. /\ NumDataBits \in 1 .. 8 /\ BitTicks \in Nat /\ HalfBit \in Nat
        /\ HalfBit < BitTicks /\ GlitchTicks \in Nat /\ 0 < GlitchTicks
        /\ GlitchTicks < HalfBit /\ \A s \in SenderTicks : s \in Nat /\ s > 0
    BY RxAssumption DEF RxAssumption, HalfBit
  <1>2. \A d \in Data : d \in Nat /\ d < 2^NumDataBits
    <2>0. NumDataBits \in 0 .. 8  BY <1>1
    <2>1. PICK b \in Nat : b = 2^NumDataBits  BY <2>0, PowerNat
    <2>2. Data \subseteq 0 .. b - 1  BY <2>1, RxAssumption DEF RxAssumption
    <2>3. \A d \in Data : d \in Nat /\ d < b  BY <2>1, <2>2
    <2>4. QED  BY <2>1, <2>3
  <1>3. \A a, b \in Nat : a * b \in Nat  OBVIOUS
  <1>4. NumDataBits + 4 \in Nat  BY <1>1
  <1>5. (NumDataBits + 4) * BitTicks \in Nat  BY <1>1, <1>3, <1>4
  <1>6. Recovery[1] = 1 /\ Recovery[2] = (NumDataBits + 4) * BitTicks
    <2>1. PICK t \in Nat : t = (NumDataBits + 4) * BitTicks  BY <1>5
    <2>2. Recovery = <<1, t>>  BY <2>1 DEF Recovery
    <2>3. QED  BY <2>1, <2>2
  <1>7. QED  BY <1>1, <1>2, <1>5, <1>6

\* An instant inside bit q is in no other bit.
LEMMA InsideBit ==
    \A s, p, q, r, t \in Nat :
        r <= s /\ (p + 1) * s - r = t /\ q * s < t /\ t < (q + 1) * s => p = q
  <1>1. TAKE s, p, q, r, t \in Nat
  <1>2. HAVE r <= s /\ (p + 1) * s - r = t /\ q * s < t /\ t < (q + 1) * s
  <1>3. \A a, b, c \in Nat : a <= b => a * c <= b * c  OBVIOUS
  <1>4. \A a, c \in Nat : a * c \in Nat /\ (a + 1) * c = a * c + c  OBVIOUS
  <1>5. (p + 1) * s = p * s + s /\ p * s \in Nat /\ q * s \in Nat /\ (q + 1) * s \in Nat
    BY <1>4
  <1>6. ~(p < q)
    <2>1. p < q => p + 1 <= q  OBVIOUS
    <2>2. p < q => (p + 1) * s <= q * s  BY <1>3, <2>1
    <2>3. QED  BY <1>2, <1>5, <2>2
  <1>7. ~(q < p)
    <2>1. q < p => q + 1 <= p  OBVIOUS
    <2>2. q < p => (q + 1) * s <= p * s  BY <1>3, <2>1
    <2>3. QED  BY <1>2, <1>5, <2>2
  <1>8. QED  BY <1>6, <1>7

\* The bits gathered are the low bits of the byte, one more with every sample.
LEMMA LowBits ==
    \A d \in Nat, c \in 0 .. 7 : d % 2^(c + 1) = (d % 2^c) + Bit(d, c) * 2^c
  <1>1. TAKE d \in Nat, c \in 0 .. 7
  <1>2. PICK m \in 0 .. 8 : m = c + 1  OBVIOUS
  <1>3. PICK a : a = 2^c  OBVIOUS
  <1>4. PICK b : b = 2^m  OBVIOUS
  <1>5. IsPower(c, a) /\ IsPower(m, b)
    <2>1. c \in 0 .. 8  OBVIOUS
    <2>2. QED  BY <1>3, <1>4, <2>1, PowerTable
  <1>6. d % b = (d % a) + ((d \div a) % 2) * a
    <2>1. /\ d % 2 = (d % 1) + ((d \div 1) % 2) * 1
          /\ d % 4 = (d % 2) + ((d \div 2) % 2) * 2
          /\ d % 8 = (d % 4) + ((d \div 4) % 2) * 4
          /\ d % 16 = (d % 8) + ((d \div 8) % 2) * 8
      OBVIOUS
    <2>2. /\ d % 32 = (d % 16) + ((d \div 16) % 2) * 16
          /\ d % 64 = (d % 32) + ((d \div 32) % 2) * 32
          /\ d % 128 = (d % 64) + ((d \div 64) % 2) * 64
          /\ d % 256 = (d % 128) + ((d \div 128) % 2) * 128
      OBVIOUS
    <2>3. QED  BY <1>2, <1>5, <2>1, <2>2 DEF IsPower
  <1>7. Bit(d, c) = (d \div a) % 2  BY <1>3 DEF Bit
  <1>8. QED  BY <1>2, <1>3, <1>4, <1>6, <1>7

LEMMA AllBits == \A d \in Data : d % 2^0 = 0 /\ d % 2^NumDataBits = d
  <1>1. TAKE d \in Data
  <1>2. d \in Nat /\ d < 2^NumDataBits /\ NumDataBits \in 0 .. 8  BY Parameters
  <1>3. PICK b : b = 2^NumDataBits  OBVIOUS
  <1>4. b \in Nat \ {0}  BY <1>2, <1>3, PowerNat
  <1>5. \A x \in Nat, y \in Nat \ {0} : x < y => x % y = x  OBVIOUS
  <1>6. d % b = d  BY <1>2, <1>3, <1>4, <1>5
  <1>7. 2^0 = 1 /\ d % 1 = 0  BY <1>2
  <1>8. d % 2^0 = 0  BY <1>7
  <1>9. QED  BY <1>3, <1>6, <1>8

-----------------------------------------------------------------------------
(* Samples, and the time they take.                                        *)

LEMMA SampleRange ==
    ASSUME HandlerTypes, OtherTypes, FrameTypes
    PROVE  /\ LastSample \in 2 .. NumDataBits + 2 /\ NumDataBits + 1 <= LastSample
           /\ LastSample <= NumDataBits + (IF Parities \subseteq {"none"} THEN 1 ELSE 2)
           /\ Taken \in 0 .. LastSample
  <1>1. NumDataBits \in 1 .. 8  BY Parameters
  <1>2. parity \in Parities  BY DEF OtherTypes
  <1>3. CASE parity = "none"
    <2>1. LastSample = NumDataBits + 1  BY <1>3 DEF LastSample
    <2>2. state # "PARITY"  BY <1>3 DEF FrameTypes
    <2>3. Taken \in 0 .. LastSample  BY <1>1, <2>1, <2>2 DEF Taken, HandlerTypes
    <2>4. QED  BY <1>1, <2>1, <2>3
  <1>4. CASE parity # "none"
    <2>1. LastSample = NumDataBits + 2  BY <1>4 DEF LastSample
    <2>2. ~(Parities \subseteq {"none"})  BY <1>2, <1>4
    <2>3. Taken \in 0 .. LastSample  BY <1>1, <2>1 DEF Taken, HandlerTypes
    <2>4. QED  BY <1>1, <2>1, <2>2, <2>3
  <1>5. QED  BY <1>3, <1>4

LEMMA NeededType ==
    ASSUME HandlerTypes, OtherTypes, FrameTypes
    PROVE  /\ wait \in Nat /\ (LastSample - Taken) * BitTicks \in Nat
           /\ Needed = wait + (LastSample - Taken) * BitTicks
           /\ LastSample * BitTicks \in Nat
           /\ LastSample * BitTicks + HalfBit < (NumDataBits + 4) * BitTicks
  <1>1. \A a, b \in Nat : a * b \in Nat  OBVIOUS
  <1>2. BitTicks \in Nat /\ HalfBit \in Nat /\ HalfBit < BitTicks /\ NumDataBits \in Nat
    BY Parameters
  <1>3. LastSample \in Nat /\ LastSample - Taken \in Nat /\ LastSample <= NumDataBits + 2
    BY <1>2, SampleRange
  <1>4. wait \in Nat  BY <1>2 DEF HandlerTypes
  <1>5. \A a, b, c \in Nat : a <= b => a * c <= b * c  OBVIOUS
  <1>6. LastSample * BitTicks <= (NumDataBits + 2) * BitTicks  BY <1>2, <1>3, <1>5
  <1>7. \A a, c \in Nat : (a + 4) * c = (a + 2) * c + 2 * c /\ (a + 2) * c \in Nat  OBVIOUS
  <1>8. (NumDataBits + 4) * BitTicks = (NumDataBits + 2) * BitTicks + 2 * BitTicks
        /\ (NumDataBits + 2) * BitTicks \in Nat
    BY <1>2, <1>7
  <1>9. (LastSample - Taken) * BitTicks \in Nat /\ LastSample * BitTicks \in Nat
    BY <1>1, <1>2, <1>3
  <1>10. QED  BY <1>2, <1>4, <1>6, <1>8, <1>9 DEF Needed

LEMMA LeftType ==
    ASSUME OtherTypes, signal = <<>> \/ (\E r \in Nat : High(r)) \/ (\E r \in Nat : Low(r))
    PROVE  /\ Left \in Nat
           /\ signal = <<>> => Left = 0
           /\ \A r \in Nat : High(r) => signal # <<>> /\ level = 1 /\ Left = r
           /\ \A r \in Nat : Low(r) =>
                 signal # <<>> /\ level = 0 /\ Left = r + (NumDataBits + 4) * BitTicks
  <1>1. (NumDataBits + 4) * BitTicks \in Nat /\ Recovery[2] = (NumDataBits + 4) * BitTicks
    BY Parameters
  <1>2. signal = <<>> => Left = 0  BY DEF Left
  <1>3. ASSUME NEW r \in Nat, High(r)
        PROVE  signal # <<>> /\ level = 1 /\ Left = r
    <2>1. signal = <<<<1, r>>>>  BY <1>3 DEF High
    <2>2. Len(signal) = 1 /\ signal[1] = <<1, r>> /\ Head(signal) = <<1, r>> /\ signal # <<>>
      BY <2>1
    <2>3. QED  BY <2>2 DEF level, Left
  <1>4. ASSUME NEW r \in Nat, Low(r)
        PROVE  signal # <<>> /\ level = 0 /\ Left = r + (NumDataBits + 4) * BitTicks
    <2>1. PICK R : R = Recovery  OBVIOUS
    <2>2. signal = <<<<0, r>>, R>>  BY <1>4, <2>1 DEF Low
    <2>3. Len(signal) = 2 /\ signal[1] = <<0, r>> /\ Head(signal) = <<0, r>> /\ signal # <<>>
      BY <2>2
    <2>4. QED  BY <1>1, <2>3 DEF level, Left
  <1>5. Left \in Nat  BY <1>1, <1>2, <1>3, <1>4
  <1>6. QED  BY <1>2, <1>3, <1>4, <1>5

\* Every sample but that of the stop bit is followed by another, a bit later.
LEMMA SampleCounts ==
    ASSUME HandlerTypes, OtherTypes, FrameTypes, Sample, UNCHANGED config
    PROVE  \/ StopBit
           \/ /\ Taken' = Taken + 1 /\ wait' = BitTicks /\ Taken + 1 <= LastSample
              /\ state' # "IDLE"
  <1>1. NumDataBits \in 1 .. 8 /\ BitTicks \in Nat  BY Parameters
  <1>2. LastSample' = LastSample  BY DEF LastSample, config
  <1>3. LastSample \in Nat /\ Taken \in 0 .. LastSample  BY <1>1, SampleRange
  <1>4. CASE StartBit
    <2>1. Taken = 0 /\ Taken' = 1 /\ wait' = BitTicks /\ state' # "IDLE"
      BY <1>4 DEF StartBit, Taken
    <2>2. LastSample >= 2  BY SampleRange, <1>1
    <2>3. QED  BY <1>3, <2>1, <2>2
  <1>5. CASE DataBit
    <2>1. state = "DATA" /\ wait' = BitTicks /\ current_data_bit' = current_data_bit + 1
      BY <1>5 DEF DataBit
    <2>2. current_data_bit \in 0 .. NumDataBits /\ current_data_bit < NumDataBits
      BY <2>1 DEF HandlerTypes
    <2>3. Taken = 1 + current_data_bit  BY <2>1 DEF Taken
    <2>4. Taken + 1 <= LastSample /\ Taken + 1 = 1 + current_data_bit'
      BY <1>1, <2>1, <2>2, <2>3, SampleRange
    <2>5. CASE current_data_bit' # NumDataBits
      <3>1. state' = "DATA"  BY <1>5, <2>5 DEF DataBit
      <3>2. Taken' = 1 + current_data_bit'  BY <3>1 DEF Taken
      <3>3. QED  BY <2>1, <2>4, <3>1, <3>2
    <2>6. CASE current_data_bit' = NumDataBits /\ parity = "none"
      <3>1. state' = "STOP"  BY <1>5, <2>6 DEF DataBit
      <3>2. Taken' = LastSample  BY <1>2, <3>1 DEF Taken
      <3>3. LastSample = NumDataBits + 1  BY <2>6 DEF LastSample
      <3>4. Taken' = Taken + 1  BY <1>1, <2>4, <2>6, <3>2, <3>3
      <3>5. QED  BY <2>1, <2>4, <3>1, <3>4
    <2>7. CASE current_data_bit' = NumDataBits /\ parity # "none"
      <3>1. state' = "PARITY"  BY <1>5, <2>7 DEF DataBit
      <3>2. Taken' = NumDataBits + 1  BY <3>1 DEF Taken
      <3>3. Taken' = Taken + 1  BY <1>1, <2>4, <2>7, <3>2
      <3>4. QED  BY <2>1, <2>4, <3>1, <3>3
    <2>8. QED  BY <2>5, <2>6, <2>7
  <1>6. CASE Parity
    <2>1. state = "PARITY" /\ state' = "STOP" /\ wait' = BitTicks  BY <1>6 DEF Parity
    <2>2. parity # "none"  BY <2>1 DEF FrameTypes
    <2>3. LastSample = NumDataBits + 2  BY <2>2 DEF LastSample
    <2>4. Taken = NumDataBits + 1 /\ Taken' = LastSample  BY <1>2, <2>1 DEF Taken
    <2>5. QED  BY <1>1, <2>1, <2>3, <2>4
  <1>7. QED  BY <1>4, <1>5, <1>6 DEF Sample

\* A sample more and a bit less to wait: what the handler needs is the same.
LEMMA SampleNeeds ==
    ASSUME HandlerTypes, OtherTypes, FrameTypes, Sample, wait = 0,
           UNCHANGED config
    PROVE  state # "IDLE" /\ (state' = "IDLE" \/ Needed' = Needed)
  <1>1. NumDataBits \in 1 .. 8 /\ BitTicks \in Nat  BY Parameters
  <1>2. LastSample' = LastSample  BY DEF LastSample, config
  <1>3. LastSample \in Nat /\ Taken \in 0 .. LastSample  BY <1>1, SampleRange
  <1>4. state # "IDLE"  BY DEF Sample, StartBit, DataBit, Parity, StopBit
  <1>5. CASE StopBit  BY <1>4, <1>5 DEF StopBit
  <1>6. ASSUME Taken' = Taken + 1, wait' = BitTicks, Taken + 1 <= LastSample
        PROVE  Needed' = Needed
    <2>1. \A a, c \in Nat : a >= 1 => a * c = (a - 1) * c + c /\ (a - 1) * c \in Nat
      <3>1. TAKE a, c \in Nat
      <3>2. HAVE a >= 1
      <3>3. PICK b \in Nat : a = b + 1  BY <3>2
      <3>4. (b + 1) * c = b * c + c /\ b * c \in Nat  OBVIOUS
      <3>5. a - 1 = b  BY <3>3
      <3>6. QED  BY <3>3, <3>4, <3>5
    <2>2. PICK a \in Nat : a = LastSample - Taken /\ a >= 1  BY <1>3, <1>6
    <2>3. LastSample - Taken' = a - 1  BY <1>3, <1>6, <2>2
    <2>4. Needed' = BitTicks + (a - 1) * BitTicks  BY <1>2, <1>6, <2>3 DEF Needed
    <2>5. Needed = 0 + a * BitTicks  BY <2>2 DEF Needed
    <2>6. QED  BY <1>1, <2>1, <2>2, <2>4, <2>5
  <1>7. QED  BY <1>4, <1>5, <1>6, SampleCounts

-----------------------------------------------------------------------------
(* The line.                                                               *)

LEMMA Joined ==
    ASSUME NEW S, NEW a \in Seq(S), NEW b \in Seq(S)
    PROVE  /\ a \o b \in Seq(S) /\ Len(a \o b) = Len(a) + Len(b)
           /\ \A i \in 1 .. Len(a) : (a \o b)[i] = a[i]
           /\ \A i \in 1 .. Len(b) : (a \o b)[Len(a) + i] = b[i]
  OBVIOUS

LEMMA SameLevels ==
    ASSUME UNCHANGED <<config, frame>>
    PROVE  /\ LastSample' = LastSample
           /\ \A d : ParityBit(d)' = ParityBit(d)
           /\ \A k : FrameLevel(k)' = FrameLevel(k)
  <1>1. parity' = parity /\ frame' = frame  BY DEF config
  <1>2. LastSample' = LastSample  BY <1>1 DEF LastSample
  <1>3. \A d : ParityBit(d)' = ParityBit(d)  BY <1>1 DEF ParityBit
  <1>4. \A k : FrameLevel(k)' = FrameLevel(k)
    BY <1>1, <1>2, <1>3 DEF FrameLevel
  <1>5. QED  BY <1>2, <1>3, <1>4

LEMMA FrameSent ==
    ASSUME NEW kind \in {"good", "parity", "framing"}, NEW d \in Data,
           NEW s \in SenderTicks, OtherTypes, SendFrame(kind, d, s)
    PROVE  Driven(0, s, s)'
  <1>1. NumDataBits \in 1 .. 8 /\ s \in Nat /\ d \in Nat  BY Parameters
  <1>2. signal' = Signal(kind, d, s) /\ frame' = [kind |-> kind, data |-> d]
        /\ parity' = parity
    BY DEF SendFrame, config
  <1>3. ParityBit(d)' = ParityBit(d)  BY <1>2 DEF ParityBit
  <1>4. LastSample' = LastSample  BY <1>2 DEF LastSample
  <1>5. PICK S, word, par, stop :
           /\ S = Levels \cup {Recovery}
           /\ word = [i \in 1 .. NumDataBits |-> <<Bit(d, i - 1), s>>]
           /\ par = IF parity = "none" THEN <<>>
                    ELSE IF kind = "parity" THEN <<<<1 - ParityBit(d), s>>>>
                    ELSE <<<<ParityBit(d), s>>>>
           /\ stop = IF kind = "framing" THEN <<<<0, s>>, Recovery>> ELSE <<<<1, s>>>>
           /\ signal' = <<<<0, s>>>> \o word \o par \o stop
    BY <1>2 DEF Signal
  <1>6. \A k : FrameLevel(k)' =
           IF k = 0 THEN 0
           ELSE IF k <= NumDataBits THEN Bit(d, k - 1)
           ELSE IF k = LastSample THEN (IF kind = "framing" THEN 0 ELSE 1)
           ELSE IF kind = "parity" THEN 1 - ParityBit(d) ELSE ParityBit(d)
    BY <1>2, <1>3, <1>4 DEF FrameLevel
  <1>7. word \in Seq(S) /\ Len(word) = NumDataBits
        /\ \A i \in 1 .. NumDataBits : word[i] = <<Bit(d, i - 1), s>>
    <2>1. \A i \in 1 .. NumDataBits : Bit(d, i - 1) \in {0, 1}
      <3>1. TAKE i \in 1 .. NumDataBits
      <3>2. i - 1 \in 0 .. 8  BY <1>1
      <3>3. QED  BY <1>1, <3>2, Bits
    <2>2. \A i \in 1 .. NumDataBits : <<Bit(d, i - 1), s>> \in S
      BY <1>1, <1>5, <2>1, OneLevel
    <2>3. QED  BY <1>1, <1>5, <2>2
  <1>8. /\ par \in Seq(S) /\ Len(par) = LastSample - NumDataBits - 1
        /\ parity # "none" =>
              par[1] = <<IF kind = "parity" THEN 1 - ParityBit(d) ELSE ParityBit(d), s>>
    <2>1. CASE parity = "none"
      <3>1. par = <<>>  BY <1>5, <2>1
      <3>2. LastSample = NumDataBits + 1  BY <2>1 DEF LastSample
      <3>3. QED  BY <1>1, <2>1, <3>1, <3>2
    <2>2. CASE parity # "none"
      <3>1. PICK p \in {0, 1} : p = IF kind = "parity" THEN 1 - ParityBit(d) ELSE ParityBit(d)
        <4>1. PICK q \in {0, 1} : q = ParityBit(d)  BY ParityBits
        <4>2. 1 - q \in {0, 1}  OBVIOUS
        <4>3. QED  BY <4>1, <4>2
      <3>2. par = <<<<p, s>>>>  BY <1>5, <2>2, <3>1
      <3>3. <<p, s>> \in S  BY <1>1, <1>5, OneLevel
      <3>4. LastSample = NumDataBits + 2  BY <2>2 DEF LastSample
      <3>5. QED  BY <1>1, <3>1, <3>2, <3>3, <3>4
    <2>3. QED  BY <2>1, <2>2
  <1>9. /\ stop \in Seq(S) /\ Len(stop) = 1 + (IF kind = "framing" THEN 1 ELSE 0)
        /\ stop[1] = <<IF kind = "framing" THEN 0 ELSE 1, s>>
        /\ kind = "framing" => stop[2] = Recovery
    <2>1. <<0, s>> \in S /\ <<1, s>> \in S /\ Recovery \in S  BY <1>1, <1>5, OneLevel
    <2>2. PICK R \in S : R = Recovery  BY <2>1
    <2>3. CASE kind = "framing"
      <3>1. stop = <<<<0, s>>, R>>  BY <1>5, <2>2, <2>3
      <3>2. QED  BY <2>1, <2>2, <2>3, <3>1
    <2>4. CASE kind # "framing"
      <3>1. stop = <<<<1, s>>>>  BY <1>5, <2>4
      <3>2. QED  BY <2>1, <2>4, <3>1
    <2>5. QED  BY <2>3, <2>4
  <1>10. <<<<0, s>>>> \in Seq(S)  BY <1>1, <1>5, OneLevel
  <1>11. LastSample \in {NumDataBits + 1, NumDataBits + 2}
         /\ (LastSample = NumDataBits + 2 <=> parity # "none")
    BY <1>1 DEF LastSample
  <1>12. /\ Len(signal') = LastSample + 1 + (IF kind = "framing" THEN 1 ELSE 0)
         /\ signal'[1] = <<0, s>>
         /\ \A i \in 1 .. NumDataBits : signal'[i + 1] = <<Bit(d, i - 1), s>>
         /\ parity # "none" => signal'[NumDataBits + 2] = par[1]
         /\ signal'[LastSample + 1] = stop[1]
         /\ kind = "framing" => signal'[LastSample + 2] = stop[2]
    <2>1. PICK A \in Seq(S) : A = <<<<0, s>>>> /\ Len(A) = 1 /\ A[1] = <<0, s>>
      BY <1>10
    <2>2. PICK B : B = A \o word  OBVIOUS
    <2>3. /\ B \in Seq(S) /\ Len(B) = NumDataBits + 1 /\ B[1] = <<0, s>>
          /\ \A i \in 1 .. NumDataBits : B[i + 1] = word[i]
      <3>1. /\ B \in Seq(S) /\ Len(B) = 1 + Len(word)
            /\ \A i \in 1 .. Len(A) : B[i] = A[i]
            /\ \A i \in 1 .. Len(word) : B[Len(A) + i] = word[i]
        BY <1>7, <2>1, <2>2, Joined
      <3>2. \A i \in 1 .. NumDataBits : B[i + 1] = word[i]
        BY <1>1, <1>7, <2>1, <3>1
      <3>3. QED  BY <1>1, <1>7, <2>1, <3>1, <3>2
    <2>4. PICK C : C = B \o par  OBVIOUS
    <2>5. /\ Len(C) = LastSample
          /\ C \in Seq(S) /\ \A i \in 1 .. NumDataBits + 1 : C[i] = B[i]
          /\ parity # "none" => C[NumDataBits + 2] = par[1]
      <3>0. /\ C \in Seq(S) /\ Len(C) = Len(B) + Len(par)
            /\ \A i \in 1 .. Len(B) : C[i] = B[i]
            /\ \A i \in 1 .. Len(par) : C[Len(B) + i] = par[i]
        <4>1. B \in Seq(S) /\ par \in Seq(S)  BY <1>8, <2>3
        <4>2. QED  BY <2>4, <4>1, Joined
      <3>1. Len(C) = LastSample  BY <1>1, <1>8, <1>11, <2>3, <3>0
      <3>2. ASSUME parity # "none" PROVE C[NumDataBits + 2] = par[1]
        <4>1. Len(par) = 1  BY <1>1, <1>8, <1>11, <3>2
        <4>2. C[Len(B) + 1] = par[1]  BY <3>0, <4>1
        <4>3. NumDataBits + 2 = Len(B) + 1  BY <1>1, <2>3
        <4>4. QED  BY <4>2, <4>3
      <3>3. QED  BY <2>3, <3>0, <3>1, <3>2
    <2>6. signal' = C \o stop  BY <1>5, <2>1, <2>2, <2>4
    <2>7. /\ Len(signal') = LastSample + Len(stop)
          /\ \A i \in 1 .. LastSample : signal'[i] = C[i]
          /\ \A i \in 1 .. Len(stop) : signal'[LastSample + i] = stop[i]
      <3>1. C \in Seq(S) /\ stop \in Seq(S)  BY <1>9, <2>5
      <3>2. /\ Len(C \o stop) = Len(C) + Len(stop)
            /\ \A i \in 1 .. Len(C) : (C \o stop)[i] = C[i]
            /\ \A i \in 1 .. Len(stop) : (C \o stop)[Len(C) + i] = stop[i]
        BY <3>1, Joined
      <3>3. QED  BY <2>5, <2>6, <3>2
    <2>8. signal'[1] = <<0, s>>
          /\ \A i \in 1 .. NumDataBits : signal'[i + 1] = <<Bit(d, i - 1), s>>
      BY <1>1, <1>7, <1>11, <2>3, <2>5, <2>7
    <2>9. parity # "none" => signal'[NumDataBits + 2] = par[1]
      BY <1>1, <1>11, <2>5, <2>7
    <2>10. signal'[LastSample + 1] = stop[1]
           /\ (kind = "framing" => signal'[LastSample + 2] = stop[2])
      BY <1>9, <2>7
    <2>11. Len(signal') = LastSample + 1 + (IF kind = "framing" THEN 1 ELSE 0)
      BY <1>1, <1>9, <1>11, <2>7
    <2>12. QED  BY <2>8, <2>9, <2>10, <2>11
  <1>13. \A k \in 1 .. LastSample : signal'[k + 1] = <<FrameLevel(k)', s>>
    <2>1. TAKE k \in 1 .. LastSample
    <2>2. CASE k <= NumDataBits  BY <1>1, <1>6, <1>11, <1>12, <2>2
    <2>3. CASE k = LastSample  BY <1>1, <1>6, <1>9, <1>11, <1>12, <2>3
    <2>4. CASE k > NumDataBits /\ k # LastSample
      <3>1. k = NumDataBits + 1 /\ parity # "none"  BY <1>1, <1>11, <2>4
      <3>2. FrameLevel(k)' = IF kind = "parity" THEN 1 - ParityBit(d) ELSE ParityBit(d)
        BY <1>1, <1>6, <2>4, <3>1
      <3>3. signal'[NumDataBits + 2] = <<FrameLevel(k)', s>>  BY <1>8, <1>12, <3>1, <3>2
      <3>4. QED  BY <1>1, <3>1, <3>3
    <2>5. QED  BY <1>1, <1>11, <2>2, <2>3, <2>4
  <1>14. \A k \in 0 + 1 .. LastSample : signal'[k + 1 - 0] = <<FrameLevel(k)', s>>
    BY <1>1, <1>11, <1>13
  <1>15. signal'[1] = <<FrameLevel(0)', s>>  BY <1>6, <1>12
  <1>16. Len(signal') = LastSample + 1 - 0 + (IF kind = "framing" THEN 1 ELSE 0)
         /\ (kind = "framing" => signal'[LastSample + 2 - 0] = Recovery)
    BY <1>1, <1>9, <1>11, <1>12
  <1>17. Recovery' = Recovery /\ frame'.kind = kind  BY <1>2 DEF Recovery
  <1>18. QED  BY <1>4, <1>14, <1>15, <1>16, <1>17 DEF Driven

LEMMA Tails ==
    ASSUME NEW S, NEW q \in Seq(S), q # <<>>
    PROVE  /\ Len(q) \in Nat /\ Len(q) >= 1 /\ Head(q) = q[1]
           /\ Len(Tail(q)) = Len(q) - 1 /\ Tail(q) \in Seq(S)
           /\ \A i \in 1 .. Len(q) - 1 : Tail(q)[i] = q[i + 1]
  OBVIOUS

LEMMA Heads ==
    ASSUME NEW S, NEW q \in Seq(S), q # <<>>, NEW x \in S, NEW t, t = <<x>> \o Tail(q)
    PROVE  /\ Len(t) = Len(q) /\ t[1] = x
           /\ \A i \in 2 .. Len(q) : t[i] = q[i]
  <1>1. <<x>> \in Seq(S) /\ Len(<<x>>) = 1 /\ <<x>>[1] = x  OBVIOUS
  <1>2. /\ Len(t) = Len(<<x>>) + Len(Tail(q))
        /\ \A i \in 1 .. Len(<<x>>) : t[i] = <<x>>[i]
        /\ \A i \in 1 .. Len(Tail(q)) : t[Len(<<x>>) + i] = Tail(q)[i]
    BY <1>1, Tails, Joined
  <1>3. /\ Len(t) = 1 + Len(Tail(q)) /\ t[1] = x
        /\ \A i \in 1 .. Len(Tail(q)) : t[1 + i] = Tail(q)[i]
    BY <1>1, <1>2
  <1>4. \A i \in 2 .. Len(q) : t[i] = q[i]
    <2>1. TAKE i \in 2 .. Len(q)
    <2>2. PICK j \in 1 .. Len(q) - 1 : i = j + 1  BY Tails
    <2>3. t[1 + j] = Tail(q)[j] /\ Tail(q)[j] = q[j + 1]  BY <1>3, <2>2, Tails
    <2>4. QED  BY <2>2, <2>3
  <1>5. QED  BY <1>3, <1>4, Tails

\* A level and its time, out of the sequence.
LEMMA Parts ==
    ASSUME OtherTypes, signal # <<>>
    PROVE  /\ Head(signal) = signal[1] /\ level = signal[1][1] /\ level \in {0, 1}
           /\ signal[1][2] \in Nat /\ signal[1] = <<level, signal[1][2]>>
  <1>1. signal \in Seq(Levels)  BY DEF OtherTypes
  <1>2. Head(signal) = signal[1] /\ signal[1] \in Levels  BY <1>1
  <1>3. level = signal[1][1]  BY <1>2 DEF level
  <1>4. PICK v \in {0, 1}, m \in Nat : signal[1] = <<v, m>>  BY <1>2 DEF Levels
  <1>5. QED  BY <1>2, <1>3, <1>4

LEMMA DrivenLevel ==
    ASSUME HandlerTypes, OtherTypes, FrameTypes, NEW p \in 0 .. LastSample, NEW r \in Nat,
           NEW s, Driven(p, r, s)
    PROVE  /\ signal # <<>> /\ signal[1][2] = r /\ level = FrameLevel(p)
           /\ Len(signal) = LastSample + 1 - p + (IF frame.kind = "framing" THEN 1 ELSE 0)
  <1>1. signal \in Seq(Levels) /\ LastSample \in Nat
    BY SampleRange, Parameters DEF OtherTypes
  <1>2. Len(signal) = LastSample + 1 - p + (IF frame.kind = "framing" THEN 1 ELSE 0)
        /\ signal[1] = <<FrameLevel(p), r>>
    BY DEF Driven
  <1>3. signal # <<>>
    <2>1. Len(signal) # 0  BY <1>1, <1>2
    <2>2. QED  BY <2>1
  <1>4. QED  BY <1>2, <1>3, Parts

LEMMA DrivenLater ==
    ASSUME HandlerTypes, OtherTypes, FrameTypes, NEW p \in 0 .. LastSample, NEW r \in Nat,
           NEW s, Driven(p, r, s), UNCHANGED <<config, frame>>,
           NEW n \in Nat, n <= r,
           signal' = <<<<level, signal[1][2] - n>>>> \o Tail(signal)
    PROVE  Driven(p, r - n, s)'
  <1>1. signal \in Seq(Levels) /\ LastSample \in Nat
    BY SampleRange, Parameters DEF OtherTypes
  <1>2. signal # <<>> /\ signal[1][2] = r /\ level = FrameLevel(p) /\ level \in {0, 1}
    BY DrivenLevel, LevelType
  <1>3. r - n \in Nat  OBVIOUS
  <1>4. <<level, r - n>> \in Levels  BY <1>2, <1>3, OneLevel
  <1>5. /\ Len(signal') = Len(signal) /\ signal'[1] = <<level, r - n>>
        /\ \A i \in 2 .. Len(signal) : signal'[i] = signal[i]
    <2>1. signal' = <<<<level, r - n>>>> \o Tail(signal)  BY <1>2
    <2>2. QED  BY <1>1, <1>2, <1>4, <2>1, Heads
  <1>6. Len(signal) = LastSample + 1 - p + (IF frame.kind = "framing" THEN 1 ELSE 0)
    BY DEF Driven
  <1>7. LastSample' = LastSample /\ FrameLevel(p)' = FrameLevel(p)
        /\ \A k : FrameLevel(k)' = FrameLevel(k)
    BY SameLevels
  <1>8. \A k \in p + 1 .. LastSample : signal'[k + 1 - p] = <<FrameLevel(k)', s>>
    <2>1. TAKE k \in p + 1 .. LastSample
    <2>2. k + 1 - p \in 2 .. Len(signal)  BY <1>1, <1>6
    <2>3. signal[k + 1 - p] = <<FrameLevel(k), s>>  BY DEF Driven
    <2>4. signal'[k + 1 - p] = signal[k + 1 - p]  BY <1>5, <2>2
    <2>5. QED  BY <1>7, <2>3, <2>4
  <1>9. frame.kind = "framing" => signal'[LastSample + 2 - p] = Recovery
    <2>1. HAVE frame.kind = "framing"
    <2>2. LastSample + 2 - p \in 2 .. Len(signal)  BY <1>1, <1>6, <2>1
    <2>3. signal[LastSample + 2 - p] = Recovery  BY <2>1 DEF Driven
    <2>4. QED  BY <1>5, <2>2, <2>3
  <1>10. Recovery' = Recovery  BY DEF Recovery
  <1>11. frame' = frame  OBVIOUS
  <1>12. QED  BY <1>2, <1>5, <1>6, <1>7, <1>8, <1>9, <1>10, <1>11 DEF Driven

LEMMA DrivenNext ==
    ASSUME HandlerTypes, OtherTypes, FrameTypes, NEW p \in 0 .. LastSample, p < LastSample,
           NEW r \in Nat, NEW s, Driven(p, r, s), UNCHANGED <<config, frame>>,
           signal' = Tail(signal)
    PROVE  Driven(p + 1, s, s)'
  <1>1. signal \in Seq(Levels) /\ LastSample \in Nat
    BY SampleRange, Parameters DEF OtherTypes
  <1>2. signal # <<>>  BY DrivenLevel
  <1>3. Len(signal') = Len(signal) - 1
        /\ \A i \in 1 .. Len(signal) - 1 : signal'[i] = signal[i + 1]
    BY <1>1, <1>2, Tails
  <1>4. Len(signal) = LastSample + 1 - p + (IF frame.kind = "framing" THEN 1 ELSE 0)
    BY DEF Driven
  <1>5. LastSample' = LastSample /\ \A k : FrameLevel(k)' = FrameLevel(k)
    BY SameLevels
  <1>6. \A k \in p + 1 .. LastSample : signal'[k - p] = <<FrameLevel(k), s>>
    <2>1. TAKE k \in p + 1 .. LastSample
    <2>2. k - p \in 1 .. Len(signal) - 1 /\ k - p + 1 = k + 1 - p  BY <1>1, <1>4
    <2>3. signal[k + 1 - p] = <<FrameLevel(k), s>>  BY DEF Driven
    <2>4. QED  BY <1>3, <2>2, <2>3
  <1>7. signal'[1] = <<FrameLevel(p + 1)', s>>
    <2>1. PICK k \in p + 1 .. LastSample : k = p + 1  BY <1>1
    <2>2. k - p = 1  BY <1>1, <2>1
    <2>3. signal'[1] = <<FrameLevel(k), s>>
      <3>1. signal'[k - p] = <<FrameLevel(k), s>>  BY <1>6
      <3>2. QED  BY <2>2, <3>1
    <2>4. FrameLevel(k)' = FrameLevel(k)  BY <1>5
    <2>5. QED  BY <2>1, <2>3, <2>4
  <1>8. \A k \in p + 1 + 1 .. LastSample : signal'[k + 1 - (p + 1)] = <<FrameLevel(k)', s>>
    <2>1. TAKE k \in p + 1 + 1 .. LastSample
    <2>2. k \in p + 1 .. LastSample /\ k + 1 - (p + 1) = k - p  BY <1>1
    <2>3. QED  BY <1>5, <1>6, <2>2
  <1>9. frame.kind = "framing" => signal'[LastSample + 2 - (p + 1)] = Recovery
    <2>1. HAVE frame.kind = "framing"
    <2>2. LastSample + 2 - (p + 1) \in 1 .. Len(signal) - 1
          /\ LastSample + 2 - (p + 1) + 1 = LastSample + 2 - p
      BY <1>1, <1>4, <2>1
    <2>3. signal[LastSample + 2 - p] = Recovery  BY <2>1 DEF Driven
    <2>4. QED  BY <1>3, <2>2, <2>3
  <1>10. Recovery' = Recovery /\ frame' = frame  BY DEF Recovery
  <1>11. Len(signal') = LastSample + 1 - (p + 1) + (IF frame.kind = "framing" THEN 1 ELSE 0)
    BY <1>1, <1>3, <1>4
  <1>12. QED  BY <1>5, <1>7, <1>8, <1>9, <1>10, <1>11 DEF Driven

-----------------------------------------------------------------------------
(* What a sample finds and what is made of it.                             *)

\* Where a sample that is due is in the frame.
LEMMA SampleInBit ==
    ASSUME SamplesInside, HandlerTypes, OtherTypes, FrameTypes, wait = 0,
           NEW s \in SenderTicks, NEW p \in 0 .. LastSample, NEW r \in 0 .. s,
           (p + 1) * s - r = HalfBit + Taken * BitTicks - wait
    PROVE  p = Taken
  <1>1. s \in Nat /\ HalfBit \in Nat /\ BitTicks \in Nat /\ NumDataBits \in Nat  BY Parameters
  <1>2. /\ LastSample \in Nat /\ Taken \in 0 .. LastSample
        /\ Taken \in 0 .. NumDataBits + (IF Parities \subseteq {"none"} THEN 1 ELSE 2)
    BY <1>1, SampleRange
  <1>3. Taken * s < HalfBit + Taken * BitTicks /\ HalfBit + Taken * BitTicks < (Taken + 1) * s
    BY <1>2 DEF SamplesInside, HalfBit
  <1>4. \A a, b \in Nat : a * b \in Nat  OBVIOUS
  <1>5. Taken \in Nat /\ p \in Nat /\ r \in Nat /\ r <= s  BY <1>1, <1>2
  <1>6. PICK t \in Nat : t = HalfBit + Taken * BitTicks  BY <1>1, <1>4, <1>5
  <1>7. (p + 1) * s \in Nat  BY <1>1, <1>4, <1>5
  <1>8. (p + 1) * s - r = t
    <2>1. (p + 1) * s - r = t - wait
      BY <1>1, <1>2, <1>5, <1>6, <1>7
    <2>2. t - wait = t  BY <1>6
    <2>3. QED  BY <2>1, <2>2
  <1>9. QED  BY <1>1, <1>3, <1>5, <1>6, <1>8, InsideBit

LEMMA ItemTypes ==
    /\ \A d \in Nat : Byte(d) \in Items
    /\ \A c \in Codes : Error(c) \in Items
    /\ Error("START_BIT_ERROR") \in Items /\ Error("PARITY_ERROR") \in Items
    /\ Error("FRAMING_ERROR") \in Items /\ Error("OVERRUN_ERROR") \in Items
  BY DEF Items, Codes

LEMMA OneItem == ASSUME NEW S, NEW x \in S PROVE <<x>> \in Seq(S) /\ Len(<<x>>) = 1
  OBVIOUS

LEMMA OnlyItem == ASSUME NEW S, NEW q \in Seq(S), Len(q) = 1 PROVE q = <<q[1]>>
  <1>1. q[1] \in S  OBVIOUS
  <1>2. PICK x \in S : x = q[1]  BY <1>1
  <1>3. <<x>> \in Seq(S) /\ Len(<<x>>) = 1 /\ <<x>>[1] = x  OBVIOUS
  <1>4. q = <<x>>  BY <1>2, <1>3
  <1>5. QED  BY <1>2, <1>4

LEMMA ByteType == ASSUME HandlerTypes PROVE uart_data \in Nat
  <1>1. uart_data \in 0 .. 2^NumDataBits - 1  BY DataFits, Parameters DEF HandlerTypes
  <1>2. QED  BY <1>1

\* The handler only adds to the report.
LEMMA ReportGrows ==
    ASSUME HandlerTypes, report \in Seq(Items), Falling \/ Sample
    PROVE  \E z \in Seq(Items) : report' = report \o z
  <1>1. <<>> \in Seq(Items) /\ report \o <<>> = report
    BY Joined
  <1>2. CASE report' = report  BY <1>1, <1>2
  <1>3. ASSUME NEW x \in Items, report' = report \o <<x>>
        PROVE  \E z \in Seq(Items) : report' = report \o z
    <2>1. <<x>> \in Seq(Items)  OBVIOUS
    <2>2. QED  BY <1>3, <2>1
  <1>4. CASE Falling  BY <1>2, <1>4 DEF Falling
  <1>5. CASE StartBit  BY <1>2, <1>3, <1>5, ItemTypes DEF StartBit, Report
  <1>6. CASE DataBit  BY <1>2, <1>6 DEF DataBit
  <1>7. CASE Parity  BY <1>2, <1>3, <1>7, ItemTypes DEF Parity, Report
  <1>8. CASE StopBit
    <2>1. PICK a, b : /\ a = IF level = 1 THEN <<>> ELSE <<Error("FRAMING_ERROR")>>
                      /\ b = IF Full THEN <<Error("OVERRUN_ERROR")>> ELSE <<Byte(uart_data)>>
                      /\ report' = report \o (a \o b)
      BY <1>8 DEF StopBit, Report
    <2>2. a \in Seq(Items)
      <3>1. PICK e \in Items : e = Error("FRAMING_ERROR")  BY ItemTypes
      <3>2. a = <<>> \/ a = <<e>>  BY <2>1, <3>1
      <3>3. <<e>> \in Seq(Items)  BY OneItem
      <3>4. QED  BY <1>1, <3>2, <3>3
    <2>3. b \in Seq(Items)
      <3>1. PICK e \in Items : e = Error("OVERRUN_ERROR")  BY ItemTypes
      <3>2. PICK f \in Items : f = Byte(uart_data)  BY ItemTypes, ByteType
      <3>3. b = <<f>> \/ b = <<e>>  BY <2>1, <3>1, <3>2
      <3>4. <<e>> \in Seq(Items) /\ <<f>> \in Seq(Items)  BY OneItem
      <3>5. QED  BY <3>3, <3>4
    <2>4. a \o b \in Seq(Items)  BY <2>2, <2>3, Joined
    <2>5. QED  BY <2>1, <2>4
  <1>9. QED  BY <1>4, <1>5, <1>6, <1>7, <1>8 DEF Sample

LEMMA PrefixGrows ==
    ASSUME NEW S, NEW x \in Seq(S), NEW y \in Seq(S), NEW z \in Seq(S), IsPrefix(x, y)
    PROVE  IsPrefix(x, y \o z)
  <1>1. Len(x) \in Nat /\ Len(y) \in Nat /\ Len(x) <= Len(y)  BY DEF IsPrefix
  <1>2. PICK t : t = y \o z  OBVIOUS
  <1>3. t \in Seq(S) /\ Len(t) = Len(y) + Len(z) /\ \A i \in 1 .. Len(y) : t[i] = y[i]
    BY <1>2, Joined
  <1>4. SubSeq(t, 1, Len(x)) = SubSeq(y, 1, Len(x))
    <2>1. \A i \in 1 .. Len(x) : t[i] = y[i]  BY <1>1, <1>3
    <2>2. Len(x) <= Len(t)  BY <1>1, <1>3
    <2>3. QED  BY <1>1, <1>3, <2>1, <2>2
  <1>5. QED  BY <1>1, <1>2, <1>3, <1>4 DEF IsPrefix

LEMMA PrefixOfItself ==
    ASSUME NEW S, NEW x \in Seq(S)  PROVE IsPrefix(x, x)
  BY DEF IsPrefix

\* A frame reported stays reported, whatever is reported behind it.
LEMMA StaysReported ==
    ASSUME Reported, frame.kind \in {"framing", "glitch"}, FrameTypes,
           UNCHANGED <<config, frame>>, NEW z \in Seq(Items), report' = report \o z
    PROVE  Reported'
  <1>1. report \in Seq(Items)  BY DEF FrameTypes
  <1>2. mode' = mode /\ frame' = frame  BY DEF config
  <1>3. CASE frame.kind = "framing"
    <2>1. PICK k \in Kept(frame) : IsPrefix(<<Error("FRAMING_ERROR")>> \o k, report)
      BY <1>3 DEF Reported
    <2>2. PICK x : x = <<Error("FRAMING_ERROR")>> \o k  OBVIOUS
    <2>3. x \in Seq(Items)
      <3>1. PICK e \in Items : e = Error("FRAMING_ERROR")  BY ItemTypes
      <3>2. frame.data \in Nat  BY <1>3, Parameters DEF FrameTypes
      <3>3. PICK a \in Items : a = Byte(frame.data)  BY <3>2, ItemTypes
      <3>4. PICK b \in Items : b = Error("OVERRUN_ERROR")  BY ItemTypes
      <3>5. k = <<a>> \/ k = <<b>>  BY <2>1, <3>3, <3>4 DEF Kept
      <3>6. <<a>> \in Seq(Items) /\ <<b>> \in Seq(Items) /\ <<e>> \in Seq(Items)  BY OneItem
      <3>7. k \in Seq(Items)  BY <3>5, <3>6
      <3>8. QED  BY <2>2, <3>1, <3>6, <3>7, Joined
    <2>4. IsPrefix(x, report')  BY <1>1, <2>1, <2>2, <2>3, PrefixGrows
    <2>5. Kept(frame)' = Kept(frame)  BY <1>2 DEF Kept, buffered
    <2>6. \E l \in Kept(frame)' : IsPrefix(<<Error("FRAMING_ERROR")>> \o l, report')
      BY <2>1, <2>2, <2>4, <2>5
    <2>7. QED  BY <1>2, <1>3, <2>6 DEF Reported
  <1>4. CASE frame.kind = "glitch"
    <2>1. IsPrefix(<<Error("START_BIT_ERROR")>>, report)  BY <1>4 DEF Reported
    <2>2. PICK e \in Items : e = Error("START_BIT_ERROR")  BY ItemTypes
    <2>3. <<e>> \in Seq(Items)  OBVIOUS
    <2>4. IsPrefix(<<Error("START_BIT_ERROR")>>, report')
      BY <1>1, <2>1, <2>2, <2>3, PrefixGrows
    <2>5. QED  BY <1>2, <1>4, <2>4 DEF Reported
  <1>5. QED  BY <1>3, <1>4

LEMMA DrivenSame ==
    ASSUME NEW p, NEW r, NEW s, Driven(p, r, s), UNCHANGED <<config, sender>>
    PROVE  Driven(p, r, s)'
  <1>1. UNCHANGED <<config, frame>> /\ signal' = signal  BY DEF sender
  <1>2. LastSample' = LastSample /\ \A k : FrameLevel(k)' = FrameLevel(k)
    BY <1>1, SameLevels
  <1>3. Recovery' = Recovery  BY DEF Recovery
  <1>4. QED  BY <1>1, <1>2, <1>3 DEF Driven

\* A sample of a frame stores the bit that was sent, checks the parity sent, and
\* at the stop bit reports the byte that was sent.
LEMMA ReceivingSample ==
    ASSUME SamplesInside, HandlerTypes, OtherTypes, FrameTypes, Receiving, Sample, wait = 0,
           UNCHANGED <<config, sender>>
    PROVE  Receiving' \/ (After' /\ state' = "IDLE")
  <1>1. /\ NumDataBits \in 1 .. 8 /\ BitTicks \in Nat /\ HalfBit \in Nat
        /\ \A s \in SenderTicks : s \in Nat
    BY Parameters
  <1>2. PICK s \in SenderTicks, p \in 0 .. LastSample : \E r \in 0 .. s :
           /\ Driven(p, r, s)
           /\ (p + 1) * s - r = HalfBit + Taken * BitTicks - wait
    BY DEF Receiving
  <1>3. PICK r \in 0 .. s :
           /\ Driven(p, r, s)
           /\ (p + 1) * s - r = HalfBit + Taken * BitTicks - wait
    BY <1>2
  <1>4. LastSample \in Nat /\ Taken \in 0 .. LastSample /\ NumDataBits + 1 <= LastSample
    BY <1>1, SampleRange
  <1>5. p = Taken  BY <1>3, SampleInBit
  <1>6. r \in Nat /\ s \in Nat  BY <1>1
  <1>7. level = FrameLevel(Taken)  BY <1>3, <1>5, <1>6, DrivenLevel
  <1>8. /\ UNCHANGED config /\ mode' = mode /\ parity' = parity
        /\ signal' = signal /\ frame' = frame
    BY DEF config, sender
  <1>9. LastSample' = LastSample  BY <1>8 DEF LastSample
  <1>10. ASSUME Taken' = Taken + 1, wait' = BitTicks
         PROVE  \E s1 \in SenderTicks, p1 \in 0 .. LastSample' : \E r1 \in 0 .. s1 :
                   /\ Driven(p1, r1, s1)'
                   /\ (p1 + 1) * s1 - r1 = HalfBit + Taken' * BitTicks - wait'
    <2>1. Driven(p, r, s)'  BY <1>3, DrivenSame
    <2>2. \A a, b, h \in Nat : h + (a + 1) * b - b = h + a * b - 0  OBVIOUS
    <2>3. Taken \in Nat  BY <1>4
    <2>4. HalfBit + (Taken + 1) * BitTicks - BitTicks = HalfBit + Taken * BitTicks - 0
      BY <1>1, <2>2, <2>3
    <2>5. (p + 1) * s - r = HalfBit + Taken' * BitTicks - wait'
      <3>1. HalfBit + Taken' * BitTicks - wait' = HalfBit + Taken * BitTicks - wait
        BY <1>10, <2>4
      <3>2. QED  BY <1>3, <3>1
    <2>6. QED  BY <1>9, <2>1, <2>5
  <1>11. /\ frame.kind \in {"good", "parity", "framing"} /\ frame.data \in Data
         /\ frame.data \in Nat
    BY Parameters DEF Receiving, FrameTypes
  <1>12. CASE StartBit
    <2>1. state = "START" /\ state' = "DATA" /\ uart_data' = 0 /\ current_data_bit' = 0
          /\ wait' = BitTicks
      BY <1>12 DEF StartBit
    <2>2. Taken = 0 /\ Taken' = Taken + 1  BY <2>1 DEF Taken
    <2>3. level = 0  BY <1>7, <2>2 DEF FrameLevel
    <2>4. report' = report /\ report = <<>>  BY <1>12, <2>1, <2>3 DEF StartBit, Receiving
    <2>5. uart_data' = frame'.data % 2^current_data_bit'
      BY <1>8, <1>11, <2>1, AllBits
    <2>6. QED  BY <1>8, <1>10, <1>11, <2>1, <2>2, <2>4, <2>5 DEF Receiving
  <1>13. CASE DataBit
    <2>1. /\ state = "DATA" /\ wait' = BitTicks /\ current_data_bit' = current_data_bit + 1
          /\ uart_data' = uart_data + level * 2^current_data_bit /\ report' = report
      BY <1>13 DEF DataBit
    <2>2. current_data_bit \in 0 .. 7 /\ current_data_bit + 1 <= NumDataBits
      BY <1>1, <2>1 DEF HandlerTypes
    <2>3. Taken = 1 + current_data_bit  BY <2>1 DEF Taken
    <2>4. level = Bit(frame.data, current_data_bit)
      <3>1. Taken # 0 /\ Taken <= NumDataBits /\ Taken - 1 = current_data_bit
        BY <1>1, <2>2, <2>3
      <3>2. QED  BY <1>7, <3>1 DEF FrameLevel
    <2>5. uart_data = frame.data % 2^current_data_bit  BY <2>1 DEF Receiving
    <2>6. uart_data' = frame.data % 2^(current_data_bit + 1)
      BY <1>11, <2>1, <2>2, <2>4, <2>5, LowBits
    <2>7. uart_data' = frame'.data % 2^current_data_bit'  BY <1>8, <2>1, <2>6
    <2>8. report' = <<>>  BY <2>1 DEF Receiving
    <2>9. Taken' = Taken + 1
      <3>1. ~StopBit  BY <2>1 DEF StopBit
      <3>2. QED  BY <1>8, <3>1, SampleCounts
    <2>10. CASE current_data_bit' # NumDataBits
      <3>1. state' = "DATA"  BY <1>13, <2>10 DEF DataBit
      <3>2. QED  BY <1>8, <1>10, <1>11, <2>1, <2>7, <2>8, <2>9, <3>1 DEF Receiving
    <2>11. CASE current_data_bit' = NumDataBits
      <3>1. state' \in {"STOP", "PARITY"} /\ (state' = "STOP" => parity = "none")
        BY <1>13, <2>11 DEF DataBit
      <3>2. uart_data' = frame'.data  BY <1>8, <1>11, <2>7, <2>11, AllBits
      <3>3. ~(state' = "STOP" /\ frame'.kind = "parity")
        BY <1>8, <3>1 DEF FrameTypes
      <3>4. QED  BY <1>8, <1>10, <1>11, <2>1, <2>8, <2>9, <3>1, <3>2, <3>3 DEF Receiving
    <2>12. QED  BY <2>10, <2>11
  <1>14. CASE Parity
    <2>1. state = "PARITY" /\ state' = "STOP" /\ wait' = BitTicks /\ uart_data' = uart_data
      BY <1>14 DEF Parity
    <2>2. uart_data = frame.data /\ report = <<>>  BY <2>1 DEF Receiving
    <2>3. parity # "none"  BY <2>1 DEF FrameTypes
    <2>4. Taken = NumDataBits + 1 /\ LastSample = NumDataBits + 2
      BY <2>1, <2>3 DEF Taken, LastSample
    <2>5. level = IF frame.kind = "parity" THEN 1 - ParityBit(frame.data)
                                          ELSE ParityBit(frame.data)
      <3>1. Taken # 0 /\ ~(Taken <= NumDataBits) /\ Taken # LastSample  BY <1>1, <2>4
      <3>2. QED  BY <1>7, <3>1 DEF FrameLevel
    <2>6. PICK b \in {0, 1} : b = ParityBit(frame.data)  BY ParityBits
    <2>7. level # ParityBit(uart_data) <=> frame.kind = "parity"
      BY <2>2, <2>5, <2>6
    <2>8. report' = IF frame.kind = "parity" THEN <<Error("PARITY_ERROR")>> ELSE <<>>
      <3>1. PICK e \in Items : e = Error("PARITY_ERROR")  BY ItemTypes
      <3>2. <<>> \o <<e>> = <<e>>  BY OneItem
      <3>3. frame.kind = "parity" => report' = <<>> \o <<e>>
        BY <1>14, <2>2, <2>7, <3>1 DEF Parity, Report
      <3>4. frame.kind # "parity" => report' = <<>>  BY <1>14, <2>2, <2>7 DEF Parity
      <3>5. QED  BY <3>1, <3>2, <3>3, <3>4
    <2>9. Taken' = Taken + 1
      <3>1. ~StopBit  BY <2>1 DEF StopBit
      <3>2. QED  BY <1>8, <3>1, SampleCounts
    <2>10. QED  BY <1>8, <1>10, <1>11, <2>1, <2>2, <2>8, <2>9 DEF Receiving
  <1>15. CASE StopBit
    <2>1. state = "STOP" /\ state' = "IDLE"  BY <1>15 DEF StopBit
    <2>2. Taken = LastSample /\ uart_data = frame.data
          /\ report = IF frame.kind = "parity" THEN <<Error("PARITY_ERROR")>> ELSE <<>>
      BY <2>1 DEF Taken, Receiving
    <2>3. level = IF frame.kind = "framing" THEN 0 ELSE 1
      <3>1. Taken # 0 /\ ~(Taken <= NumDataBits) /\ Taken = LastSample  BY <1>1, <1>4, <2>2
      <3>2. QED  BY <1>7, <3>1 DEF FrameLevel
    <2>4. PICK k : /\ k = IF Full THEN <<Error("OVERRUN_ERROR")>> ELSE <<Byte(frame.data)>>
                   /\ report' = report \o
                         ((IF level = 1 THEN <<>> ELSE <<Error("FRAMING_ERROR")>>) \o k)
      BY <1>15, <2>2 DEF StopBit, Report
    <2>5. k \in Kept(frame)  BY <2>4 DEF Kept, Full
    <2>6. k \in Seq(Items)
      <3>1. PICK a \in Items : a = Byte(frame.data)  BY <1>11, ItemTypes
      <3>2. PICK b \in Items : b = Error("OVERRUN_ERROR")  BY ItemTypes
      <3>3. <<a>> \in Seq(Items) /\ <<b>> \in Seq(Items)  BY OneItem
      <3>4. QED  BY <2>4, <3>1, <3>2, <3>3
    <2>7. <<>> \o k = k /\ <<>> \o (<<>> \o k) = k  BY <2>6
    <2>8. Kept(frame)' = Kept(frame)  BY <1>8 DEF Kept, buffered
    <2>9. Reported'
      <3>1. CASE frame.kind = "good"
        <4>1. report' = k  BY <2>2, <2>3, <2>4, <2>7, <3>1
        <4>2. QED  BY <1>8, <2>5, <2>8, <3>1, <4>1 DEF Reported
      <3>2. CASE frame.kind = "parity"
        <4>1. report' = <<Error("PARITY_ERROR")>> \o k  BY <2>2, <2>3, <2>4, <2>7, <3>2
        <4>2. report' \in {<<Error("PARITY_ERROR")>> \o l : l \in Kept(frame)'}
          BY <2>5, <2>8, <4>1
        <4>3. QED  BY <1>8, <3>2, <4>2 DEF Reported
      <3>3. CASE frame.kind = "framing"
        <4>1. PICK e \in Items : e = Error("FRAMING_ERROR")  BY ItemTypes
        <4>2. PICK x : x = <<e>> \o k  OBVIOUS
        <4>3. x \in Seq(Items)  BY <2>6, <4>2, OneItem, Joined
        <4>4. <<>> \o x = x  BY <4>3
        <4>5. report' = x  BY <2>2, <2>3, <2>4, <3>3, <4>1, <4>2, <4>4
        <4>6. IsPrefix(x, x)  BY <4>3, PrefixOfItself
        <4>7. \E l \in Kept(frame)' : IsPrefix(<<Error("FRAMING_ERROR")>> \o l, report')
          BY <2>5, <2>8, <4>1, <4>2, <4>5, <4>6
        <4>8. QED  BY <1>8, <3>3, <4>7 DEF Reported
      <3>4. QED  BY <1>11, <3>1, <3>2, <3>3
    <2>10. \/ \E r1 \in Nat : High(r1)'
           \/ frame.kind = "framing" /\ \E r1 \in Nat : Low(r1)'
      <3>1. signal[1] = <<level, r>> /\ signal \in Seq(Levels)
        BY <1>3, <1>5, <1>7 DEF Driven, OtherTypes
      <3>2. CASE frame.kind = "framing"
        <4>1. Len(signal) = 2  BY <1>3, <1>4, <1>5, <2>2, <3>2 DEF Driven
        <4>2. LastSample + 2 - p = 2  BY <1>4, <1>5, <2>2
        <4>3. signal[2] = Recovery  BY <1>3, <3>2, <4>2 DEF Driven
        <4>4. signal = <<signal[1], signal[2]>>  BY <3>1, <4>1
        <4>5. signal = <<<<0, r>>, Recovery>>  BY <2>3, <3>1, <3>2, <4>3, <4>4
        <4>6. Recovery' = Recovery  BY DEF Recovery
        <4>7. Low(r)'  BY <1>8, <4>5, <4>6 DEF Low
        <4>8. QED  BY <1>6, <3>2, <4>7
      <3>3. CASE frame.kind # "framing"
        <4>1. Len(signal) = 1  BY <1>3, <1>4, <1>5, <2>2, <3>3 DEF Driven
        <4>2. signal = <<signal[1]>>  BY <3>1, <4>1, OnlyItem
        <4>3. High(r)'  BY <1>8, <2>3, <3>1, <3>3, <4>2 DEF High
        <4>4. QED  BY <1>6, <4>3
      <3>4. QED  BY <3>2, <3>3
    <2>11. QED  BY <1>8, <2>1, <2>9, <2>10 DEF After
  <1>16. QED  BY <1>12, <1>13, <1>14, <1>15 DEF Sample

\* Behind a frame that was no frame: the sample changes no part of the report made,
\* and the handler is done as early as it was going to be.
LEMMA StraySample ==
    ASSUME HandlerTypes, OtherTypes, FrameTypes, After, Sample, wait = 0,
           UNCHANGED <<config, sender>>
    PROVE  After'
  <1>1. state # "IDLE" /\ (state' = "IDLE" \/ Needed' = Needed)  BY SampleNeeds
  <1>2. frame.kind \in {"framing", "glitch"} /\ Reported /\ Needed < Left
    BY <1>1 DEF After
  <1>3. signal' = signal /\ frame' = frame /\ Recovery' = Recovery
    BY DEF sender, Recovery
  <1>4. Left' = Left  BY <1>3 DEF Left
  <1>5. PICK z \in Seq(Items) : report' = report \o z  BY ReportGrows DEF FrameTypes
  <1>6. Reported'  BY <1>2, <1>3, <1>5, StaysReported
  <1>7. \/ signal' = <<>>
        \/ \E r \in Nat : High(r)'
        \/ frame'.kind = "framing" /\ \E r \in Nat : Low(r)'
    BY <1>3 DEF After, High, Low
  <1>8. QED  BY <1>1, <1>2, <1>3, <1>4, <1>6, <1>7 DEF After

\* A pulse is over when the handler takes it for a start bit.
LEMMA GlitchSample ==
    ASSUME HandlerTypes, OtherTypes, FrameTypes, Glitching, Sample, wait = 0,
           UNCHANGED <<config, sender>>
    PROVE  After'
  <1>1. state = "START" /\ frame.kind = "glitch" /\ report = <<>> /\ Needed < Left
    BY DEF Glitching
  <1>2. StartBit  BY <1>1 DEF Sample, StartBit, DataBit, Parity, StopBit
  <1>3. PICK r \in Nat : High(r)
    <2>1. ~ \E r \in Nat : Low(r) /\ r < wait  OBVIOUS
    <2>2. QED  BY <2>1 DEF Glitching
  <1>4. level = 1  BY <1>3, LeftType
  <1>5. signal' = signal /\ frame' = frame /\ Recovery' = Recovery
    BY DEF sender, Recovery
  <1>6. state' = "DATA" /\ report' = report \o <<Error("START_BIT_ERROR")>>
    BY <1>2, <1>4 DEF StartBit, Report
  <1>7. Needed' = Needed  BY <1>6, SampleNeeds
  <1>8. Left' = Left  BY <1>5 DEF Left
  <1>9. Reported'
    <2>1. PICK e \in Items : e = Error("START_BIT_ERROR")  BY ItemTypes
    <2>2. <<e>> \in Seq(Items)  BY OneItem
    <2>3. <<>> \o <<e>> = <<e>>  BY <2>2
    <2>4. report' = <<e>>  BY <1>1, <1>6, <2>1, <2>3
    <2>5. IsPrefix(<<e>>, report')  BY <2>2, <2>4, PrefixOfItself
    <2>6. QED  BY <1>1, <1>5, <2>1, <2>5 DEF Reported
  <1>10. High(r)'  BY <1>3, <1>5 DEF High
  <1>11. QED  BY <1>1, <1>3, <1>5, <1>7, <1>8, <1>9, <1>10 DEF After

\* The falling edge: of a frame, of a pulse, or a stop bit that is still low.
LEMMA FallingEdge ==
    ASSUME HandlerTypes, OtherTypes, FrameTypes, Ready \/ Receiving \/ Glitching \/ After,
           Falling, UNCHANGED <<config, sender>>
    PROVE  Receiving' \/ Glitching' \/ After'
  <1>1. /\ BitTicks \in Nat /\ HalfBit \in Nat /\ GlitchTicks \in Nat /\ GlitchTicks < HalfBit
        /\ \A s \in SenderTicks : s \in Nat
        /\ (NumDataBits + 4) * BitTicks \in Nat
    BY Parameters
  <1>2. /\ state = "IDLE" /\ level = 0 /\ wait' = HalfBit /\ state' = "START"
        /\ report' = report
    BY DEF Falling
  <1>3. /\ signal' = signal /\ frame' = frame /\ Recovery' = Recovery
        /\ UNCHANGED config /\ parity' = parity
    BY DEF sender, Recovery, config
  <1>4. LastSample' = LastSample  BY <1>3 DEF LastSample
  <1>5. Taken' = 0  BY <1>2 DEF Taken
  <1>6. LastSample \in Nat /\ LastSample * BitTicks \in Nat
        /\ LastSample * BitTicks + HalfBit < (NumDataBits + 4) * BitTicks
    BY NeededType, SampleRange, Parameters
  <1>7. Needed' = HalfBit + LastSample * BitTicks
    <2>1. LastSample - 0 = LastSample  BY <1>6
    <2>2. QED  BY <1>2, <1>4, <1>5, <2>1 DEF Needed
  <1>8. Left' = Left  BY <1>3 DEF Left
  <1>9. ~Receiving /\ ~Glitching  BY <1>2 DEF Receiving, Glitching
  <1>10. CASE Ready /\ frame.kind = "glitch"
    <2>1. Low(GlitchTicks) /\ report = <<>>  BY <1>10 DEF Ready
    <2>2. Left = GlitchTicks + (NumDataBits + 4) * BitTicks  BY <1>1, <2>1, LeftType
    <2>3. Needed' < Left'  BY <1>1, <1>6, <1>7, <1>8, <2>2
    <2>4. Low(GlitchTicks)' /\ GlitchTicks < wait'
      BY <1>1, <1>2, <1>3, <2>1 DEF Low
    <2>5. \E r \in Nat : Low(r)' /\ r < wait'
      <3>1. signal' = <<<<0, GlitchTicks>>, Recovery>> /\ GlitchTicks' = GlitchTicks
        BY <1>3, <2>1 DEF Low
      <3>2. QED  BY <1>1, <1>3, <2>4, <3>1 DEF Low
    <2>6. QED  BY <1>2, <1>3, <1>10, <2>1, <2>3, <2>5 DEF Glitching
  <1>11. CASE Ready /\ frame.kind # "glitch"
    <2>1. PICK s \in SenderTicks : Driven(0, s, s)  BY <1>11 DEF Ready
    <2>2. s \in Nat /\ 0 \in 0 .. LastSample /\ s \in 0 .. s  BY <1>1, <1>6
    <2>3. Driven(0, s, s)'  BY <2>1, DrivenSame
    <2>4. (0 + 1) * s - s = HalfBit + Taken' * BitTicks - wait'
      <3>1. (0 + 1) * s - s = 0  BY <2>2
      <3>2. HalfBit + 0 * BitTicks - HalfBit = 0  BY <1>1
      <3>3. QED  BY <1>2, <1>5, <3>1, <3>2
    <2>5. \E s1 \in SenderTicks, p1 \in 0 .. LastSample' : \E r1 \in 0 .. s1 :
             /\ Driven(p1, r1, s1)'
             /\ (p1 + 1) * s1 - r1 = HalfBit + Taken' * BitTicks - wait'
      BY <1>4, <2>2, <2>3, <2>4
    <2>6. frame.kind \in {"good", "parity", "framing"} /\ report = <<>>
      BY <1>11 DEF Ready
    <2>7. QED  BY <1>2, <1>3, <2>5, <2>6 DEF Receiving
  <1>12. CASE After
    <2>1. signal # <<>>  BY <1>2 DEF level
    <2>2. ~ \E r \in Nat : High(r)  BY <1>2, LeftType
    <2>3. PICK r \in Nat : frame.kind = "framing" /\ Low(r)
      BY <1>12, <2>1, <2>2 DEF After
    <2>4. Left = r + (NumDataBits + 4) * BitTicks  BY <2>3, LeftType
    <2>5. Needed' < Left'  BY <1>1, <1>6, <1>7, <1>8, <2>4
    <2>6. Low(r)'  BY <1>3, <2>3 DEF Low
    <2>7. Reported'
      BY <1>2, <1>3, <1>12 DEF Reported, After, Kept, buffered, config
    <2>8. QED  BY <1>2, <1>3, <2>3, <2>5, <2>6, <2>7 DEF After
  <1>13. QED  BY <1>9, <1>10, <1>11, <1>12

-----------------------------------------------------------------------------
(* The other steps.                                                        *)

\* Steps of uart_rx beside the handler.
LEMMA SamePhase ==
    ASSUME FrameTypes, ModeInv, Ready \/ Receiving \/ Glitching \/ After,
           UNCHANGED <<config, state, uart_data, current_data_bit, triggers, sender, report>>,
           Ready => buffered \/ pc' = pc
    PROVE  FrameTypes' /\ (Ready' \/ Receiving' \/ Glitching' \/ After')
  <1>1. /\ mode' = mode /\ parity' = parity /\ state' = state /\ uart_data' = uart_data
        /\ current_data_bit' = current_data_bit /\ wait' = wait /\ signal' = signal
        /\ frame' = frame /\ report' = report /\ Recovery' = Recovery
    BY DEF config, triggers, sender, Recovery
  <1>2. LastSample' = LastSample  BY <1>1 DEF LastSample
  <1>3. Taken' = Taken  BY <1>1, <1>2 DEF Taken
  <1>4. Needed' = Needed /\ Left' = Left /\ buffered' = buffered
    BY <1>1, <1>2, <1>3 DEF Needed, Left, buffered
  <1>5. \A r \in Nat : Low(r)' = Low(r) /\ High(r)' = High(r)  BY <1>1 DEF Low, High
  <1>6. Reported' = Reported  BY <1>1, <1>4 DEF Reported, Kept
  <1>7. FrameTypes'  BY <1>1 DEF FrameTypes
  <1>8. \A p, r, s : Driven(p, r, s) => Driven(p, r, s)'  BY DrivenSame
  <1>9. CASE Ready
    <2>1. pc' = pc \/ buffered  BY <1>9
    <2>2. Low(GlitchTicks)' = Low(GlitchTicks)  BY <1>1 DEF Low
    <2>3. Ready'  BY <1>1, <1>4, <1>8, <1>9, <2>1, <2>2 DEF Ready
    <2>4. QED  BY <1>7, <2>3
  <1>10. CASE Receiving
    <2>1. PICK s \in SenderTicks, p \in 0 .. LastSample : \E r \in 0 .. s :
             /\ Driven(p, r, s)
             /\ (p + 1) * s - r = HalfBit + Taken * BitTicks - wait
      BY <1>10 DEF Receiving
    <2>2. PICK r \in 0 .. s :
             /\ Driven(p, r, s)
             /\ (p + 1) * s - r = HalfBit + Taken * BitTicks - wait
      BY <2>1
    <2>3. Driven(p, r, s)'  BY <1>8, <2>2
    <2>4. p \in 0 .. LastSample'
          /\ (p + 1) * s - r = HalfBit + Taken' * BitTicks - wait'
      BY <1>1, <1>2, <1>3, <2>2
    <2>5. Receiving'  BY <1>1, <1>10, <2>3, <2>4 DEF Receiving
    <2>6. QED  BY <1>7, <2>5
  <1>11. CASE Glitching
    <2>1. Glitching'  BY <1>1, <1>4, <1>5, <1>11 DEF Glitching
    <2>2. QED  BY <1>7, <2>1
  <1>12. CASE After
    <2>1. After'  BY <1>1, <1>4, <1>5, <1>6, <1>12 DEF After
    <2>2. QED  BY <1>7, <2>1
  <1>13. QED  BY <1>9, <1>10, <1>11, <1>12

\* Once the sender is done the frame is reported and the handler at rest.
LEMMA DoneReported ==
    ASSUME HandlerTypes, OtherTypes, FrameInv, signal = <<>>
    PROVE  After /\ Reported /\ state = "IDLE"
  <1>1. LastSample \in Nat /\ 0 \in 0 .. LastSample /\ FrameTypes
    BY SampleRange, Parameters DEF FrameInv
  <1>2. ~(\E r \in Nat : High(r)) /\ ~(\E r \in Nat : Low(r))  BY LeftType
  <1>3. GlitchTicks \in Nat /\ \A s \in SenderTicks : s \in Nat  BY Parameters
  <1>4. ~Ready
    <2>1. ~Low(GlitchTicks)  BY <1>2, <1>3
    <2>2. \A s \in SenderTicks : ~Driven(0, s, s)  BY <1>1, <1>3, DrivenLevel
    <2>3. QED  BY <2>1, <2>2 DEF Ready
  <1>5. ~Receiving
    <2>1. SUFFICES ASSUME NEW s \in SenderTicks, NEW p \in 0 .. LastSample, NEW r \in 0 .. s,
                          Driven(p, r, s)
                   PROVE  FALSE
      BY DEF Receiving
    <2>2. r \in Nat  BY <1>3
    <2>3. QED  BY <1>1, <2>1, <2>2, DrivenLevel
  <1>6. ~Glitching  BY <1>2 DEF Glitching
  <1>7. After  BY <1>4, <1>5, <1>6 DEF FrameInv
  <1>8. Needed \in Nat  BY <1>1, NeededType
  <1>9. Left = 0  BY LeftType
  <1>10. ~(Needed < Left)  BY <1>8, <1>9
  <1>11. QED  BY <1>7, <1>10 DEF After

LEMMA SendStep ==
    ASSUME HandlerTypes, OtherTypes, FrameInv, NEW kind \in Kinds, NEW d \in Data,
           NEW s \in SenderTicks, SendFrame(kind, d, s)
    PROVE  FrameInv'
  <1>1. /\ signal = <<>> /\ frame' = [kind |-> kind, data |-> d] /\ report' = <<>>
        /\ (kind = "parity" => parity # "none") /\ (buffered \/ pc = "wait")
        /\ signal' = Signal(kind, d, s)
        /\ mode' = mode /\ parity' = parity /\ state' = state /\ pc' = pc
        /\ port_trigger' = port_trigger /\ timer_trigger' = timer_trigger
    BY DEF SendFrame, config, uart, triggers
  <1>2. state = "IDLE"  BY <1>1, DoneReported
  <1>3. kind \in {"good", "parity", "framing", "glitch"}  BY RxAssumption DEF RxAssumption
  <1>4. buffered' = buffered  BY <1>1 DEF buffered
  <1>5. ModeInv'  BY <1>1, <1>4 DEF ModeInv, FrameInv
  <1>6. report' \in Seq(Items)  BY <1>1
  <1>7. FrameTypes'
    <2>1. frame'.kind = kind /\ frame'.data = d  BY <1>1
    <2>2. QED  BY <1>1, <1>2, <1>3, <1>6, <2>1 DEF FrameTypes
  <1>8. CASE kind = "glitch"
    <2>1. Low(GlitchTicks)'
      <3>1. Recovery' = Recovery /\ signal' = <<<<0, GlitchTicks>>, Recovery>>
        BY <1>1, <1>8 DEF Recovery, Signal
      <3>2. QED  BY <3>1 DEF Low
    <2>2. Ready'  BY <1>1, <1>2, <1>4, <1>8, <2>1 DEF Ready
    <2>3. QED  BY <1>5, <1>7, <2>2 DEF FrameInv
  <1>9. CASE kind # "glitch"
    <2>1. Driven(0, s, s)'  BY <1>3, <1>9, FrameSent
    <2>2. frame'.kind \in {"good", "parity", "framing"}  BY <1>1, <1>3, <1>9
    <2>3. Ready'  BY <1>1, <1>2, <1>4, <2>1, <2>2 DEF Ready
    <2>4. QED  BY <1>5, <1>7, <2>3 DEF FrameInv
  <1>10. QED  BY <1>8, <1>9

\* In a frame there is always a bit left in which the next sample falls.
LEMMA BitsLeft ==
    ASSUME SamplesInside, HandlerTypes, OtherTypes, FrameTypes,
           NEW s \in SenderTicks, NEW p \in 0 .. LastSample,
           (p + 1) * s - 0 = HalfBit + Taken * BitTicks - wait
    PROVE  p < LastSample
  <1>1. s \in Nat /\ HalfBit \in Nat /\ BitTicks \in Nat /\ NumDataBits \in Nat  BY Parameters
  <1>2. /\ LastSample \in Nat /\ Taken \in 0 .. LastSample
        /\ LastSample \in 0 .. NumDataBits + (IF Parities \subseteq {"none"} THEN 1 ELSE 2)
    BY <1>1, SampleRange
  <1>3. HalfBit + LastSample * BitTicks < (LastSample + 1) * s
    BY <1>2 DEF SamplesInside, HalfBit
  <1>4. \A a, b, c \in Nat : a * c \in Nat /\ (a <= b => a * c <= b * c)  OBVIOUS
  <1>5. Taken * BitTicks <= LastSample * BitTicks /\ Taken * BitTicks \in Nat
        /\ LastSample * BitTicks \in Nat
    BY <1>1, <1>2, <1>4
  <1>6. wait \in Nat  BY NeededType
  <1>7. (p + 1) * s \in Nat /\ (LastSample + 1) * s \in Nat  BY <1>1, <1>2, <1>4
  <1>8. (p + 1) * s < (LastSample + 1) * s
    <2>1. PICK x \in Nat : x = (p + 1) * s  BY <1>7
    <2>2. PICK y \in Nat : y = Taken * BitTicks  BY <1>5
    <2>3. x - 0 = HalfBit + y - wait  BY <2>1, <2>2
    <2>4. x <= HalfBit + y  BY <1>1, <1>6, <2>3
    <2>5. QED  BY <1>1, <1>3, <1>5, <1>7, <2>1, <2>2, <2>4
  <1>9. ~(LastSample + 1 <= p + 1)
    <2>1. LastSample + 1 <= p + 1 => (LastSample + 1) * s <= (p + 1) * s
      BY <1>1, <1>2, <1>4
    <2>2. QED  BY <1>7, <1>8, <2>1
  <1>10. QED  BY <1>2, <1>9

LEMMA NextLevelStep ==
    ASSUME SamplesInside, HandlerTypes, OtherTypes, FrameInv, NextLevel
    PROVE  FrameInv'
  <1>1. /\ signal # <<>> /\ Head(signal)[2] = 0 /\ signal' = Tail(signal)
        /\ mode' = mode /\ parity' = parity /\ state' = state /\ uart_data' = uart_data
        /\ current_data_bit' = current_data_bit /\ wait' = wait /\ pc' = pc
        /\ port_trigger' = port_trigger /\ timer_trigger' = timer_trigger
        /\ frame' = frame /\ report' = report /\ Recovery' = Recovery
        /\ UNCHANGED <<config, frame>>
    BY DEF NextLevel, config, uart, triggers, Recovery
  <1>2. signal[1][2] = 0  BY <1>1, Parts
  <1>3. FrameTypes /\ ModeInv  BY DEF FrameInv
  <1>4. /\ LastSample \in Nat /\ 0 \in 0 .. LastSample
        /\ GlitchTicks \in Nat /\ GlitchTicks > 0
        /\ \A s \in SenderTicks : s \in Nat /\ s > 0
        /\ (NumDataBits + 4) * BitTicks \in Nat
    BY <1>3, SampleRange, Parameters
  <1>5. LastSample' = LastSample /\ buffered' = buffered
    BY <1>1 DEF LastSample, buffered
  <1>6. Taken' = Taken  BY <1>1, <1>5 DEF Taken
  <1>7. Needed' = Needed  BY <1>1, <1>5, <1>6 DEF Needed
  <1>8. Reported' = Reported  BY <1>1, <1>5 DEF Reported, Kept
  <1>9. FrameTypes' /\ ModeInv'  BY <1>1, <1>3, <1>5 DEF FrameTypes, ModeInv
  <1>10. ~Ready
    <2>1. ~Low(GlitchTicks)
      <3>1. SUFFICES ASSUME Low(GlitchTicks) PROVE FALSE  OBVIOUS
      <3>2. PICK R : R = Recovery  OBVIOUS
      <3>3. signal = <<<<0, GlitchTicks>>, R>>  BY <3>1, <3>2 DEF Low
      <3>4. signal[1][2] = GlitchTicks  BY <3>3
      <3>5. QED  BY <1>2, <1>4, <3>4
    <2>2. ASSUME NEW s \in SenderTicks, Driven(0, s, s) PROVE FALSE
      <3>1. signal[1][2] = s  BY <1>3, <1>4, <2>2, DrivenLevel
      <3>2. QED  BY <1>2, <1>4, <3>1
    <2>3. QED  BY <2>1, <2>2 DEF Ready
  <1>11. ASSUME NEW r \in Nat, Low(r)
         PROVE  \E r1 \in Nat : High(r1)' /\ r = 0 /\ Left = r1 /\ Left' = Left
    <2>1. PICK t \in Nat : t = (NumDataBits + 4) * BitTicks  BY <1>4
    <2>2. Recovery = <<1, t>>  BY <2>1 DEF Recovery
    <2>3. signal = <<<<0, r>>, <<1, t>>>>  BY <1>11, <2>2 DEF Low
    <2>4. signal[1][2] = r /\ Len(signal) = 2 /\ Tail(signal) = <<<<1, t>>>>  BY <2>3
    <2>5. r = 0 /\ signal' = <<<<1, t>>>>  BY <1>1, <1>2, <2>4
    <2>6. High(t)'  BY <2>5 DEF High
    <2>7. Left = r + t  BY <1>11, <2>1, LeftType
    <2>8. Left' = t
      <3>1. Len(signal') = 1 /\ signal' # <<>> /\ signal'[1][2] = t  BY <2>5
      <3>2. QED  BY <3>1 DEF Left
    <2>9. QED  BY <2>5, <2>6, <2>7, <2>8
  <1>12. ASSUME NEW r \in Nat, High(r)
         PROVE  signal' = <<>> /\ Left = 0 /\ Left' = 0
    <2>1. signal = <<<<1, r>>>>  BY <1>12 DEF High
    <2>2. signal' = <<>> /\ signal[1][2] = r  BY <1>1, <2>1
    <2>3. Left = r /\ r = 0  BY <1>2, <1>12, <2>2, LeftType
    <2>4. QED  BY <2>2, <2>3 DEF Left
  <1>13. CASE Receiving
    <2>1. PICK s \in SenderTicks, p \in 0 .. LastSample : \E r \in 0 .. s :
             /\ Driven(p, r, s)
             /\ (p + 1) * s - r = HalfBit + Taken * BitTicks - wait
      BY <1>13 DEF Receiving
    <2>2. PICK r \in 0 .. s :
             /\ Driven(p, r, s)
             /\ (p + 1) * s - r = HalfBit + Taken * BitTicks - wait
      BY <2>1
    <2>3. s \in Nat /\ r \in Nat  BY <1>4
    <2>4. r = 0  BY <1>2, <1>3, <2>2, <2>3, DrivenLevel
    <2>5. p < LastSample  BY <1>3, <2>2, <2>4, BitsLeft
    <2>6. Driven(p + 1, s, s)'  BY <1>1, <1>3, <2>2, <2>3, <2>5, DrivenNext
    <2>7. p + 1 \in 0 .. LastSample' /\ s \in 0 .. s  BY <1>4, <1>5, <2>3, <2>5
    <2>8. (p + 1 + 1) * s - s = HalfBit + Taken' * BitTicks - wait'
      <3>1. \A a, b \in Nat : (a + 1 + 1) * b - b = (a + 1) * b - 0  OBVIOUS
      <3>2. p \in Nat  BY <1>4
      <3>3. (p + 1 + 1) * s - s = (p + 1) * s - 0  BY <2>3, <3>1, <3>2
      <3>4. QED  BY <1>1, <1>6, <2>2, <2>4, <3>3
    <2>9. \E s1 \in SenderTicks, p1 \in 0 .. LastSample' : \E r1 \in 0 .. s1 :
             /\ Driven(p1, r1, s1)'
             /\ (p1 + 1) * s1 - r1 = HalfBit + Taken' * BitTicks - wait'
      <3>1. PICK p1 \in 0 .. LastSample' : p1 = p + 1  BY <2>7
      <3>2. Driven(p1, s, s)' /\ (p1 + 1) * s - s = HalfBit + Taken' * BitTicks - wait'
        BY <2>6, <2>8, <3>1
      <3>3. QED  BY <2>7, <3>2
    <2>10. Receiving'  BY <1>1, <1>13, <2>9 DEF Receiving
    <2>11. QED  BY <1>9, <2>10 DEF FrameInv
  <1>14. CASE Glitching
    <2>1. state = "START" /\ frame.kind = "glitch" /\ report = <<>> /\ Needed < Left
      BY <1>14 DEF Glitching
    <2>2. Needed \in Nat  BY <1>3, NeededType
    <2>3. ~ \E r \in Nat : High(r)  BY <1>12, <2>1, <2>2
    <2>4. PICK r \in Nat : Low(r)  BY <1>14, <2>3 DEF Glitching
    <2>5. PICK r1 \in Nat : High(r1)' /\ Left' = Left  BY <1>11, <2>4
    <2>6. Glitching'  BY <1>1, <1>7, <2>1, <2>5 DEF Glitching
    <2>7. QED  BY <1>9, <2>6 DEF FrameInv
  <1>15. CASE After
    <2>1. Reported' /\ (state # "IDLE" => frame.kind \in {"framing", "glitch"} /\ Needed < Left)
      BY <1>8, <1>15 DEF After
    <2>2. Left' = Left /\ (signal' = <<>> \/ \E r1 \in Nat : High(r1)')
      <3>1. CASE \E r \in Nat : High(r)  BY <1>12, <3>1
      <3>2. CASE \E r \in Nat : Low(r)  BY <1>11, <3>2
      <3>3. QED  BY <1>1, <1>15, <3>1, <3>2 DEF After
    <2>3. After'  BY <1>1, <1>7, <2>1, <2>2 DEF After
    <2>4. QED  BY <1>9, <2>3 DEF FrameInv
  <1>16. QED  BY <1>10, <1>13, <1>14, <1>15 DEF FrameInv

LEMMA PulseLater ==
    ASSUME OtherTypes, NEW r \in Nat, NEW n \in Nat, n <= r, Low(r) \/ High(r),
           signal' = <<<<level, signal[1][2] - n>>>> \o Tail(signal)
    PROVE  /\ Low(r) => Low(r - n)'
           /\ High(r) => High(r - n)'
           /\ Left' = Left - n
  <1>1. PICK t \in Nat : t = (NumDataBits + 4) * BitTicks  BY Parameters
  <1>2. Recovery = <<1, t>> /\ Recovery' = <<1, t>> /\ Recovery[2] = t
    BY <1>1 DEF Recovery
  <1>3. r - n \in Nat  OBVIOUS
  <1>4. CASE Low(r)
    <2>1. signal = <<<<0, r>>, <<1, t>>>>  BY <1>2, <1>4 DEF Low
    <2>2. signal[1][2] = r /\ Len(signal) = 2 /\ signal # <<>> /\ Tail(signal) = <<<<1, t>>>>
      BY <2>1
    <2>3. level = 0 /\ Left = r + t  BY <1>1, <1>4, LeftType
    <2>4. signal' = <<<<0, r - n>>>> \o <<<<1, t>>>>  BY <2>2, <2>3
    <2>5. signal' = <<<<0, r - n>>, <<1, t>>>>
      <3>1. PICK S : S = Nat \X Nat  OBVIOUS
      <3>2. PICK a \in S : a = <<0, r - n>>  BY <1>3, <3>1
      <3>3. PICK b \in S : b = <<1, t>>  BY <1>1, <3>1
      <3>4. <<a>> \o <<b>> = <<a, b>>
        <4>1. <<a>> \in Seq(S) /\ <<b>> \in Seq(S) /\ Len(<<a>>) = 1 /\ Len(<<b>>) = 1
          BY OneItem
        <4>2. PICK q \in Seq(S) : q = <<a>> \o <<b>>
          <5>1. <<a>> \o <<b>> \in Seq(S)  BY <4>1, Joined
          <5>2. QED  BY <5>1, Zenon
        <4>3. Len(q) = 2 /\ q[1] = <<a>>[1] /\ q[2] = <<b>>[1]  BY <4>1, <4>2, Joined
        <4>4. q = <<q[1], q[2]>>  BY <4>3
        <4>5. QED  BY <4>2, <4>3, <4>4
      <3>5. QED  BY <2>4, <3>2, <3>3, <3>4
    <2>6. Low(r - n)'  BY <1>2, <2>5 DEF Low
    <2>7. Left' = r - n + t
      <3>1. Len(signal') = 2 /\ signal' # <<>> /\ signal'[1][2] = r - n  BY <2>5
      <3>2. QED  BY <1>2, <3>1 DEF Left
    <2>8. ~High(r)
      <3>1. High(r) => Len(signal) = 1  BY DEF High
      <3>2. QED  BY <2>2, <3>1
    <2>9. QED  BY <2>3, <2>6, <2>7, <2>8
  <1>5. CASE High(r)
    <2>1. signal = <<<<1, r>>>>  BY <1>5 DEF High
    <2>2. signal[1][2] = r /\ Len(signal) = 1 /\ signal # <<>> /\ Tail(signal) = <<>>
      BY <2>1
    <2>3. level = 1 /\ Left = r  BY <1>5, LeftType
    <2>4. signal' = <<<<1, r - n>>>> \o <<>>  BY <2>2, <2>3
    <2>5. signal' = <<<<1, r - n>>>>
      <3>1. PICK a : a = <<1, r - n>>  OBVIOUS
      <3>2. <<a>> \o <<>> = <<a>>  OBVIOUS
      <3>3. QED  BY <2>4, <3>1, <3>2
    <2>6. High(r - n)'  BY <2>5 DEF High
    <2>7. Left' = r - n
      <3>1. Len(signal') = 1 /\ signal' # <<>> /\ signal'[1][2] = r - n  BY <2>5
      <3>2. QED  BY <3>1 DEF Left
    <2>8. ~Low(r)
      <3>1. Low(r) => Len(signal) = 2  BY DEF Low
      <3>2. QED  BY <2>2, <3>1
    <2>9. QED  BY <2>3, <2>6, <2>7, <2>8
  <1>6. QED  BY <1>4, <1>5

LEMMA AdvanceStep ==
    ASSUME HandlerTypes, OtherTypes, FrameInv, Advance
    PROVE  FrameInv'
  <1>1. PICK n \in Pending :
           /\ n > 0 /\ \A m \in Pending : n <= m
           /\ signal' = IF signal = <<>> THEN signal
                        ELSE <<<<level, Head(signal)[2] - n>>>> \o Tail(signal)
           /\ wait' = IF Sampling THEN wait - n ELSE wait
    BY DEF Advance
  <1>2. /\ ~PortDue /\ ~(pc = "wait" /\ level = 0)
        /\ mode' = mode /\ parity' = parity /\ state' = state /\ uart_data' = uart_data
        /\ current_data_bit' = current_data_bit /\ pc' = pc
        /\ port_trigger' = port_trigger /\ timer_trigger' = timer_trigger
        /\ frame' = frame /\ report' = report /\ Recovery' = Recovery
        /\ UNCHANGED <<config, frame>>
    BY DEF Advance, config, uart, Recovery
  <1>3. FrameTypes /\ ModeInv  BY DEF FrameInv
  <1>4. /\ LastSample \in Nat /\ 0 \in 0 .. LastSample /\ GlitchTicks \in Nat
        /\ \A s \in SenderTicks : s \in Nat
        /\ BitTicks \in Nat /\ HalfBit \in Nat
    BY <1>3, SampleRange, Parameters
  <1>5. /\ wait \in Nat /\ Needed = wait + (LastSample - Taken) * BitTicks
        /\ (LastSample - Taken) * BitTicks \in Nat
    BY <1>3, NeededType
  <1>6. LastSample' = LastSample /\ buffered' = buffered
    BY <1>2 DEF LastSample, buffered
  <1>7. Taken' = Taken  BY <1>2, <1>6 DEF Taken
  <1>8. state # "IDLE" => Sampling  BY <1>3 DEF ModeInv, Sampling
  <1>9. n \in Nat
    <2>1. signal # <<>> => Head(signal)[2] \in Nat  BY Parts
    <2>2. QED  BY <1>1, <1>5, <2>1 DEF Pending
  <1>10. state # "IDLE" => n <= wait /\ wait' = wait - n
    BY <1>1, <1>8 DEF Pending
  <1>11. signal # <<>> => /\ n <= signal[1][2]
                          /\ signal' = <<<<level, signal[1][2] - n>>>> \o Tail(signal)
    BY <1>1, Parts DEF Pending
  <1>12. state # "IDLE" => Needed' = Needed - n
    <2>1. HAVE state # "IDLE"
    <2>2. Needed' = wait - n + (LastSample - Taken) * BitTicks
      BY <1>6, <1>7, <1>10, <2>1 DEF Needed
    <2>3. QED  BY <1>5, <1>9, <2>2
  <1>13. Reported' = Reported  BY <1>2, <1>6 DEF Reported, Kept
  <1>14. FrameTypes' /\ ModeInv'  BY <1>2, <1>3, <1>6 DEF FrameTypes, ModeInv
  <1>15. ~Ready
    <2>1. SUFFICES ASSUME Ready PROVE FALSE  OBVIOUS
    <2>2. level = 0
      <3>1. CASE Low(GlitchTicks)  BY <1>4, <3>1, LeftType
      <3>2. CASE \E s \in SenderTicks : Driven(0, s, s)
        <4>1. PICK s \in SenderTicks : Driven(0, s, s)  BY <3>2
        <4>2. level = FrameLevel(0)  BY <1>3, <1>4, <4>1, DrivenLevel
        <4>3. QED  BY <4>2 DEF FrameLevel
      <3>3. QED  BY <2>1, <3>1, <3>2 DEF Ready
    <2>3. CASE buffered
      <3>1. port_trigger = TRUE  BY <1>3, <2>1, <2>3 DEF ModeInv, Ready
      <3>2. QED  BY <1>2, <2>2, <3>1 DEF PortDue
    <2>4. CASE ~buffered  BY <1>2, <2>1, <2>2, <2>4 DEF Ready
    <2>5. QED  BY <2>3, <2>4
  <1>16. ASSUME NEW r \in Nat, Low(r) \/ High(r)
         PROVE  /\ n <= r /\ r - n \in Nat /\ Left' = Left - n
                /\ Low(r) => Low(r - n)'
                /\ High(r) => High(r - n)'
    <2>1. signal # <<>>  BY <1>16, LeftType
    <2>2. signal[1][2] = r
      <3>1. PICK R : R = Recovery  OBVIOUS
      <3>2. signal = <<<<0, r>>, R>> \/ signal = <<<<1, r>>>>  BY <1>16, <3>1 DEF Low, High
      <3>3. QED  BY <3>2
    <2>3. n <= r  BY <1>11, <2>1, <2>2
    <2>4. r - n \in Nat  BY <1>9, <2>3
    <2>5. QED  BY <1>9, <1>11, <1>16, <2>1, <2>3, <2>4, PulseLater
  <1>17. CASE Receiving
    <2>1. PICK s \in SenderTicks, p \in 0 .. LastSample : \E r \in 0 .. s :
             /\ Driven(p, r, s)
             /\ (p + 1) * s - r = HalfBit + Taken * BitTicks - wait
      BY <1>17 DEF Receiving
    <2>2. PICK r \in 0 .. s :
             /\ Driven(p, r, s)
             /\ (p + 1) * s - r = HalfBit + Taken * BitTicks - wait
      BY <2>1
    <2>3. s \in Nat /\ r \in Nat /\ r <= s  BY <1>4
    <2>4. signal # <<>> /\ signal[1][2] = r  BY <1>3, <2>2, <2>3, DrivenLevel
    <2>5. n <= r  BY <1>11, <2>4
    <2>6. Driven(p, r - n, s)'  BY <1>2, <1>3, <1>9, <1>11, <2>2, <2>3, <2>4, <2>5, DrivenLater
    <2>7. state # "IDLE"  BY <1>17 DEF Receiving
    <2>8. (p + 1) * s - (r - n) = HalfBit + Taken' * BitTicks - wait'
      <3>1. PICK x \in Nat : x = (p + 1) * s
        <4>1. \A a, b \in Nat : (a + 1) * b \in Nat  OBVIOUS
        <4>2. p \in Nat  BY <1>4
        <4>3. QED  BY <2>3, <4>1, <4>2
      <3>2. PICK y \in Nat : y = Taken * BitTicks
        <4>1. \A a, b \in Nat : a * b \in Nat  OBVIOUS
        <4>2. Taken \in Nat  BY <1>3, SampleRange, <1>4
        <4>3. QED  BY <1>4, <4>1, <4>2
      <3>3. x - r = HalfBit + y - wait  BY <2>2, <3>1, <3>2, Zenon
      <3>4. x - (r - n) = HalfBit + y - (wait - n)  BY <1>4, <1>5, <1>9, <2>3, <3>3
      <3>5. wait' = wait - n  BY <1>10, <2>7
      <3>6. Taken' * BitTicks = y  BY <1>7, <3>2
      <3>7. QED  BY <3>1, <3>4, <3>5, <3>6, Zenon
    <2>9. r - n \in 0 .. s  BY <1>9, <2>3, <2>5
    <2>10. \E s1 \in SenderTicks, p1 \in 0 .. LastSample' : \E r1 \in 0 .. s1 :
              /\ Driven(p1, r1, s1)'
              /\ (p1 + 1) * s1 - r1 = HalfBit + Taken' * BitTicks - wait'
      <3>1. PICK r1 \in 0 .. s : r1 = r - n  BY <2>9
      <3>2. Driven(p, r1, s)' /\ (p + 1) * s - r1 = HalfBit + Taken' * BitTicks - wait'
        BY <2>6, <2>8, <3>1
      <3>3. QED  BY <1>6, <3>2
    <2>11. Receiving'  BY <1>2, <1>17, <2>10 DEF Receiving
    <2>12. QED  BY <1>14, <2>11 DEF FrameInv
  <1>18. CASE Glitching
    <2>1. state = "START" /\ frame.kind = "glitch" /\ report = <<>> /\ Needed < Left
      BY <1>18 DEF Glitching
    <2>2. PICK r \in Nat : (Low(r) /\ r < wait) \/ High(r)  BY <1>18 DEF Glitching
    <2>3. /\ n <= r /\ r - n \in Nat /\ Left' = Left - n
          /\ Low(r) => Low(r - n)'
          /\ High(r) => High(r - n)'
      BY <1>16, <2>2
    <2>4. Left \in Nat  BY <2>2, LeftType
    <2>5. Needed' < Left'  BY <1>5, <1>9, <1>12, <2>1, <2>3, <2>4
    <2>6. (\E r1 \in Nat : Low(r1)' /\ r1 < wait') \/ (\E r1 \in Nat : High(r1)')
      <3>1. PICK r1 \in Nat : r1 = r - n  BY <2>3
      <3>2. CASE Low(r) /\ r < wait
        <4>1. r1 < wait'  BY <1>5, <1>9, <1>10, <2>1, <3>1, <3>2
        <4>2. Low(r1)'  BY <2>3, <3>1, <3>2
        <4>3. QED  BY <4>1, <4>2
      <3>3. CASE High(r)
        <4>1. High(r1)'  BY <2>3, <3>1, <3>3
        <4>2. QED  BY <4>1
      <3>4. QED  BY <2>2, <3>2, <3>3
    <2>7. Glitching'  BY <1>2, <2>1, <2>5, <2>6 DEF Glitching
    <2>8. QED  BY <1>14, <2>7 DEF FrameInv
  <1>19. CASE After
    <2>1. Reported'  BY <1>13, <1>19 DEF After
    <2>2. CASE signal = <<>>
      <3>1. signal' = <<>>  BY <1>1, <2>2
      <3>2. state = "IDLE"  BY <2>2, DoneReported
      <3>3. After'  BY <1>2, <2>1, <3>1, <3>2 DEF After
      <3>4. QED  BY <1>14, <3>3 DEF FrameInv
    <2>3. CASE signal # <<>>
      <3>1. PICK r \in Nat : High(r) \/ (frame.kind = "framing" /\ Low(r))
        BY <1>19, <2>3 DEF After
      <3>2. /\ n <= r /\ r - n \in Nat /\ Left' = Left - n
            /\ Low(r) => Low(r - n)'
            /\ High(r) => High(r - n)'
        BY <1>16, <3>1
      <3>3. Left \in Nat  BY <3>1, LeftType
      <3>4. state # "IDLE" => frame.kind \in {"framing", "glitch"} /\ Needed' < Left'
        <4>1. HAVE state # "IDLE"
        <4>2. frame.kind \in {"framing", "glitch"} /\ Needed < Left
          BY <1>19, <4>1 DEF After
        <4>3. QED  BY <1>5, <1>9, <1>12, <3>2, <3>3, <4>1, <4>2
      <3>5. (\E r1 \in Nat : High(r1)') \/ (frame.kind = "framing" /\ \E r1 \in Nat : Low(r1)')
        <4>1. PICK r1 \in Nat : r1 = r - n  BY <3>2
        <4>2. (High(r) => High(r1)') /\ (Low(r) => Low(r1)')  BY <3>2, <4>1
        <4>3. QED  BY <3>1, <4>2
      <3>6. After'  BY <1>2, <2>1, <3>4, <3>5 DEF After
      <3>7. QED  BY <1>14, <3>6 DEF FrameInv
    <2>4. QED  BY <2>2, <2>3
  <1>20. QED  BY <1>15, <1>17, <1>18, <1>19 DEF FrameInv

-----------------------------------------------------------------------------
(* The invariant of the frames.                                            *)

LEMMA FramesInitially == Init => FrameInv
  <1>1. SUFFICES ASSUME Init PROVE FrameInv  OBVIOUS
  <1>2. /\ mode \in {"buffered", "blocking"} /\ state = "IDLE" /\ pc = "out"
        /\ port_trigger = (mode = "buffered") /\ timer_trigger = FALSE
        /\ signal = <<>> /\ report = <<>> /\ frame.kind = "none"
    BY <1>1, RxAssumption DEF Init, RxAssumption
  <1>3. FrameTypes  BY <1>2 DEF FrameTypes
  <1>4. ModeInv  BY <1>2 DEF ModeInv, buffered
  <1>5. Reported  BY <1>2 DEF Reported
  <1>6. After  BY <1>2, <1>5 DEF After
  <1>7. QED  BY <1>3, <1>4, <1>6 DEF FrameInv

LEMMA HandlerFrameTypes ==
    ASSUME HandlerTypes, FrameTypes, Falling \/ Sample, UNCHANGED <<config, sender>>
    PROVE  FrameTypes'
  <1>1. parity' = parity /\ frame' = frame  BY DEF config, sender
  <1>2. report' \in Seq(Items)
    <2>1. PICK z \in Seq(Items) : report' = report \o z  BY ReportGrows DEF FrameTypes
    <2>2. QED  BY <2>1, Joined DEF FrameTypes
  <1>3. state' = "PARITY" => parity # "none"
    <2>1. Falling => state' = "START"  BY DEF Falling
    <2>2. StartBit => state' = "DATA"  BY DEF StartBit
    <2>3. DataBit => state' \in {"DATA", "STOP"} \/ parity # "none"  BY DEF DataBit
    <2>4. Parity => state' = "STOP"  BY DEF Parity
    <2>5. StopBit => state' = "IDLE"  BY DEF StopBit
    <2>6. QED  BY <2>1, <2>2, <2>3, <2>4, <2>5 DEF Sample
  <1>4. QED  BY <1>1, <1>2, <1>3 DEF FrameTypes

\* What the handler does to the interrupts, beside the state.
LEMMA HandlerTriggers ==
    ASSUME Falling \/ Sample
    PROVE  \/ /\ Falling /\ state = "IDLE" /\ state' # "IDLE"
              /\ port_trigger' = FALSE /\ timer_trigger' = buffered
           \/ /\ Sample /\ state # "IDLE" /\ state' = "IDLE"
              /\ port_trigger' = buffered /\ timer_trigger' = FALSE
           \/ /\ Sample /\ state # "IDLE" /\ state' # "IDLE"
              /\ port_trigger' = port_trigger /\ timer_trigger' = timer_trigger
  <1>1. CASE Falling  BY <1>1 DEF Falling
  <1>2. CASE StartBit  BY <1>2 DEF StartBit, Sample
  <1>3. CASE DataBit  BY <1>3 DEF DataBit, Sample
  <1>4. CASE Parity  BY <1>4 DEF Parity, Sample
  <1>5. CASE StopBit  BY <1>5 DEF StopBit, Sample
  <1>6. QED  BY <1>1, <1>2, <1>3, <1>4, <1>5 DEF Sample

\* The handler moves from phase to phase.
LEMMA HandlerPhase ==
    ASSUME SamplesInside, HandlerTypes, OtherTypes, FrameInv,
           Falling \/ (Sample /\ wait = 0), UNCHANGED <<config, sender>>
    PROVE  Ready' \/ Receiving' \/ Glitching' \/ After'
  <1>1. FrameTypes  BY DEF FrameInv
  <1>2. CASE Falling  BY <1>1, <1>2, FallingEdge DEF FrameInv
  <1>3. CASE Sample /\ wait = 0
    <2>1. state # "IDLE"  BY <1>1, <1>3, SampleNeeds
    <2>2. ~Ready  BY <2>1 DEF Ready
    <2>3. CASE Receiving  BY <1>1, <1>3, <2>3, ReceivingSample
    <2>4. CASE Glitching  BY <1>1, <1>3, <2>4, GlitchSample
    <2>5. CASE After  BY <1>1, <1>3, <2>5, StraySample
    <2>6. QED  BY <2>2, <2>3, <2>4, <2>5 DEF FrameInv
  <1>4. QED  BY <1>2, <1>3

LEMMA FrameSteps ==
    ASSUME SamplesInside, Inv, FrameInv, [Next]_vars
    PROVE  FrameInv'
  <1>1. HandlerTypes /\ OtherTypes  BY DEF Inv
  <1>2. FrameTypes /\ ModeInv /\ (Ready \/ Receiving \/ Glitching \/ After)  BY DEF FrameInv
  <1>3. ASSUME UNCHANGED <<config, state, uart_data, current_data_bit, triggers, sender, report>>,
               Ready => buffered \/ pc' = pc, ModeInv'
        PROVE  FrameInv'
    BY <1>2, <1>3, SamePhase DEF FrameInv
  <1>4. ASSUME UNCHANGED config  PROVE buffered' = buffered
    BY <1>4 DEF config, buffered
  <1>5. CASE UNCHANGED vars
    <2>1. /\ UNCHANGED <<config, state, uart_data, current_data_bit, triggers, sender, report>>
          /\ pc' = pc
      BY <1>5 DEF vars, uart
    <2>2. ModeInv'  BY <1>2, <1>4, <2>1 DEF ModeInv, triggers
    <2>3. QED  BY <1>3, <2>1, <2>2
  <1>6. ASSUME NEW k \in Kinds, NEW d \in Data, NEW s \in SenderTicks, SendFrame(k, d, s)
        PROVE  FrameInv'
    BY <1>1, <1>6, SendStep
  <1>7. CASE NextLevel  BY <1>1, <1>7, NextLevelStep
  <1>8. CASE Isr
    <2>1. /\ (PortDue /\ Falling) \/ (TimerDue /\ Sample)
          /\ UNCHANGED <<config, sender>> /\ pc' = pc
      BY <1>8 DEF Isr
    <2>2. /\ Falling \/ (Sample /\ wait = 0)
          /\ port_trigger \/ timer_trigger
      BY <2>1 DEF PortDue, TimerDue
    <2>3. FrameTypes'  BY <1>1, <1>2, <2>1, <2>2, HandlerFrameTypes
    <2>4. Ready' \/ Receiving' \/ Glitching' \/ After'  BY <1>1, <2>1, <2>2, HandlerPhase
    <2>5. buffered  BY <1>2, <2>2 DEF ModeInv
    <2>6. ModeInv'
      <3>1. buffered'  BY <1>4, <2>1, <2>5
      <3>2. port_trigger' = (state' = "IDLE") /\ timer_trigger' = (state' # "IDLE")
        <4>1. port_trigger = (state = "IDLE") /\ timer_trigger = (state # "IDLE")
          BY <1>2, <2>5 DEF ModeInv
        <4>2. buffered = TRUE  BY <2>5 DEF buffered
        <4>3. QED  BY <2>2, <4>1, <4>2, HandlerTriggers
      <3>3. pc' \in {"out", "underrun"}  BY <1>2, <2>1, <2>5 DEF ModeInv
      <3>4. QED  BY <3>1, <3>2, <3>3 DEF ModeInv
    <2>7. QED  BY <2>3, <2>4, <2>6 DEF FrameInv
  <1>9. CASE RxPop
    <2>1. /\ UNCHANGED <<config, state, uart_data, current_data_bit, triggers, sender, report>>
          /\ buffered /\ pc' \in {"out", "underrun"}
      BY <1>9 DEF RxPop
    <2>2. ModeInv'  BY <1>2, <1>4, <2>1 DEF ModeInv, triggers
    <2>3. QED  BY <1>3, <2>1, <2>2
  <1>10. CASE RxTell
    <2>1. /\ UNCHANGED <<config, state, uart_data, current_data_bit, triggers, sender, report>>
          /\ pc = "underrun" /\ pc' = "out"
      BY <1>10 DEF RxTell, uart
    <2>2. buffered  BY <1>2, <2>1 DEF ModeInv
    <2>3. ModeInv'  BY <1>2, <1>4, <2>1, <2>2 DEF ModeInv, triggers
    <2>4. QED  BY <1>3, <2>1, <2>2, <2>3
  <1>11. CASE RxCall
    <2>1. ~buffered /\ pc = "out" /\ pc' = "wait" /\ state' = "IDLE"  BY <1>11 DEF RxCall
    <2>2. state = "IDLE" /\ ~Ready  BY <1>2, <2>1 DEF ModeInv, Ready
    <2>3. UNCHANGED <<config, state, uart_data, current_data_bit, triggers, sender, report>>
      BY <1>11, <2>2 DEF RxCall
    <2>4. ModeInv'  BY <1>2, <1>4, <2>1, <2>2, <2>3 DEF ModeInv, triggers
    <2>5. QED  BY <1>3, <2>2, <2>3, <2>4
  <1>12. ASSUME Falling \/ (Sample /\ wait = 0), UNCHANGED <<config, sender>>, ~buffered,
                pc' = IF state' = "IDLE" THEN "out" ELSE "sample"
         PROVE  FrameInv'
    <2>1. FrameTypes'  BY <1>1, <1>2, <1>12, HandlerFrameTypes
    <2>2. Ready' \/ Receiving' \/ Glitching' \/ After'  BY <1>1, <1>12, HandlerPhase
    <2>3. ModeInv'
      <3>1. ~buffered'  BY <1>4, <1>12
      <3>2. ~port_trigger' /\ ~timer_trigger'
        <4>1. ~port_trigger /\ ~timer_trigger  BY <1>2, <1>12 DEF ModeInv
        <4>2. Falling \/ Sample  BY <1>12
        <4>3. \/ port_trigger' = FALSE /\ timer_trigger' = buffered
              \/ port_trigger' = buffered /\ timer_trigger' = FALSE
              \/ port_trigger' = port_trigger /\ timer_trigger' = timer_trigger
          BY <4>2, HandlerTriggers, Zenon
        <4>4. buffered = FALSE  BY <1>12 DEF buffered
        <4>5. port_trigger = FALSE /\ timer_trigger = FALSE
          BY <1>1, <4>1 DEF HandlerTypes
        <4>6. port_trigger' = FALSE /\ timer_trigger' = FALSE  BY <4>3, <4>4, <4>5, Zenon
        <4>7. QED  BY <4>6
      <3>3. pc' \in {"out", "sample"} /\ (pc' = "sample" <=> state' # "IDLE")  BY <1>12
      <3>4. QED  BY <3>1, <3>2, <3>3 DEF ModeInv
    <2>4. QED  BY <2>1, <2>2, <2>3 DEF FrameInv
  <1>13. CASE RxEdge
    <2>1. pc = "wait" /\ Falling /\ pc' = "sample" /\ UNCHANGED <<config, sender>>
      BY <1>13 DEF RxEdge
    <2>2. ~buffered  BY <1>2, <2>1 DEF ModeInv
    <2>3. state' # "IDLE"  BY <2>1 DEF Falling
    <2>4. QED  BY <1>12, <2>1, <2>2, <2>3
  <1>14. CASE RxSample
    <2>1. /\ pc = "sample" /\ Sample /\ wait = 0 /\ UNCHANGED <<config, sender>>
          /\ pc' = IF state' = "IDLE" THEN "out" ELSE "sample"
      BY <1>14 DEF RxSample
    <2>2. ~buffered  BY <1>2, <2>1 DEF ModeInv
    <2>3. QED  BY <1>12, <2>1, <2>2
  <1>15. CASE Advance  BY <1>1, <1>15, AdvanceStep
  <1>16. QED
    BY <1>5, <1>6, <1>7, <1>8, <1>9, <1>10, <1>11, <1>13, <1>14, <1>15 DEF Next

(* Sender and handler stay in step: at every moment a frame waits for its  *)
(* start bit to be noticed, or is being sampled, each sample inside the bit *)
(* it is meant for, or is reported (sleep_until_next_sample and            *)
(* uart_rx_handle_event, uart_rx.c).                                       *)
THEOREM FrameInvariance == ASSUME SamplesInside PROVE Spec => [](Inv /\ FrameInv)
  <1>1. Init => Inv /\ FrameInv  BY Initially, FramesInitially
  <1>2. Inv /\ FrameInv /\ [Next]_vars => (Inv /\ FrameInv)'  BY Steps, FrameSteps
  <1>3. QED  BY <1>1, <1>2, PTL DEF Spec

(* Every frame is reported as what it was, by both receivers, whatever     *)
(* came before it, for every clock of the sender at which the samples fall *)
(* inside their bits (uart_rx_handle_event, uart_rx.c).                    *)
THEOREM FramesCorrect == ASSUME SamplesInside PROVE Spec => []FramesReported
  <1>1. Inv /\ FrameInv => FramesReported
    <2>1. SUFFICES ASSUME Inv, FrameInv, signal = <<>> PROVE Reported
      BY DEF FramesReported
    <2>2. QED  BY <2>1, DoneReported DEF Inv
  <1>2. QED  BY <1>1, FrameInvariance, PTL

-----------------------------------------------------------------------------
(* The FIFO between them, in full: two threads and no lock.                *)

Count == Len(sent) - Len(got)

\* The slot of the j-th byte in the FIFO, counted from 0.
At(j) == IF read_idx + j < SizePlusOne THEN read_idx + j
                                       ELSE read_idx + j - SizePlusOne

(* How the indices and the slots represent the bytes in the FIFO.          *)
Layout ==
    /\ Count \in 0 .. SizePlusOne - 1
    /\ write_idx = At(Count)
    /\ \A j \in 0 .. Count - 1 : buffer[At(j)] = sent[Len(got) + 1 + j]

(* What each thread knows between the steps of its call.                   *)
InCall ==
    /\ place["producer"] \in {"data", "index"} =>
          Count < SizePlusOne - 1 /\ Len(sent) < MaxSent
    /\ place["producer"] = "index" => buffer[write_idx] = data["producer"]
    /\ place["consumer"] \in {"data", "index"} => Count > 0
    /\ place["consumer"] = "index" => data["consumer"] = sent[Len(got) + 1]

IInv == FifoTypeOK /\ Layout /\ InCall /\ FirstInFirstOut

-----------------------------------------------------------------------------

LEMMA TypeInit == ASSUME FifoInit PROVE FifoTypeOK
  BY FifoAssumption DEF FifoInit, FifoTypeOK, Slots, Threads

LEMMA TypeStep == ASSUME FifoTypeOK, [FifoNext]_fifoVars PROVE FifoTypeOK'
<1> USE FifoAssumption DEF FifoTypeOK, Slots, Threads
<1>1. CASE PushRefused
  BY <1>1 DEF PushRefused, storage
<1>2. ASSUME NEW d \in Bytes, PushBegin(d) PROVE FifoTypeOK'
  BY <1>2 DEF PushBegin, Goto, storage
<1>3. CASE PushData
  BY <1>3 DEF PushData, Goto
<1>4. CASE PushIndex
  BY <1>4 DEF PushIndex, Goto, Succ
<1>5. CASE PopRefused
  BY <1>5 DEF PopRefused, storage
<1>6. CASE PopBegin
  BY <1>6 DEF PopBegin, Goto, storage
<1>7. CASE PopData
  BY <1>7 DEF PopData, Goto, storage
<1>8. CASE PopIndex
  BY <1>8 DEF PopIndex, Goto, Succ
<1>9. ASSUME NEW t \in Threads, FillLevel(t) PROVE FifoTypeOK'
  <2>1. Above \in 0 .. UintMod - 1 /\ Below \in 0 .. UintMod - 1
    BY DEF Above, Below
  <2>2. QED
    BY <1>9, <2>1 DEF FillLevel, FillAtOnce, FillCompare, FillSubtract, Goto, storage
<1>10. CASE UNCHANGED fifoVars
  BY <1>10 DEF fifoVars
<1>11. QED
  BY <1>1, <1>2, <1>3, <1>4, <1>5, <1>6, <1>7, <1>8, <1>9, <1>10
  DEF FifoNext, Producer, Consumer

(* FifoTypeOK holds of every behaviour: both indices stay inside the       *)
(* storage array (uart_util.c wraps them at size_plus_one) and a fill      *)
(* level is an unsigned.                                                   *)
THEOREM FifoTypeCorrect == FifoSpec => []FifoTypeOK
<1>1. FifoInit => FifoTypeOK
  BY TypeInit
<1>2. FifoTypeOK /\ [FifoNext]_fifoVars => FifoTypeOK'
  BY TypeStep
<1>3. QED
  BY <1>1, <1>2, PTL DEF FifoSpec

-----------------------------------------------------------------------------
(* The inductive invariant.  FirstInFirstOut alone is not inductive: that  *)
(* the next byte popped is the right one needs Layout, and that Layout     *)
(* survives a push or a pop in progress needs InCall.                      *)

LEMMA InvInit == ASSUME FifoInit PROVE IInv
<1>1. FifoTypeOK
  BY TypeInit
<1>2. Count = 0
  BY DEF FifoInit, Count
<1>3. Layout
  BY <1>2, FifoAssumption DEF FifoInit, Layout, At
<1>4. InCall
  BY DEF FifoInit, InCall, Threads
<1>5. FirstInFirstOut
  BY DEF FifoInit, FirstInFirstOut
<1>6. QED
  BY <1>1, <1>3, <1>4, <1>5 DEF IInv

LEMMA CountType == ASSUME FifoTypeOK PROVE Len(sent) \in Nat /\ Len(got) \in Nat /\ Count \in Int
  BY DEF FifoTypeOK, Count

(* Steps that leave the storage, the indices and the history alone.        *)
LEMMA LocalStep ==
  ASSUME IInv, FifoTypeOK', UNCHANGED storage, UNCHANGED <<sent, got>>, InCall'
  PROVE  IInv'
<1>1. Count' = Count
  BY DEF Count
<1>2. Layout'
  BY <1>1 DEF IInv, Layout, At, storage
<1>3. QED
  BY <1>2 DEF IInv, FirstInFirstOut

LEMMA PushDataStep == ASSUME IInv, FifoTypeOK', PushData PROVE IInv'
<1> USE FifoAssumption DEF IInv, FifoTypeOK, Slots, Threads
<1>1. Count \in Int /\ Count' = Count
  BY CountType DEF PushData, Count
<1>2. Count < SizePlusOne - 1 /\ write_idx = At(Count)
  BY DEF PushData, Goto, InCall, Layout
<1>3. \A j \in 0 .. Count - 1 : At(j) # write_idx /\ At(j) \in Slots
  BY <1>1, <1>2 DEF Layout, At
<1>4. Layout'
  BY <1>1, <1>3 DEF PushData, Layout, At
<1>5. InCall'
  BY <1>1, <1>2 DEF PushData, InCall, Goto
<1>6. QED
  BY <1>4, <1>5 DEF PushData, FirstInFirstOut

LEMMA PushIndexStep == ASSUME IInv, FifoTypeOK', PushIndex PROVE IInv'
<1> USE FifoAssumption DEF IInv, FifoTypeOK, Slots, Threads
<1>1. /\ Count \in Int /\ Len(sent) \in Nat /\ Len(got) \in Nat
      /\ Len(sent') = Len(sent) + 1
      /\ \A i \in 1 .. Len(sent) : sent'[i] = sent[i]
      /\ sent'[Len(sent) + 1] = data["producer"]
  BY CountType DEF PushIndex
<1>2. Count' = Count + 1
  BY <1>1 DEF PushIndex, Count
<1>3. /\ Count \in 0 .. SizePlusOne - 2
      /\ write_idx = At(Count)
      /\ buffer[write_idx] = data["producer"]
  BY <1>1 DEF PushIndex, Goto, InCall, Layout
<1>4. write_idx' = At(Count + 1)
  BY <1>3 DEF PushIndex, Succ, At
<1>5. ASSUME NEW j \in 0 .. Count PROVE buffer[At(j)] = sent'[Len(got) + 1 + j]
  <2>1. CASE j = Count
    <3>1. Len(got) + 1 + j = Len(sent) + 1
      BY <1>1, <2>1 DEF Count
    <3>2. QED
      BY <1>1, <1>3, <2>1, <3>1
  <2>2. CASE j \in 0 .. Count - 1
    <3>1. Len(got) + 1 + j \in 1 .. Len(sent)
      BY <1>1, <1>3, <2>2 DEF Count
    <3>2. buffer[At(j)] = sent[Len(got) + 1 + j]
      BY <2>2 DEF Layout
    <3>3. QED
      BY <1>1, <3>1, <3>2
  <2>3. QED
    BY <1>3, <2>1, <2>2
<1>6. Layout'
  <2>1. Count' \in 0 .. SizePlusOne - 1 /\ write_idx' = At(Count)'
    BY <1>2, <1>3, <1>4 DEF At, PushIndex
  <2>2. ASSUME NEW j \in 0 .. Count' - 1 PROVE buffer'[At(j)'] = sent'[Len(got') + 1 + j]
    <3>1. j \in 0 .. Count
      BY <1>2, <1>3
    <3>2. At(j)' = At(j) /\ buffer' = buffer /\ got' = got
      BY DEF At, PushIndex
    <3>3. QED
      BY <1>5, <3>1, <3>2
  <2>3. QED
    BY <2>1, <2>2 DEF Layout, At
<1>7. InCall'
  <2>1. place'["producer"] = "out" /\ place'["consumer"] = place["consumer"]
    BY DEF PushIndex, Goto
  <2>2. ASSUME place["consumer"] \in {"data", "index"}
        PROVE  Count > 0 /\ sent'[Len(got) + 1] = sent[Len(got) + 1]
    <3>1. Count > 0
      BY <2>2 DEF InCall
    <3>2. Len(got) + 1 \in 1 .. Len(sent)
      BY <1>1, <3>1 DEF Count
    <3>3. QED
      BY <1>1, <3>1, <3>2
  <2>3. data' = data /\ got' = got
    BY DEF PushIndex
  <2>4. QED
    BY <1>2, <1>3, <2>1, <2>2, <2>3 DEF InCall
<1>8. FirstInFirstOut'
  BY <1>1 DEF FirstInFirstOut, PushIndex
<1>9. QED
  BY <1>6, <1>7, <1>8

LEMMA PopIndexStep == ASSUME IInv, FifoTypeOK', PopIndex PROVE IInv'
<1> USE FifoAssumption DEF IInv, FifoTypeOK, Slots, Threads
<1>1. /\ Count \in Int /\ Len(sent) \in Nat /\ Len(got) \in Nat
      /\ Len(got') = Len(got) + 1
      /\ \A i \in 1 .. Len(got) : got'[i] = got[i]
      /\ got'[Len(got) + 1] = data["consumer"]
  BY CountType DEF PopIndex
<1>2. Count' = Count - 1
  BY <1>1 DEF PopIndex, Count
<1>3. /\ Count \in 1 .. SizePlusOne - 1
      /\ data["consumer"] = sent[Len(got) + 1]
  BY <1>1 DEF PopIndex, Goto, InCall, Layout
<1>4. \A j \in 0 .. Count - 1 : At(j)' = At(j + 1)
  BY <1>3 DEF PopIndex, Succ, At
<1>5. \A j \in 0 .. Count - 2 : buffer[At(j + 1)] = sent[Len(got) + 1 + (j + 1)]
  <2>1. \A i \in 0 .. Count - 1 : buffer[At(i)] = sent[Len(got) + 1 + i]
    BY DEF Layout
  <2>2. QED
    BY <1>3, <2>1
<1>7. Layout'
  <2>1. Count' \in 0 .. SizePlusOne - 1
    BY <1>2, <1>3
  <2>2. write_idx' = At(Count)'
    BY <1>2, <1>3 DEF PopIndex, Layout, Succ, At
  <2>3. ASSUME NEW j \in 0 .. Count' - 1 PROVE buffer'[At(j)'] = sent'[Len(got') + 1 + j]
    <3>1. j \in 0 .. Count - 2 /\ At(j)' = At(j + 1)
      BY <1>2, <1>3, <1>4
    <3>2. Len(got') + 1 + j = Len(got) + 1 + (j + 1)
      BY <1>1, <3>1, <1>3
    <3>3. QED
      BY <1>5, <3>1, <3>2 DEF PopIndex
  <2>4. QED
    BY <2>1, <2>2, <2>3 DEF Layout, At
<1>8. InCall'
  BY <1>1, <1>2, <1>3 DEF InCall, PopIndex, Goto, Count
<1>9. FirstInFirstOut'
  <2>1. sent' = sent /\ Len(got') <= Len(sent)
    BY <1>1, <1>3 DEF PopIndex, Count
  <2>2. \A i \in 1 .. Len(got) : got[i] = sent[i]
    BY DEF FirstInFirstOut
  <2>3. ASSUME NEW i \in 1 .. Len(got') PROVE got'[i] = sent[i]
    <3> HIDE DEF IInv, FifoTypeOK, Slots, Threads
    <3>1. CASE i \in 1 .. Len(got)
      <4>1. got'[i] = got[i]
        BY <1>1, <3>1, Zenon
      <4>2. got[i] = sent[i]
        BY <2>2, <3>1, Zenon
      <4>3. QED
        BY <4>1, <4>2, Zenon
    <3>2. CASE i = Len(got) + 1
      <4>1. got'[i] = data["consumer"]
        BY <1>1, <3>2, Zenon
      <4>2. data["consumer"] = sent[i]
        BY <1>3, <3>2, Zenon
      <4>3. QED
        BY <4>1, <4>2, Zenon
    <3>3. i \in 1 .. Len(got) \/ i = Len(got) + 1
      <4>1. PICK n \in Nat : n = Len(got)
        BY <1>1, Zenon
      <4>2. i \in 1 .. n + 1
        BY <1>1, <4>1, Zenon
      <4>3. i \in 1 .. n \/ i = n + 1
        BY <4>2
      <4>4. QED
        BY <4>1, <4>3, Zenon
    <3>4. QED
      BY <3>1, <3>2, <3>3, Zenon
  <2>4. QED
    BY <2>1, <2>3 DEF FirstInFirstOut
<1>10. QED
  BY <1>7, <1>8, <1>9

LEMMA InvStep == ASSUME IInv, [FifoNext]_fifoVars PROVE IInv'
<1>0. FifoTypeOK'
  BY TypeStep DEF IInv
<1> USE FifoAssumption DEF Threads
<1>1. /\ FifoTypeOK /\ Layout /\ InCall /\ Count \in Int
      /\ (UNCHANGED <<sent, got>> => Count' = Count)
  BY CountType DEF IInv, Count
<1>2. CASE PushRefused
  BY <1>0, <1>1, <1>2, LocalStep DEF PushRefused, InCall, storage
<1>3. ASSUME NEW d \in Bytes, PushBegin(d) PROVE IInv'
  <2>1. Count < SizePlusOne - 1
    BY <1>1, <1>3 DEF PushBegin, Layout, At, Succ, FifoTypeOK, Slots
  <2>2. InCall'
    BY <1>1, <1>3, <2>1 DEF PushBegin, Goto, InCall, FifoTypeOK, storage
  <2>3. QED
    BY <1>0, <1>3, <2>2, LocalStep DEF PushBegin
<1>4. CASE PushData
  BY <1>0, <1>4, PushDataStep
<1>5. CASE PushIndex
  BY <1>0, <1>5, PushIndexStep
<1>6. CASE PopRefused
  BY <1>0, <1>1, <1>6, LocalStep DEF PopRefused, InCall, storage
<1>7. CASE PopBegin
  <2>1. Count > 0
    BY <1>1, <1>7 DEF PopBegin, Layout, At, FifoTypeOK, Slots
  <2>2. InCall'
    BY <1>1, <1>7, <2>1 DEF PopBegin, Goto, InCall, FifoTypeOK, storage
  <2>3. QED
    BY <1>0, <1>7, <2>2, LocalStep DEF PopBegin
<1>8. CASE PopData
  <2>1. Count \in Nat /\ Count > 0 /\ At(0) = read_idx
    BY <1>1, <1>8 DEF PopData, Goto, InCall, Layout, At, FifoTypeOK, Slots
  <2>2. buffer[read_idx] = sent[Len(got) + 1]
    BY <1>1, <2>1 DEF Layout, FifoTypeOK
  <2>3. InCall'
    BY <1>1, <1>8, <2>1, <2>2 DEF PopData, Goto, InCall, FifoTypeOK, storage
  <2>4. QED
    BY <1>0, <1>8, <2>3, LocalStep DEF PopData
<1>9. CASE PopIndex
  BY <1>0, <1>9, PopIndexStep
<1>10. ASSUME NEW t \in Threads, FillLevel(t) PROVE IInv'
  <2>1. InCall'
    BY <1>1, <1>10 DEF FillLevel, FillAtOnce, FillCompare, FillSubtract, Goto,
                       InCall, FifoTypeOK, storage
  <2>2. QED
    BY <1>0, <1>10, <2>1, LocalStep
    DEF FillLevel, FillAtOnce, FillCompare, FillSubtract
<1>11. CASE UNCHANGED fifoVars
  BY <1>0, <1>1, <1>11, LocalStep DEF fifoVars, InCall, storage
<1>12. QED
  BY <1>2, <1>3, <1>4, <1>5, <1>6, <1>7, <1>8, <1>9, <1>10, <1>11
  DEF FifoNext, Producer, Consumer

THEOREM FifoInvariance == FifoSpec => []IInv
<1>1. FifoInit => IInv
  BY InvInit
<1>2. IInv /\ [FifoNext]_fifoVars => IInv'
  BY InvStep
<1>3. QED
  BY <1>1, <1>2, PTL DEF FifoSpec

-----------------------------------------------------------------------------
(* What the invariant gives.                                               *)

(* The bytes popped are the first bytes pushed, in order and unchanged:    *)
(* push_byte_into_buffer and pop_byte_from_buffer lose, repeat, reorder    *)
(* and invent nothing, however the two threads interleave.                 *)
THEOREM Order == FifoSpec => []FirstInFirstOut
<1>1. IInv => FirstInFirstOut
  BY DEF IInv
<1>2. QED
  BY <1>1, FifoInvariance, PTL

(* The slot push_byte_into_buffer stores to is never the one               *)
(* pop_byte_from_buffer is loading from: the FIFO needs no lock for the    *)
(* data, because the free slot keeps the two indices apart.                *)
THEOREM NoRace == FifoSpec => []NoSlotRace
<1>1. IInv => NoSlotRace
  <2> SUFFICES ASSUME IInv, place["producer"] \in {"data", "index"},
                      place["consumer"] \in {"data", "index"}
               PROVE  write_idx # read_idx
    BY DEF NoSlotRace
  <2>1. Count \in Int /\ 0 < Count /\ Count < SizePlusOne - 1
    BY CountType DEF IInv, InCall
  <2>2. QED
    BY <2>1, FifoAssumption DEF IInv, FifoTypeOK, Layout, At, Slots
<1>2. QED
  BY <1>1, FifoInvariance, PTL

(* A number strictly between -M and M is 0 modulo M only if it is 0.       *)
LEMMA ModNonZero ==
  ASSUME NEW M \in Nat \ {0}, NEW x \in 1 - M .. M - 1, x # 0
  PROVE  x % M # 0
<1>1. CASE x > 0
  <2>1. x % M = x
    BY <1>1
  <2>2. QED
    BY <1>1, <2>1
<1>2. CASE x < 0
  <2>1. x % M = x + M
    BY <1>2
  <2>2. QED
    BY <1>2, <2>1
<1>3. QED
  BY <1>1, <1>2

(* A computed fill level of 0 is right at the instant of the subtraction,  *)
(* whether get_buffer_fill_level loads the other thread's index once or    *)
(* twice: uart_tx relies on this answer to bypass the FIFO.                *)
THEOREM ZeroFill == FifoSpec => ZeroMeansEmpty
<1>1. ASSUME IInv, NEW t \in Threads, FillLevel(t), fillLevel'[t] = 0, place'[t] = "out"
      PROVE  Len(sent) = Len(got)
  <2>1. /\ Count \in 0 .. SizePlusOne - 1 /\ write_idx = At(Count)
        /\ read_idx \in Slots /\ write_idx \in Slots
    BY <1>1 DEF IInv, FifoTypeOK, Layout
  <2>2. /\ SizePlusOne \in Nat \ {0} /\ UintMod \in Nat /\ UintMod > 2 * SizePlusOne
        /\ read_idx \in Int /\ write_idx \in Int
        /\ 0 <= read_idx /\ read_idx < SizePlusOne
        /\ 0 <= write_idx /\ write_idx < SizePlusOne
    BY <2>1, FifoAssumption DEF Slots
  <2>3. Below # 0
    <3>1. SizePlusOne + write_idx - read_idx \in 1 .. UintMod - 1
      BY <2>2
    <3>2. QED
      BY <2>2, <3>1, ModNonZero DEF Below
  <2>4. Above = 0 => write_idx = read_idx
    <3>1. write_idx - read_idx \in 1 - UintMod .. UintMod - 1
      BY <2>2
    <3>2. QED
      BY <2>2, <3>1, ModNonZero DEF Above
  <2>5. write_idx = read_idx
    BY <1>1, <2>3, <2>4 DEF FillLevel, FillAtOnce, FillCompare, FillSubtract,
                            Goto, IInv, FifoTypeOK
  <2>6. Count = 0
    BY <2>1, <2>2, <2>5 DEF At
  <2>7. QED
    BY <1>1, <2>6, CountType DEF Count, IInv
<1>2. IInv /\ [FifoNext]_fifoVars =>
        [\A t \in Threads :
            FillLevel(t) /\ place'[t] = "out" /\ fillLevel'[t] = 0
               => Len(sent) = Len(got)]_fifoVars
  BY <1>1
<1>3. QED
  BY <1>2, FifoInvariance, PTL DEF FifoSpec, ZeroMeansEmpty

(* UartFifo implements BoundedQueue with a capacity of size_plus_one - 1:  *)
(* each push and pop takes effect at one of its steps, and "full" and      *)
(* "empty" are answered of a queue that is full and empty at that step.    *)
THEOREM Refinement == FifoSpec => ImplementsQueue
<1>1. FifoInit => Queue!Init
  BY DEF FifoInit, Queue!Init
<1>2. ASSUME IInv, [FifoNext]_fifoVars PROVE [Queue!Next]_Queue!vars
  <2>1. Queue!Fill = Count /\ Count \in 0 .. SizePlusOne - 1 /\ FifoTypeOK
    BY <1>2 DEF Queue!Fill, Count, IInv, Layout
  <2> USE DEF Queue!vars
  <2>2. CASE PushRefused
    <3>1. Count = SizePlusOne - 1
      BY <1>2, <2>1, <2>2, FifoAssumption DEF PushRefused, Succ, IInv, Layout, At, FifoTypeOK, Slots
    <3>2. QED
      BY <2>1, <2>2, <3>1 DEF PushRefused, Queue!Next, Queue!RefusePush
  <2>3. CASE PushIndex
    <3>1. Count < SizePlusOne - 1 /\ data["producer"] \in Bytes
      BY <1>2, <2>1, <2>3 DEF PushIndex, Goto, IInv, InCall, FifoTypeOK, Threads
    <3>2. Len(sent) < MaxSent
      BY <1>2, <2>3 DEF PushIndex, Goto, IInv, InCall
    <3>3. QED
      BY <2>1, <2>3, <3>1, <3>2 DEF PushIndex, Queue!Next, Queue!Push
  <2>4. CASE PopRefused
    <3>1. Count = 0
      BY <1>2, <2>1, <2>4, FifoAssumption DEF PopRefused, IInv, Layout, At, FifoTypeOK, Slots
    <3>2. QED
      BY <2>1, <2>4, <3>1 DEF PopRefused, Queue!Next, Queue!RefusePop
  <2>5. CASE PopIndex
    <3>1. Count > 0 /\ data["consumer"] = sent[Len(got) + 1]
      BY <1>2, <2>1, <2>5 DEF PopIndex, Goto, IInv, InCall
    <3>2. QED
      BY <2>1, <2>5, <3>1 DEF PopIndex, Queue!Next, Queue!Pop
  <2>6. CASE UNCHANGED <<sent, got, pushResult, popResult>>
    BY <2>6
  <2>7. QED
    BY <1>2, <2>2, <2>3, <2>4, <2>5, <2>6
    DEF FifoNext, Producer, Consumer, PushBegin, PushData, PopBegin, PopData,
        FillLevel, FillAtOnce, FillCompare, FillSubtract, fifoVars
<1>3. QED
  BY <1>1, <1>2, FifoInvariance, PTL DEF FifoSpec, ImplementsQueue, Queue!Spec

=============================================================================
