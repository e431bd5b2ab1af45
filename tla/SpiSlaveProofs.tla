--------------------------- MODULE SpiSlaveProofs ---------------------------
(***************************************************************************)
(* Proofs about SpiSlave for every width of bytes and words, every buffers *)
(* the application may supply and transactions of any length.              *)
(***************************************************************************)
EXTENDS SpiSlave, SequenceTheorems, TLAPS

\* n bits of a transaction, those after its first start bits.
Run(start, n) == [j \in 1 .. n |-> start + j]

\* The bits due on MISO: out_buf, then zeros.
OutBit(len, k) == IF k <= len * ByteBits THEN k ELSE 0
OutRun(len, start, n) == [j \in 1 .. n |-> OutBit(len, start + j)]

Types ==
    /\ cs \in BOOLEAN /\ cs_val \in BOOLEAN /\ running = cs_val
    /\ duplex \in BOOLEAN
    /\ pc \in {"in", "mask", "check", "out"}
    /\ in_len \in Nat /\ out_len \in Nat
    /\ in_cur \in 0 .. in_len /\ out_cur \in 0 .. out_len
    /\ Len(in_buf) = in_len
    /\ sent \in Nat /\ got \in Seq(Int) /\ Len(got) = sent
    /\ Len(mosi) \in Nat /\ Len(mosi) < WordBits /\ Len(mosi_word) \in {0, WordBits}
    /\ miso \in Seq(Seq(Nat)) /\ Len(miso) <= 2 /\ out_word \in Seq(Nat)
    /\ report.bits \in 0 .. ByteBits - 1

\* Between transactions nothing is in p_mosi, and the thread is waiting for it
\* when the next one is about to start.
Apart ==
    /\ ~cs => mosi_word = <<>>
    /\ ~cs_val => mosi = <<>> /\ mosi_word = <<>>
    /\ ~cs_val /\ cs => sent = 0 /\ pc = "in"
    /\ ~duplex => miso = <<>> /\ pc # "out"

\* The last whole word is not stored yet.
Behind == mosi_word # <<>> \/ pc = "mask"
Stored(w) == IF Behind THEN w - 1 ELSE w

\* What the thread and the port have made of w whole words and a part.
Reception(w) ==
    /\ sent = w * WordBits + Len(mosi)
    /\ mosi = Run(w * WordBits, Len(mosi))
    /\ Behind => w > 0
    /\ mosi_word # <<>> => pc = "in" /\ mosi_word = Run((w - 1) * WordBits, WordBits)
    /\ pc = "mask" => in_word = Run((w - 1) * WordBits, WordBits)
    /\ in_cur = Least(in_len, Stored(w) * WordBytes)
    /\ \A k \in 1 .. in_cur : in_buf[k] = Run((k - 1) * ByteBits, ByteBits)

\* What they have made of out_buf: the thread is a word or two ahead.
Driving(w) ==
    /\ out_cur = Least(out_len, (Stored(w) + 2) * WordBytes)
    /\ LET first == OutRun(out_len, sent, WordBits - Len(mosi))
           second == OutRun(out_len, (w + 1) * WordBits, WordBits)
       IN  /\ miso = IF Behind \/ pc \in {"check", "out"} THEN <<first>>
                     ELSE <<first, second>>
           /\ pc \in {"check", "out"} => out_word = second

Receiving ==
    cs_val => \E w \in Nat : /\ Reception(w)
                             /\ IF duplex THEN Driving(w) ELSE out_len = 0

Seen == \A k \in 1 .. sent : got[k] = IF duplex THEN OutBit(out_len, k) ELSE -1

Inv == Types /\ Apart /\ Receiving /\ Seen

-----------------------------------------------------------------------------
(* Sizes and runs of bits.                                                 *)

LEMMA Sizes ==
    /\ ByteBits \in Nat \ {0} /\ WordBytes \in Nat \ {0} /\ WordBits \in Nat \ {0}
    /\ WordBits = ByteBits * WordBytes
    /\ InLens \subseteq Nat /\ OutLens \subseteq Nat
  <1>1. \A b, c \in Nat \ {0} : b * c \in Nat \ {0}  OBVIOUS
  <1>2. QED  BY <1>1, SpiAssumption DEF SpiAssumption, WordBits

LEMMA Larger == \A a, b, c \in Nat : a <= b => a * c <= b * c
  OBVIOUS

LEMMA Products ==
    \A a, i \in Nat :
        /\ a * WordBytes \in Nat /\ a * WordBits \in Nat /\ a * ByteBits \in Nat
        /\ (a * WordBytes + i) * ByteBits = a * WordBits + i * ByteBits
        /\ (a + 1) * WordBits = a * WordBits + WordBits
        /\ (a + 1) * WordBytes = a * WordBytes + WordBytes
        /\ (a + 1) * ByteBits = a * ByteBits + ByteBits
  <1>1. \A a, i, b, c \in Nat :
            /\ a * c \in Nat /\ a * (b * c) \in Nat /\ a * b \in Nat
            /\ (a * c + i) * b = a * (b * c) + i * b
            /\ (a + 1) * c = a * c + c
            /\ (a + 1) * b = a * b + b
            /\ (a + 1) * (b * c) = a * (b * c) + b * c
    OBVIOUS
  <1>2. QED  BY <1>1, Sizes

\* The word fetched after n others, and how far out_buf has been used up.
LEMMA Fetching ==
    ASSUME NEW len \in Nat, NEW n \in Nat, NEW cur, cur = Least(len, n * WordBytes)
    PROVE  /\ NextWord(cur, len) = OutRun(len, n * WordBits, WordBits)
           /\ cur + Fetched(cur, len) = Least(len, (n + 1) * WordBytes)
           /\ cur \in 0 .. len /\ cur + Fetched(cur, len) \in 0 .. len
  <1>1. PICK a, b \in Nat : a = n * WordBytes /\ b = n * WordBits
    BY Products
  <1>2. /\ a * ByteBits = b /\ (n + 1) * WordBytes = a + WordBytes
        /\ \A i \in Nat : (a + i) * ByteBits = b + i * ByteBits
    <2>1. \A i \in Nat : (a + i) * ByteBits = b + i * ByteBits  BY <1>1, Products
    <2>2. 0 \in Nat /\ a + 0 = a /\ 0 * ByteBits = 0 /\ b + 0 = b  BY Sizes
    <2>3. a * ByteBits = b  BY <2>1, <2>2
    <2>4. (n + 1) * WordBytes = a + WordBytes  BY <1>1, Products
    <2>5. QED  BY <2>1, <2>3, <2>4
  <1>3. PICK f : f = Fetched(cur, len)  OBVIOUS
  <1>4. CASE a >= len
    <2>1. cur = len  BY <1>1, <1>4 DEF Least
    <2>2. f = 0  BY <1>3, <2>1, Sizes DEF Fetched, Least
    <2>3. len * ByteBits <= b /\ len * ByteBits \in Nat  BY <1>2, <1>4, Larger, Products, Sizes
    <2>4. f * ByteBits = 0  BY <2>2, Sizes
    <2>5. NextWord(cur, len) = [j \in 1 .. WordBits |-> 0]
      BY <1>3, <2>4 DEF NextWord
    <2>6. \A j \in 1 .. WordBits : ~(b + j <= len * ByteBits)  BY <2>3, Sizes
    <2>7. NextWord(cur, len) =
             [j \in 1 .. WordBits |-> IF b + j <= len * ByteBits THEN b + j ELSE 0]
      BY <2>5, <2>6
    <2>8. cur + f = Least(len, a + WordBytes) /\ cur \in 0 .. len /\ cur + f \in 0 .. len
      BY <1>4, <2>1, <2>2, Sizes DEF Least
    <2>9. NextWord(cur, len) = OutRun(len, b, WordBits)  BY <2>7 DEF OutRun, OutBit
    <2>10. QED  BY <1>1, <1>2, <1>3, <2>8, <2>9
  <1>5. CASE a < len
    <2>1. cur = a  BY <1>1, <1>5 DEF Least
    <2>2. f = Least(WordBytes, len - a)  BY <1>3, <2>1 DEF Fetched
    <2>3. f \in Nat /\ f <= WordBytes /\ f <= len - a /\ (f < WordBytes => f = len - a)
      BY <1>5, <2>2, Sizes DEF Least
    <2>4. /\ (a + f) * ByteBits = b + f * ByteBits
          /\ (a + f) * ByteBits <= len * ByteBits
          /\ f * ByteBits \in Nat /\ len * ByteBits \in Nat
          /\ f < WordBytes => len * ByteBits = b + f * ByteBits
          /\ f = WordBytes => f * ByteBits = WordBits
      <3>1. (a + f) * ByteBits = b + f * ByteBits  BY <1>2, <2>3
      <3>2. (a + f) * ByteBits <= len * ByteBits  BY <2>3, <1>5, Larger, Sizes
      <3>3. f * ByteBits \in Nat /\ len * ByteBits \in Nat  BY <2>3, Products
      <3>4. f < WordBytes => len * ByteBits = b + f * ByteBits
        <4>1. f < WordBytes => len = a + f  BY <2>3
        <4>2. QED  BY <3>1, <4>1
      <3>5. f = WordBytes => f * ByteBits = WordBits  BY Sizes
      <3>6. QED  BY <3>1, <3>2, <3>3, <3>4, <3>5
    <2>5. NextWord(cur, len) =
             [j \in 1 .. WordBits |-> IF j <= f * ByteBits THEN b + j ELSE 0]
      BY <1>2, <1>3, <2>1 DEF NextWord
    <2>6. \A j \in 1 .. WordBits : j <= f * ByteBits <=> b + j <= len * ByteBits
      <3>1. TAKE j \in 1 .. WordBits
      <3>2. CASE f = WordBytes
        BY <2>4, <3>2, Sizes
      <3>3. CASE f < WordBytes
        BY <2>4, <3>3, Sizes
      <3>4. QED  BY <2>3, <3>2, <3>3, Sizes
    <2>7. NextWord(cur, len) =
             [j \in 1 .. WordBits |-> IF b + j <= len * ByteBits THEN b + j ELSE 0]
      BY <2>5, <2>6
    <2>8. cur + f = Least(len, a + WordBytes) /\ cur \in 0 .. len /\ cur + f \in 0 .. len
      BY <1>5, <2>1, <2>3, Sizes DEF Least
    <2>9. NextWord(cur, len) = OutRun(len, b, WordBits)  BY <2>7 DEF OutRun, OutBit
    <2>10. QED  BY <1>1, <1>2, <1>3, <2>8, <2>9
  <1>6. QED  BY <1>1, <1>4, <1>5

\* A byte of a run of bits, whole or partial.
LEMMA BytesOf ==
    \A a, v, k \in Nat :
        k * ByteBits <= v =>
            ByteOf(Run(a, v), k) =
                Run(a + k * ByteBits,
                    IF (k + 1) * ByteBits <= v THEN ByteBits ELSE v - k * ByteBits)
  <1>1. TAKE a, v, k \in Nat
  <1>2. HAVE k * ByteBits <= v
  <1>3. PICK x \in Nat : x = k * ByteBits  BY Products
  <1>4. x \in Nat /\ x <= v /\ ByteBits \in Nat  BY <1>2, <1>3, Sizes
  <1>5. (k + 1) * ByteBits = x + ByteBits  BY <1>3, Products
  <1>6. Len(Run(a, v)) = v  BY DEF Run
  <1>7. ByteOf(Run(a, v), k) = SubSeq(Run(a, v), x + 1, Least(x + ByteBits, v))
    BY <1>3, <1>5, <1>6 DEF ByteOf
  <1>8. PICK m \in Nat : m = Least(x + ByteBits, v)  BY <1>4 DEF Least
  <1>9. m <= v /\ x <= m /\ m - x = IF x + ByteBits <= v THEN ByteBits ELSE v - x
    BY <1>4, <1>8 DEF Least
  <1>10. SubSeq(Run(a, v), x + 1, m) = [j \in 1 .. m - x |-> Run(a, v)[j + x]]
    BY <1>4, <1>9
  <1>11. \A j \in 1 .. m - x : Run(a, v)[j + x] = (a + x) + j
    BY <1>4, <1>9 DEF Run
  <1>12. SubSeq(Run(a, v), x + 1, m) = Run(a + x, m - x)
    BY <1>10, <1>11 DEF Run
  <1>13. QED  BY <1>3, <1>5, <1>7, <1>8, <1>9, <1>12

-----------------------------------------------------------------------------
(* Storing what was received.                                              *)

LEMMA Rooms ==
    ASSUME Types, NEW s \in Nat, in_cur = Least(in_len, s * WordBytes)
    PROVE  /\ Room \in 0 .. WordBytes
           /\ in_cur + Room = Least(in_len, (s + 1) * WordBytes)
           /\ in_cur + Room \in 0 .. in_len
           /\ Room > 0 => in_cur = s * WordBytes
           /\ Room < WordBytes => in_cur + Room = in_len
  <1>1. PICK x \in Nat : x = s * WordBytes  BY Products
  <1>2. (s + 1) * WordBytes = x + WordBytes  BY <1>1, Products
  <1>3. in_cur = Least(in_len, x) /\ in_len \in Nat /\ WordBytes \in Nat \ {0}
    BY <1>1, Sizes DEF Types
  <1>4. PICK r : r = Room  OBVIOUS
  <1>5. r = Least(WordBytes, in_len - in_cur)  BY <1>4 DEF Room
  <1>6. /\ r \in 0 .. WordBytes
        /\ in_cur + r = Least(in_len, x + WordBytes)
        /\ in_cur + r \in 0 .. in_len
        /\ r > 0 => in_cur = x
        /\ r < WordBytes => in_cur + r = in_len
    BY <1>3, <1>5 DEF Least
  <1>7. QED  BY <1>1, <1>2, <1>4, <1>6

LEMMA StoreBytes ==
    ASSUME Types, NEW a \in Nat, NEW v \in Nat,
           NEW s \in Nat, in_cur = Least(in_len, s * WordBytes),
           NEW b, b = Store(Run(a, v), Room)
    PROVE  /\ Len(b) = in_len
           /\ \A k \in 1 .. in_cur : b[k] = in_buf[k]
           /\ \A k \in 0 .. Room - 1 :
                 k * ByteBits <= v =>
                     b[in_cur + k + 1] =
                         Run(a + k * ByteBits,
                             IF (k + 1) * ByteBits <= v THEN ByteBits ELSE v - k * ByteBits)
  <1>1. PICK r \in 0 .. WordBytes : r = Room  BY Rooms
  <1>2. in_cur + r \in 0 .. in_len /\ in_cur \in 0 .. in_len /\ in_len \in Nat
        /\ r \in Nat
    BY <1>1, Rooms, Sizes DEF Types
  <1>3. b = [k \in 1 .. in_len |->
               IF k \in (in_cur + 1) .. (in_cur + r)
               THEN ByteOf(Run(a, v), k - in_cur - 1) ELSE in_buf[k]]
    BY <1>1 DEF Store
  <1>4. Len(b) = in_len  BY <1>2, <1>3
  <1>5. ASSUME NEW k \in 1 .. in_cur PROVE b[k] = in_buf[k]
    <2>1. k \in 1 .. in_len /\ k \notin (in_cur + 1) .. (in_cur + r)  BY <1>2
    <2>2. QED  BY <1>3, <2>1
  <1>6. ASSUME NEW k \in 0 .. r - 1, k * ByteBits <= v
        PROVE  b[in_cur + k + 1] =
                  Run(a + k * ByteBits,
                      IF (k + 1) * ByteBits <= v THEN ByteBits ELSE v - k * ByteBits)
    <2>1. PICK p \in 1 .. in_len : p = in_cur + k + 1  BY <1>2
    <2>2. p \in (in_cur + 1) .. (in_cur + r) /\ p - in_cur - 1 = k /\ k \in Nat
      BY <1>2, <2>1
    <2>3. b[p] = ByteOf(Run(a, v), k)  BY <1>3, <2>1, <2>2
    <2>4. ByteOf(Run(a, v), k) =
             Run(a + k * ByteBits,
                 IF (k + 1) * ByteBits <= v THEN ByteBits ELSE v - k * ByteBits)
      BY <1>6, <2>2, BytesOf, Zenon
    <2>5. QED  BY <2>1, <2>3, <2>4
  <1>7. QED  BY <1>1, <1>4, <1>5, <1>6

\* A whole word behind the s words stored before.
LEMMA StoreWord ==
    ASSUME Types, NEW s \in Nat, in_cur = Least(in_len, s * WordBytes),
           \A k \in 1 .. in_cur : in_buf[k] = Run((k - 1) * ByteBits, ByteBits),
           NEW b, b = Store(Run(s * WordBits, WordBits), Room)
    PROVE  /\ Len(b) = in_len
           /\ \A k \in 1 .. in_cur + Room : b[k] = Run((k - 1) * ByteBits, ByteBits)
  <1>1. PICK r \in 0 .. WordBytes : r = Room /\ (r > 0 => in_cur = s * WordBytes)  BY Rooms
  <1>2. s * WordBits \in Nat /\ WordBits \in Nat  BY Products, Sizes
  <1>3. /\ Len(b) = in_len
        /\ \A k \in 1 .. in_cur : b[k] = in_buf[k]
        /\ \A k \in 0 .. Room - 1 :
              k * ByteBits <= WordBits =>
                  b[in_cur + k + 1] =
                      Run(s * WordBits + k * ByteBits,
                          IF (k + 1) * ByteBits <= WordBits THEN ByteBits
                          ELSE WordBits - k * ByteBits)
    BY <1>2, StoreBytes
  <1>4. ASSUME NEW k \in 0 .. r - 1
        PROVE  b[in_cur + k + 1] = Run((in_cur + k) * ByteBits, ByteBits)
    <2>1. k \in Nat /\ k <= WordBytes /\ k + 1 \in Nat /\ k + 1 <= WordBytes
          /\ WordBytes \in Nat /\ ByteBits \in Nat /\ r > 0
      BY Sizes
    <2>2. k * ByteBits <= WordBytes * ByteBits /\ (k + 1) * ByteBits <= WordBytes * ByteBits
      BY <2>1, Larger
    <2>3. WordBytes * ByteBits = WordBits  BY Sizes
    <2>4. k * ByteBits <= WordBits /\ (k + 1) * ByteBits <= WordBits  BY <2>2, <2>3, Zenon
    <2>5. b[in_cur + k + 1] = Run(s * WordBits + k * ByteBits, ByteBits)
      BY <1>1, <1>3, <2>4, Zenon
    <2>6. (s * WordBytes + k) * ByteBits = s * WordBits + k * ByteBits
      BY <2>1, Products
    <2>7. QED  BY <1>1, <2>1, <2>5, <2>6
  <1>5. ASSUME NEW k \in 1 .. in_cur + Room PROVE b[k] = Run((k - 1) * ByteBits, ByteBits)
    <2>1. in_cur \in Nat  BY DEF Types
    <2>2. CASE k <= in_cur
      BY <1>3, <2>1, <2>2
    <2>3. CASE k > in_cur
      <3>1. k \in 1 .. in_cur + r  BY <1>1, Zenon
      <3>2. k - in_cur - 1 \in 0 .. r - 1  BY <2>1, <2>3, <3>1
      <3>3. PICK i \in 0 .. r - 1 : i = k - in_cur - 1  BY <3>2
      <3>4. in_cur + i + 1 = k /\ in_cur + i = k - 1  BY <2>1, <3>3
      <3>5. QED  BY <1>4, <3>4
    <2>4. QED  BY <1>1, <2>1, <2>2, <2>3
  <1>6. QED  BY <1>3, <1>5

-----------------------------------------------------------------------------
(* Every step keeps the invariant.                                         *)

LEMMA Runs ==
    \A a, n \in Nat :
        /\ Len(Run(a, n)) = n /\ Run(a, 0) = <<>>
        /\ n > 0 => Run(a, n) # <<>>
        /\ Append(Run(a, n), a + n + 1) = Run(a, n + 1)
  <1>1. TAKE a, n \in Nat
  <1>2. Len(Run(a, n)) = n  BY DEF Run
  <1>3. Run(a, 0) = <<>>  BY DEF Run
  <1>4. n > 0 => Run(a, n) # <<>>  BY <1>2
  <1>5. Append(Run(a, n), a + n + 1) = Run(a, n + 1)  BY DEF Run
  <1>6. QED  BY <1>2, <1>3, <1>4, <1>5

LEMMA OutRuns ==
    \A len, a \in Nat, n \in Nat \ {0} :
        /\ Len(OutRun(len, a, n)) = n
        /\ OutRun(len, a, n)[1] = OutBit(len, a + 1)
        /\ OutBit(len, a + 1) \in Nat /\ OutRun(len, a, n) \in Seq(Nat)
        /\ Tail(OutRun(len, a, n)) = OutRun(len, a + 1, n - 1)
  <1>1. TAKE len, a \in Nat, n \in Nat \ {0}
  <1>2. Len(OutRun(len, a, n)) = n  BY DEF OutRun
  <1>3. OutRun(len, a, n)[1] = OutBit(len, a + 1)  BY DEF OutRun
  <1>4. OutBit(len, a + 1) \in Nat /\ OutRun(len, a, n) \in Seq(Nat)
    <2>1. \A k \in Nat : OutBit(len, k) \in Nat  BY DEF OutBit
    <2>2. \A j \in 1 .. n : a + j \in Nat  OBVIOUS
    <2>3. QED  BY <2>1, <2>2 DEF OutRun
  <1>5. \A j \in 1 .. n - 1 : a + (j + 1) = (a + 1) + j  OBVIOUS
  <1>6. Tail(OutRun(len, a, n)) = [j \in 1 .. n - 1 |-> OutBit(len, a + (j + 1))]
    BY DEF OutRun
  <1>7. Tail(OutRun(len, a, n)) = [j \in 1 .. n - 1 |-> OutBit(len, (a + 1) + j)]
    BY <1>5, <1>6
  <1>8. QED  BY <1>2, <1>3, <1>4, <1>7 DEF OutRun

LEMMA LastAppended == \A S : \A s \in Seq(S), c \in S : Append(s, c)[Len(s) + 1] = c
  OBVIOUS

LEMMA Pairs ==
    ASSUME NEW S, NEW s \in Seq(S), Len(s) = 1
    PROVE  \A c \in S : Append(s, c) = <<s[1], c>>
  <1>1. PICK b : b = s[1]  OBVIOUS
  <1>2. b \in S  BY <1>1
  <1>3. Len(s) + 1 = 2  OBVIOUS
  <1>4. \A c \in S : Append(s, c)[Len(s) + 1] = c  BY LastAppended, Zenon
  <1>5. \A c \in S : Append(s, c) \in Seq(S) /\ Len(Append(s, c)) = 2  OBVIOUS
  <1>6. \A c \in S : Append(s, c)[1] = b  BY <1>1
  <1>7. \A c \in S : Append(s, c)[2] = c  BY <1>3, <1>4, Zenon
  <1>8. \A c \in S : <<b, c>> \in Seq(S) /\ Len(<<b, c>>) = 2  BY <1>2
  <1>9. \A c \in S : \A i \in 1 .. 2 : Append(s, c)[i] = <<b, c>>[i]
    BY <1>6, <1>7
  <1>10. ASSUME NEW c \in S PROVE Append(s, c) = <<b, c>>
    <2>1. PICK t, u : t = Append(s, c) /\ u = <<b, c>>  OBVIOUS
    <2>2. t \in Seq(S) /\ u \in Seq(S) /\ Len(t) = 2 /\ Len(u) = 2
      BY <2>1, <1>5, <1>8, Zenon
    <2>3. \A i \in 1 .. 2 : t[i] = u[i]  BY <2>1, <1>9, Zenon
    <2>4. Len(t) = Len(u) /\ \A i \in 1 .. Len(t) : t[i] = u[i]  BY <2>2, <2>3
    <2>5. t = u  BY <2>2, <2>4, SeqEqual
    <2>6. QED  BY <2>1, <2>5
  <1>11. QED  BY <1>1, <1>10

LEMMA FirstInv ==
    ASSUME Init
    PROVE  Inv
  <1>1. /\ duplex \in BOOLEAN /\ cs = FALSE /\ cs_val = FALSE /\ running = FALSE
        /\ in_len = 0 /\ in_buf = <<>> /\ in_cur = 0 /\ out_len = 0 /\ out_cur = 0
        /\ mosi = <<>> /\ mosi_word = <<>> /\ miso = <<>> /\ pc = "in"
        /\ sent = 0 /\ got = <<>> /\ report.bits = 0
    BY SpiAssumption DEF Init, SpiAssumption
  <1>2. Types
    <2>1. /\ Len(mosi) = 0 /\ Len(mosi_word) = 0 /\ Len(miso) = 0 /\ Len(got) = 0
          /\ Len(in_buf) = 0 /\ got \in Seq(Int) /\ miso \in Seq(Seq(Nat))
      BY <1>1
    <2>2. out_word = [k \in 1 .. WordBits |-> 0]  BY DEF Init, Zeros
    <2>3. out_word \in Seq(Nat)  BY <2>2, Sizes
    <2>4. 0 < WordBits /\ 0 \in 0 .. ByteBits - 1 /\ 0 \in 0 .. 0  BY Sizes
    <2>5. in_cur \in 0 .. in_len /\ out_cur \in 0 .. out_len /\ in_len \in Nat /\ out_len \in Nat
          /\ sent \in Nat
      BY <1>1
    <2>6. /\ Len(mosi) \in Nat /\ Len(mosi) < WordBits /\ Len(mosi_word) \in {0, WordBits}
          /\ Len(miso) <= 2 /\ report.bits \in 0 .. ByteBits - 1
      BY <1>1, <2>1, <2>4
    <2>7. QED  BY <1>1, <2>1, <2>3, <2>5, <2>6 DEF Types
  <1>3. Apart /\ Receiving /\ Seen  BY <1>1 DEF Apart, Receiving, Seen
  <1>4. QED  BY <1>2, <1>3 DEF Inv

LEMMA PortInInv ==
    ASSUME Inv, PortIn
    PROVE  Inv'
  <1>1. /\ pc = "in" /\ mosi_word # <<>> /\ in_word' = mosi_word /\ mosi_word' = <<>>
        /\ pc' = "mask"
        /\ UNCHANGED <<duplex, cs, cs_val, running, in_len, in_buf, in_cur, out_len, out_cur,
                       mosi, miso, out_word, sent, got, report>>
    BY DEF PortIn, bufs, wire
  <1>2. Types'  BY <1>1 DEF Inv, Types
  <1>3. Apart'  BY <1>1 DEF Inv, Apart
  <1>4. Receiving'
    <2>1. cs_val  BY <1>1 DEF Inv, Apart
    <2>2. PICK w \in Nat : Reception(w) /\ (IF duplex THEN Driving(w) ELSE out_len = 0)
      BY <2>1 DEF Inv, Receiving
    <2>3. Behind /\ Behind' /\ Stored(w)' = Stored(w)  BY <1>1 DEF Behind, Stored
    <2>4. Reception(w)'  BY <1>1, <2>2, <2>3 DEF Reception
    <2>5. duplex => Driving(w)'  BY <1>1, <2>2, <2>3 DEF Driving
    <2>6. QED  BY <1>1, <2>2, <2>4, <2>5 DEF Receiving
  <1>5. Seen'  BY <1>1 DEF Inv, Seen
  <1>6. QED  BY <1>2, <1>3, <1>4, <1>5 DEF Inv

LEMMA MaskedInv ==
    ASSUME Inv, Masked
    PROVE  Inv'
  <1>1. /\ pc = "mask" /\ pc' = "check"
        /\ UNCHANGED <<duplex, cs, cs_val, running, in_len, out_len, mosi, mosi_word, miso,
                       in_word, sent, got, report>>
    BY DEF Masked, ports, wire
  <1>2. Apart' /\ Seen'  BY <1>1 DEF Inv, Apart, Seen
  <1>3. CASE ~running
    <2>1. UNCHANGED <<out_word, out_cur, in_buf, in_cur>>  BY <1>3 DEF Masked
    <2>2. Types'  BY <1>1, <2>1 DEF Inv, Types
    <2>3. ~cs_val'  BY <1>1, <1>3 DEF Inv, Types
    <2>4. QED  BY <1>2, <2>2, <2>3 DEF Inv, Receiving
  <1>4. CASE running
    <2>1. /\ out_word' = NextWord(out_cur, out_len)
          /\ out_cur' = out_cur + Fetched(out_cur, out_len)
          /\ in_buf' = Store(in_word, Room)
          /\ in_cur' = in_cur + Room
          /\ Types /\ cs_val
      BY <1>4 DEF Masked, Inv, Types
    <2>2. PICK w \in Nat : Reception(w) /\ (IF duplex THEN Driving(w) ELSE out_len = 0)
      BY <2>1 DEF Inv, Receiving
    <2>3. Behind /\ w > 0 /\ mosi_word = <<>>  BY <1>1, <2>2 DEF Behind, Reception
    <2>4. ~Behind'  BY <1>1, <2>3 DEF Behind
    <2>5. PICK s \in Nat : s = w - 1  BY <2>3
    <2>6. s + 1 = w /\ w - 1 = s /\ s + 2 = w + 1 /\ (w + 1) + 1 = w + 2  BY <2>5
    <2>7. Stored(w) = s /\ Stored(w)' = w  BY <2>3, <2>4, <2>5 DEF Stored
    <2>8. /\ in_word = Run(s * WordBits, WordBits)
          /\ in_cur = Least(in_len, s * WordBytes)
          /\ \A k \in 1 .. in_cur : in_buf[k] = Run((k - 1) * ByteBits, ByteBits)
      BY <1>1, <2>2, <2>6, <2>7 DEF Reception
    <2>9. /\ in_cur' = Least(in_len', Stored(w)' * WordBytes)
          /\ in_cur' \in 0 .. in_len'
      BY <1>1, <2>1, <2>6, <2>7, <2>8, Rooms
    <2>10. in_buf' = Store(Run(s * WordBits, WordBits), Room)  BY <2>1, <2>8
    <2>11. /\ Len(in_buf') = in_len'
           /\ \A k \in 1 .. in_cur' : in_buf'[k] = Run((k - 1) * ByteBits, ByteBits)
      BY <1>1, <2>1, <2>8, <2>10, StoreWord
    <2>12. Reception(w)'
      BY <1>1, <2>2, <2>4, <2>9, <2>11 DEF Reception, Behind
    <2>13. duplex => Driving(w)' /\ out_cur' \in 0 .. out_len' /\ out_word' \in Seq(Nat)
      <3>1. HAVE duplex
      <3>2. out_cur = Least(out_len, (w + 1) * WordBytes)
        BY <2>2, <2>6, <2>7, <3>1 DEF Driving
      <3>3. /\ out_word' = OutRun(out_len, (w + 1) * WordBits, WordBits)
            /\ out_cur' = Least(out_len, ((w + 1) + 1) * WordBytes)
            /\ out_cur' \in 0 .. out_len
            /\ out_word' \in Seq(Nat)
        <4>1. out_len \in Nat /\ w + 1 \in Nat  BY <2>1 DEF Types
        <4>2. (w + 1) * WordBits \in Nat  BY <4>1, Products
        <4>3. OutRun(out_len, (w + 1) * WordBits, WordBits) \in Seq(Nat)
          BY <4>1, <4>2, OutRuns, Sizes
        <4>4. QED  BY <2>1, <3>2, <4>1, <4>3, Fetching
      <3>4. miso' = <<OutRun(out_len', sent', WordBits - Len(mosi'))>>
        BY <1>1, <2>2, <2>3, <3>1 DEF Driving
      <3>5. out_cur' = Least(out_len', (Stored(w)' + 2) * WordBytes)
        BY <1>1, <2>6, <2>7, <3>3
      <3>6. QED  BY <1>1, <3>3, <3>4, <3>5 DEF Driving
    <2>14. ~duplex => out_len' = 0 /\ out_cur' \in 0 .. out_len' /\ out_word' \in Seq(Nat)
      <3>1. HAVE ~duplex
      <3>2. out_len = 0 /\ out_cur = 0  BY <2>1, <2>2, <3>1 DEF Types
      <3>3. Fetched(out_cur, out_len) = 0  BY <3>2, Sizes DEF Fetched, Least
      <3>4. NextWord(out_cur, out_len) = [k \in 1 .. WordBits |-> 0]
        <4>1. 0 * ByteBits = 0  BY Sizes
        <4>2. \A k \in 1 .. WordBits : ~(k <= 0)  BY Sizes
        <4>3. QED  BY <3>3, <4>1, <4>2 DEF NextWord
      <3>5. [k \in 1 .. WordBits |-> 0] \in Seq(Nat)  BY Sizes
      <3>6. out_cur' = 0 /\ out_len' = 0  BY <1>1, <2>1, <3>2, <3>3
      <3>7. out_word' \in Seq(Nat)  BY <2>1, <3>4, <3>5
      <3>8. QED  BY <3>6, <3>7
    <2>15. Types'
      <3>1. out_cur' \in 0 .. out_len' /\ out_word' \in Seq(Nat)  BY <2>13, <2>14
      <3>2. QED  BY <1>1, <2>1, <2>9, <2>11, <3>1 DEF Types
    <2>16. Receiving'  BY <1>1, <2>12, <2>13, <2>14 DEF Receiving
    <2>17. QED  BY <1>2, <2>15, <2>16 DEF Inv
  <1>5. QED  BY <1>3, <1>4

LEMMA CheckInv ==
    ASSUME Inv, CheckRunning
    PROVE  Inv'
  <1>1. /\ pc = "check" /\ pc' = IF running /\ duplex THEN "out" ELSE "in"
        /\ UNCHANGED <<duplex, cs, cs_val, running, in_len, in_buf, in_cur, out_len, out_cur,
                       mosi, mosi_word, miso, in_word, out_word, sent, got, report>>
    BY DEF CheckRunning, bufs, ports, wire
  <1>2. Types'  BY <1>1 DEF Inv, Types
  <1>3. Apart'  BY <1>1 DEF Inv, Apart
  <1>4. Receiving'
    <2>1. CASE ~cs_val  BY <1>1, <2>1 DEF Receiving
    <2>2. CASE cs_val
      <3>1. PICK w \in Nat : Reception(w) /\ (IF duplex THEN Driving(w) ELSE out_len = 0)
        BY <2>2 DEF Inv, Receiving
      <3>2. mosi_word = <<>>  BY <1>1, <3>1 DEF Reception
      <3>3. ~Behind /\ ~Behind' /\ Stored(w)' = Stored(w)
        BY <1>1, <3>2 DEF Behind, Stored
      <3>4. Reception(w)'  BY <1>1, <3>1, <3>2, <3>3 DEF Reception
      <3>5. duplex => Driving(w)'
        <4>1. running  BY <2>2 DEF Inv, Types
        <4>2. QED  BY <1>1, <3>1, <3>3, <4>1 DEF Driving
      <3>6. QED  BY <1>1, <3>1, <3>4, <3>5 DEF Receiving
    <2>3. QED  BY <2>1, <2>2
  <1>5. Seen'  BY <1>1 DEF Inv, Seen
  <1>6. QED  BY <1>2, <1>3, <1>4, <1>5 DEF Inv

LEMMA PortOutInv ==
    ASSUME Inv, PortOut
    PROVE  Inv'
  <1>1. /\ pc = "out" /\ Len(miso) < 2 /\ miso' = Append(miso, out_word) /\ pc' = "in"
        /\ UNCHANGED <<duplex, cs, cs_val, running, in_len, in_buf, in_cur, out_len, out_cur,
                       mosi, mosi_word, in_word, out_word, sent, got, report>>
    BY DEF PortOut, bufs, wire
  <1>2. duplex  BY <1>1 DEF Inv, Apart
  <1>3. Apart'  BY <1>1, <1>2 DEF Inv, Apart
  <1>4. Types'
    <2>1. miso \in Seq(Seq(Nat)) /\ out_word \in Seq(Nat)  BY DEF Inv, Types
    <2>2. miso' \in Seq(Seq(Nat)) /\ Len(miso') <= 2  BY <1>1, <2>1
    <2>3. QED  BY <1>1, <2>2 DEF Inv, Types
  <1>5. ASSUME cs_val PROVE Receiving'
    <2>1. PICK w \in Nat : Reception(w) /\ Driving(w)
      BY <1>2, <1>5 DEF Inv, Receiving
    <2>2. mosi_word = <<>>  BY <1>1, <2>1 DEF Reception
    <2>3. ~Behind /\ ~Behind' /\ Stored(w)' = Stored(w)  BY <1>1, <2>2 DEF Behind, Stored
    <2>4. Reception(w)'  BY <1>1, <2>1, <2>2, <2>3 DEF Reception
    <2>5. miso' = <<OutRun(out_len, sent, WordBits - Len(mosi)),
                    OutRun(out_len, (w + 1) * WordBits, WordBits)>>
      <3>1. PICK a : a = OutRun(out_len, sent, WordBits - Len(mosi))  OBVIOUS
      <3>2. miso = <<a>>  BY <1>1, <2>1, <3>1 DEF Driving
      <3>3. miso \in Seq(Seq(Nat)) /\ out_word \in Seq(Nat)  BY DEF Inv, Types
      <3>4. miso' = <<a, out_word>>
        <4>1. Len(miso) = 1 /\ miso[1] = a  BY <3>2
        <4>2. Append(miso, out_word) = <<miso[1], out_word>>  BY <3>3, <4>1, Pairs
        <4>3. QED  BY <1>1, <4>1, <4>2
      <3>5. out_word = OutRun(out_len, (w + 1) * WordBits, WordBits)
        BY <1>1, <2>1 DEF Driving
      <3>6. QED  BY <3>1, <3>4, <3>5
    <2>6. Driving(w)'  BY <1>1, <2>1, <2>3, <2>5 DEF Driving
    <2>7. QED  BY <1>1, <1>2, <2>4, <2>6 DEF Receiving
  <1>6. ~cs_val => Receiving'  BY <1>1 DEF Receiving
  <1>7. Seen'  BY <1>1 DEF Inv, Seen
  <1>8. QED  BY <1>3, <1>4, <1>5, <1>6, <1>7 DEF Inv

LEMMA ShortSequences ==
    /\ \A x : Head(<<x>>) = x /\ Tail(<<x>>) = <<>> /\ <<x>> # <<>> /\ <<x>> \o <<>> = <<x>>
    /\ \A x, y : Head(<<x, y>>) = x /\ Tail(<<x, y>>) = <<y>> /\ <<x, y>> # <<>>
  <1>1. \A x : Head(<<x>>) = x /\ Tail(<<x>>) = <<>> /\ <<x>> # <<>> /\ <<x>> \o <<>> = <<x>>
    OBVIOUS
  <1>2. \A x, y : Head(<<x, y>>) = x /\ Tail(<<x, y>>) = <<y>> /\ <<x, y>> # <<>>
    OBVIOUS
  <1>3. QED  BY <1>1, <1>2

LEMMA Joined == \A S : \A x, y \in S : <<x>> \o <<y>> = <<x, y>>
  <1>1. TAKE S
  <1>2. TAKE x, y \in S
  <1>3. PICK s : s = <<x>>  OBVIOUS
  <1>4. s \in Seq(S) /\ Len(s) = 1 /\ s[1] = x  BY <1>3
  <1>5. Append(s, y) = s \o <<y>>  BY <1>4, AppendIsConcat
  <1>6. Append(s, y) = <<s[1], y>>  BY <1>4, Pairs
  <1>7. QED  BY <1>3, <1>4, <1>5, <1>6

LEMMA StartInv ==
    ASSUME Inv, NEW il \in InLens, NEW ol \in OutLens, TransactionStarted(il, ol)
    PROVE  Inv'
  <1>1. /\ cs /\ ~cs_val /\ cs_val' = TRUE /\ running' = TRUE
        /\ in_len' = il /\ in_buf' = [k \in 1 .. il |-> <<>>] /\ in_cur' = 0
        /\ out_len' = IF duplex THEN ol ELSE 0
        /\ mosi' = <<>> /\ mosi_word' = <<>>
        /\ UNCHANGED <<duplex, cs, pc, in_word, out_word, sent, got, report>>
    BY DEF TransactionStarted, thread, wire
  <1>2. Types /\ pc = "in" /\ sent = 0 /\ il \in Nat /\ ol \in Nat
    BY <1>1, Sizes DEF Inv, Apart
  <1>3. ~Behind'  BY <1>1, <1>2 DEF Behind
  <1>4. Reception(0)'
    <2>1. /\ 0 * WordBits = 0 /\ 0 * WordBytes = 0 /\ Len(mosi') = 0
          /\ Stored(0)' = 0 /\ Least(il, 0) = 0 /\ 0 + 0 = 0 /\ Run(0, 0) = <<>>
      BY <1>1, <1>2, <1>3, Sizes, Runs DEF Stored, Least
    <2>2. \A k \in 1 .. 0 : FALSE  OBVIOUS
    <2>3. QED  BY <1>1, <1>2, <1>3, <2>1, <2>2 DEF Reception
  <1>5. ASSUME duplex
        PROVE  /\ Driving(0)' /\ out_cur' \in 0 .. out_len'
               /\ miso' \in Seq(Seq(Nat)) /\ Len(miso') <= 2
    <2>1. PICK f : f = Fetched(0, ol)  OBVIOUS
    <2>2. /\ out_len' = ol
          /\ miso' = <<NextWord(0, ol), NextWord(f, ol)>>
          /\ out_cur' = f + Fetched(f, ol)
      BY <1>1, <1>5, <2>1 DEF TransactionStarted
    <2>3. /\ NextWord(0, ol) = OutRun(ol, 0, WordBits)
          /\ f = Least(ol, 1 * WordBytes)
      <3>1. 0 = Least(ol, 0 * WordBytes)  BY <1>2, Sizes DEF Least
      <3>2. /\ NextWord(0, ol) = OutRun(ol, 0 * WordBits, WordBits)
            /\ 0 + Fetched(0, ol) = Least(ol, (0 + 1) * WordBytes)
            /\ 0 + Fetched(0, ol) \in 0 .. ol
        BY <1>2, <3>1, Fetching
      <3>3. 0 * WordBits = 0 /\ 0 + 1 = 1  BY Sizes
      <3>4. Fetched(0, ol) \in Int
        BY <1>2, Sizes DEF Fetched, Least
      <3>5. 0 + f = f  BY <2>1, <3>4
      <3>6. QED  BY <2>1, <3>2, <3>3, <3>5
    <2>4. /\ NextWord(f, ol) = OutRun(ol, 1 * WordBits, WordBits)
          /\ f + Fetched(f, ol) = Least(ol, (1 + 1) * WordBytes)
          /\ f + Fetched(f, ol) \in 0 .. ol
      BY <1>2, <2>3, Fetching
    <2>5. out_cur' = Least(out_len', (Stored(0)' + 2) * WordBytes) /\ out_cur' \in 0 .. out_len'
      <3>1. Stored(0)' = 0 /\ 1 + 1 = 2 /\ 0 + 2 = 2  BY <1>3 DEF Stored
      <3>2. QED  BY <2>2, <2>4, <3>1
    <2>6. miso' = <<OutRun(out_len', sent', WordBits - Len(mosi')),
                    OutRun(out_len', (0 + 1) * WordBits, WordBits)>>
      <3>1. sent' = 0 /\ WordBits - Len(mosi') = WordBits /\ 0 + 1 = 1  BY <1>1, <1>2, Sizes
      <3>2. QED  BY <2>2, <2>3, <2>4, <3>1
    <2>7. Driving(0)'  BY <1>1, <1>2, <1>3, <2>5, <2>6 DEF Driving
    <2>8. miso' \in Seq(Seq(Nat)) /\ Len(miso') <= 2
      <3>1. PICK a, b : a = OutRun(ol, 0, WordBits) /\ b = OutRun(ol, 1 * WordBits, WordBits)
        OBVIOUS
      <3>2. 1 * WordBits \in Nat  BY Sizes
      <3>3. a \in Seq(Nat) /\ b \in Seq(Nat)  BY <1>2, <3>1, <3>2, OutRuns, Sizes
      <3>4. miso' = <<a, b>>  BY <2>2, <2>3, <2>4, <3>1
      <3>5. QED  BY <3>3, <3>4
    <2>9. QED  BY <2>5, <2>7, <2>8
  <1>6. ASSUME ~duplex
        PROVE  /\ out_len' = 0 /\ out_cur' \in 0 .. out_len' /\ miso' = <<>>
               /\ miso' \in Seq(Seq(Nat)) /\ Len(miso') <= 2
    <2>1. out_len' = 0 /\ out_cur' = 0 /\ miso' = <<>>  BY <1>1, <1>6 DEF TransactionStarted
    <2>2. 0 \in 0 .. 0 /\ <<>> \in Seq(Seq(Nat)) /\ Len(<<>>) <= 2  OBVIOUS
    <2>3. QED  BY <2>1, <2>2
  <1>7. Types'
    <2>1. /\ out_cur' \in 0 .. out_len' /\ miso' \in Seq(Seq(Nat)) /\ Len(miso') <= 2
      BY <1>5, <1>6
    <2>2. Len(in_buf') = in_len' /\ in_len' \in Nat /\ out_len' \in Nat
          /\ in_cur' \in 0 .. in_len'
      BY <1>1, <1>2
    <2>3. Len(mosi') \in Nat /\ Len(mosi') < WordBits /\ Len(mosi_word') \in {0, WordBits}
      BY <1>1, Sizes
    <2>4. QED  BY <1>1, <1>2, <2>1, <2>2, <2>3 DEF Types
  <1>8. Apart'  BY <1>1, <1>2, <1>6 DEF Apart
  <1>9. Receiving'
    <2>1. IF duplex' THEN Driving(0)' ELSE out_len' = 0  BY <1>1, <1>5, <1>6
    <2>2. QED  BY <1>4, <2>1 DEF Receiving
  <1>10. Seen'
    <2>1. \A k \in 1 .. 0 : FALSE  OBVIOUS
    <2>2. sent' = 0  BY <1>1, <1>2
    <2>3. QED  BY <2>1, <2>2 DEF Seen
  <1>11. QED  BY <1>7, <1>8, <1>9, <1>10 DEF Inv

\* What the end of a transaction leaves of in_buf.
LEMMA Ending ==
    ASSUME Inv, TransactionEnded
    PROVE  /\ Len(in_buf') = in_len' /\ in_cur' \in 0 .. in_len'
           /\ report'.bits \in 0 .. ByteBits - 1
  <1>1. PICK w \in Nat : Reception(w) /\ cs_val /\ Types
    BY DEF Inv, Receiving, TransactionEnded
  <1>2. PICK s \in Nat : s = Stored(w)
    BY <1>1 DEF Reception, Stored
  <1>3. in_cur = Least(in_len, s * WordBytes)  BY <1>1, <1>2 DEF Reception
  <1>4. /\ Room \in 0 .. WordBytes /\ in_cur + Room \in 0 .. in_len
    BY <1>1, <1>3, Rooms
  <1>5. PICK v \in Nat : v = Len(mosi)  BY <1>1 DEF Types
  <1>6. /\ in_buf' = IF v > 0 THEN Store(mosi, Room) ELSE in_buf
        /\ in_cur' = IF v > 0 THEN PartCur(v) ELSE in_cur
        /\ report'.bits = IF v > 0 THEN PartBits(v) ELSE 0
        /\ in_len' = in_len
    BY <1>5 DEF TransactionEnded
  <1>7. /\ in_len \in Nat /\ in_cur \in 0 .. in_len /\ Len(in_buf) = in_len
        /\ ByteBits \in Nat \ {0} /\ WordBytes \in Nat
    BY <1>1, Sizes DEF Types
  <1>8. Len(in_buf') = in_len'
    <2>1. Len(Store(mosi, Room)) = in_len  BY <1>7 DEF Store
    <2>2. QED  BY <1>6, <1>7, <2>1
  <1>9. in_cur' \in 0 .. in_len'
    <2>1. PICK q \in Nat : q = PartBytes(v)
      BY <1>5, <1>7 DEF PartBytes
    <2>2. PICK r \in 0 .. WordBytes : r = Room  BY <1>4
    <2>3. PartCur(v) = in_cur + (IF q < r THEN q ELSE r)  BY <2>1, <2>2 DEF PartCur
    <2>4. in_cur + r \in 0 .. in_len  BY <1>4, <2>2
    <2>5. PartCur(v) \in 0 .. in_len  BY <1>7, <2>3, <2>4
    <2>6. QED  BY <1>6, <1>7, <2>5
  <1>10. report'.bits \in 0 .. ByteBits - 1
    <2>1. v % ByteBits \in 0 .. ByteBits - 1 /\ 0 \in 0 .. ByteBits - 1  BY <1>7
    <2>2. QED  BY <1>6, <2>1 DEF PartBits
  <1>11. QED  BY <1>8, <1>9, <1>10

LEMMA EndInv ==
    ASSUME Inv, TransactionEnded
    PROVE  Inv'
  <1>1. /\ ~cs /\ cs_val /\ cs_val' = FALSE /\ running' = FALSE
        /\ mosi' = <<>> /\ mosi_word' = <<>> /\ miso' = <<>>
        /\ UNCHANGED <<duplex, cs, in_len, out_len, out_cur, pc, in_word, out_word, sent, got>>
    BY DEF TransactionEnded, thread, wire
  <1>2. Types'
    <2>1. /\ miso' \in Seq(Seq(Nat)) /\ Len(miso') <= 2 /\ Len(mosi') \in Nat
          /\ Len(mosi') < WordBits /\ Len(mosi_word') \in {0, WordBits}
      BY <1>1, Sizes
    <2>2. QED  BY <1>1, <2>1, Ending DEF Inv, Types
  <1>3. Apart'  BY <1>1 DEF Inv, Apart
  <1>4. Receiving'  BY <1>1 DEF Receiving
  <1>5. Seen'  BY <1>1 DEF Inv, Seen
  <1>6. QED  BY <1>2, <1>3, <1>4, <1>5 DEF Inv

LEMMA AssertInv ==
    ASSUME Inv, CsAssert
    PROVE  Inv'
  <1>1. /\ ~cs /\ ~cs_val /\ pc = "in" /\ cs' = TRUE /\ sent' = 0 /\ got' = <<>>
        /\ UNCHANGED <<duplex, cs_val, running, in_len, in_buf, in_cur, out_len, out_cur,
                       mosi, mosi_word, miso, pc, in_word, out_word, report>>
    BY DEF CsAssert, Settled, bufs, ports, thread, Inv, Types
  <1>2. Types'
    <2>1. sent' \in Nat /\ got' \in Seq(Int) /\ Len(got') = sent'  BY <1>1
    <2>2. QED  BY <1>1, <2>1 DEF Inv, Types
  <1>3. Apart'  BY <1>1 DEF Inv, Apart
  <1>4. Receiving'  BY <1>1 DEF Receiving
  <1>5. Seen'
    <2>1. \A k \in 1 .. 0 : FALSE  OBVIOUS
    <2>2. QED  BY <1>1, <2>1 DEF Seen
  <1>6. QED  BY <1>2, <1>3, <1>4, <1>5 DEF Inv

LEMMA DeassertInv ==
    ASSUME Inv, CsDeassert
    PROVE  Inv'
  <1>1. /\ cs /\ cs_val /\ mosi_word = <<>> /\ cs' = FALSE
        /\ UNCHANGED <<duplex, cs_val, running, in_len, in_buf, in_cur, out_len, out_cur,
                       mosi, mosi_word, miso, pc, in_word, out_word, sent, got, report>>
    BY DEF CsDeassert, Settled, bufs, ports, thread, wire
  <1>2. Types'  BY <1>1 DEF Inv, Types
  <1>3. Apart'  BY <1>1 DEF Inv, Apart
  <1>4. Receiving'
    <2>1. PICK w \in Nat : Reception(w) /\ (IF duplex THEN Driving(w) ELSE out_len = 0)
      BY <1>1 DEF Inv, Receiving
    <2>2. (Behind' <=> Behind) /\ Stored(w)' = Stored(w)  BY <1>1 DEF Behind, Stored
    <2>3. Reception(w)'  BY <1>1, <2>1, <2>2 DEF Reception
    <2>4. duplex => Driving(w)'  BY <1>1, <2>1, <2>2 DEF Driving
    <2>5. QED  BY <1>1, <2>1, <2>3, <2>4 DEF Receiving
  <1>5. Seen'  BY <1>1 DEF Inv, Seen
  <1>6. QED  BY <1>2, <1>3, <1>4, <1>5 DEF Inv

LEMMA ClockInv ==
    ASSUME Inv, Clock
    PROVE  Inv'
  <1>1. /\ cs /\ cs_val
        /\ sent' = sent + 1
        /\ UNCHANGED <<duplex, cs, cs_val, running, in_len, in_buf, in_cur, out_len, out_cur,
                       pc, in_word, out_word, report>>
    BY DEF Clock, Settled, bufs, thread
  <1>2. Types  BY DEF Inv
  <1>3. PICK w \in Nat : Reception(w) /\ (IF duplex THEN Driving(w) ELSE out_len = 0)
    BY <1>1 DEF Inv, Receiving
  <1>4. PICK v \in Nat : v = Len(mosi) /\ v < WordBits  BY <1>2 DEF Types
  <1>5. PICK base \in Nat : base = w * WordBits /\ (w + 1) * WordBits = base + WordBits
    BY Products
  <1>6. /\ sent = base + v /\ mosi = Run(base, v)
    BY <1>3, <1>4, <1>5 DEF Reception
  <1>7. PICK shifted : shifted = Append(mosi, sent + 1)  OBVIOUS
  <1>8. shifted = Run(base, v + 1) /\ Len(shifted) = v + 1
    <2>1. Append(Run(base, v), base + v + 1) = Run(base, v + 1)  BY Runs
    <2>2. shifted = Run(base, v + 1)  BY <1>5, <1>6, <1>7, <2>1
    <2>3. QED  BY <1>5, <2>2, Runs
  <1>9. /\ v + 1 = WordBits => mosi_word = <<>> /\ pc = "in"
        /\ IF v + 1 = WordBits
           THEN mosi_word' = shifted /\ mosi' = <<>>
           ELSE mosi' = shifted /\ UNCHANGED mosi_word
    BY <1>7, <1>8 DEF Clock, CaughtUp
  <1>10. /\ got' = Append(got, IF miso = <<>> THEN -1 ELSE Head(miso)[1])
         /\ miso = <<>> => miso' = <<>>
         /\ miso # <<>> /\ Len(Head(miso)) = 1 => miso' = Tail(miso)
         /\ miso # <<>> /\ Len(Head(miso)) > 1 =>
               miso' = <<Tail(Head(miso))>> \o Tail(miso)
    <2>1. PICK n : n = Len(Head(miso))  OBVIOUS
    <2>2. ~(1 > 1)  OBVIOUS
    <2>3. miso' = CASE miso = <<>> -> <<>>
                    [] miso # <<>> /\ n = 1 -> Tail(miso)
                    [] miso # <<>> /\ n > 1 -> <<Tail(Head(miso))>> \o Tail(miso)
      BY <2>1 DEF Clock
    <2>4. got' = Append(got, IF miso = <<>> THEN -1 ELSE Head(miso)[1])  BY DEF Clock
    <2>5. /\ miso = <<>> => miso' = <<>>
          /\ miso # <<>> /\ n = 1 => miso' = Tail(miso)
          /\ miso # <<>> /\ n > 1 => miso' = <<Tail(Head(miso))>> \o Tail(miso)
      BY <2>2, <2>3
    <2>6. QED  BY <2>1, <2>4, <2>5
  <1>11. PICK u \in Nat : /\ u = IF v + 1 = WordBits THEN w + 1 ELSE w
                          /\ Stored(u)' = Stored(w)
    <2>1. CASE v + 1 = WordBits
      <3>1. ~Behind  BY <1>9, <2>1 DEF Behind
      <3>2. mosi_word' # <<>>  BY <1>8, <1>9, <2>1, <1>5, Runs
      <3>3. Behind'  BY <3>2 DEF Behind
      <3>4. (w + 1) - 1 = w  OBVIOUS
      <3>5. QED  BY <2>1, <3>1, <3>3, <3>4 DEF Stored
    <2>2. CASE v + 1 # WordBits
      <3>1. Behind' <=> Behind  BY <1>1, <1>9, <2>2 DEF Behind
      <3>2. QED  BY <2>2, <3>1 DEF Stored
    <2>3. QED  BY <2>1, <2>2
  <1>12. Reception(u)' /\ Len(mosi') \in Nat /\ Len(mosi') < WordBits
         /\ Len(mosi_word') \in {0, WordBits}
    <2>1. CASE v + 1 = WordBits
      <3>1. mosi' = <<>> /\ Len(mosi') = 0 /\ Run(u * WordBits, 0) = <<>>
        <4>1. u * WordBits \in Nat  BY <1>11, Products
        <4>2. QED  BY <1>9, <2>1, <4>1, Runs
      <3>2. sent' = u * WordBits + 0
        <4>1. u * WordBits = base + WordBits  BY <1>5, <1>11, <2>1
        <4>2. base + WordBits + 0 = base + v + 1  BY <1>4, <1>5, <2>1
        <4>3. QED  BY <1>1, <1>6, <4>1, <4>2
      <3>3. mosi_word' = Run((u - 1) * WordBits, WordBits) /\ pc' = "in" /\ u > 0
        <4>1. u - 1 = w /\ u > 0  BY <1>11, <2>1
        <4>2. QED  BY <1>1, <1>5, <1>8, <1>9, <2>1, <4>1
      <3>4. Len(mosi_word') = WordBits  BY <1>8, <1>9, <2>1
      <3>5. in_cur' = Least(in_len', Stored(u)' * WordBytes)
        BY <1>1, <1>3, <1>11 DEF Reception
      <3>6. \A k \in 1 .. in_cur' : in_buf'[k] = Run((k - 1) * ByteBits, ByteBits)
        BY <1>1, <1>3 DEF Reception
      <3>7. Reception(u)'
        BY <3>1, <3>2, <3>3, <3>5, <3>6 DEF Reception
      <3>8. QED  BY <3>1, <3>4, <3>7, Sizes
    <2>2. CASE v + 1 # WordBits
      <3>1. u = w /\ mosi' = Run(base, v + 1) /\ Len(mosi') = v + 1 /\ mosi_word' = mosi_word
        BY <1>8, <1>9, <1>11, <2>2
      <3>2. sent' = base + (v + 1)  BY <1>1, <1>4, <1>5, <1>6
      <3>3. Behind' <=> Behind  BY <1>1, <3>1 DEF Behind
      <3>4. Reception(w)'
        BY <1>1, <1>3, <1>5, <1>11, <3>1, <3>2, <3>3 DEF Reception
      <3>5. Len(mosi') \in Nat /\ Len(mosi') < WordBits
        BY <1>4, <2>2, <3>1, Sizes
      <3>6. QED  BY <1>2, <3>1, <3>4, <3>5 DEF Types
    <2>3. QED  BY <2>1, <2>2
  <1>13. ASSUME duplex
         PROVE  /\ Driving(u)' /\ miso' \in Seq(Seq(Nat)) /\ Len(miso') <= 2
                /\ got' = Append(got, OutBit(out_len, sent + 1))
                /\ OutBit(out_len, sent + 1) \in Int
    <2>1. PICK n \in Nat \ {0} : n = WordBits - v  BY <1>4, Sizes
    <2>2. PICK a, c : /\ a = OutRun(out_len, sent, n)
                      /\ c = OutRun(out_len, (w + 1) * WordBits, WordBits)
      OBVIOUS
    <2>3. /\ out_cur = Least(out_len, (Stored(w) + 2) * WordBytes)
          /\ miso = IF Behind \/ pc \in {"check", "out"} THEN <<a>> ELSE <<a, c>>
          /\ pc \in {"check", "out"} => out_word = c
      BY <1>3, <1>4, <1>13, <2>1, <2>2 DEF Driving
    <2>4. /\ Len(a) = n /\ a[1] = OutBit(out_len, sent + 1)
          /\ OutBit(out_len, sent + 1) \in Nat
          /\ Tail(a) = OutRun(out_len, sent + 1, n - 1)
          /\ a \in Seq(Nat) /\ c \in Seq(Nat)
      <3>1. out_len \in Nat /\ sent \in Nat /\ (w + 1) * WordBits \in Nat
        BY <1>2, <1>5, Sizes DEF Types
      <3>2. /\ Len(OutRun(out_len, sent, n)) = n
            /\ OutRun(out_len, sent, n)[1] = OutBit(out_len, sent + 1)
            /\ OutBit(out_len, sent + 1) \in Nat
            /\ OutRun(out_len, sent, n) \in Seq(Nat)
            /\ Tail(OutRun(out_len, sent, n)) = OutRun(out_len, sent + 1, n - 1)
        <4>1. PICK o, t \in Nat : o = out_len /\ t = sent  BY <3>1
        <4>2. /\ Len(OutRun(o, t, n)) = n
              /\ OutRun(o, t, n)[1] = OutBit(o, t + 1)
              /\ OutBit(o, t + 1) \in Nat
              /\ OutRun(o, t, n) \in Seq(Nat)
              /\ Tail(OutRun(o, t, n)) = OutRun(o, t + 1, n - 1)
          BY OutRuns
        <4>3. QED  BY <4>1, <4>2
      <3>3. c \in Seq(Nat)  BY <2>2, <3>1, OutRuns, Sizes
      <3>4. QED  BY <2>2, <3>2, <3>3, Zenon
    <2>5. Head(miso) = a /\ miso # <<>>
      BY <2>3, ShortSequences
    <2>6. got' = Append(got, OutBit(out_len, sent + 1))  BY <1>10, <2>4, <2>5
    <2>7. out_cur' = Least(out_len', (Stored(u)' + 2) * WordBytes)
      BY <1>1, <1>11, <2>3
    <2>8. CASE v + 1 = WordBits
      <3>1. n = 1 /\ u = w + 1 /\ ~Behind /\ Behind' /\ pc = "in" /\ pc' = "in"
        <4>1. n = 1 /\ u = w + 1  BY <1>4, <1>11, <2>1, <2>8
        <4>2. mosi_word = <<>> /\ pc = "in"  BY <1>9, <2>8
        <4>3. mosi_word' # <<>>  BY <1>5, <1>8, <1>9, <2>8, Runs
        <4>4. QED  BY <1>1, <4>1, <4>2, <4>3 DEF Behind
      <3>2. miso' = <<c>>  BY <1>10, <2>3, <2>4, <2>5, <3>1, ShortSequences
      <3>3. sent' = (w + 1) * WordBits /\ WordBits - Len(mosi') = WordBits
        <4>1. Len(mosi') = 0  BY <1>9, <2>8
        <4>2. sent + 1 = base + WordBits  BY <1>4, <1>5, <1>6, <2>8
        <4>3. QED  BY <1>1, <1>5, <4>1, <4>2, Sizes
      <3>4. miso' = <<OutRun(out_len', sent', WordBits - Len(mosi'))>>
        BY <1>1, <2>2, <3>2, <3>3
      <3>5. Driving(u)'  BY <2>7, <3>1, <3>4 DEF Driving
      <3>6. miso' \in Seq(Seq(Nat)) /\ Len(miso') <= 2  BY <2>4, <3>2
      <3>7. QED  BY <2>4, <2>6, <3>5, <3>6
    <2>9. CASE v + 1 # WordBits
      <3>1. n > 1 /\ u = w /\ (Behind' <=> Behind)
        <4>1. n > 1 /\ u = w
          <5>1. WordBits \in Nat  BY Sizes
          <5>2. QED  BY <1>4, <1>11, <2>1, <2>9, <5>1
        <4>2. mosi_word' = mosi_word /\ pc' = pc  BY <1>1, <1>9, <2>9
        <4>3. QED  BY <4>1, <4>2 DEF Behind
      <3>2. PICK b : b = OutRun(out_len, sent + 1, n - 1)  OBVIOUS
      <3>3. b \in Seq(Nat) /\ Tail(a) = b
        <4>1. sent + 1 \in Nat /\ n - 1 \in Nat \ {0} /\ out_len \in Nat
          BY <1>2, <2>1, <3>1 DEF Types
        <4>2. QED  BY <2>4, <3>2, <4>1, OutRuns
      <3>4. miso' = <<b>> \o Tail(miso)
        <4>1. Len(Head(miso)) > 1  BY <2>4, <2>5, <3>1
        <4>2. QED  BY <1>10, <2>5, <3>3, <4>1
      <3>5. miso' = IF Behind \/ pc \in {"check", "out"} THEN <<b>> ELSE <<b, c>>
        <4>1. CASE Behind \/ pc \in {"check", "out"}
          <5>1. Tail(miso) = <<>>  BY <2>3, <4>1, ShortSequences
          <5>2. <<b>> \o <<>> = <<b>>  BY ShortSequences
          <5>3. QED  BY <3>4, <4>1, <5>1, <5>2
        <4>2. CASE ~(Behind \/ pc \in {"check", "out"})
          <5>1. Tail(miso) = <<c>>  BY <2>3, <4>2, ShortSequences
          <5>2. <<b>> \o <<c>> = <<b, c>>  BY <2>4, <3>3, Joined
          <5>3. QED  BY <3>4, <4>2, <5>1, <5>2
        <4>3. QED  BY <4>1, <4>2
      <3>6. b = OutRun(out_len', sent', WordBits - Len(mosi'))
        <4>1. Len(mosi') = v + 1  BY <1>8, <1>9, <2>9
        <4>2. WordBits - (v + 1) = n - 1  BY <1>4, <2>1, Sizes
        <4>3. QED  BY <1>1, <3>2, <4>1, <4>2
      <3>7. Driving(u)'  BY <1>1, <2>2, <2>3, <2>7, <3>1, <3>5, <3>6 DEF Driving
      <3>8. miso' \in Seq(Seq(Nat)) /\ Len(miso') <= 2
        <4>1. <<b>> \in Seq(Seq(Nat)) /\ Len(<<b>>) <= 2
              /\ <<b, c>> \in Seq(Seq(Nat)) /\ Len(<<b, c>>) <= 2
          BY <2>4, <3>3
        <4>2. QED  BY <3>5, <4>1
      <3>9. QED  BY <2>4, <2>6, <3>7, <3>8
    <2>10. QED  BY <2>8, <2>9
  <1>14. ASSUME ~duplex
         PROVE  miso' = <<>> /\ miso' \in Seq(Seq(Nat)) /\ Len(miso') <= 2
                /\ got' = Append(got, -1)
    <2>1. miso = <<>>  BY <1>14 DEF Inv, Apart
    <2>2. miso' = <<>> /\ got' = Append(got, -1)  BY <1>10, <2>1
    <2>3. <<>> \in Seq(Seq(Nat)) /\ Len(<<>>) <= 2  OBVIOUS
    <2>4. QED  BY <2>2, <2>3
  <1>15. PICK g \in Int : /\ g = IF duplex THEN OutBit(out_len, sent + 1) ELSE -1
                          /\ got' = Append(got, g)
    BY <1>13, <1>14
  <1>16. got \in Seq(Int) /\ Len(got) = sent /\ sent \in Nat  BY <1>2 DEF Types
  <1>17. /\ got' \in Seq(Int) /\ Len(got') = sent + 1 /\ got'[sent + 1] = g
         /\ \A k \in 1 .. sent : got'[k] = got[k]
    BY <1>15, <1>16
  <1>18. Seen'
    <2>1. ASSUME NEW k \in 1 .. sent + 1
          PROVE  got'[k] = IF duplex THEN OutBit(out_len, k) ELSE -1
      <3>1. CASE k = sent + 1
        BY <1>15, <1>17, <3>1
      <3>2. CASE k # sent + 1
        <4>1. k \in 1 .. sent  BY <1>16, <3>2
        <4>2. QED  BY <1>17, <4>1 DEF Inv, Seen
      <3>3. QED  BY <3>1, <3>2
    <2>2. QED  BY <1>1, <2>1 DEF Seen
  <1>19. Types'
    <2>1. miso' \in Seq(Seq(Nat)) /\ Len(miso') <= 2  BY <1>13, <1>14
    <2>2. sent' \in Nat /\ got' \in Seq(Int) /\ Len(got') = sent'  BY <1>1, <1>16, <1>17
    <2>3. QED  BY <1>1, <1>2, <1>12, <2>1, <2>2 DEF Types
  <1>20. Apart'  BY <1>1, <1>14 DEF Inv, Apart
  <1>21. Receiving'
    <2>1. IF duplex' THEN Driving(u)' ELSE out_len' = 0  BY <1>1, <1>3, <1>13
    <2>2. QED  BY <1>11, <1>12, <2>1 DEF Receiving
  <1>22. QED  BY <1>18, <1>19, <1>20, <1>21 DEF Inv

LEMMA InvStep ==
    ASSUME Inv, [Next]_vars
    PROVE  Inv'
  <1>1. CASE UNCHANGED vars
    BY <1>1 DEF vars, bufs, ports, thread, wire, Inv, Types, Apart, Receiving, Reception, Driving,
                Seen, Behind, Stored
  <1>2. CASE Next
    <2>1. CASE Thread
      BY <2>1, PortInInv, MaskedInv, CheckInv, PortOutInv DEF Thread
    <2>2. CASE \E il \in InLens, ol \in OutLens : TransactionStarted(il, ol)
      BY <2>2, StartInv
    <2>3. CASE TransactionEnded  BY <2>3, EndInv
    <2>4. CASE CsAssert \/ Clock \/ CsDeassert
      BY <2>4, AssertInv, ClockInv, DeassertInv
    <2>5. QED  BY <1>2, <2>1, <2>2, <2>3, <2>4 DEF Next, CsIsr
  <1>3. QED  BY <1>1, <1>2

(* What holds of the thread, the ports and the buffers in every state, for *)
(* whatever bits, bytes and words the transactions are made of.            *)
THEOREM Invariance == Spec => []Inv
  <1>1. Init => Inv  BY FirstInv
  <1>2. Inv /\ [Next]_vars => Inv'  BY InvStep
  <1>3. QED  BY <1>1, <1>2, PTL DEF Spec

(* The types, the bounds of the buffers and of the ports.                  *)
THEOREM TypeCorrect == Spec => []TypeOK
  <1>1. Inv => TypeOK  BY DEF Inv, Types, TypeOK
  <1>2. QED  BY <1>1, Invariance, PTL

(* The master reads out_buf from its first bit, then zeros, in every       *)
(* transaction, however the thread and cs_isr follow each other.           *)
THEOREM MisoCorrect == Spec => []MisoExact
  <1>1. ASSUME Inv PROVE MisoExact
    <2>1. SUFFICES ASSUME NEW k \in 1 .. Len(got)
                   PROVE  got[k] = CASE ~duplex -> -1
                                     [] duplex /\ k <= out_len * ByteBits -> k
                                     [] duplex /\ k > out_len * ByteBits -> 0
      BY DEF MisoExact
    <2>2. got[k] = IF duplex THEN OutBit(out_len, k) ELSE -1
      BY <1>1 DEF Inv, Types, Seen
    <2>3. PICK n \in Nat : n = out_len * ByteBits
      BY <1>1, Products DEF Inv, Types
    <2>4. k > n <=> ~(k <= n)  BY <2>3
    <2>5. duplex \in BOOLEAN  BY <1>1 DEF Inv, Types
    <2>6. got[k] = CASE ~duplex -> -1
                     [] duplex /\ k <= n -> k
                     [] duplex /\ k > n -> 0
      BY <2>2, <2>3, <2>4, <2>5 DEF OutBit
    <2>7. QED  BY <2>3, <2>6
  <1>2. QED  BY <1>1, Invariance, PTL

-----------------------------------------------------------------------------
(* The report of a transaction.                                            *)

LEMMA Division ==
    /\ \A a \in Nat, b \in Nat \ {0} :
          /\ a \div b \in Nat /\ a % b \in 0 .. b - 1
          /\ a = (a \div b) * b + (a % b)
    /\ \A q, r \in Nat, b \in Nat \ {0} :
          r < b => (q * b + r) \div b = q /\ (q * b + r) % b = r
  <1>1. \A a \in Nat, b \in Nat \ {0} : a \div b \in Nat
    OBVIOUS
  <1>2. \A a \in Nat, b \in Nat \ {0} : a % b \in 0 .. b - 1
    OBVIOUS
  <1>3. \A a \in Nat, b \in Nat \ {0} : a = (a \div b) * b + (a % b)
    OBVIOUS
  <1>4. \A q, r \in Nat, b \in Nat \ {0} :
          r < b => (q * b + r) \div b = q /\ (q * b + r) % b = r
    OBVIOUS
  <1>5. QED  BY <1>1, <1>2, <1>3, <1>4

\* Bits a + 1 to b.
Slice(H, a, b) == SubSeq(H, a + 1, b)

\* H is the first x bits, followed by v bits after base others.
Joins(H, x, v, base) ==
    /\ H \in Seq(Nat) /\ Len(H) = x + v
    /\ \A j \in 1 .. x : H[j] = j
    /\ \A j \in 1 .. v : H[x + j] = base + j

LEMMA FirstSlices ==
    \A H : \A x, v, base \in Nat :
        Joins(H, x, v, base) =>
            \A a, b, n \in Nat :
                a + n = b /\ b <= x => Slice(H, a, b) = Run(a, n)
  <1>1. SUFFICES ASSUME NEW H, NEW x \in Nat, NEW v \in Nat, NEW base \in Nat,
                        Joins(H, x, v, base),
                        NEW a \in Nat, NEW b \in Nat, NEW n \in Nat, a + n = b, b <= x
                 PROVE  Slice(H, a, b) = Run(a, n)
    OBVIOUS
  <1>2. H \in Seq(Nat) /\ Len(H) = x + v /\ \A j \in 1 .. x : H[j] = j
    BY <1>1 DEF Joins
  <1>3. Slice(H, a, b) = [i \in 1 .. n |-> H[i + a]]
    BY <1>1, <1>2 DEF Slice
  <1>4. \A i \in 1 .. n : H[i + a] = a + i
    <2>1. TAKE i \in 1 .. n
    <2>2. i + a \in 1 .. x /\ i + a = a + i  BY <1>1
    <2>3. QED  BY <1>2, <2>2
  <1>5. QED  BY <1>3, <1>4 DEF Run

\* What the slave has heard: w whole words and a part, without the last whole
\* word when it is not stored yet.
LEMMA HeardAtEnd ==
    ASSUME Inv, TransactionEnded, NEW w \in Nat, Reception(w)
    PROVE  /\ Heard' \in Seq(Nat) /\ Stored(w) \in Nat
           /\ Len(Heard') = Stored(w) * WordBits + Len(mosi)
           /\ \A j \in 1 .. Stored(w) * WordBits : Heard'[j] = j
           /\ \A j \in 1 .. Len(mosi) :
                 Heard'[Stored(w) * WordBits + j] = w * WordBits + j
  <1>1. /\ mosi_word = <<>> /\ sent' = sent
        /\ report'.late = (pc = "mask") /\ Types
    BY DEF TransactionEnded, wire, Inv, Apart
  <1>2. PICK v \in Nat : v = Len(mosi) /\ v < WordBits  BY <1>1 DEF Types
  <1>3. PICK base \in Nat : base = w * WordBits  BY Products
  <1>4. sent' = base + v  BY <1>1, <1>2, <1>3 DEF Reception
  <1>5. sent' \div WordBits = w
    <2>1. (w * WordBits + v) \div WordBits = w  BY <1>2, Sizes, Division
    <2>2. QED  BY <1>3, <1>4, <2>1
  <1>6. PICK all : all = [k \in 1 .. base + v |-> k]  OBVIOUS
  <1>7. all \in Seq(Nat) /\ Len(all) = base + v /\ \A k \in 1 .. base + v : all[k] = k
    BY <1>6
  <1>8. Heard' = IF pc = "mask"
                 THEN SubSeq(all, 1, base - WordBits) \o SubSeq(all, base + 1, base + v)
                 ELSE all
    BY <1>1, <1>3, <1>4, <1>5, <1>6 DEF Heard
  <1>9. CASE pc # "mask"
    <2>1. Stored(w) = w /\ Heard' = all  BY <1>1, <1>8, <1>9 DEF Stored, Behind
    <2>2. /\ \A j \in 1 .. base : all[j] = j
          /\ \A j \in 1 .. v : all[base + j] = base + j
      BY <1>7
    <2>3. QED  BY <1>2, <1>3, <1>7, <2>1, <2>2
  <1>10. CASE pc = "mask"
    <2>1. w > 0 /\ Stored(w) = w - 1  BY <1>10 DEF Stored, Behind, Reception
    <2>2. PICK s \in Nat : s = w - 1 /\ w = s + 1  BY <2>1
    <2>3. PICK x \in Nat : x = s * WordBits /\ x = base - WordBits /\ x <= base
      BY <1>3, <2>2, Products, Sizes
    <2>4. PICK f, g : /\ f = SubSeq(all, 1, x) /\ g = SubSeq(all, base + 1, base + v)
                      /\ Heard' = f \o g
      BY <1>8, <1>10, <2>3
    <2>5. f \in Seq(Nat) /\ Len(f) = x /\ \A j \in 1 .. x : f[j] = j
      <3>1. f = [i \in 1 .. x |-> all[i]]  BY <1>7, <2>3, <2>4
      <3>2. \A i \in 1 .. x : all[i] = i  BY <1>7, <2>3
      <3>3. f = [i \in 1 .. x |-> i]  BY <3>1, <3>2
      <3>4. QED  BY <3>3
    <2>6. g \in Seq(Nat) /\ Len(g) = v /\ \A j \in 1 .. v : g[j] = base + j
      <3>1. g = [i \in 1 .. v |-> all[i + base]]  BY <1>7, <2>4
      <3>2. \A i \in 1 .. v : i + base \in 1 .. base + v /\ i + base = base + i  OBVIOUS
      <3>3. \A j \in 1 .. v : g[j] = base + j  BY <1>7, <3>1, <3>2
      <3>4. \A j \in 1 .. v : base + j \in Nat  OBVIOUS
      <3>5. g = [i \in 1 .. v |-> base + i]  BY <3>1, <3>3
      <3>6. QED  BY <3>3, <3>4, <3>5
    <2>7. /\ f \o g \in Seq(Nat) /\ Len(f \o g) = x + v
          /\ \A j \in 1 .. x : (f \o g)[j] = j
          /\ \A j \in 1 .. v : (f \o g)[x + j] = base + j
      <3>1. PICK h : h = f \o g  OBVIOUS
      <3>2. /\ h \in Seq(Nat) /\ Len(h) = x + v
            /\ \A i \in 1 .. x + v : h[i] = IF i <= x THEN f[i] ELSE g[i - x]
        BY <2>5, <2>6, <3>1, ConcatProperties
      <3>3. \A j \in 1 .. x : h[j] = j
        BY <2>5, <3>2
      <3>4. ASSUME NEW j \in 1 .. v PROVE h[x + j] = base + j
        <4>1. PICK i \in 1 .. x + v : i = x + j /\ ~(i <= x) /\ i - x = j  OBVIOUS
        <4>2. h[i] = g[j]  BY <3>2, <4>1
        <4>3. QED  BY <2>6, <4>1, <4>2
      <3>5. QED  BY <3>1, <3>2, <3>3, <3>4
    <2>8. QED  BY <1>2, <1>3, <2>1, <2>2, <2>3, <2>4, <2>7
  <1>11. QED  BY <1>9, <1>10

\* How much of it fits in in_buf, in bytes and bits of the byte after them.
LEMMA Taken ==
    ASSUME Types, NEW s \in Nat, in_cur = Least(in_len, s * WordBytes),
           NEW q \in Nat, NEW r \in Nat, r < ByteBits, q < WordBytes,
           NEW taken,
           taken = Least(s * WordBits + (q * ByteBits + r), in_len * ByteBits)
    PROVE  /\ q < Room => /\ in_cur = s * WordBytes
                          /\ taken = s * WordBits + (q * ByteBits + r)
                          /\ taken = (in_cur + q) * ByteBits + r
           /\ Room <= q => taken = in_len * ByteBits /\ in_cur + Room = in_len
  <1>1. PICK x, y, t \in Nat : x = s * WordBits /\ y = in_len * ByteBits /\ t = q * ByteBits
    BY Products DEF Types
  <1>2. PICK m, c \in Nat : m = s * WordBytes /\ c = in_cur
    <2>1. s * WordBytes \in Nat  BY Products
    <2>2. in_cur \in Nat  BY DEF Types
    <2>3. QED  BY <2>1, <2>2
  <1>3. PICK len, b, n \in Nat : len = in_len /\ b = ByteBits /\ n = WordBytes /\ b > 0
    BY Sizes DEF Types
  <1>4. PICK room \in Nat : /\ room = Room /\ room <= n /\ c + room <= len
                            /\ room > 0 => c = m
                            /\ room < n => c + room = len
    <2>1. /\ Room \in 0 .. WordBytes /\ in_cur + Room \in 0 .. in_len
          /\ Room > 0 => in_cur = s * WordBytes
          /\ Room < WordBytes => in_cur + Room = in_len
      BY Rooms
    <2>2. PICK room : room = Room  OBVIOUS
    <2>3. /\ room \in 0 .. n /\ c + room \in 0 .. len
          /\ room > 0 => c = m
          /\ room < n => c + room = len
      BY <1>2, <1>3, <2>1, <2>2
    <2>4. QED  BY <1>2, <1>3, <2>2, <2>3
  <1>5. x = m * b /\ t = q * b /\ y = len * b
    <2>1. (s * WordBytes + 0) * ByteBits = s * WordBits + 0 * ByteBits
      <3>1. 0 \in Nat  OBVIOUS
      <3>2. QED  BY <3>1, Products
    <2>2. (m + 0) * b = x + 0 * b  BY <1>1, <1>2, <1>3, <2>1
    <2>3. m + 0 = m /\ 0 * b = 0 /\ x + 0 = x  OBVIOUS
    <2>4. QED  BY <1>1, <1>3, <2>2, <2>3
  <1>6. taken = Least(x + (t + r), y) /\ r < b /\ q < n /\ c = Least(len, m)
    BY <1>1, <1>2, <1>3
  <1>7. ASSUME q < room
        PROVE  c = m /\ taken = x + (t + r) /\ taken = (c + q) * b + r
    <2>1. c = m /\ c + q + 1 <= len  BY <1>4, <1>7
    <2>2. (c + q) * b = x + t /\ (c + q + 1) * b = x + t + b
      <3>1. (c + q) * b = c * b + q * b /\ (c + q + 1) * b = c * b + q * b + b  OBVIOUS
      <3>2. QED  BY <1>5, <2>1, <3>1
    <2>3. (c + q + 1) * b <= len * b  BY <2>1, Larger
    <2>4. x + t + r <= y  BY <1>5, <1>6, <2>2, <2>3
    <2>5. QED  BY <1>6, <2>1, <2>2, <2>4 DEF Least
  <1>8. ASSUME room <= q
        PROVE  taken = y /\ c + room = len
    <2>1. c + room = len  BY <1>4, <1>6, <1>8
    <2>2. y <= x + t
      <3>1. len <= m + q  BY <1>4, <1>6, <1>8, <2>1 DEF Least
      <3>2. len * b <= (m + q) * b  BY <3>1, Larger
      <3>3. (m + q) * b = m * b + q * b  OBVIOUS
      <3>4. QED  BY <1>5, <3>2, <3>3
    <2>3. QED  BY <1>6, <2>1, <2>2 DEF Least
  <1>9. QED  BY <1>1, <1>2, <1>3, <1>4, <1>7, <1>8

LEMMA Written ==
    ASSUME NEW w \in Nat, NEW q \in Nat, NEW r \in Nat, r < ByteBits, q < WordBytes,
           NEW s \in Nat, w <= s + 1, NEW len \in Nat
    PROVE  Least(len, (s + 2) * WordBytes) >=
              Least(len, (w * WordBits + (q * ByteBits + r)) \div ByteBits)
  <1>1. PICK m, d \in Nat : m = w * WordBytes /\ d = (s + 2) * WordBytes
    <2>1. s + 2 \in Nat  OBVIOUS
    <2>2. w * WordBytes \in Nat /\ (s + 2) * WordBytes \in Nat  BY <2>1, Products
    <2>3. QED  BY <2>2
  <1>2. (w * WordBits + (q * ByteBits + r)) \div ByteBits = m + q
    <2>1. (m + q) * ByteBits = w * WordBits + q * ByteBits
      BY <1>1, Products
    <2>2. w * WordBits \in Nat /\ q * ByteBits \in Nat  BY Products
    <2>3. w * WordBits + (q * ByteBits + r) = (m + q) * ByteBits + r  BY <2>1, <2>2
    <2>4. ((m + q) * ByteBits + r) \div ByteBits = m + q
      <3>1. m + q \in Nat  OBVIOUS
      <3>2. QED  BY <3>1, Division, Sizes
    <2>5. QED  BY <2>3, <2>4
  <1>3. m + q <= d
    <2>1. w + 1 <= s + 2 /\ w + 1 \in Nat /\ s + 2 \in Nat /\ WordBytes \in Nat  BY Sizes
    <2>2. (w + 1) * WordBytes <= (s + 2) * WordBytes  BY <2>1, Larger
    <2>3. (w + 1) * WordBytes = m + WordBytes  BY <1>1, Products
    <2>4. QED  BY <1>1, <2>1, <2>2, <2>3
  <1>4. Least(len, d) >= Least(len, m + q)  BY <1>3 DEF Least
  <1>5. QED  BY <1>1, <1>2, <1>4

LEMMA EndReport ==
    ASSUME Inv, TransactionEnded
    PROVE  ReportExact'
  <1>1. PICK w \in Nat : /\ Reception(w) /\ cs_val /\ Types
                         /\ IF duplex THEN Driving(w) ELSE out_len = 0
    BY DEF Inv, Receiving, TransactionEnded
  <1>2. PICK s \in Nat : s = Stored(w) /\ w <= s + 1
    BY <1>1 DEF Reception, Stored
  <1>3. in_cur = Least(in_len, s * WordBytes)  BY <1>1, <1>2 DEF Reception
  <1>4. PICK v \in Nat : v = Len(mosi) /\ v < WordBits  BY <1>1 DEF Types
  <1>5. PICK q, r \in Nat : q = v \div ByteBits /\ r = v % ByteBits /\ r < ByteBits
    <2>1. ByteBits \in Nat \ {0}  BY Sizes
    <2>2. v \div ByteBits \in Nat /\ v % ByteBits \in 0 .. ByteBits - 1  BY <2>1, Division
    <2>3. PICK r : r = v % ByteBits  OBVIOUS
    <2>4. r \in Nat /\ r < ByteBits  BY <2>1, <2>2, <2>3
    <2>5. QED  BY <2>2, <2>3, <2>4
  <1>6. v = q * ByteBits + r /\ q < WordBytes
    <2>1. v = q * ByteBits + r  BY <1>5, Division, Sizes
    <2>2. q < WordBytes
      <3>1. CASE WordBytes <= q
        <4>1. WordBytes * ByteBits <= q * ByteBits  BY <3>1, Larger, Sizes
        <4>2. WordBytes * ByteBits = WordBits  BY Sizes
        <4>3. q * ByteBits \in Nat /\ WordBits \in Nat  BY Products, Sizes
        <4>4. QED  BY <1>4, <2>1, <4>1, <4>2, <4>3
      <3>2. QED  BY <3>1, Sizes
    <2>3. QED  BY <2>1, <2>2
  <1>7. PICK x, base \in Nat : x = s * WordBits /\ base = w * WordBits  BY Products
  <1>8. PICK H : H = Heard'  OBVIOUS
  <1>9. /\ H \in Seq(Nat) /\ Len(H) = x + v
        /\ \A j \in 1 .. x : H[j] = j
        /\ \A j \in 1 .. v : H[x + j] = base + j
    BY <1>1, <1>2, <1>4, <1>7, <1>8, HeardAtEnd
  <1>9a. \A a, n \in Nat :
          /\ a + n <= x => Slice(H, a, a + n) = Run(a, n)
          /\ a + n <= v => Slice(H, x + a, x + a + n) = Run(base + a, n)
    <2>1. Joins(H, x, v, base)  BY <1>9 DEF Joins
    <2>2. TAKE a, n \in Nat
    <2>3. ASSUME a + n <= x PROVE Slice(H, a, a + n) = Run(a, n)
      <3>1. PICK b \in Nat : b = a + n /\ b <= x  BY <2>3
      <3>2. Slice(H, a, b) = Run(a, n)  BY <2>1, <3>1, FirstSlices
      <3>3. QED  BY <3>1, <3>2
    <2>4. ASSUME a + n <= v PROVE Slice(H, x + a, x + a + n) = Run(base + a, n)
      <3>1. PICK e, b, c \in Nat : /\ e = x + a /\ b = x + a + n /\ e + n = b /\ x <= e
                                   /\ b <= x + v /\ c = base + a
        BY <2>4
      <3>2. Slice(H, e, b) = [i \in 1 .. n |-> H[i + e]]
        BY <1>9, <3>1 DEF Slice
      <3>3. \A i \in 1 .. n : H[i + e] = c + i
        <4>1. TAKE i \in 1 .. n
        <4>2. PICK j \in 1 .. v : j = i + a /\ x + j = i + e /\ base + j = c + i
          BY <2>4, <3>1
        <4>3. H[x + j] = base + j  BY <1>9
        <4>4. QED  BY <4>2, <4>3
      <3>4. Slice(H, e, b) = Run(c, n)  BY <3>2, <3>3 DEF Run
      <3>5. QED  BY <3>1, <3>4
    <2>5. QED  BY <2>3, <2>4
  <1>10. PICK taken : taken = Least(x + v, in_len * ByteBits)  OBVIOUS
  <1>11. /\ q < Room => /\ in_cur = s * WordBytes /\ taken = x + v
                        /\ taken = (in_cur + q) * ByteBits + r
         /\ Room <= q => taken = in_len * ByteBits /\ in_cur + Room = in_len
    <2>1. taken = Least(s * WordBits + (q * ByteBits + r), in_len * ByteBits)
      BY <1>6, <1>7, <1>10
    <2>2. QED  BY <1>1, <1>3, <1>5, <1>6, <1>7, <2>1, Taken
  <1>12. PICK R \in 0 .. WordBytes : R = Room  BY <1>1, <1>3, Rooms
  <1>13. in_cur \in Nat /\ in_len \in Nat /\ R \in Nat /\ ByteBits \in Nat \ {0}
    BY <1>1, <1>12, Sizes DEF Types
  <1>14. /\ in_buf' = IF v > 0 THEN Store(mosi, Room) ELSE in_buf
         /\ in_cur' = IF v > 0 THEN PartCur(v) ELSE in_cur
         /\ report'.read = in_cur' /\ report'.written = out_cur
         /\ report'.bits = IF v > 0 THEN PartBits(v) ELSE 0
         /\ UNCHANGED <<in_len, out_len, sent>>
    BY <1>4 DEF TransactionEnded, wire
  <1>15. v = 0 => q = 0 /\ r = 0
    <2>1. q > 0 => q * ByteBits >= 1 * ByteBits  BY <1>13, Larger
    <2>2. q * ByteBits \in Nat /\ 1 * ByteBits = ByteBits  BY <1>13, Products
    <2>3. QED  BY <1>6, <1>13, <2>1, <2>2
  <1>16. /\ report'.read = in_cur + (IF q < R THEN q ELSE R)
         /\ report'.bits = IF q < R THEN r ELSE 0
    <2>1. CASE v > 0
      BY <1>5, <1>12, <1>14, <2>1 DEF PartCur, PartBits, PartBytes
    <2>2. CASE v = 0
      <3>1. in_cur + (IF q < R THEN q ELSE R) = in_cur  BY <1>13, <1>15, <2>2
      <3>2. QED  BY <1>14, <1>15, <2>2, <3>1
    <2>3. QED  BY <2>1, <2>2
  <1>17. report'.read = taken \div ByteBits /\ report'.bits = taken % ByteBits
    <2>1. PICK k, b \in Nat : /\ k = in_cur + (IF q < R THEN q ELSE R)
                              /\ b = IF q < R THEN r ELSE 0
      <3>1. (IF q < R THEN q ELSE R) \in Nat /\ (IF q < R THEN r ELSE 0) \in Nat
        BY <1>13
      <3>2. in_cur + (IF q < R THEN q ELSE R) \in Nat  BY <1>13, <3>1
      <3>3. QED  BY <3>1, <3>2
    <2>2. taken = k * ByteBits + b /\ b < ByteBits
      <3>1. CASE q < R
        BY <1>5, <1>11, <1>12, <2>1, <3>1
      <3>2. CASE R <= q
        <4>1. k = in_len /\ b = 0 /\ taken = in_len * ByteBits
          BY <1>11, <1>12, <1>13, <2>1, <3>2
        <4>2. in_len * ByteBits \in Nat  BY <1>13, Products
        <4>3. QED  BY <1>13, <4>1, <4>2
      <3>3. QED  BY <1>13, <3>1, <3>2
    <2>3. taken \div ByteBits = k /\ taken % ByteBits = b
      BY <1>13, <2>2, Division
    <2>4. QED  BY <1>16, <2>1, <2>3
  <1>18. /\ v > 0 => \A k \in 1 .. in_cur : in_buf'[k] = in_buf[k]
         /\ v > 0 => \A k \in 0 .. R - 1 :
               k * ByteBits <= v =>
                   in_buf'[in_cur + k + 1] =
                       Run(base + k * ByteBits,
                           IF (k + 1) * ByteBits <= v THEN ByteBits ELSE v - k * ByteBits)
    <2>1. mosi = Run(base, v)  BY <1>1, <1>4, <1>7 DEF Reception
    <2>2. ASSUME v > 0 PROVE in_buf' = Store(Run(base, v), Room)  BY <1>14, <2>1, <2>2
    <2>3. ASSUME v > 0
          PROVE  /\ \A k \in 1 .. in_cur : in_buf'[k] = in_buf[k]
                 /\ \A k \in 0 .. R - 1 :
                       k * ByteBits <= v =>
                           in_buf'[in_cur + k + 1] =
                               Run(base + k * ByteBits,
                                   IF (k + 1) * ByteBits <= v THEN ByteBits
                                   ELSE v - k * ByteBits)
      <3>1. PICK b : b = in_buf'  OBVIOUS
      <3>2. b = Store(Run(base, v), Room)  BY <2>2, <2>3, <3>1
      <3>3. /\ \A k \in 1 .. in_cur : b[k] = in_buf[k]
            /\ \A k \in 0 .. Room - 1 :
                  k * ByteBits <= v =>
                      b[in_cur + k + 1] =
                          Run(base + k * ByteBits,
                              IF (k + 1) * ByteBits <= v THEN ByteBits
                              ELSE v - k * ByteBits)
        BY <1>1, <1>3, <3>2, StoreBytes
      <3>4. QED  BY <1>12, <3>1, <3>3
    <2>4. QED  BY <2>3
  <1>19. ASSUME NEW k \in 1 .. report'.read
         PROVE  in_buf'[k] = Slice(H, (k - 1) * ByteBits, k * ByteBits)
    <2>1. PICK i \in Nat : i = k - 1 /\ k = i + 1
      BY <1>13, <1>16
    <2>2. PICK a \in Nat : a = i * ByteBits /\ k * ByteBits = a + ByteBits
      <3>1. i * ByteBits \in Nat /\ (i + 1) * ByteBits = i * ByteBits + ByteBits
        BY Products
      <3>2. k * ByteBits = i * ByteBits + ByteBits  BY <2>1, <3>1
      <3>3. QED  BY <3>1, <3>2
    <2>3. a + ByteBits \in Nat /\ a <= a + ByteBits /\ (a + ByteBits) - a = ByteBits
      BY <1>13, <2>2
    <2>4. CASE k <= in_cur
      <3>1. in_buf'[k] = Run(a, ByteBits)
        <4>1. k \in 1 .. in_cur  BY <2>4, <1>13, <1>16
        <4>2. in_buf[k] = Run((k - 1) * ByteBits, ByteBits)  BY <1>1, <4>1 DEF Reception
        <4>3. in_buf'[k] = in_buf[k]  BY <1>14, <1>18, <4>1
        <4>4. QED  BY <2>1, <2>2, <4>2, <4>3
      <3>2. a + ByteBits <= x
        <4>1. k <= s * WordBytes  BY <1>3, <1>13, <2>1, <2>4, Products DEF Least
        <4>2. s * WordBytes \in Nat /\ k \in Nat
          <5>1. s * WordBytes \in Nat  BY Products
          <5>2. k \in Nat  BY <2>1
          <5>3. QED  BY <5>1, <5>2
        <4>3. k * ByteBits <= (s * WordBytes) * ByteBits  BY <1>13, <4>1, <4>2, Larger
        <4>4. (s * WordBytes) * ByteBits = x
          <5>1. (s * WordBytes + 0) * ByteBits = s * WordBits + 0 * ByteBits  BY Products
          <5>2. s * WordBytes + 0 = s * WordBytes /\ 0 * ByteBits = 0 /\ x + 0 = x
            BY <1>13, <4>2
          <5>3. QED  BY <1>7, <5>1, <5>2
        <4>5. QED  BY <2>2, <4>3, <4>4
      <3>3. Slice(H, a, a + ByteBits) = Run(a, ByteBits)
        BY <1>9a, <1>13, <3>2
      <3>4. QED  BY <2>1, <2>2, <3>1, <3>3
    <2>5. CASE in_cur < k
      <3>1. PICK j \in Nat : j = i - in_cur /\ k = in_cur + j + 1 /\ i = in_cur + j
        BY <1>13, <2>1, <2>5
      <3>2. j < R /\ j < q /\ j \in 0 .. R - 1
        <4>1. k <= in_cur + (IF q < R THEN q ELSE R)  BY <1>16
        <4>2. QED  BY <1>13, <3>1, <4>1
      <3>3. in_cur = s * WordBytes
        <4>1. Room > 0  BY <1>12, <1>13, <3>2
        <4>2. QED  BY <1>1, <1>3, <4>1, Rooms
      <3>4. PICK y \in Nat : y = j * ByteBits /\ (j + 1) * ByteBits = y + ByteBits
        BY <3>1, Products
      <3>5. a = x + y  BY <1>7, <2>2, <3>1, <3>3, <3>4, Products
      <3>6. y + ByteBits <= v
        <4>1. (j + 1) * ByteBits <= q * ByteBits  BY <1>13, <3>1, <3>2, Larger
        <4>2. PICK t \in Nat : t = q * ByteBits  BY Products
        <4>3. v = t + r /\ y + ByteBits <= t  BY <1>6, <3>4, <4>1, <4>2
        <4>4. QED  BY <1>13, <4>2, <4>3
      <3>7. in_buf'[k] = Run(base + y, ByteBits)
        <4>1. v > 0 /\ y <= v  BY <1>13, <3>6
        <4>2. QED  BY <1>18, <3>1, <3>2, <3>4, <3>6, <4>1
      <3>8. Slice(H, a, a + ByteBits) = Run(base + y, ByteBits)
        BY <1>9a, <1>13, <3>4, <3>5, <3>6
      <3>9. QED  BY <2>1, <2>2, <3>7, <3>8
    <2>6. QED  BY <1>13, <2>1, <2>4, <2>5
  <1>20. ASSUME report'.bits > 0
         PROVE  in_buf'[report'.read + 1] = Slice(H, report'.read * ByteBits, taken)
    <2>1. q < R /\ r > 0 /\ report'.read = in_cur + q  BY <1>16, <1>20
    <2>2. in_cur = s * WordBytes /\ taken = x + v  BY <1>11, <1>12, <2>1
    <2>3. PICK y \in Nat : y = q * ByteBits /\ (q + 1) * ByteBits = y + ByteBits
      BY Products
    <2>4. (in_cur + q) * ByteBits = x + y  BY <1>7, <2>2, <2>3, Products
    <2>5. v = y + r /\ ~(y + ByteBits <= v) /\ v > 0 /\ y <= v
      BY <1>5, <1>6, <1>13, <2>1, <2>3
    <2>6. in_buf'[in_cur + q + 1] = Run(base + y, v - y)
      <3>1. q \in 0 .. R - 1  BY <1>13, <2>1
      <3>2. QED  BY <1>18, <2>3, <2>5, <3>1
    <2>7. Slice(H, x + y, x + v) = Run(base + y, v - y)
      <3>1. PICK n \in Nat : n = v - y /\ y + n <= v /\ x + v = x + y + n  BY <2>5
      <3>2. Slice(H, x + y, x + y + n) = Run(base + y, n)  BY <1>9a, <3>1
      <3>3. QED  BY <3>1, <3>2
    <2>8. QED  BY <2>1, <2>2, <2>4, <2>6, <2>7
  <1>21. report'.written >= Least(out_len', sent' \div ByteBits)
    <2>1. sent = w * WordBits + (q * ByteBits + r)  BY <1>1, <1>4, <1>6 DEF Reception
    <2>2. CASE duplex
      <3>1. out_cur = Least(out_len, (s + 2) * WordBytes)  BY <1>1, <1>2, <2>2 DEF Driving
      <3>2. out_len \in Nat  BY <1>1 DEF Types
      <3>3. out_cur >= Least(out_len, sent \div ByteBits)
        BY <1>2, <1>5, <1>6, <2>1, <3>1, <3>2, Written
      <3>4. QED  BY <1>14, <3>3
    <2>3. CASE ~duplex
      <3>1. out_len = 0 /\ out_cur = 0  BY <1>1, <2>3 DEF Types
      <3>2. sent \div ByteBits \in Nat  BY <1>1, <1>13, Division DEF Types
      <3>3. Least(0, sent \div ByteBits) = 0  BY <3>2 DEF Least
      <3>4. QED  BY <1>14, <3>1, <3>3
    <2>4. QED  BY <2>2, <2>3
  <1>22. taken = Least(Len(H), in_len' * ByteBits)  BY <1>9, <1>10, <1>14
  <1>23. QED  BY <1>8, <1>17, <1>19, <1>20, <1>21, <1>22 DEF ReportExact, Slice

LEMMA FirstReport ==
    ASSUME Init
    PROVE  ReportExact
  <1>1. /\ sent = 0 /\ in_len = 0 /\ out_len = 0
        /\ report = [read |-> 0, bits |-> 0, written |-> 0, late |-> FALSE]
    BY DEF Init
  <1>2. Heard = [k \in 1 .. 0 |-> k]  BY <1>1 DEF Heard
  <1>3. Len(Heard) = 0  BY <1>2
  <1>4. 0 * ByteBits = 0 /\ 0 \div ByteBits = 0 /\ 0 % ByteBits = 0 /\ Least(0, 0) = 0
    <2>1. \A b \in Nat \ {0} : 0 * b = 0 /\ 0 \div b = 0 /\ 0 % b = 0  OBVIOUS
    <2>2. QED  BY <2>1, Sizes DEF Least
  <1>5. \A k \in 1 .. 0 : FALSE  OBVIOUS
  <1>6. QED  BY <1>1, <1>3, <1>4, <1>5 DEF ReportExact

\* Whatever else happens between transactions leaves the report alone.
LEMMA ReportStep ==
    ASSUME Inv, ReportExact, [Next]_vars
    PROVE  ReportExact'
  <1>1. ASSUME UNCHANGED <<cs, cs_val, sent, report, in_len, in_buf, out_len>>
        PROVE  ReportExact'
    BY <1>1 DEF ReportExact, Ended, Settled, Heard
  <1>2. ASSUME ~Ended' PROVE ReportExact'  BY <1>2 DEF ReportExact
  <1>3. CASE PortIn  BY <1>1, <1>3 DEF PortIn, bufs, wire
  <1>4. CASE Masked
    <2>1. UNCHANGED <<cs, cs_val, sent, report, in_len, out_len>>
      BY <1>4 DEF Masked, wire
    <2>2. CASE running
      <3>1. cs_val  BY <2>2 DEF Inv, Types
      <3>2. QED  BY <1>2, <2>1, <3>1 DEF Ended, Settled
    <2>3. CASE ~running
      BY <1>1, <1>4, <2>1, <2>3 DEF Masked
    <2>4. QED  BY <2>2, <2>3
  <1>5. CASE CheckRunning  BY <1>1, <1>5 DEF CheckRunning, bufs, wire
  <1>6. CASE PortOut  BY <1>1, <1>6 DEF PortOut, bufs, wire
  <1>7. ASSUME NEW il \in InLens, NEW ol \in OutLens, TransactionStarted(il, ol)
        PROVE  ReportExact'
    <2>1. cs'  BY <1>7 DEF TransactionStarted
    <2>2. QED  BY <1>2, <2>1 DEF Ended
  <1>8. CASE TransactionEnded  BY <1>8, EndReport
  <1>9. CASE CsAssert
    <2>1. cs'  BY <1>9 DEF CsAssert
    <2>2. QED  BY <1>2, <2>1 DEF Ended
  <1>10. CASE Clock
    <2>1. cs'  BY <1>10 DEF Clock
    <2>2. QED  BY <1>2, <2>1 DEF Ended
  <1>11. CASE CsDeassert
    <2>1. ~cs' /\ cs_val'  BY <1>11 DEF CsDeassert, Settled
    <2>2. QED  BY <1>2, <2>1 DEF Ended, Settled
  <1>12. CASE UNCHANGED vars  BY <1>1, <1>12 DEF vars, bufs, wire
  <1>13. QED
    BY <1>3, <1>4, <1>5, <1>6, <1>7, <1>8, <1>9, <1>10, <1>11, <1>12
    DEF Next, Thread, CsIsr

\* When a transaction ends, however the end falls between the steps of the
\* thread, slave_transaction_ended is told exactly what is in in_buf.
THEOREM ReportCorrect == Spec => []ReportExact
  <1>1. Init => ReportExact  BY FirstReport
  <1>2. Inv /\ ReportExact /\ [Next]_vars => ReportExact'  BY ReportStep
  <1>3. QED  BY <1>1, <1>2, Invariance, PTL DEF Spec

=============================================================================
