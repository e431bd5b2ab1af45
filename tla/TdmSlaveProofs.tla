--------------------------- MODULE TdmSlaveProofs ---------------------------
(***************************************************************************)
(* Proofs about TdmSlave, for every number of channels, word length, fsync *)
(* pulse and offset, and any number of slips of the bit clock.             *)
(***************************************************************************)
EXTENDS TdmSlave, TLAPS

Resting == {"init", "post", "low", "arm", "high", "exit"}
Running == {"out", "fsync", "fill", "check", "send", "deinit"}
Words == [frame : 0 .. Frames - 1, ch : 0 .. Channels - 1]

Types ==
    /\ fsync_len \in FsyncLens /\ tx_offset \in TxOffsets
    /\ pc \in Resting \cup Running
    /\ i \in 1 .. Channels - 1
    /\ restart \in Commands
    /\ first \in BOOLEAN /\ fysnch_error \in BOOLEAN
    /\ failed \in BOOLEAN /\ slipped \in BOOLEAN
    /\ frame \in 0 .. Frames - 1
    /\ fs \in 0 .. 2 /\ fs_wait \in 0 .. Period
    /\ dbit \in 0 .. WordBits - 1 /\ out_wait \in 0 .. Period + WordBits
    /\ pos \in 0 .. Period - 1 /\ slips \in 0 .. MaxSlips /\ late \in 0 .. ArmBits
    /\ line \in Bits
    /\ astray \in Nat

(* The ports are stopped and empty, or the slave has armed them.           *)
AtRest ==
    /\ pc \in Resting =>
          /\ fs_wait = 0 /\ fs = NoLevel
          /\ dout = <<>> /\ dbit = 0 /\ out_wait = 0
          /\ line = NoBit /\ astray = 0
    /\ pc \in Running => fs_wait >= 1

(* What the flag says of the sample of fsync last looked at.               *)
Errors ==
    /\ pc \in {"init", "post", "deinit"} => fysnch_error = failed
    /\ pc \in {"low", "arm", "high", "out", "fsync", "fill", "check", "send"} =>
          ~fysnch_error
    /\ pc \in {"fill", "check", "send"} /\ ~first => ~failed
    /\ pc = "check" => ~first

(* The words queued follow each other, and the one the task queues next    *)
(* follows them.                                                           *)
Follows(v, w) ==
    \/ w.ch = v.ch + 1 /\ w.frame = v.frame
    \/ v.ch = Channels - 1 /\ w.ch = 0 /\ w.frame = (v.frame + 1) % Frames

Chain(q, up) ==
    \/ q = <<>>
    \/ \E v \in Words : q = <<v>> /\ Follows(v, up)
    \/ \E v, w \in Words : q = <<v, w>> /\ Follows(v, w) /\ Follows(w, up)

NextWord(place, c, f, error) ==
    CASE place = "out" -> Word(f, 0)
      [] place = "fsync" \/ (place = "deinit" /\ error) -> Word(f, 1)
      [] place = "fill" -> Word(f, c)
      [] OTHER -> Word((f + 1) % Frames, 0)
Upcoming == NextWord(pc, i, frame, fysnch_error)

(* The word under way, and the bits left in the port.                      *)
Current(q, up) == IF q = <<>> THEN up ELSE Head(q)
Left(q, b) == IF q = <<>> THEN 0
              ELSE IF Len(q) = 1 THEN WordBits - b ELSE 2 * WordBits - b

(* The bits until the port runs dry keep step with those until the next    *)
(* sample of fsync: what is queued of a frame is ahead of the sample, one  *)
(* latched is a frame behind, and so is what follows the look at it.       *)
Before == IF out_wait > 0 THEN out_wait - 1 ELSE 0
Latched == IF fs = NoLevel THEN 0 ELSE Period
Looked == IF pc = "fill" \/ (pc = "deinit" /\ fysnch_error) THEN Period ELSE 0

InStep ==
    pc \in Running =>
        /\ Chain(dout, Upcoming)
        /\ dout = <<>> => dbit = 0
        /\ Before + Left(dout, dbit) + Latched + Looked
              = fs_wait + tx_offset - 1 + Upcoming.ch * WordBits
        /\ first /\ pc \in {"out", "fsync"} /\ fs = NoLevel =>
              out_wait = fs_wait + tx_offset
        /\ out_wait > 0 => line = NoBit /\ astray = 0

(* A bit and the one after it.                                             *)
Precedes(a, w, b) ==
    \/ w.ch * WordBits + b = a.at + 1 /\ w.frame = a.frame
    \/ a.at = Period - 1 /\ w.ch = 0 /\ b = 0 /\ w.frame = (a.frame + 1) % Frames

InOrder ==
    pc \in Running =>
        LET word == Current(dout, Upcoming) IN
        /\ line = NoBit => word.ch = 0 /\ dbit = 0
        /\ line # NoBit => line.at <= Period - 1 /\ Precedes(line, word, dbit)

(* A bad sample that will not be overlooked, as the first one is.          *)
Bad ==
    \/ fs = 0 /\ ~(first /\ pc \in {"out", "fsync"})
    \/ pc = "deinit" /\ fysnch_error

Strays ==
    pc \in Running =>
        astray <= Period - fs_wait + 1 + (IF Bad THEN Period ELSE 0)

(* Where the edge may have been taken.                                     *)
Skewed ==
    ~slipped =>
        /\ Streaming => Skew < fsync_len /\ Skew <= ArmBits
        /\ pc = "arm" => pos >= fsync_len \/ pos <= late
        /\ pc = "high" => pos >= fsync_len \/ pos <= ArmBits

IInv == Types /\ AtRest /\ Errors /\ InStep /\ InOrder /\ Strays /\ Skewed

-----------------------------------------------------------------------------
(* Arithmetic of words and frames.                                         *)
LEMMA Numbers ==
  /\ Channels \in Nat /\ Channels >= 2 /\ WordBits \in Nat /\ WordBits >= 1
  /\ Frames \in Nat /\ Frames >= 2
  /\ ArmBits \in Nat /\ MaxSlips \in Nat
  /\ Period \in Nat /\ Period >= 2 * WordBits
  /\ \A f \in FsyncLens : f \in Nat /\ f >= 1 /\ f <= Period - 1
  /\ \A t \in TxOffsets : t \in Nat /\ t <= WordBits
<1>1. /\ Channels \in Nat /\ Channels >= 2 /\ WordBits \in Nat /\ WordBits >= 1
      /\ Frames \in Nat /\ Frames >= 2
      /\ ArmBits \in Nat /\ MaxSlips \in Nat
  BY TdmAssumption
<1>2. Period \in Nat /\ Period >= 2 * WordBits
  BY <1>1 DEF Period
<1>3. \A f \in FsyncLens : f \in Nat /\ f >= 1 /\ f <= Period - 1
  BY <1>2, TdmAssumption
<1>4. \A t \in TxOffsets : t \in Nat /\ t <= WordBits
  BY <1>1, TdmAssumption
<1>5. QED
  BY <1>1, <1>2, <1>3, <1>4

LEMMA WordStarts ==
  \A c \in 0 .. Channels - 1 :
      /\ c * WordBits \in Nat
      /\ (c + 1) * WordBits = c * WordBits + WordBits
      /\ c * WordBits + WordBits <= Period
      /\ c = Channels - 1 => c * WordBits + WordBits = Period
<1> SUFFICES ASSUME NEW c \in 0 .. Channels - 1
             PROVE  /\ c * WordBits \in Nat
                    /\ (c + 1) * WordBits = c * WordBits + WordBits
                    /\ c * WordBits + WordBits <= Period
                    /\ c = Channels - 1 => c * WordBits + WordBits = Period
  OBVIOUS
<1>1. c * WordBits \in Nat /\ (c + 1) * WordBits = c * WordBits + WordBits
  BY Numbers
<1>2. (Channels - 1 - c) * WordBits >= 0
  BY Numbers
<1>3. (Channels - 1 - c) * WordBits = Period - c * WordBits - WordBits
  BY Numbers DEF Period
<1>4. QED
  BY <1>1, <1>2, <1>3, Numbers

LEMMA Wrap ==
  ASSUME NEW m \in Nat, m >= 1, NEW x \in 0 .. m
  PROVE  /\ x % m = IF x = m THEN 0 ELSE x
         /\ x % m \in 0 .. m - 1
  OBVIOUS

LEMMA NextFrame == \A f \in 0 .. Frames - 1 : (f + 1) % Frames \in 0 .. Frames - 1
  BY Numbers

(* An offset below zero by less than some frames.                          *)
LEMMA Place ==
  ASSUME NEW m \in Nat, m >= 1, NEW r \in 0 .. m - 1, NEW z \in Int,
         \/ z = r + m \/ z = r \/ z = r - m \/ z = r - 2 * m \/ z = r - 3 * m
  PROVE  z % m = r
  OBVIOUS

-----------------------------------------------------------------------------
(* The queue of the data port.                                             *)
LEMMA Tuples ==
  \A v, w \in Words :
      /\ Append(<<>>, w) = <<w>> /\ Append(<<v>>, w) = <<v, w>>
      /\ Len(<<v>>) = 1 /\ Head(<<v>>) = v /\ Tail(<<v>>) = <<>> /\ <<v>> # <<>>
      /\ Len(<<v, w>>) = 2 /\ Head(<<v, w>>) = v /\ Tail(<<v, w>>) = <<w>>
      /\ <<v, w>> # <<>>
<1> SUFFICES ASSUME NEW v \in Words, NEW w \in Words
             PROVE  /\ Append(<<>>, w) = <<w>> /\ Append(<<v>>, w) = <<v, w>>
                    /\ Len(<<v>>) = 1 /\ Head(<<v>>) = v /\ Tail(<<v>>) = <<>>
                    /\ <<v>> # <<>>
                    /\ Len(<<v, w>>) = 2 /\ Head(<<v, w>>) = v
                    /\ Tail(<<v, w>>) = <<w>> /\ <<v, w>> # <<>>
  OBVIOUS
<1>1. /\ <<v>> \in Seq(Words) /\ Len(<<v>>) = 1 /\ <<v>>[1] = v
      /\ <<v, w>> \in Seq(Words) /\ Len(<<v, w>>) = 2
      /\ <<v, w>>[1] = v /\ <<v, w>>[2] = w
  OBVIOUS
<1>2. Append(<<>>, w) = <<w>>
  OBVIOUS
<1>3. Append(<<v>>, w) = <<v, w>>
  <2> DEFINE t == Append(<<v>>, w)
  <2>1. t \in Seq(Words) /\ Len(t) = 2 /\ t[1] = v /\ t[2] = w
    BY <1>1
  <2> HIDE DEF t
  <2>2. t = <<v, w>>
    BY <2>1
  <2>3. QED
    BY <2>2 DEF t
<1>4. Head(<<v>>) = v /\ Head(<<v, w>>) = v /\ <<v>> # <<>> /\ <<v, w>> # <<>>
  BY <1>1
<1>5. Tail(<<v>>) = <<>>
  OBVIOUS
<1>6. Tail(<<v, w>>) = <<w>>
  OBVIOUS
<1>7. QED
  BY <1>1, <1>2, <1>3, <1>4, <1>5, <1>6

LEMMA LeftFacts ==
  \A v, w \in Words, b \in 0 .. WordBits - 1 :
      /\ Left(<<>>, b) = 0
      /\ Left(<<v>>, b) = WordBits - b
      /\ Left(<<v, w>>, b) = 2 * WordBits - b
  BY Tuples DEF Left

LEMMA QueueAppend ==
  ASSUME NEW q, NEW up \in Words, NEW next, Chain(q, up), Follows(up, next),
         Len(q) < 2, NEW b \in 0 .. WordBits - 1, q = <<>> => b = 0
  PROVE  LET r == Append(q, up) IN
         /\ Chain(r, next) /\ Current(r, next) = Current(q, up)
         /\ Left(r, b) = Left(q, b) + WordBits /\ r # <<>>
<1>1. CASE q = <<>>
  BY <1>1, Tuples, Numbers DEF Chain, Current, Left
<1>2. ASSUME NEW v \in Words, q = <<v>>, Follows(v, up)
      PROVE  LET r == Append(q, up) IN
             /\ Chain(r, next) /\ Current(r, next) = Current(q, up)
             /\ Left(r, b) = Left(q, b) + WordBits /\ r # <<>>
  <2>1. Append(q, up) = <<v, up>>
    BY <1>2, Tuples
  <2>2. Chain(<<v, up>>, next)
    BY <1>2 DEF Chain
  <2>3. Current(<<v, up>>, next) = v /\ Current(q, up) = v /\ <<v, up>> # <<>>
    BY <1>2, Tuples DEF Current
  <2>4. Left(<<v, up>>, b) = 2 * WordBits - b /\ Left(q, b) = WordBits - b
    BY <1>2, LeftFacts
  <2>5. 2 * WordBits - b = (WordBits - b) + WordBits
    BY Numbers
  <2>6. QED
    BY <2>1, <2>2, <2>3, <2>4, <2>5
<1>3. ASSUME NEW v \in Words, NEW w \in Words, q = <<v, w>>
      PROVE  FALSE
  BY <1>3, Tuples
<1>4. QED
  BY <1>1, <1>2, <1>3 DEF Chain

LEMMA QueueShift ==
  ASSUME NEW q, NEW up \in Words, Chain(q, up), q # <<>>,
         NEW b \in 0 .. WordBits - 1
  PROVE  LET c == (b + 1) % WordBits
             r == IF c = 0 THEN Tail(q) ELSE q
         IN  /\ Chain(r, up) /\ (r = <<>> => c = 0) /\ c \in 0 .. WordBits - 1
             /\ Left(r, c) = Left(q, b) - 1
             /\ Current(q, up) = Head(q) /\ Head(q) \in Words
             /\ \/ Current(r, up) = Head(q) /\ c = b + 1
                \/ Follows(Head(q), Current(r, up)) /\ c = 0 /\ b = WordBits - 1
<1> DEFINE c == (b + 1) % WordBits
           r == IF c = 0 THEN Tail(q) ELSE q
<1>1. c = IF b = WordBits - 1 THEN 0 ELSE b + 1
  <2>1. b + 1 \in 0 .. WordBits /\ WordBits \in Nat /\ WordBits >= 1
    BY Numbers
  <2>2. c = IF b + 1 = WordBits THEN 0 ELSE b + 1
    BY <2>1, Wrap
  <2>3. QED
    BY <2>1, <2>2
<1>2. c \in 0 .. WordBits - 1
  BY <1>1, Numbers
<1> HIDE DEF c
<1>3. ASSUME NEW v \in Words, q = <<v>>, Follows(v, up)
      PROVE  /\ Chain(r, up) /\ (r = <<>> => c = 0)
             /\ Left(r, c) = Left(q, b) - 1
             /\ Current(q, up) = Head(q) /\ Head(q) \in Words
             /\ \/ Current(r, up) = Head(q) /\ c = b + 1
                \/ Follows(Head(q), Current(r, up)) /\ c = 0 /\ b = WordBits - 1
  BY <1>1, <1>3, Tuples, Numbers DEF Chain, Current, Left
<1>4. ASSUME NEW v \in Words, NEW w \in Words, q = <<v, w>>, Follows(v, w),
             Follows(w, up)
      PROVE  /\ Chain(r, up) /\ (r = <<>> => c = 0)
             /\ Left(r, c) = Left(q, b) - 1
             /\ Current(q, up) = Head(q) /\ Head(q) \in Words
             /\ \/ Current(r, up) = Head(q) /\ c = b + 1
                \/ Follows(Head(q), Current(r, up)) /\ c = 0 /\ b = WordBits - 1
  BY <1>1, <1>4, Tuples, Numbers DEF Chain, Current, Left
<1>5. QED
  BY <1>2, <1>3, <1>4 DEF Chain, c

(* The bit of the frame that is sent next, from the bits left.             *)
LEMMA QueueEnd ==
  ASSUME NEW q, NEW up \in Words, Chain(q, up), q # <<>>,
         NEW b \in 0 .. WordBits - 1
  PROVE  LET at == Head(q).ch * WordBits + b IN
         /\ at \in 0 .. Period - 1 /\ Left(q, b) \in Nat /\ Left(q, b) >= 1
         /\ \/ at + Left(q, b) = up.ch * WordBits
            \/ at + Left(q, b) = up.ch * WordBits + Period
<1>1. \A v \in Words :
        /\ v.ch \in 0 .. Channels - 1 /\ v.ch * WordBits \in Nat
        /\ v.ch * WordBits + b \in 0 .. Period - 1
  <2>1. \A c \in 0 .. Channels - 1 :
          c * WordBits \in Nat /\ c * WordBits + b \in 0 .. Period - 1
    BY WordStarts, Numbers
  <2>2. QED
    BY <2>1 DEF Words
<1>2. \A v, w \in Words :
        Follows(v, w) =>
           \/ v.ch * WordBits + WordBits = w.ch * WordBits
           \/ /\ v.ch * WordBits + WordBits = Period /\ w.ch * WordBits = 0
              /\ v.ch = Channels - 1 /\ w.ch = 0
  <2> SUFFICES ASSUME NEW v \in Words, NEW w \in Words, Follows(v, w)
               PROVE  \/ v.ch * WordBits + WordBits = w.ch * WordBits
                      \/ /\ v.ch * WordBits + WordBits = Period /\ w.ch * WordBits = 0
                         /\ v.ch = Channels - 1 /\ w.ch = 0
    OBVIOUS
  <2>1. PICK c \in 0 .. Channels - 1 : c = v.ch
    BY <1>1
  <2>2. /\ (c + 1) * WordBits = c * WordBits + WordBits
        /\ c = Channels - 1 => c * WordBits + WordBits = Period
        /\ 0 * WordBits = 0
    BY WordStarts, Numbers
  <2>3. CASE w.ch = v.ch + 1
    BY <2>1, <2>2, <2>3
  <2>4. CASE v.ch = Channels - 1 /\ w.ch = 0
    BY <2>1, <2>2, <2>4
  <2>5. QED
    BY <2>3, <2>4 DEF Follows
<1>3. ASSUME NEW v \in Words, q = <<v>>, Follows(v, up)
      PROVE  LET at == Head(q).ch * WordBits + b IN
             /\ at \in 0 .. Period - 1 /\ Left(q, b) \in Nat /\ Left(q, b) >= 1
             /\ \/ at + Left(q, b) = up.ch * WordBits
                \/ at + Left(q, b) = up.ch * WordBits + Period
  BY <1>1, <1>2, <1>3, Tuples, Numbers DEF Left
<1>4. ASSUME NEW v \in Words, NEW w \in Words, q = <<v, w>>, Follows(v, w),
             Follows(w, up)
      PROVE  LET at == Head(q).ch * WordBits + b IN
             /\ at \in 0 .. Period - 1 /\ Left(q, b) \in Nat /\ Left(q, b) >= 1
             /\ \/ at + Left(q, b) = up.ch * WordBits
                \/ at + Left(q, b) = up.ch * WordBits + Period
  <2> DEFINE at == v.ch * WordBits + b
             l == 2 * WordBits - b
  <2>1. Head(q) = v /\ Left(q, b) = l
    BY <1>4, Tuples, LeftFacts
  <2>2. /\ at \in 0 .. Period - 1 /\ v.ch * WordBits \in Nat
        /\ w.ch * WordBits \in Nat /\ up.ch * WordBits \in Nat
    BY <1>1
  <2>3. l \in Nat /\ l >= 1
    BY Numbers
  <2>4. at + l = v.ch * WordBits + WordBits + WordBits
    BY <2>2, Numbers
  <2>5. ~(w.ch = 0 /\ w.ch = Channels - 1)
    BY Numbers
  <2>6. at + l = up.ch * WordBits \/ at + l = up.ch * WordBits + Period
    <3>1. PICK x \in Nat, y \in Nat, z \in Nat :
            x = v.ch * WordBits /\ y = w.ch * WordBits /\ z = up.ch * WordBits
      BY <2>2
    <3>2. at + l = x + WordBits + WordBits
      BY <2>4, <3>1
    <3>3. /\ x + WordBits = y \/ (x + WordBits = Period /\ y = 0 /\ w.ch = 0)
          /\ y + WordBits = z \/ (y + WordBits = Period /\ z = 0 /\ w.ch = Channels - 1)
      BY <1>2, <1>4, <3>1
    <3>4. (x + WordBits) + WordBits = z \/ (x + WordBits) + WordBits = z + Period
      BY ONLY <2>5, <3>3, Numbers
    <3>5. QED
      BY <3>1, <3>2, <3>4
  <2>7. QED
    BY <2>1, <2>2, <2>3, <2>6
<1>5. QED
  BY <1>3, <1>4 DEF Chain

-----------------------------------------------------------------------------
(* Types, and the flag.                                                    *)
LEMMA BitFacts ==
  /\ NoBit \in Bits
  /\ \A f \in 0 .. Frames - 1, n \in 0 .. Period - 1 :
        [frame |-> f, at |-> n] \in Bits /\ [frame |-> f, at |-> n] # NoBit
<1>1. Period \in Nat /\ Frames \in Nat /\ Frames >= 2
  BY Numbers
<1>2. NoBit \in Bits
  BY <1>1 DEF NoBit, Bits
<1>3. \A f \in 0 .. Frames - 1, n \in 0 .. Period - 1 : [frame |-> f, at |-> n] \in Bits
  BY <1>1 DEF Bits
<1>4. \A f \in 0 .. Frames - 1, n \in 0 .. Period - 1 : [frame |-> f, at |-> n] # NoBit
  BY <1>1 DEF NoBit
<1>5. QED
  BY <1>2, <1>3, <1>4

LEMMA NextWordFacts ==
  \A p \in Running, c \in 1 .. Channels - 1, f \in 0 .. Frames - 1, e \in BOOLEAN :
      LET w == NextWord(p, c, f, e) IN
      /\ w \in Words
      /\ p = "out" => w = Word(f, 0)
      /\ p = "fsync" => w = Word(f, 1)
      /\ p = "fill" => w = Word(f, c)
      /\ p \in {"check", "send"} => w = Word((f + 1) % Frames, 0)
      /\ p = "deinit" => w = IF e THEN Word(f, 1) ELSE Word((f + 1) % Frames, 0)
<1> SUFFICES ASSUME NEW p \in Running, NEW c \in 1 .. Channels - 1,
                    NEW f \in 0 .. Frames - 1, NEW e \in BOOLEAN
             PROVE  LET w == NextWord(p, c, f, e) IN
                    /\ w \in Words
                    /\ p = "out" => w = Word(f, 0)
                    /\ p = "fsync" => w = Word(f, 1)
                    /\ p = "fill" => w = Word(f, c)
                    /\ p \in {"check", "send"} => w = Word((f + 1) % Frames, 0)
                    /\ p = "deinit" =>
                          w = IF e THEN Word(f, 1) ELSE Word((f + 1) % Frames, 0)
  OBVIOUS
<1>1. \A g \in 0 .. Frames - 1, d \in 0 .. Channels - 1 : Word(g, d) \in Words
  BY DEF Word, Words
<1>2. (f + 1) % Frames \in 0 .. Frames - 1
  BY NextFrame
<1>3. c \in 0 .. Channels - 1 /\ 1 \in 0 .. Channels - 1 /\ 0 \in 0 .. Channels - 1
  BY Numbers
<1>4. QED
  BY <1>1, <1>2, <1>3 DEF NextWord, Running

LEMMA UpcomingFacts == ASSUME Types, pc \in Running PROVE Upcoming \in Words
  BY NextWordFacts DEF Upcoming, Types

(* What a bit of the stream does to the ports.                             *)
LEMMA ShiftFacts ==
  ASSUME Types, InStep, pc \in Running, dout # <<>>, ShiftOut
  PROVE  LET at == Head(dout).ch * WordBits + dbit IN
         /\ at \in 0 .. Period - 1
         /\ line' = [frame |-> Head(dout).frame, at |-> at]
         /\ Head(dout).frame \in 0 .. Frames - 1
         /\ line' \in Bits /\ line' # NoBit
         /\ dbit' = (dbit + 1) % WordBits /\ dbit' \in 0 .. WordBits - 1
         /\ dout' = IF dbit' = 0 THEN Tail(dout) ELSE dout
<1>1. Chain(dout, Upcoming) /\ Upcoming \in Words /\ dbit \in 0 .. WordBits - 1
  BY UpcomingFacts DEF InStep, Types
<1>2. Head(dout) \in Words
  BY <1>1, QueueShift
<1>3. Head(dout).frame \in 0 .. Frames - 1
  BY <1>2 DEF Words
<1>4. Head(dout).ch * WordBits + dbit \in 0 .. Period - 1
  BY <1>1, QueueEnd
<1>5. /\ line' = [frame |-> Head(dout).frame, at |-> Head(dout).ch * WordBits + dbit]
      /\ dbit' = (dbit + 1) % WordBits
      /\ dout' = IF dbit' = 0 THEN Tail(dout) ELSE dout
  BY DEF ShiftOut
<1>6. (dbit + 1) % WordBits \in 0 .. WordBits - 1
  BY <1>1, QueueShift
<1>7. QED
  BY <1>3, <1>4, <1>5, <1>6, BitFacts

LEMMA TypesInit == ASSUME Init PROVE Types
<1> USE DEF Init
<1>1. /\ fsync_len \in FsyncLens /\ tx_offset \in TxOffsets
      /\ pc \in Resting /\ restart \in Commands
      /\ first \in BOOLEAN /\ fysnch_error \in BOOLEAN
      /\ failed \in BOOLEAN /\ slipped \in BOOLEAN
  BY DEF Resting, Proceed, Commands
<1>2. /\ i \in 1 .. Channels - 1 /\ frame \in 0 .. Frames - 1
      /\ fs \in 0 .. 2 /\ fs_wait \in 0 .. Period
      /\ dbit \in 0 .. WordBits - 1 /\ out_wait \in 0 .. Period + WordBits
      /\ pos \in 0 .. Period - 1 /\ slips \in 0 .. MaxSlips /\ late \in 0 .. ArmBits
      /\ astray \in Nat
  BY Numbers DEF NoLevel
<1>3. line \in Bits
  BY BitFacts
<1>4. QED
  BY <1>1, <1>2, <1>3 DEF Types

LEMMA Settings ==
  /\ NoLevel = 2 /\ Proceed \in Commands
  /\ \A r \in TdmCommands : r \in Commands
  /\ FrameTime = Period
  BY TdmAssumption DEF NoLevel, Proceed, Commands, FrameTime, Period

LEMMA TypesTask == ASSUME Types, Task PROVE Types'
<1> USE Settings DEF Types, Goto, config, ports, master, history
<1>1. CASE InitResources \/ Arm \/ OutFirst
  <2>1. pc' \in Resting \cup Running
    BY <1>1 DEF InitResources, Arm, OutFirst, Resting, Running
  <2>2. late' \in 0 .. ArmBits
    BY <1>1, Numbers DEF InitResources, Arm, OutFirst
  <2>3. QED
    BY <1>1, <2>1, <2>2 DEF InitResources, Arm, OutFirst
<1>2. CASE PostInit
  <2>1. frame' \in 0 .. Frames - 1
    BY <1>2, NextFrame DEF PostInit
  <2>2. QED
    BY <1>2, <2>1 DEF PostInit, Resting, Running
<1>3. CASE Fsync
  <2>1. i' \in 1 .. Channels - 1
    BY <1>3, Numbers DEF Fsync
  <2>2. pc' \in Running /\ fysnch_error' \in BOOLEAN /\ failed' \in BOOLEAN
    BY <1>3 DEF Fsync, Running
  <2>3. fs' \in 0 .. 2
    BY <1>3 DEF Fsync
  <2>4. QED
    BY <1>3, <2>1, <2>2, <2>3 DEF Fsync
<1>4. CASE Fill
  <2>1. i' \in 1 .. Channels - 1
    BY <1>4, Numbers DEF Fill
  <2>2. pc' \in Resting \cup Running
    BY <1>4 DEF Fill, Running
  <2>3. QED
    BY <1>4, <2>1, <2>2 DEF Fill
<1>5. ASSUME NEW r \in TdmCommands, RestartCheck(r) PROVE Types'
  BY <1>5 DEF RestartCheck, Resting, Running
<1>6. CASE Send
  <2>1. frame' \in 0 .. Frames - 1
    BY <1>6, NextFrame DEF Send
  <2>2. QED
    BY <1>6, <2>1 DEF Send, Resting, Running
<1>7. CASE Deinit
  BY <1>7, Numbers, BitFacts DEF Deinit, Resting, Running
<1>8. QED
  BY <1>1, <1>2, <1>3, <1>4, <1>5, <1>6, <1>7 DEF Task

LEMMA TypesBit == ASSUME Types, AtRest, InStep, Bit PROVE Types'
<1> USE Settings DEF Types, config
<1>1. /\ UNCHANGED <<config, i, first, restart, fysnch_error, frame, slips, failed>>
      /\ pos' = (pos + 1) % Period /\ astray' = Astray
  BY DEF Bit
<1>2. pos' \in 0 .. Period - 1
  BY <1>1, Numbers
<1>3. astray' \in Nat
  BY <1>1 DEF Astray
<1>4. CASE Edge
  <2>1. /\ pc' = "out" /\ fs_wait' = Period /\ out_wait' = Period + tx_offset
        /\ UNCHANGED <<fs, dout, dbit, late, line, slipped>>
    BY <1>4 DEF Edge
  <2>2. out_wait' \in 0 .. Period + WordBits
    BY <2>1, Numbers
  <2>3. QED
    BY <1>1, <1>2, <1>3, <2>1, <2>2, Numbers DEF Running
<1>5. CASE Waiting
  <2>1. pc' \in Resting \cup Running /\ slipped' \in BOOLEAN
    BY <1>5 DEF Waiting, Resting
  <2>2. late' \in 0 .. ArmBits
    BY <1>5, Numbers DEF Waiting, Bit, InTime
  <2>3. QED
    BY <1>1, <1>2, <1>3, <1>5, <2>1, <2>2 DEF Waiting, ports
<1>6. CASE Stream
  <2>1. UNCHANGED <<pc, late, slipped>> /\ fs_wait >= 1 /\ pc \in Running
    BY <1>6 DEF Stream, Streaming, AtRest
  <2>2. fs' \in 0 .. 2 /\ fs_wait' \in 0 .. Period
    BY <1>6, <2>1, Numbers DEF Stream, Level
  <2>3. out_wait' \in 0 .. Period + WordBits
    BY <1>6, Numbers DEF Stream
  <2>4. line' \in Bits /\ dbit' \in 0 .. WordBits - 1
    <3>1. CASE out_wait <= 1
      <4>1. dout # <<>> /\ ShiftOut
        BY <1>6, <3>1 DEF Stream, Bit, InTime
      <4>2. QED
        BY <2>1, <4>1, ShiftFacts
    <3>2. CASE ~(out_wait <= 1)
      BY <1>6, <3>2 DEF Stream
    <3>3. QED
      BY <3>1, <3>2
  <2>5. QED
    BY <1>1, <1>2, <1>3, <2>1, <2>2, <2>3, <2>4
<1>7. QED
  BY <1>4, <1>5, <1>6 DEF Bit

LEMMA TypesStep == ASSUME Types, AtRest, InStep, [Next]_vars PROVE Types'
<1>1. CASE Slip
  BY <1>1, Numbers DEF Slip, Types, config, task, ports
<1>2. CASE UNCHANGED vars
  BY <1>2 DEF vars, Types, config, task, ports, master, history
<1>3. QED
  BY <1>1, <1>2, TypesTask, TypesBit DEF Next

LEMMA ErrorsStep == ASSUME Types, AtRest, Errors, [Next]_vars PROVE Errors'
<1> USE DEF Errors, Goto, Resting, Running
<1>1. CASE InitResources \/ PostInit \/ Arm \/ OutFirst \/ Send \/ Deinit
  BY <1>1 DEF InitResources, PostInit, Arm, OutFirst, Send, Deinit, config, ports,
     master, history
<1>2. CASE Fsync
  <2>1. (fs = 0 \/ fs = 1) /\ failed' = (fs = 0)
    <3>1. fs \in 0 .. 2 /\ fs # 2
      BY <1>2 DEF Fsync, Types, NoLevel
    <3>2. QED
      BY <1>2, <3>1 DEF Fsync
  <2>2. CASE fs # 1 /\ ~first
    BY <1>2, <2>1, <2>2 DEF Fsync, Types
  <2>3. CASE ~(fs # 1 /\ ~first)
    BY <1>2, <2>1, <2>3 DEF Fsync, Types
  <2>4. QED
    BY <2>2, <2>3
<1>3. CASE Fill
  BY <1>3 DEF Fill, history, Types
<1>4. ASSUME NEW r \in TdmCommands, RestartCheck(r) PROVE Errors'
  BY <1>4 DEF RestartCheck, history, Types
<1>5. CASE Bit
  <2>1. UNCHANGED <<fysnch_error, failed, first>>
    BY <1>5 DEF Bit
  <2>2. pc' = pc \/ (pc = "low" /\ pc' = "arm") \/ (pc = "high" /\ pc' = "out")
    BY <1>5 DEF Bit, Edge, Waiting, Stream
  <2>3. QED
    BY <2>1, <2>2
<1>6. CASE Slip \/ UNCHANGED vars
  BY <1>6 DEF Slip, vars, task, history
<1>7. QED
  BY <1>1, <1>2, <1>3, <1>4, <1>5, <1>6 DEF Next, Task

LEMMA AtRestStep == ASSUME Types, AtRest, [Next]_vars PROVE AtRest'
<1> USE DEF AtRest, Goto, Resting, Running, ports, master, history
<1>1. CASE Task
  BY <1>1 DEF Task, InitResources, PostInit, Arm, OutFirst, Fsync, Fill, RestartCheck,
     Send, Deinit
<1>2. CASE Bit
  <2>1. CASE Edge
    BY <1>2, <2>1, Numbers, Settings DEF Edge, Bit, Astray, Streaming
  <2>2. CASE Waiting
    BY <1>2, <2>2 DEF Waiting, Bit, Astray, Types
  <2>3. CASE Stream
    <3>1. pc \in Running /\ pc' = pc
      BY <2>3 DEF Stream, Streaming, Types
    <3>2. fs_wait' >= 1
      BY <2>3, Numbers, Settings DEF Stream, Streaming, Types
    <3>3. QED
      BY <3>1, <3>2
  <2>4. QED
    BY <1>2, <2>1, <2>2, <2>3 DEF Bit
<1>3. CASE Slip \/ UNCHANGED vars
  BY <1>3 DEF Slip, vars, task
<1>4. QED
  BY <1>1, <1>2, <1>3 DEF Next

-----------------------------------------------------------------------------
(* The task keeps its place ahead of the samples of fsync.                 *)
LEMMA Starts ==
  /\ 0 * WordBits = 0 /\ 1 * WordBits = WordBits
  /\ \A f, c : Word(f, c).ch = c /\ Word(f, c).frame = f
  BY Numbers DEF Word

(* A word is queued where the task stands.                                 *)
LEMMA Queued ==
  ASSUME Types, InStep, pc \in Running, Room, dout' = Append(dout, Upcoming),
         NEW next, Follows(Upcoming, next)
  PROVE  /\ Chain(dout', next) /\ dout' # <<>>
         /\ Left(dout', dbit) = Left(dout, dbit) + WordBits
         /\ Current(dout', next) = Current(dout, Upcoming)
  <1>1. Upcoming \in Words /\ dbit \in 0 .. WordBits - 1
    BY UpcomingFacts DEF Types
  <1>2. Len(dout) < 2
    <2>1. CASE out_wait > 0
      BY <2>1 DEF Room
    <2>2. CASE ~(out_wait > 0)
      BY <2>2 DEF Room
    <2>3. QED
      BY <2>1, <2>2
  <1>3. QED
    BY <1>1, <1>2, QueueAppend DEF InStep

(* The numbers of the ports.                                               *)
LEMMA PortNumbers ==
  ASSUME Types, InStep, pc \in Running
  PROVE  /\ fs_wait \in Nat /\ fs_wait <= Period
         /\ tx_offset \in Nat /\ tx_offset <= WordBits
         /\ out_wait \in Nat /\ Before \in Nat
         /\ Left(dout, dbit) \in Nat
         /\ Upcoming.ch * WordBits \in Nat
  <1>1. /\ fs_wait \in Nat /\ fs_wait <= Period /\ out_wait \in Nat
        /\ tx_offset \in Nat /\ tx_offset <= WordBits
    BY Numbers DEF Types
  <1>2. Before \in Nat
    BY <1>1 DEF Before
  <1>3. Upcoming \in Words /\ dbit \in 0 .. WordBits - 1
    BY UpcomingFacts DEF Types
  <1>4. Left(dout, dbit) \in Nat
    <2>1. CASE dout = <<>>
      BY <2>1 DEF Left
    <2>2. CASE dout # <<>>
      BY <1>3, <2>2, QueueEnd DEF InStep
    <2>3. QED
      BY <2>1, <2>2
  <1>5. Upcoming.ch * WordBits \in Nat
    <2>1. Upcoming.ch \in 0 .. Channels - 1
      BY <1>3 DEF Words
    <2>2. QED
      BY <2>1, WordStarts
  <1>6. QED
    BY <1>1, <1>2, <1>4, <1>5

LEMMA InStepQueue ==
  ASSUME Types, AtRest, Errors, InStep, InOrder, OutFirst \/ Fill
  PROVE  InStep' /\ InOrder'
<1>1. /\ pc \in {"out", "fill"} /\ pc \in Running /\ Room
      /\ dout' = Append(dout, Upcoming)
      /\ UNCHANGED <<first, fysnch_error, frame, fs, fs_wait, dbit, out_wait, line,
                     astray, tx_offset>>
  BY NextWordFacts DEF OutFirst, Fill, Goto, Running, config, master, history, Upcoming,
     Types
<1>2. Types'
  BY TypesTask DEF Task
<1>3. /\ pc' \in Running /\ ~fysnch_error /\ frame' = frame
      /\ Upcoming' \in Words /\ Follows(Upcoming, Upcoming')
      /\ first /\ pc' \in {"out", "fsync"} => pc = "out"
      /\ \E c \in 0 .. Channels - 1, d \in 0 .. Channels - 1 :
            /\ Upcoming.ch = c /\ Upcoming'.ch = d
            /\ IF pc = "fill" /\ pc' # "fill" THEN c = Channels - 1 /\ d = 0
               ELSE d = c + 1
            /\ pc' = "fill" => pc = "fill"
  <2>1. CASE OutFirst
    <3>1. pc = "out" /\ pc' = "fsync" /\ frame' = frame
      BY <2>1 DEF OutFirst, Goto
    <3>2. Upcoming = Word(frame, 0) /\ Upcoming' = Word(frame, 1) /\ Upcoming' \in Words
      BY <1>2, <3>1, NextWordFacts DEF Types, Running, Upcoming
    <3>3. Follows(Upcoming, Upcoming')
      BY <3>2, Starts DEF Follows
    <3>4. Upcoming.ch = 0 /\ Upcoming'.ch = 1
      BY <3>2, Starts
    <3>5. QED
      BY <3>1, <3>2, <3>3, <3>4, Numbers DEF Running, Errors
  <2>2. CASE Fill /\ i < Channels - 1
    <3>1. pc = "fill" /\ pc' = "fill" /\ frame' = frame /\ i' = i + 1
      BY <2>2 DEF Fill
    <3>2. Upcoming = Word(frame, i) /\ Upcoming' = Word(frame, i + 1) /\ Upcoming' \in Words
      BY <1>2, <3>1, NextWordFacts DEF Types, Running, Upcoming
    <3>3. Follows(Upcoming, Upcoming')
      BY <3>2, Starts DEF Follows
    <3>4. PICK c \in 1 .. Channels - 1 : c = i /\ c < Channels - 1
      BY <2>2 DEF Types
    <3>5. Upcoming.ch = c /\ Upcoming'.ch = c + 1
      BY <3>2, <3>4, Starts
    <3>6. c \in 0 .. Channels - 1 /\ c + 1 \in 0 .. Channels - 1
      BY <3>4, Numbers
    <3>7. QED
      BY <3>1, <3>2, <3>3, <3>5, <3>6 DEF Running, Errors
  <2>3. CASE Fill /\ ~(i < Channels - 1)
    <3>1. pc = "fill" /\ pc' \in {"send", "check"} /\ frame' = frame /\ i = Channels - 1
      BY <2>3, Numbers DEF Fill, Types
    <3>2. /\ Upcoming = Word(frame, Channels - 1)
          /\ Upcoming' = Word((frame + 1) % Frames, 0) /\ Upcoming' \in Words
      BY <1>2, <3>1, NextWordFacts DEF Types, Running, Upcoming
    <3>3. Follows(Upcoming, Upcoming')
      BY <3>2, Starts DEF Follows
    <3>4. Upcoming.ch = Channels - 1 /\ Upcoming'.ch = 0
      BY <3>2, Starts
    <3>5. Channels - 1 \in 0 .. Channels - 1 /\ 0 \in 0 .. Channels - 1
      BY Numbers
    <3>6. QED
      BY <3>1, <3>2, <3>3, <3>4, <3>5 DEF Running, Errors
  <2>4. QED
    BY <2>1, <2>2, <2>3
<1>4. /\ Chain(dout', Upcoming') /\ dout' # <<>>
      /\ Left(dout', dbit) = Left(dout, dbit) + WordBits
      /\ Current(dout', Upcoming') = Current(dout, Upcoming)
  BY <1>1, <1>3, Queued
<1>5. Before' + Left(dout', dbit') + Latched' + Looked'
         = fs_wait' + tx_offset' - 1 + Upcoming'.ch * WordBits
  <2>1. Before' = Before /\ Latched' = Latched
    BY <1>1 DEF Before, Latched
  <2>2. Looked = (IF pc = "fill" THEN Period ELSE 0)
        /\ Looked' = (IF pc' = "fill" THEN Period ELSE 0)
    BY <1>1, <1>3 DEF Looked
  <2>3. Latched \in Nat /\ Period \in Nat
    BY Numbers DEF Latched
  <2>4. Before + Left(dout, dbit) + Latched + Looked
           = fs_wait + tx_offset - 1 + Upcoming.ch * WordBits
    BY <1>1 DEF InStep
  <2>5. PICK l \in Nat, u \in Nat, b \in Nat, m \in Nat, w \in Nat, t \in Nat :
          /\ l = Left(dout, dbit) /\ u = Upcoming.ch * WordBits /\ b = Before
          /\ m = Latched /\ w = fs_wait /\ t = tx_offset
    BY <1>1, <2>3, PortNumbers
  <2>6. /\ Left(dout', dbit') = l + WordBits
        /\ Before' = b /\ Latched' = m /\ fs_wait' = w /\ tx_offset' = t
    BY <1>1, <1>4, <2>1, <2>5
  <2>7. b + l + m + Looked = w + t - 1 + u
    BY <2>4, <2>5
  <2>8. PICK c \in 0 .. Channels - 1, d \in 0 .. Channels - 1 :
          /\ Upcoming.ch = c /\ Upcoming'.ch = d
          /\ IF pc = "fill" /\ pc' # "fill" THEN c = Channels - 1 /\ d = 0
             ELSE d = c + 1
          /\ pc' = "fill" => pc = "fill"
    BY <1>3
  <2>9. c * WordBits = u /\ Upcoming'.ch * WordBits = d * WordBits
    BY <2>5, <2>8
  <2>10. IF pc = "fill" /\ pc' # "fill"
         THEN u + WordBits = Period /\ d * WordBits = 0
         ELSE d * WordBits = u + WordBits
    BY <2>8, <2>9, WordStarts, Starts
  <2>11. PICK e \in Nat, x \in Nat, x1 \in Nat :
           e = d * WordBits /\ x = Looked /\ x1 = Looked'
    BY <2>2, <2>3, WordStarts
  <2>12. b + (l + WordBits) + m + x1 = w + t - 1 + e
    <3>1. CASE pc = "fill" /\ pc' # "fill"
      <4>1. u + WordBits = Period /\ e = 0 /\ x = Period /\ x1 = 0
        BY <2>2, <2>10, <2>11, <3>1
      <4>2. QED
        BY ONLY <2>7, <2>11, <4>1, Numbers, <2>5
    <3>2. CASE ~(pc = "fill" /\ pc' # "fill")
      <4>1. e = u + WordBits /\ x1 = x
        BY <2>2, <2>8, <2>10, <2>11, <3>2
      <4>2. b + l + m + x = w + t - 1 + u
        BY <2>7, <2>11
      <4>3. QED
        BY ONLY <4>1, <4>2, Numbers
    <3>3. QED
      BY <3>1, <3>2
  <2>13. QED
    BY <2>6, <2>9, <2>11, <2>12
<1>6. InStep'
  BY <1>1, <1>3, <1>4, <1>5 DEF InStep
<1>7. InOrder'
  BY <1>1, <1>3, <1>4 DEF InOrder, Precedes
<1>8. QED
  BY <1>6, <1>7

(* The task goes on without a word queued.                                 *)
LEMMA InStepMove ==
  ASSUME Types, AtRest, Errors, InStep, InOrder,
         Fsync \/ Send \/ \E r \in TdmCommands : RestartCheck(r)
  PROVE  InStep' /\ InOrder'
<1>1. Types' /\ pc \in Running /\ pc' \in Running
  <2>1. pc \in {"fsync", "send", "check"} /\ pc' \in {"fill", "deinit", "out", "send"}
    BY DEF Fsync, Send, RestartCheck, Goto
  <2>2. QED
    BY <2>1, TypesTask DEF Task, Running
<1>2. UNCHANGED <<fs_wait, dout, dbit, out_wait, line, astray, tx_offset>>
  BY DEF Fsync, Send, RestartCheck, config, ports, master, history
<1>3. /\ Upcoming' = Upcoming
      /\ Latched' + Looked' = Latched + Looked
      /\ ~(first' /\ pc' \in {"out", "fsync"})
  <2>1. CASE Fsync
    <3>1. /\ pc = "fsync" /\ fs # NoLevel /\ fs' = NoLevel /\ frame' = frame
          /\ (pc' = "deinit" /\ fysnch_error' = TRUE) \/ (pc' = "fill" /\ i' = 1)
      BY <2>1 DEF Fsync
    <3>2. Upcoming = Word(frame, 1) /\ Upcoming' = Word(frame, 1)
      BY <1>1, <3>1, NextWordFacts DEF Upcoming, Types
    <3>3. Latched = Period /\ Latched' = 0 /\ Looked = 0 /\ Looked' = Period
      BY <3>1 DEF Latched, Looked
    <3>4. QED
      BY <3>1, <3>2, <3>3, Numbers
  <2>2. CASE Send
    <3>1. /\ pc = "send" /\ pc' = "out" /\ frame' = (frame + 1) % Frames /\ ~first'
          /\ fs' = fs
      BY <2>2 DEF Send, Goto, ports
    <3>2. Upcoming = Word((frame + 1) % Frames, 0) /\ Upcoming' = Word(frame', 0)
      BY <1>1, <3>1, NextWordFacts DEF Upcoming, Types
    <3>3. Latched' = Latched /\ Looked = 0 /\ Looked' = 0
      BY <3>1 DEF Latched, Looked
    <3>4. QED
      BY <3>1, <3>2, <3>3
  <2>3. ASSUME NEW r \in TdmCommands, RestartCheck(r)
        PROVE  /\ Upcoming' = Upcoming
               /\ Latched' + Looked' = Latched + Looked
               /\ ~(first' /\ pc' \in {"out", "fsync"})
    <3>1. /\ pc = "check" /\ pc' \in {"send", "deinit"} /\ frame' = frame
          /\ fysnch_error' = fysnch_error /\ ~fysnch_error /\ fs' = fs
      BY <2>3 DEF RestartCheck, Goto, Errors, ports
    <3>2. /\ Upcoming = Word((frame + 1) % Frames, 0)
          /\ Upcoming' = Word((frame + 1) % Frames, 0)
      BY <1>1, <3>1, NextWordFacts DEF Upcoming, Types
    <3>3. Latched' = Latched /\ Looked = 0 /\ Looked' = 0
      BY <3>1 DEF Latched, Looked
    <3>4. QED
      BY <3>1, <3>2, <3>3
  <2>4. QED
    BY <2>1, <2>2, <2>3
<1>4. Before' + Left(dout', dbit') + Latched' + Looked'
         = fs_wait' + tx_offset' - 1 + Upcoming'.ch * WordBits
  <2>1. Before' = Before
    BY <1>2 DEF Before
  <2>2. Before + Left(dout, dbit) + Latched + Looked
           = fs_wait + tx_offset - 1 + Upcoming.ch * WordBits
    BY <1>1 DEF InStep
  <2>3. PICK l \in Nat, u \in Nat, b \in Nat, w \in Nat, t \in Nat :
          /\ l = Left(dout, dbit) /\ u = Upcoming.ch * WordBits /\ b = Before
          /\ w = fs_wait /\ t = tx_offset
    BY <1>1, PortNumbers
  <2>4. PICK m \in Nat, x \in Nat, m1 \in Nat, x1 \in Nat :
          m = Latched /\ x = Looked /\ m1 = Latched' /\ x1 = Looked'
    BY Numbers DEF Latched, Looked
  <2>5. /\ Left(dout', dbit') = l /\ Upcoming'.ch * WordBits = u
        /\ Before' = b /\ fs_wait' = w /\ tx_offset' = t
    BY <1>2, <1>3, <2>1, <2>3
  <2>6. b + l + m + x = w + t - 1 + u /\ m1 + x1 = m + x
    BY <1>3, <2>2, <2>3, <2>4
  <2>7. b + l + m1 + x1 = w + t - 1 + u
    BY ONLY <2>6
  <2>8. QED
    BY <2>4, <2>5, <2>7
<1>5. QED
  BY <1>1, <1>2, <1>3, <1>4 DEF InStep, InOrder

LEMMA InStepEdge ==
  ASSUME Types, AtRest, InStep, InOrder, Bit, Edge
  PROVE  InStep' /\ InOrder'
<1>1. /\ pc = "high" /\ pc' = "out" /\ fs_wait' = Period
      /\ out_wait' = Period + tx_offset
      /\ UNCHANGED <<fs, dout, dbit, line, i, frame, fysnch_error, tx_offset>>
      /\ fs_wait = 0 /\ fs = NoLevel /\ dout = <<>> /\ dbit = 0 /\ line = NoBit
      /\ astray' = Astray /\ pc' \in Running
  BY Settings DEF Edge, Bit, AtRest, Resting, Running, config
<1>2. Types' /\ astray' = 0
  BY <1>1, TypesBit DEF Astray, Streaming
<1>3. Upcoming' = Word(frame', 0)
  BY <1>1, <1>2, NextWordFacts DEF Upcoming, Types
<1>4. Upcoming'.ch = 0 /\ 0 * WordBits = 0
  BY <1>3, Starts
<1>5. Latched' = 0 /\ Looked' = 0 /\ Left(dout', dbit') = 0
  BY <1>1 DEF Latched, Looked, Left
<1>6. tx_offset \in Nat /\ Period \in Nat /\ Period >= 1
  BY Numbers DEF Types
<1>7. Before' = Period + tx_offset - 1
  BY <1>1, <1>6 DEF Before
<1>8. Upcoming'.ch * WordBits = 0
  BY <1>4
<1>9. Before' + Left(dout', dbit') + Latched' + Looked'
         = fs_wait' + tx_offset' - 1 + Upcoming'.ch * WordBits
  BY <1>1, <1>5, <1>6, <1>7, <1>8
<1>10. Current(dout', Upcoming').ch = 0
  BY <1>1, <1>4 DEF Current
<1>11. Chain(dout', Upcoming') /\ dbit' = 0 /\ out_wait' = fs_wait' + tx_offset'
  BY <1>1 DEF Chain
<1>12. InStep'
  BY <1>1, <1>2, <1>9, <1>11 DEF InStep
<1>13. InOrder'
  BY <1>1, <1>10 DEF InOrder
<1>14. QED
  BY <1>12, <1>13

(* A bit of the stream: one less until the sample, one less until the port *)
(* runs dry.                                                               *)
LEMMA InStepStream ==
  ASSUME Types, AtRest, InStep, InOrder, Bit, Stream
  PROVE  InStep' /\ InOrder'
<1>1. /\ fs_wait >= 1 /\ pc \in Running /\ pc' = pc
      /\ UNCHANGED <<i, first, frame, fysnch_error, tx_offset>>
      /\ fs_wait = 1 => fs = NoLevel
      /\ out_wait <= 1 => dout # <<>>
      /\ astray' = Astray
  <2>1. fs_wait > 0 /\ fs_wait \in Nat
    BY Numbers DEF Stream, Streaming, Types
  <2>2. pc \in Running
    BY <2>1 DEF AtRest, Types
  <2>3. QED
    BY <2>1, <2>2 DEF Stream, Bit, InTime, config
<1>2. Upcoming' = Upcoming /\ Looked' = Looked /\ Upcoming \in Words
  BY <1>1, UpcomingFacts DEF Upcoming, Looked
<1>3. dbit \in 0 .. WordBits - 1 /\ Chain(dout, Upcoming)
  BY <1>1 DEF Types, InStep
<1>4. PICK l \in Nat, u \in Nat, b \in Nat, w \in Nat, t \in Nat, o \in Nat, x \in Nat :
        /\ l = Left(dout, dbit) /\ u = Upcoming.ch * WordBits /\ b = Before
        /\ w = fs_wait /\ t = tx_offset /\ o = out_wait /\ x = Looked
        /\ w <= Period
  BY <1>1, PortNumbers, Numbers DEF Looked
<1>5. PICK m \in Nat : m = Latched
  BY Numbers DEF Latched
<1>6. b + l + m + x = w + t - 1 + u
  BY <1>1, <1>4, <1>5 DEF InStep
<1>7. b = IF o > 0 THEN o - 1 ELSE 0
  BY <1>4 DEF Before
(* The sample. *)
<1>8. PICK m1 \in Nat, w1 \in Nat :
        m1 = Latched' /\ w1 = fs_wait' /\ m1 + w = m + w1 + 1
  <2>1. CASE fs_wait = 1
    <3>1. fs' = Level /\ fs_wait' = Period /\ fs = NoLevel
      BY <1>1, <2>1, Settings DEF Stream
    <3>2. fs' # NoLevel
      BY <3>1 DEF Level, NoLevel
    <3>3. Latched = 0 /\ Latched' = Period
      BY <3>1, <3>2 DEF Latched
    <3>4. QED
      BY <1>4, <1>5, <2>1, <3>1, <3>3, Numbers
  <2>2. CASE fs_wait # 1
    <3>1. fs' = fs /\ fs_wait' = fs_wait - 1
      BY <2>2 DEF Stream
    <3>2. Latched' = m
      BY <1>5, <3>1 DEF Latched
    <3>3. w - 1 \in Nat /\ fs_wait' = w - 1
      BY <1>1, <1>4, <3>1
    <3>4. m + w = m + (w - 1) + 1
      BY <1>4, <1>5
    <3>5. QED
      BY <3>2, <3>3, <3>4
  <2>3. QED
    BY <2>1, <2>2
<1>9. ASSUME first, pc \in {"out", "fsync"}, fs' = NoLevel
      PROVE  out_wait' = fs_wait' + tx_offset
  <2>1. fs_wait # 1
    <3>1. fs_wait = 1 => fs' = Level
      BY DEF Stream
    <3>2. QED
      BY <1>9, <3>1 DEF Level, NoLevel
  <2>2. fs' = fs /\ fs_wait' = fs_wait - 1
    BY <2>1 DEF Stream
  <2>3. out_wait = fs_wait + tx_offset
    BY <1>1, <1>9, <2>2 DEF InStep
  <2>4. o = w + t /\ w >= 2
    BY <1>1, <1>4, <2>1, <2>3
  <2>5. out_wait' = out_wait - 1
    BY <1>4, <2>4 DEF Stream
  <2>6. out_wait' = o - 1 /\ fs_wait' = w - 1 /\ tx_offset = t
    BY <1>4, <2>2, <2>5
  <2>7. o - 1 = (w - 1) + t
    BY ONLY <2>4, <1>4
  <2>8. QED
    BY <2>6, <2>7
(* The data. *)
<1>10. CASE out_wait <= 1
  <2>1. dout # <<>> /\ ShiftOut /\ out_wait' = 0
    BY <1>1, <1>10 DEF Stream
  <2> DEFINE at == Head(dout).ch * WordBits + dbit
  <2>2. /\ at \in 0 .. Period - 1
        /\ line' = [frame |-> Head(dout).frame, at |-> at]
        /\ line' \in Bits /\ line' # NoBit
        /\ dbit' = (dbit + 1) % WordBits /\ dbit' \in 0 .. WordBits - 1
        /\ dout' = IF dbit' = 0 THEN Tail(dout) ELSE dout
    BY <1>1, <2>1, ShiftFacts
  <2>3. /\ Chain(dout', Upcoming) /\ (dout' = <<>> => dbit' = 0)
        /\ Left(dout', dbit') = Left(dout, dbit) - 1
        /\ Head(dout) \in Words
        /\ \/ Current(dout', Upcoming) = Head(dout) /\ dbit' = dbit + 1
           \/ /\ Follows(Head(dout), Current(dout', Upcoming))
              /\ dbit' = 0 /\ dbit = WordBits - 1
    BY <1>2, <1>3, <2>1, <2>2, QueueShift
  <2>4. Before' = 0 /\ b = 0 /\ Left(dout', dbit') = l - 1
    <3>1. Before' = 0
      BY <2>1 DEF Before
    <3>2. o <= 1
      BY <1>4, <1>10
    <3>3. b = 0
      BY <1>7, <3>2
    <3>4. QED
      BY <1>4, <2>3, <3>1, <3>3
  <2>5. 0 + (l - 1) + m1 + x = w1 + t - 1 + u
    BY ONLY <1>6, <1>8, <2>4
  <2>6. Before' + Left(dout', dbit') + Latched' + Looked'
           = fs_wait' + tx_offset' - 1 + Upcoming'.ch * WordBits
    BY <1>1, <1>2, <1>4, <1>8, <2>4, <2>5
  <2>7. InStep'
    BY <1>1, <1>2, <1>9, <2>1, <2>3, <2>6 DEF InStep
  <2>8. line'.at = at /\ line'.frame = Head(dout).frame
    BY <2>2
  <2>9. PICK c \in 0 .. Channels - 1 : c = Head(dout).ch
    BY <2>3 DEF Words
  <2>10. /\ at = c * WordBits + dbit /\ c * WordBits \in Nat
         /\ (c + 1) * WordBits = c * WordBits + WordBits
         /\ c = Channels - 1 => c * WordBits + WordBits = Period
    BY <2>9, WordStarts
  <2>11. Precedes(line', Current(dout', Upcoming), dbit')
    <3> DEFINE n == Current(dout', Upcoming)
    <3>1. CASE n = Head(dout) /\ dbit' = dbit + 1
      <4>1. n.ch * WordBits + dbit' = c * WordBits + (dbit + 1)
        BY <2>9, <3>1
      <4>2. c * WordBits + (dbit + 1) = at + 1
        BY <1>3, <2>10
      <4>3. QED
        BY <2>8, <3>1, <4>1, <4>2 DEF Precedes
    <3>2. CASE Follows(Head(dout), n) /\ dbit' = 0 /\ dbit = WordBits - 1
      <4>1. CASE n.ch = c + 1 /\ n.frame = Head(dout).frame
        <5>1. n.ch * WordBits = c * WordBits + WordBits
          BY <2>10, <4>1
        <5>2. c * WordBits + WordBits + 0 = at + 1
          BY <2>10, <3>2, Numbers
        <5>3. QED
          BY <2>8, <3>2, <4>1, <5>1, <5>2 DEF Precedes
      <4>2. CASE /\ c = Channels - 1 /\ n.ch = 0
                 /\ n.frame = (Head(dout).frame + 1) % Frames
        <5>1. at = Period - 1
          BY <2>10, <3>2, <4>2, Numbers
        <5>2. QED
          BY <2>8, <3>2, <4>2, <5>1 DEF Precedes
      <4>3. QED
        BY <2>9, <3>2, <4>1, <4>2 DEF Follows
    <3>3. QED
      BY <2>3, <3>1, <3>2
  <2>12. line'.at <= Period - 1
    BY <2>2, <2>8, Numbers
  <2>13. InOrder'
    BY <1>2, <2>2, <2>11, <2>12 DEF InOrder
  <2>14. QED
    BY <2>7, <2>13
<1>11. CASE ~(out_wait <= 1)
  <2>1. out_wait' = out_wait - 1 /\ UNCHANGED <<dout, dbit, line>>
    BY <1>11 DEF Stream
  <2>2. o > 1 /\ out_wait' = o - 1
    BY <1>4, <1>11, <2>1
  <2>3. Before' = b - 1
    <3>1. Before' = IF out_wait' > 0 THEN out_wait' - 1 ELSE 0
      BY DEF Before
    <3>2. QED
      BY <1>7, <2>2, <3>1
  <2>4. (b - 1) + l + m1 + x = w1 + t - 1 + u
    BY ONLY <1>6, <1>8
  <2>5. Left(dout', dbit') = l
    BY <1>4, <2>1
  <2>6. Before' + Left(dout', dbit') + Latched' + Looked'
           = fs_wait' + tx_offset' - 1 + Upcoming'.ch * WordBits
    BY <1>1, <1>2, <1>4, <1>8, <2>3, <2>4, <2>5
  <2>7. line' = NoBit /\ astray' = 0
    <3>1. out_wait > 1 /\ out_wait > 0
      BY <1>4, <2>2
    <3>2. line = NoBit /\ astray = 0
      BY <1>1, <3>1 DEF InStep
    <3>3. QED
      BY <1>1, <2>1, <3>1, <3>2 DEF Astray
  <2>8. InStep'
    BY <1>1, <1>2, <1>3, <1>9, <2>1, <2>6, <2>7 DEF InStep
  <2>9. InOrder'
    BY <1>1, <1>2, <2>1 DEF InOrder
  <2>10. QED
    BY <2>8, <2>9
<1>12. QED
  BY <1>10, <1>11

LEMMA InStepNext ==
  ASSUME Types, AtRest, Errors, InStep, InOrder, [Next]_vars
  PROVE  InStep' /\ InOrder'
<1>1. ASSUME pc' \notin Running
      PROVE  InStep' /\ InOrder'
  BY <1>1 DEF InStep, InOrder
<1>2. CASE InitResources \/ PostInit \/ Arm \/ Deinit
  BY <1>1, <1>2 DEF InitResources, PostInit, Arm, Deinit, Goto, Running
<1>3. CASE Bit /\ Waiting
  <2>1. pc \notin Running /\ (pc' = pc \/ pc' = "arm")
    <3>1. fs_wait \in Nat
      BY Numbers DEF Types
    <3>2. QED
      BY <1>3, <3>1 DEF Waiting, Streaming, AtRest
  <2>2. QED
    BY <1>1, <2>1 DEF Running
<1>4. CASE Slip \/ UNCHANGED vars
  <2>1. UNCHANGED <<config, task, ports, line, astray>>
    BY <1>4 DEF Slip, vars, master, history
  <2>2. QED
    BY <2>1 DEF InStep, InOrder, Upcoming, Before, Latched, Looked, config, task, ports
<1>5. QED
  BY <1>2, <1>3, <1>4, InStepQueue, InStepMove, InStepEdge, InStepStream
     DEF Next, Task, Bit

-----------------------------------------------------------------------------
(* How long a slip goes unseen.                                            *)
LEMMA StraysStream ==
  ASSUME Types, AtRest, InStep, Strays, Bit, Stream
  PROVE  Strays'
<1>1. /\ fs_wait >= 1 /\ fs_wait \in Nat /\ pc \in Running /\ pc' = pc
      /\ UNCHANGED <<first, fysnch_error>>
      /\ fs_wait = 1 => fs = NoLevel
      /\ out_wait <= 1 => dout # <<>>
      /\ astray' = Astray /\ astray \in Nat
  <2>1. fs_wait > 0 /\ fs_wait \in Nat
    BY Numbers DEF Stream, Streaming, Types
  <2>2. pc \in Running
    BY <2>1 DEF AtRest, Types
  <2>3. QED
    BY <2>1, <2>2 DEF Stream, Bit, InTime, Types
<1>2. astray' \in Nat /\ astray' <= astray + 1
  BY <1>1 DEF Astray
<1>3. PICK a \in Nat, a1 \in Nat, w \in Nat :
        /\ a = astray /\ a1 = astray' /\ w = fs_wait /\ w >= 1 /\ a1 <= a + 1
  BY <1>1, <1>2
<1>4. a <= Period - w + 1 + (IF Bad THEN Period ELSE 0)
  BY <1>1, <1>3 DEF Strays
<1>5. CASE fs_wait # 1
  <2>1. fs' = fs /\ fs_wait' = w - 1
    BY <1>3, <1>5 DEF Stream
  <2>2. Bad' = Bad
    BY <1>1, <2>1 DEF Bad
  <2>3. a1 <= Period - (w - 1) + 1 + (IF Bad THEN Period ELSE 0)
    BY <1>3, <1>4, Numbers
  <2>4. QED
    BY <1>3, <2>1, <2>2, <2>3 DEF Strays
<1>6. CASE fs_wait = 1
  <2>1. fs' = Level /\ fs_wait' = Period /\ fs = NoLevel /\ w = 1
    BY <1>1, <1>3, <1>6, Settings DEF Stream
  <2>2. Skew = pos
    <3>1. pos + fs_wait - 1 = pos /\ pos \in 0 .. Period - 1
      BY <1>6, Numbers DEF Types
    <3>2. pos % Period = pos
      BY <3>1, Numbers
    <3>3. QED
      BY <3>1, <3>2 DEF Skew
  <2>3. CASE pos < fsync_len
    <3>1. a1 = 0
      BY <1>1, <1>3, <2>2, <2>3 DEF Astray
    <3>2. a1 <= Period - Period + 1 + (IF Bad' THEN Period ELSE 0)
      BY <3>1, Numbers
    <3>3. QED
      BY <1>3, <2>1, <3>2 DEF Strays
  <2>4. CASE first /\ pc \in {"out", "fsync"}
    <3>1. out_wait = fs_wait + tx_offset
      BY <1>1, <2>1, <2>4 DEF InStep
    <3>2. out_wait > 0
      BY <1>6, <3>1, Numbers DEF Types
    <3>3. a = 0
      BY <1>1, <1>3, <3>2 DEF InStep
    <3>4. a1 <= Period - Period + 1 + (IF Bad' THEN Period ELSE 0)
      BY <1>3, <3>3, Numbers
    <3>5. QED
      BY <1>3, <2>1, <3>4 DEF Strays
  <2>5. CASE ~(pos < fsync_len) /\ ~(first /\ pc \in {"out", "fsync"})
    <3>1. Bad'
      <4>1. fs' = 0
        BY <2>1, <2>5 DEF Level
      <4>2. ~(first' /\ pc' \in {"out", "fsync"})
        BY <1>1, <2>5
      <4>3. QED
        BY <4>1, <4>2 DEF Bad
    <3>2. ~Bad
      <4>1. SUFFICES ASSUME pc = "deinit", fysnch_error
                     PROVE  FALSE
        BY <2>1 DEF Bad, NoLevel
      <4>2. Upcoming = Word(frame, 1)
        BY <1>1, <4>1, NextWordFacts DEF Upcoming, Types
      <4>3. Upcoming.ch * WordBits = WordBits
        BY <4>2, Starts
      <4>4. PICK l \in Nat, b \in Nat, t \in Nat, o \in Nat :
              /\ l = Left(dout, dbit) /\ b = Before /\ t = tx_offset /\ o = out_wait
              /\ t <= WordBits
        BY <1>1, PortNumbers
      <4>5. Latched = 0 /\ Looked = Period
        BY <2>1, <4>1 DEF Latched, Looked
      <4>6. Before + Left(dout, dbit) + Latched + Looked
               = fs_wait + tx_offset - 1 + Upcoming.ch * WordBits
        BY <1>1 DEF InStep
      <4>7. b + l + 0 + Period = 1 + t - 1 + WordBits
        BY <1>6, <4>3, <4>4, <4>5, <4>6
      <4>8. b + l <= 0
        BY ONLY <4>4, <4>7, Numbers
      <4>9. b + l >= 1
        <5>1. CASE out_wait <= 1
          <6>1. dout # <<>> /\ Chain(dout, Upcoming) /\ Upcoming \in Words
                /\ dbit \in 0 .. WordBits - 1
            BY <1>1, <5>1, UpcomingFacts DEF InStep, Types
          <6>2. l >= 1
            BY <4>4, <6>1, QueueEnd
          <6>3. QED
            BY <4>4, <6>2
        <5>2. CASE ~(out_wait <= 1)
          <6>1. b = o - 1 /\ o > 1
            BY <4>4, <5>2 DEF Before
          <6>2. QED
            BY <4>4, <6>1
        <5>3. QED
          BY <5>1, <5>2
      <4>10. QED
        BY <4>4, <4>8, <4>9
    <3>3. a1 <= Period - Period + 1 + Period
      BY <1>3, <1>4, <2>1, <3>2, Numbers
    <3>4. QED
      BY <1>3, <2>1, <3>1, <3>3 DEF Strays
  <2>6. QED
    BY <2>3, <2>4, <2>5
<1>7. QED
  BY <1>5, <1>6

LEMMA StraysStep ==
  ASSUME Types, AtRest, Errors, InStep, Strays, [Next]_vars
  PROVE  Strays'
<1>1. ASSUME pc' \notin Running
      PROVE  Strays'
  BY <1>1 DEF Strays
<1>2. ASSUME pc \in Running, UNCHANGED <<fs_wait, astray>>, Bad' = Bad
      PROVE  Strays'
  BY <1>2 DEF Strays
<1> USE DEF Goto, Running, ports, master, history
<1>3. CASE InitResources \/ PostInit \/ Arm \/ Deinit
  BY <1>1, <1>3 DEF InitResources, PostInit, Arm, Deinit
<1>4. CASE OutFirst \/ Fill
  <2>1. /\ pc \in {"out", "fill"} /\ UNCHANGED <<fs_wait, astray, fs, first, fysnch_error>>
        /\ pc = "out" => pc' = "fsync"
        /\ pc = "fill" => pc' \in {"fill", "send", "check"}
    BY <1>4 DEF OutFirst, Fill
  <2>2. Bad' = Bad
    BY <2>1 DEF Bad
  <2>3. QED
    BY <1>2, <2>1, <2>2
<1>5. CASE Fsync
  <2>1. /\ pc = "fsync" /\ fs' = NoLevel /\ UNCHANGED <<fs_wait, astray, first>>
        /\ fs \in {0, 1} /\ ~fysnch_error
        /\ IF fs # 1 /\ ~first THEN fysnch_error' = TRUE /\ pc' = "deinit"
           ELSE pc' = "fill"
    BY <1>5 DEF Fsync, Types, NoLevel, Errors
  <2>2. Bad' = Bad
    BY <2>1 DEF Bad, NoLevel
  <2>3. QED
    BY <1>2, <2>1, <2>2
<1>6. CASE Send \/ \E r \in TdmCommands : RestartCheck(r)
  <2>1. /\ pc \in {"check", "send"} /\ pc' \in {"send", "deinit", "out"}
        /\ UNCHANGED <<fs_wait, astray, fs, fysnch_error>> /\ ~fysnch_error
        /\ pc' = "out" => ~first'
    BY <1>6 DEF Send, RestartCheck, Errors
  <2>2. Bad' = Bad
    BY <2>1 DEF Bad
  <2>3. QED
    BY <1>2, <2>1, <2>2
<1>7. CASE Bit /\ Edge
  <2>1. fs_wait' = Period /\ astray' = Astray /\ fs_wait = 0
    BY <1>7, Settings DEF Edge, Bit, AtRest, Resting
  <2>2. astray' = 0
    BY <2>1 DEF Astray, Streaming
  <2>3. 0 <= Period - Period + 1 + (IF Bad' THEN Period ELSE 0)
    BY Numbers
  <2>4. QED
    BY <2>1, <2>2, <2>3 DEF Strays
<1>8. CASE Bit /\ Waiting
  <2>1. pc \notin Running /\ (pc' = pc \/ pc' = "arm")
    <3>1. fs_wait \in Nat
      BY Numbers DEF Types
    <3>2. QED
      BY <1>8, <3>1 DEF Waiting, Streaming, AtRest
  <2>2. QED
    BY <1>1, <2>1
<1>9. CASE Slip \/ UNCHANGED vars
  BY <1>9 DEF Slip, vars, task, Strays, Bad
<1>10. QED
  BY <1>3, <1>4, <1>5, <1>6, <1>7, <1>8, <1>9, StraysStream DEF Next, Task, Bit

(* A bad sample that is not overlooked is soon looked at.                  *)
LEMMA Looming ==
  ASSUME Types, AtRest, InStep, Strays
  PROVE  SlipSeen
<1>1. CASE pc \notin Running
  <2>1. astray = 0
    BY <1>1 DEF AtRest, Types
  <2>2. QED
    BY <2>1, Numbers DEF SlipSeen, Types
<1>2. CASE pc \in Running
  <2>1. PICK l \in Nat, b \in Nat, w \in Nat, t \in Nat, u \in Nat :
          /\ l = Left(dout, dbit) /\ b = Before /\ w = fs_wait /\ t = tx_offset
          /\ u = Upcoming.ch * WordBits /\ w <= Period /\ w >= 1 /\ t <= WordBits
    BY <1>2, PortNumbers DEF AtRest
  <2>2. PICK m \in {0, Period}, x \in {0, Period} : m = Latched /\ x = Looked
    BY DEF Latched, Looked
  <2>3. b + l + m + x = w + t - 1 + u
    BY <1>2, <2>1, <2>2 DEF InStep
  <2>4. PICK a \in Nat : a = astray
    BY DEF Types
  <2>5. a <= Period - w + 1 + (IF Bad THEN Period ELSE 0)
    BY <1>2, <2>1, <2>4 DEF Strays
  <2>6. ASSUME Bad PROVE Period - w + 1 <= t + WordBits
    <3>1. m = Period \/ (pc = "deinit" /\ fysnch_error /\ x = Period)
      BY <2>2, <2>6 DEF Bad, Latched, Looked, NoLevel
    <3>2. CASE pc = "fill"
      <4>1. Upcoming = Word(frame, i) /\ x = Period
        BY <1>2, <2>2, <3>2, NextWordFacts DEF Upcoming, Types, Looked
      <4>2. PICK c \in 0 .. Channels - 1 : c = i
        BY Numbers DEF Types
      <4>3. u = c * WordBits
        BY <2>1, <4>1, <4>2, Starts
      <4>4. u + WordBits <= Period
        BY <4>2, <4>3, WordStarts
      <4>5. QED
        BY ONLY <2>1, <2>3, <3>1, <3>2, <4>1, <4>4, Numbers
    <3>3. CASE pc # "fill"
      <4>1. Upcoming.ch = 0 \/ Upcoming.ch = 1
        <5>1. \E f : Upcoming = Word(f, 0) \/ Upcoming = Word(f, 1)
          BY <1>2, <3>3, NextWordFacts DEF Upcoming, Types, Running
        <5>2. QED
          BY <5>1, Starts
      <4>2. u = 0 \/ u = WordBits
        BY <2>1, <4>1, Starts
      <4>3. m + x >= Period
        BY <2>2, <3>1, Numbers
      <4>4. m \in Nat /\ x \in Nat
        BY <2>2, Numbers
      <4>5. QED
        BY ONLY <2>1, <2>3, <4>2, <4>3, <4>4, Numbers
    <3>4. QED
      BY <3>2, <3>3
  <2>7. a <= Period + t + WordBits
    BY <2>1, <2>4, <2>5, <2>6, Numbers
  <2>8. QED
    BY <2>1, <2>4, <2>7 DEF SlipSeen
<1>3. QED
  BY <1>1, <1>2

-----------------------------------------------------------------------------
(* Where the slave's frames start.                                         *)
LEMMA SkewFacts ==
  \A p \in 0 .. Period - 1, w \in 1 .. Period :
      (p + w - 1) % Period
         = IF p + w - 1 < Period THEN p + w - 1 ELSE p + w - 1 - Period
<1>1. \A m \in Nat, p \in Nat, w \in Nat :
        m >= 1 /\ p < m /\ w >= 1 /\ w <= m =>
           (p + w - 1) % m = IF p + w - 1 < m THEN p + w - 1 ELSE p + w - 1 - m
  OBVIOUS
<1>2. QED
  BY <1>1, Numbers

LEMMA NextPos ==
  \A p \in 0 .. Period - 1 : (p + 1) % Period = IF p + 1 = Period THEN 0 ELSE p + 1
  BY Numbers

(* The skew does not change while the clock does not slip.                 *)
LEMMA SkewKept ==
  ASSUME Types, Bit, Stream
  PROVE  Skew' = Skew
<1>1. PICK p \in Nat, w \in Nat :
        p = pos /\ w = fs_wait /\ p <= Period - 1 /\ w >= 1 /\ w <= Period
  BY Numbers DEF Types, Stream, Streaming
<1>2. PICK p1 \in Nat : p1 = pos' /\ p1 = IF p + 1 = Period THEN 0 ELSE p + 1
  BY <1>1, NextPos, Numbers DEF Bit, Types
<1>3. PICK w1 \in Nat : w1 = fs_wait' /\ w1 = IF w = 1 THEN Period ELSE w - 1
  BY <1>1, Settings, Numbers DEF Stream
<1>4. Skew = IF p + w - 1 < Period THEN p + w - 1 ELSE p + w - 1 - Period
  BY <1>1, SkewFacts, Numbers DEF Skew, Types
<1>5. p1 \in 0 .. Period - 1 /\ w1 \in 1 .. Period
  BY ONLY <1>1, <1>2, <1>3, Numbers
<1>6. Skew' = IF p1 + w1 - 1 < Period THEN p1 + w1 - 1 ELSE p1 + w1 - 1 - Period
  BY <1>2, <1>3, <1>5, SkewFacts DEF Skew
<1>7. (IF p1 + w1 - 1 < Period THEN p1 + w1 - 1 ELSE p1 + w1 - 1 - Period)
         = IF p + w - 1 < Period THEN p + w - 1 ELSE p + w - 1 - Period
  BY ONLY <1>1, <1>2, <1>3, Numbers
<1>8. QED
  BY <1>4, <1>6, <1>7

LEMMA SkewedStep ==
  ASSUME Types, Types', AtRest, Skewed, [Next]_vars
  PROVE  Skewed'
<1> USE DEF Goto, ports, master, history, config, task
<1>1. CASE PostInit \/ InitResources \/ OutFirst \/ Fsync \/ Fill \/ Send \/ Deinit
           \/ \E r \in TdmCommands : RestartCheck(r)
  <2>1. pc' \notin {"arm", "high"} /\ UNCHANGED <<slipped, pos, fsync_len>>
    BY <1>1 DEF PostInit, InitResources, OutFirst, Fsync, Fill, Send, Deinit,
       RestartCheck
  <2>2. fs_wait' = fs_wait \/ fs_wait' = 0
    BY <1>1 DEF PostInit, InitResources, OutFirst, Fsync, Fill, Send, Deinit,
       RestartCheck
  <2>3. QED
    BY <2>1, <2>2 DEF Skewed, Streaming, Skew
<1>2. CASE Arm
  <2>1. /\ pc = "arm" /\ pc' = "high"
        /\ UNCHANGED <<slipped, pos, fsync_len, fs_wait>> /\ fs_wait = 0
    BY <1>2 DEF Arm, AtRest, Resting
  <2>2. late <= ArmBits /\ late \in Nat /\ pos \in Nat /\ ArmBits \in Nat
    BY Numbers DEF Types
  <2>3. QED
    BY <2>1, <2>2 DEF Skewed, Streaming
<1>3. ASSUME Bit PROVE pos' = IF pos + 1 = Period THEN 0 ELSE pos + 1
  BY <1>3, NextPos DEF Bit, Types
<1>4. PICK p \in Nat, n \in Nat, g \in Nat :
        p = pos /\ n = fsync_len /\ n >= 1 /\ g = late /\ p <= Period - 1
  BY Numbers DEF Types
<1>5. CASE Bit /\ Edge
  <2>1. /\ pc = "high" /\ pc' = "out" /\ p < n /\ fs_wait' = Period
        /\ UNCHANGED <<slipped, fsync_len>>
    BY <1>4, <1>5, Settings DEF Bit, Edge, Level
  <2>2. PICK p1 \in Nat : p1 = pos' /\ p1 = IF p + 1 = Period THEN 0 ELSE p + 1
    BY <1>3, <1>4, <1>5, Numbers
  <2>3. p1 \in 0 .. Period - 1 /\ Period \in 1 .. Period
    BY <1>4, <2>2, Numbers
  <2>4. Skew' = IF p1 + Period - 1 < Period THEN p1 + Period - 1
                ELSE p1 + Period - 1 - Period
    BY <2>1, <2>2, <2>3, SkewFacts DEF Skew
  <2>5. Skew' = p
    BY <1>4, <2>2, <2>4, Numbers
  <2>6. ~slipped => p <= ArmBits
    <3>1. ~slipped => pos >= fsync_len \/ pos <= ArmBits
      BY <2>1 DEF Skewed
    <3>2. QED
      BY <1>4, <2>1, <3>1, Numbers
  <2>7. QED
    BY <1>4, <2>1, <2>5, <2>6 DEF Skewed
<1>6. CASE Bit /\ Waiting
  <2>1. /\ fs_wait = 0 /\ fs_wait' = 0 /\ fsync_len' = fsync_len
        /\ pc' = IF pc = "low" /\ Level = 0 THEN "arm" ELSE pc
        /\ slipped' = (slipped /\ pc' = pc)
        /\ late' = IF pc = "arm" THEN late + 1 ELSE late
        /\ ~(pc = "high" /\ Level = 1)
    <3>1. fs_wait \in Nat /\ ~(fs_wait > 0)
      BY <1>6, Numbers DEF Types, Waiting, Streaming
    <3>2. QED
      BY <1>6, <3>1 DEF Waiting, Bit
  <2>2. Level = IF p < n THEN 1 ELSE 0
    BY <1>4 DEF Level
  <2>3. PICK p1 \in Nat : p1 = pos' /\ p1 = IF p + 1 = Period THEN 0 ELSE p + 1
    BY <1>3, <1>4, <1>6, Numbers
  <2>4. ~Streaming'
    BY <2>1 DEF Streaming
  <2>5. ASSUME ~slipped', pc' = "arm"
        PROVE  p1 >= n \/ p1 <= late'
    <3>1. CASE pc = "low" /\ Level = 0
      <4>1. p >= n /\ late' = g
        BY <1>4, <2>1, <2>2, <3>1
      <4>2. QED
        BY <1>4, <2>3, <4>1
    <3>2. CASE ~(pc = "low" /\ Level = 0)
      <4>1. pc = "arm" /\ ~slipped /\ late' = g + 1
        BY <1>4, <2>1, <2>5, <3>2 DEF Types
      <4>2. p >= n \/ p <= g
        BY <1>4, <4>1 DEF Skewed
      <4>3. QED
        BY <1>4, <2>3, <4>1, <4>2
    <3>3. QED
      BY <3>1, <3>2
  <2>6. ASSUME ~slipped', pc' = "high"
        PROVE  p1 >= n \/ p1 <= ArmBits
    <3>1. pc = "high" /\ Level = 0
      BY <2>1, <2>2, <2>6
    <3>2. p >= n
      BY <1>4, <2>2, <3>1
    <3>3. QED
      BY <1>4, <2>3, <3>2, Numbers
  <2>7. QED
    BY <1>4, <2>1, <2>3, <2>4, <2>5, <2>6 DEF Skewed
<1>7. CASE Bit /\ Stream
  <2>1. Skew' = Skew
    BY <1>7, SkewKept
  <2>2. /\ Streaming /\ pc' = pc /\ UNCHANGED <<slipped, fsync_len>>
        /\ pc \in Running
    <3>1. Streaming /\ fs_wait \in Nat
      BY <1>7, Numbers DEF Stream, Types
    <3>2. pc \in Running
      BY <3>1 DEF Streaming, AtRest, Types
    <3>3. QED
      BY <1>7, <3>1, <3>2 DEF Stream, Bit
  <2>3. pc \notin {"arm", "high"}
    BY <2>2 DEF Running
  <2>4. QED
    BY <2>1, <2>2, <2>3 DEF Skewed
<1>8. CASE Slip
  BY <1>8 DEF Slip, Skewed
<1>9. CASE UNCHANGED vars
  BY <1>9 DEF vars, Skewed, Streaming, Skew
<1>10. QED
  BY <1>1, <1>2, <1>5, <1>6, <1>7, <1>8, <1>9 DEF Next, Task, Bit

-----------------------------------------------------------------------------
(* The invariant of the slave.                                             *)
THEOREM Invariance == Spec => []IInv
<1>1. Init => IInv
  <2> SUFFICES ASSUME Init PROVE IInv
    OBVIOUS
  <2>1. Types
    BY TypesInit
  <2>2. AtRest /\ Errors /\ InStep /\ InOrder /\ Strays
    BY DEF Init, AtRest, Errors, InStep, InOrder, Strays, Resting, Running
  <2>3. Skewed
    BY Numbers DEF Init, Skewed, Streaming
  <2>4. QED
    BY <2>1, <2>2, <2>3 DEF IInv
<1>2. IInv /\ [Next]_vars => IInv'
  BY TypesStep, AtRestStep, ErrorsStep, InStepNext, StraysStep, SkewedStep DEF IInv
<1>3. QED
  BY <1>1, <1>2, PTL DEF Spec

(* Every variable keeps to its values; in particular the data port never   *)
(* holds more than the word under way and one more.                        *)
THEOREM TypeCorrect == Spec => []TypeOK
<1>1. IInv => TypeOK
  <2> SUFFICES ASSUME IInv PROVE TypeOK
    OBVIOUS
  <2> USE DEF IInv
  <2>1. dout \in Seq([frame : 0 .. Frames - 1, ch : 0 .. Channels - 1]) /\ Len(dout) <= 2
    <3>1. dout = <<>> \/ (\E v \in Words : dout = <<v>>)
             \/ \E v, w \in Words : dout = <<v, w>>
      BY DEF AtRest, InStep, Chain, Types
    <3>2. CASE dout = <<>>
      BY <3>2
    <3>3. ASSUME NEW v \in Words, dout = <<v>>
          PROVE  dout \in Seq(Words) /\ Len(dout) <= 2
      BY <3>3
    <3>4. ASSUME NEW v \in Words, NEW w \in Words, dout = <<v, w>>
          PROVE  dout \in Seq(Words) /\ Len(dout) <= 2
      BY <3>4
    <3>5. QED
      BY <3>1, <3>2, <3>3, <3>4 DEF Words
  <2>2. astray \in 0 .. Period + tx_offset + WordBits + 1
    <3>1. PICK t \in Nat, a \in Nat : t = tx_offset /\ a = astray
      BY Numbers DEF Types
    <3>2. a <= Period + t + WordBits
      BY <3>1, Looming DEF SlipSeen
    <3>3. a \in 0 .. Period + t + WordBits + 1
      BY <3>1, <3>2, Numbers
    <3>4. QED
      BY <3>1, <3>3
  <2>3. /\ pc \in {"init", "post", "low", "arm", "high", "out", "fsync", "fill", "check",
                   "send", "deinit", "exit"}
        /\ {first, fysnch_error, failed, slipped} \subseteq BOOLEAN
    BY DEF Types, Resting, Running
  <2>4. QED
    BY <2>1, <2>2, <2>3 DEF Types, TypeOK
<1>2. QED
  BY <1>1, Invariance, PTL

(* tdm_post_port_init finds in fysnch_error what became of the last fsync. *)
THEOREM ErrorTold == Spec => []ErrorFlagTells
<1>1. IInv => ErrorFlagTells
  BY DEF IInv, Errors, ErrorFlagTells
<1>2. QED
  BY <1>1, Invariance, PTL

(* However the clock slips, a slave whose frames start outside the fsync   *)
(* pulse sends at most a frame, the offset and a word before it stops.     *)
THEOREM SlipNoticed == Spec => []SlipSeen
<1>1. IInv => SlipSeen
  BY Looming DEF IInv
<1>2. QED
  BY <1>1, Invariance, PTL

(* Where a bit of the stream is in its frame, from the bits left and those *)
(* until the next sample.                                                  *)
LEMMA BitPlace ==
  ASSUME IInv, Bit, Stream, out_wait <= 1
  PROVE  /\ line'.at = Head(dout).ch * WordBits + dbit
         /\ line'.frame = Head(dout).frame
         /\ line'.at = (pos - Skew - tx_offset) % Period
<1> USE DEF IInv
<1>1. /\ fs_wait >= 1 /\ pc \in Running /\ dout # <<>> /\ ShiftOut
  <2>1. fs_wait > 0 /\ fs_wait \in Nat
    BY Numbers DEF Stream, Streaming, Types
  <2>2. pc \in Running
    BY <2>1 DEF AtRest, Types
  <2>3. QED
    BY <2>1, <2>2 DEF Stream, Bit, InTime
<1>2. PICK at \in Nat :
        /\ at = Head(dout).ch * WordBits + dbit /\ at \in 0 .. Period - 1
        /\ line' = [frame |-> Head(dout).frame, at |-> at]
  BY <1>1, ShiftFacts
<1>3. PICK l \in Nat, w \in Nat, t \in Nat, u \in Nat, p \in Nat :
        /\ l = Left(dout, dbit) /\ w = fs_wait /\ t = tx_offset
        /\ u = Upcoming.ch * WordBits /\ w <= Period /\ w >= 1 /\ t <= WordBits
        /\ p = pos /\ p <= Period - 1
  <2>1. pos \in Nat /\ pos <= Period - 1
    BY Numbers DEF Types
  <2>2. QED
    BY <1>1, <2>1, PortNumbers
<1>4. PICK m \in {0, Period}, x \in {0, Period} : m = Latched /\ x = Looked
  BY DEF Latched, Looked
<1>5. Before = 0
  <2>1. out_wait \in Nat
    BY <1>1, PortNumbers
  <2>2. QED
    BY <2>1 DEF Before
<1>6. 0 + l + m + x = w + t - 1 + u
  <2>1. Before + Left(dout, dbit) + Latched + Looked
           = fs_wait + tx_offset - 1 + Upcoming.ch * WordBits
    BY <1>1 DEF InStep
  <2>2. QED
    BY <1>3, <1>4, <1>5, <2>1
<1>7. at + l = u \/ at + l = u + Period
  <2>1. Chain(dout, Upcoming) /\ Upcoming \in Words /\ dbit \in 0 .. WordBits - 1
    BY <1>1, UpcomingFacts DEF InStep, Types
  <2>2. QED
    BY <1>1, <1>2, <1>3, <2>1, QueueEnd
<1>8. PICK k \in Nat :
        /\ k = Skew
        /\ k = IF p + w - 1 < Period THEN p + w - 1 ELSE p + w - 1 - Period
  BY <1>3, SkewFacts, Numbers DEF Skew
<1>9. Period \in Nat /\ Period >= 1
  BY Numbers
<1>10. /\ p - k - t \in Int
       /\ \/ p - k - t = at + Period \/ p - k - t = at \/ p - k - t = at - Period
          \/ p - k - t = at - 2 * Period \/ p - k - t = at - 3 * Period
  <2>1. m = 0 \/ m = Period
    BY <1>4
  <2>2. x = 0 \/ x = Period
    BY <1>4
  <2>3. QED
    BY ONLY <1>2, <1>3, <1>6, <1>7, <1>8, <1>9, <2>1, <2>2
<1>11. (p - k - t) % Period = at
  <2>1. PICK z \in Int : z = p - k - t
    BY <1>10
  <2>2. \/ z = at + Period \/ z = at \/ z = at - Period
        \/ z = at - 2 * Period \/ z = at - 3 * Period
    BY <1>10, <2>1
  <2>3. at \in 0 .. Period - 1
    BY <1>2
  <2>4. z % Period = at
    BY ONLY <1>9, <2>2, <2>3, Place
  <2>5. QED
    BY <2>1, <2>4
<1>12. QED
  BY <1>2, <1>3, <1>8, <1>11

(* The bits of the frames asked for leave without a gap, each at its place *)
(* in the master's frame, and without a slip inside the fsync pulse.       *)
THEOREM InPlace == Spec => WordsInPlace
<1> DEFINE Placed ==
      /\ line' # line /\ line' # NoBit =>
             /\ line'.at = (pos - Skew - tx_offset) % Period
             /\ line # NoBit =>
                   \/ line'.at = line.at + 1 /\ line'.frame = line.frame
                   \/ /\ line.at = Period - 1 /\ line'.at = 0
                      /\ line'.frame = (line.frame + 1) % Frames
             /\ line = NoBit => line'.at = 0
      /\ Streaming /\ ~slipped => Skew < fsync_len /\ Skew <= ArmBits
<1>1. ASSUME IInv, [Next]_vars PROVE Placed
  <2>1. Streaming /\ ~slipped => Skew < fsync_len /\ Skew <= ArmBits
    BY <1>1 DEF IInv, Skewed
  <2>2. ASSUME line' # line, line' # NoBit
        PROVE  Bit /\ Stream /\ out_wait <= 1
    <3>1. ~UNCHANGED vars /\ ~Slip
      BY <2>2 DEF vars, history, Slip
    <3>2. ~Task
      BY <2>2 DEF Task, InitResources, PostInit, Arm, OutFirst, Fsync, Fill, Send,
         Deinit, RestartCheck, history
    <3>3. QED
      BY <1>1, <2>2, <3>1, <3>2 DEF Next, Bit, Edge, Waiting, Stream
  <2>3. ASSUME line' # line, line' # NoBit
        PROVE  /\ line'.at = (pos - Skew - tx_offset) % Period
               /\ line # NoBit =>
                     \/ line'.at = line.at + 1 /\ line'.frame = line.frame
                     \/ /\ line.at = Period - 1 /\ line'.at = 0
                        /\ line'.frame = (line.frame + 1) % Frames
               /\ line = NoBit => line'.at = 0
    <3>1. /\ line'.at = Head(dout).ch * WordBits + dbit
          /\ line'.frame = Head(dout).frame
          /\ line'.at = (pos - Skew - tx_offset) % Period
      BY <1>1, <2>2, <2>3, BitPlace
    <3>2. Current(dout, Upcoming) = Head(dout) /\ pc \in Running
      <4>1. Streaming /\ fs_wait \in Nat
        BY <1>1, <2>2, <2>3, Numbers DEF Stream, IInv, Types
      <4>2. pc \in Running
        BY <1>1, <4>1 DEF Streaming, IInv, AtRest, Types
      <4>3. dout # <<>>
        BY <2>2, <2>3 DEF Bit, InTime, Stream
      <4>4. QED
        BY <4>2, <4>3 DEF Current
    <3>3. line # NoBit => Precedes(line, Head(dout), dbit)
      BY <1>1, <3>2 DEF IInv, InOrder
    <3>4. line = NoBit => Head(dout).ch = 0 /\ dbit = 0
      BY <1>1, <3>2 DEF IInv, InOrder
    <3>5. 0 * WordBits + 0 = 0
      BY Starts
    <3>6. ASSUME Head(dout).ch = 0, dbit = 0
          PROVE  line'.at = 0
      BY <3>1, <3>5, <3>6
    <3>7. QED
      BY <3>1, <3>3, <3>4, <3>6 DEF Precedes
  <2>4. QED
    BY <2>1, <2>3
<1>2. IInv /\ [Next]_vars => [Placed]_vars
  BY <1>1
<1>3. QED
  BY <1>2, Invariance, PTL DEF Spec, WordsInPlace

=============================================================================
