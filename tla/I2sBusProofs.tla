---------------------------- MODULE I2sBusProofs ----------------------------
(***************************************************************************)
(* Proofs about I2sBus, for every commands the applications may give and   *)
(* any number of frames that tells four apart.                             *)
(***************************************************************************)
EXTENDS I2sBus, TLAPS

Places == {"check", "out_even", "even", "odd"}
FrameNumbers == 0 .. Frames - 1
Real == [frame : FrameNumbers, ch : {0, 1}]

Types ==
    /\ mlines \subseteq {"in", "out"} /\ slines \subseteq {"in", "out"}
    /\ mlines # {} /\ slines # {}
    /\ mpc \in {"init", "check", "out_even", "in_even", "lr_even", "out_odd", "in_odd",
                "exit"}
    /\ spc \in {"init", "high", "low", "arm"} \cup Places
    /\ mrestart \in Commands /\ srestart \in Commands
    /\ mframe \in FrameNumbers /\ sframe \in FrameNumbers
    /\ bclk \in BOOLEAN /\ syncerror \in BOOLEAN
    /\ grid \in {"frames", "words", "bits"} /\ cut \in BOOLEAN
    /\ wait \in {0, 1}
    /\ mdin \in Seq(Samples) /\ mgot \in Seq(Samples)
    /\ sdout \in Seq(Samples) /\ sdin \in Seq(Samples) /\ sgot \in Seq(Samples)

-----------------------------------------------------------------------------
(* Queues of samples that follow each other, and of alternating levels; up *)
(* and due are what is queued next.                                        *)
After(v) == IF v.ch = 0 THEN Sample(v.frame, 1) ELSE Sample(Following(v.frame), 0)

Chain(q, up) ==
    \/ q = <<>>
    \/ \E v \in Real : q = <<v>> /\ up = After(v)
    \/ \E v \in Real : q = <<v, After(v)>> /\ up = After(After(v))
Current(q, up) == IF q = <<>> THEN up ELSE Head(q)

Alternate(q, due) == q = <<>> \/ q = <<1 - due>> \/ q = <<due, 1 - due>>

-----------------------------------------------------------------------------
(* The master's queues: what it queues next, and what is next on the wire. *)
Due == IF mpc = "out_odd" \/ (mpc = "in_odd" /\ mrestart # Proceed) THEN 1 ELSE 0
Level == IF bclk THEN Current(mlr, Due) ELSE 0

Upcoming ==
    CASE mpc = "out_even" -> Sample(mframe, 0)
      [] mpc = "out_odd" \/ (mpc \in {"in_even", "lr_even"} /\ mrestart = Proceed) ->
            Sample(mframe, 1)
      [] OTHER -> Sample(Following(mframe), 0)
Wire == Current(mdout, Upcoming)

(* The samples are queued before the level of an even word, and not at all *)
(* once a restart was asked for.                                           *)
Lead == CASE mpc \in {"in_even", "lr_even"} /\ mrestart = Proceed -> 1
          [] mpc = "in_odd" /\ mrestart # Proceed -> -1
          [] OTHER -> 0

(* No port of the slave holds more than it can.                            *)
SlavePorts ==
    /\ Len(sdout) <= 2 /\ Len(sdin) <= 1
    /\ slr \in {<<>>, <<0>>, <<1>>, <<2>>}

MasterQueues ==
    /\ bclk = (mpc \notin {"init", "exit"})
    /\ mpc \in {"out_even", "out_odd"} => mrestart = Proceed
    /\ mheld = IF ~bclk THEN 0 ELSE IF mpc = "check" \/ mrestart # Proceed THEN 1 ELSE 2
    /\ mlr \in Seq({0, 1}) /\ Len(mlr) <= 2
    /\ bclk => Alternate(mlr, Due)
    /\ ~bclk => mdout = <<>>
    /\ "out" \notin mlines => mdout = <<>>
    /\ Chain(mdout, Upcoming) /\ Len(mdout) <= 2
    /\ bclk /\ "out" \in mlines => Len(mdout) = Len(mlr) + Lead /\ Level = Wire.ch
    /\ Len(mdin) <= 1 /\ (~bclk \/ "in" \notin mlines => mdin = <<>>)
    /\ bclk /\ "in" \in mlines =>
          Len(mlr) + Len(mdin) = IF mpc = "lr_even" THEN 1
                                 ELSE IF mpc = "in_odd" /\ mrestart = Proceed THEN 3 ELSE 2

-----------------------------------------------------------------------------
(* Samples, and short sequences.                                           *)
LEMMA Numbers ==
  /\ Frames \in Nat /\ Frames > 3
  /\ \A f \in FrameNumbers : Following(f) \in FrameNumbers
  /\ \A f \in FrameNumbers, c \in {0, 1} : Sample(f, c) \in Real
  /\ \A f, c : Sample(f, c).frame = f /\ Sample(f, c).ch = c
<1>1. Frames \in Nat /\ Frames > 3
  BY I2sAssumption
<1>2. \A f \in FrameNumbers : Following(f) \in FrameNumbers
  BY <1>1 DEF FrameNumbers, Following
<1>3. QED
  BY <1>1, <1>2 DEF Real, Sample

LEMMA AfterFacts ==
  \A v \in Real :
      /\ v.ch \in {0, 1} /\ v.frame \in FrameNumbers /\ v = Sample(v.frame, v.ch)
      /\ After(v) \in Real /\ After(v).ch = 1 - v.ch
<1> SUFFICES ASSUME NEW v \in Real
             PROVE  /\ v.ch \in {0, 1} /\ v.frame \in FrameNumbers
                    /\ v = Sample(v.frame, v.ch)
                    /\ After(v) \in Real /\ After(v).ch = 1 - v.ch
  OBVIOUS
<1>1. v.ch \in {0, 1} /\ v.frame \in FrameNumbers /\ v = Sample(v.frame, v.ch)
  BY DEF Real, Sample
<1>2. CASE v.ch = 0
  BY <1>1, <1>2, Numbers DEF After
<1>3. CASE v.ch = 1
  BY <1>1, <1>3, Numbers DEF After
<1>4. QED
  BY <1>1, <1>2, <1>3

LEMMA Tuples ==
  \A v, w :
      /\ Append(<<>>, w) = <<w>> /\ Append(<<v>>, w) = <<v, w>>
      /\ Len(<<v>>) = 1 /\ Head(<<v>>) = v /\ <<v>>[1] = v /\ <<v>> # <<>>
      /\ Tail(<<v>>) = <<>>
      /\ Len(<<v, w>>) = 2 /\ Head(<<v, w>>) = v /\ <<v, w>> # <<>>
      /\ <<v, w>>[1] = v /\ <<v, w>>[2] = w
      /\ Tail(<<v, w>>) = <<w>>
<1> SUFFICES ASSUME NEW v, NEW w
             PROVE  /\ Append(<<>>, w) = <<w>> /\ Append(<<v>>, w) = <<v, w>>
                    /\ Len(<<v>>) = 1 /\ Head(<<v>>) = v /\ <<v>>[1] = v
                    /\ <<v>> # <<>> /\ Tail(<<v>>) = <<>>
                    /\ Len(<<v, w>>) = 2 /\ Head(<<v, w>>) = v /\ <<v, w>> # <<>>
                    /\ <<v, w>>[1] = v /\ <<v, w>>[2] = w
                    /\ Tail(<<v, w>>) = <<w>>
  OBVIOUS
<1>1. /\ <<v>> \in Seq({v, w}) /\ Len(<<v>>) = 1 /\ <<v>>[1] = v
      /\ <<v, w>> \in Seq({v, w}) /\ Len(<<v, w>>) = 2
      /\ <<v, w>>[1] = v /\ <<v, w>>[2] = w
  OBVIOUS
<1>2. Append(<<>>, w) = <<w>>
  OBVIOUS
<1>3. Append(<<v>>, w) = <<v, w>>
  <2> DEFINE t == Append(<<v>>, w)
  <2>1. t \in Seq({v, w}) /\ Len(t) = 2 /\ t[1] = v /\ t[2] = w
    BY <1>1
  <2> HIDE DEF t
  <2>2. t = <<v, w>>
    BY <2>1
  <2>3. QED
    BY <2>2 DEF t
<1>4. Head(<<v>>) = v /\ Head(<<v, w>>) = v /\ <<v>> # <<>> /\ <<v, w>> # <<>>
  BY <1>1
<1>5. Tail(<<v>>) = <<>>
  OBVIOUS
<1>6. Tail(<<v, w>>) = <<w>>
  OBVIOUS
<1>7. QED
  BY <1>1, <1>2, <1>3, <1>4, <1>5, <1>6

(* A sample is queued behind the others.                                   *)
LEMMA ChainAppend ==
  \A q, up : Chain(q, up) /\ Len(q) < 2 /\ up \in Real =>
      LET r == Append(q, up) IN
      /\ Chain(r, After(up)) /\ Current(r, After(up)) = Current(q, up)
      /\ Len(r) = Len(q) + 1 /\ r # <<>>
<1> SUFFICES ASSUME NEW q, NEW up, Chain(q, up), Len(q) < 2, up \in Real
             PROVE  LET r == Append(q, up) IN
                    /\ Chain(r, After(up)) /\ Current(r, After(up)) = Current(q, up)
                    /\ Len(r) = Len(q) + 1 /\ r # <<>>
  OBVIOUS
<1>1. CASE q = <<>>
  BY <1>1, Tuples DEF Chain, Current
<1>2. ASSUME NEW v \in Real, q = <<v>>, up = After(v)
      PROVE  LET r == Append(q, up) IN
             /\ Chain(r, After(up)) /\ Current(r, After(up)) = Current(q, up)
             /\ Len(r) = Len(q) + 1 /\ r # <<>>
  BY <1>2, Tuples DEF Chain, Current
<1>3. ASSUME NEW v \in Real, q = <<v, After(v)>>
      PROVE  FALSE
  BY <1>3, Tuples
<1>4. QED
  BY <1>1, <1>2, <1>3 DEF Chain

(* A sample leaves.                                                        *)
LEMMA ChainTail ==
  \A q, up : Chain(q, up) /\ q # <<>> =>
      /\ Head(q) \in Real /\ Current(q, up) = Head(q)
      /\ Chain(Tail(q), up) /\ Current(Tail(q), up) = After(Head(q))
      /\ Len(Tail(q)) = Len(q) - 1 /\ Len(q) \in {1, 2}
<1> SUFFICES ASSUME NEW q, NEW up, Chain(q, up), q # <<>>
             PROVE  /\ Head(q) \in Real /\ Current(q, up) = Head(q)
                    /\ Chain(Tail(q), up) /\ Current(Tail(q), up) = After(Head(q))
                    /\ Len(Tail(q)) = Len(q) - 1 /\ Len(q) \in {1, 2}
  OBVIOUS
<1>1. ASSUME NEW v \in Real, q = <<v>>, up = After(v)
      PROVE  /\ Head(q) \in Real /\ Current(q, up) = Head(q)
             /\ Chain(Tail(q), up) /\ Current(Tail(q), up) = After(Head(q))
             /\ Len(Tail(q)) = Len(q) - 1 /\ Len(q) \in {1, 2}
  BY <1>1, Tuples DEF Chain, Current
<1>2. ASSUME NEW v \in Real, q = <<v, After(v)>>, up = After(After(v))
      PROVE  /\ Head(q) \in Real /\ Current(q, up) = Head(q)
             /\ Chain(Tail(q), up) /\ Current(Tail(q), up) = After(Head(q))
             /\ Len(Tail(q)) = Len(q) - 1 /\ Len(q) \in {1, 2}
  <2>1. Tail(q) = <<After(v)>> /\ Head(q) = v /\ After(v) \in Real
    BY <1>2, Tuples, AfterFacts
  <2>2. Chain(<<After(v)>>, After(After(v)))
    BY <2>1 DEF Chain
  <2>3. Current(<<After(v)>>, up) = After(v) /\ Len(<<After(v)>>) = 1 /\ Len(q) = 2
    BY <1>2, Tuples DEF Current
  <2>4. QED
    BY <1>2, <2>1, <2>2, <2>3 DEF Current
<1>3. QED
  BY <1>1, <1>2 DEF Chain

LEMMA LevelAppend ==
  \A q \in Seq({0, 1}), due \in {0, 1} : Alternate(q, due) /\ Len(q) < 2 =>
      LET r == Append(q, due) IN
      /\ Alternate(r, 1 - due) /\ Current(r, 1 - due) = Current(q, due)
      /\ r \in Seq({0, 1}) /\ Len(r) = Len(q) + 1
<1> SUFFICES ASSUME NEW q \in Seq({0, 1}), NEW due \in {0, 1}, Alternate(q, due),
                    Len(q) < 2
             PROVE  LET r == Append(q, due) IN
                    /\ Alternate(r, 1 - due) /\ Current(r, 1 - due) = Current(q, due)
                    /\ r \in Seq({0, 1}) /\ Len(r) = Len(q) + 1
  OBVIOUS
<1>1. 1 - (1 - due) = due /\ 1 - due \in {0, 1}
  OBVIOUS
<1>2. CASE q = <<>>
  BY <1>1, <1>2, Tuples DEF Alternate, Current
<1>3. CASE q = <<1 - due>>
  <2>1. Append(q, due) = <<1 - due, due>>
    BY <1>3, Tuples
  <2>2. Alternate(<<1 - due, due>>, 1 - due)
    BY <1>1 DEF Alternate
  <2>3. Current(<<1 - due, due>>, 1 - due) = 1 - due /\ Current(q, due) = 1 - due
    BY <1>3, Tuples DEF Current
  <2>4. Append(q, due) \in Seq({0, 1}) /\ Len(Append(q, due)) = Len(q) + 1
    OBVIOUS
  <2>5. QED
    BY <2>1, <2>2, <2>3, <2>4
<1>4. CASE q = <<due, 1 - due>>
  BY <1>4, Tuples
<1>5. QED
  BY <1>2, <1>3, <1>4 DEF Alternate

LEMMA LevelTail ==
  \A q \in Seq({0, 1}), due \in {0, 1} : Alternate(q, due) /\ q # <<>> =>
      /\ Head(q) = Current(q, due) /\ Head(q) \in {0, 1}
      /\ Alternate(Tail(q), due) /\ Current(Tail(q), due) = 1 - Head(q)
      /\ Tail(q) \in Seq({0, 1}) /\ Len(Tail(q)) = Len(q) - 1
      /\ Len(q) = 2 => q[1] = Head(q) /\ q[2] = 1 - Head(q)
<1> SUFFICES ASSUME NEW q \in Seq({0, 1}), NEW due \in {0, 1}, Alternate(q, due),
                    q # <<>>
             PROVE  /\ Head(q) = Current(q, due) /\ Head(q) \in {0, 1}
                    /\ Alternate(Tail(q), due) /\ Current(Tail(q), due) = 1 - Head(q)
                    /\ Tail(q) \in Seq({0, 1}) /\ Len(Tail(q)) = Len(q) - 1
                    /\ Len(q) = 2 => q[1] = Head(q) /\ q[2] = 1 - Head(q)
  OBVIOUS
<1>1. 1 - (1 - due) = due /\ 1 - due \in {0, 1}
  OBVIOUS
<1>2. Tail(q) \in Seq({0, 1}) /\ Len(Tail(q)) = Len(q) - 1
  OBVIOUS
<1>3. CASE q = <<1 - due>>
  BY <1>1, <1>2, <1>3, Tuples DEF Alternate, Current
<1>4. CASE q = <<due, 1 - due>>
  BY <1>1, <1>2, <1>4, Tuples DEF Alternate, Current
<1>5. QED
  BY <1>3, <1>4 DEF Alternate

LEMMA LastLevel ==
  \A q \in Seq({0, 1}), due \in {0, 1} :
     Alternate(q, due) /\ Len(q) = 1 => q = <<1 - due>>
<1> SUFFICES ASSUME NEW q \in Seq({0, 1}), NEW due \in {0, 1},
                    Alternate(q, due), Len(q) = 1
             PROVE  q = <<1 - due>>
  OBVIOUS
<1>1. q # <<>>
  OBVIOUS
<1>2. q # <<due, 1 - due>>
  <2>1. SUFFICES ASSUME q = <<due, 1 - due>> PROVE FALSE
    OBVIOUS
  <2>2. Len(<<due, 1 - due>>) = 2
    BY Tuples
  <2>3. QED
    BY <2>1, <2>2
<1>3. QED
  BY <1>1, <1>2 DEF Alternate

LEMMA ChainLengths ==
  \A q, up : Chain(q, up) => Len(q) \in {0, 1, 2} /\ (Len(q) = 0 => q = <<>>)
<1> SUFFICES ASSUME NEW q, NEW up, Chain(q, up)
             PROVE  Len(q) \in {0, 1, 2} /\ (Len(q) = 0 => q = <<>>)
  OBVIOUS
<1>1. CASE q = <<>>
  BY <1>1
<1>2. CASE q # <<>>
  BY <1>2, ChainTail
<1>3. QED
  BY <1>1, <1>2

-----------------------------------------------------------------------------
(* The master's steps.                                                     *)
LEMMA LineTypes ==
  /\ Idle \in Samples /\ Torn \in Samples
  /\ \A v \in Real : v \in Samples
BY Numbers DEF Idle, Torn, Samples, Real, FrameNumbers

LEMMA ChainSecond ==
  \A q, up : Chain(q, up) /\ Len(q) = 2 => q[2] = After(Head(q))
<1> SUFFICES ASSUME NEW q, NEW up, Chain(q, up), Len(q) = 2
             PROVE  q[2] = After(Head(q))
  OBVIOUS
<1>1. ASSUME NEW v \in Real, q = <<v>> PROVE FALSE
  BY <1>1, Tuples
<1>2. ASSUME NEW v \in Real, q = <<v, After(v)>> PROVE q[2] = After(Head(q))
  BY <1>2, Tuples
<1>3. q # <<>>
  OBVIOUS
<1>4. QED
  BY <1>1, <1>2, <1>3 DEF Chain

LEMMA ChainSamples ==
  \A q, up : Chain(q, up) => q \in Seq(Samples)
<1> SUFFICES ASSUME NEW q, NEW up, Chain(q, up) PROVE q \in Seq(Samples)
  OBVIOUS
<1>1. CASE q = <<>>
  BY <1>1
<1>2. ASSUME NEW v \in Real, q = <<v>> PROVE q \in Seq(Samples)
  BY <1>2, LineTypes
<1>3. ASSUME NEW v \in Real, q = <<v, After(v)>> PROVE q \in Seq(Samples)
  <2>1. v \in Samples /\ After(v) \in Samples
    BY LineTypes, AfterFacts
  <2>2. QED
    BY <1>3, <2>1
<1>4. QED
  BY <1>1, <1>2, <1>3 DEF Chain

LEMMA UpcomingFacts ==
  ASSUME Types
  PROVE  /\ Upcoming \in Real /\ Due \in {0, 1}
         /\ mpc = "out_even" => Upcoming = Sample(mframe, 0)
         /\ mpc = "out_odd" => Upcoming = Sample(mframe, 1)
         /\ mpc \in {"in_even", "lr_even"} /\ mrestart = Proceed =>
               Upcoming = Sample(mframe, 1)
         /\ mpc \in {"in_even", "lr_even"} /\ mrestart # Proceed =>
               Upcoming = Sample(Following(mframe), 0)
         /\ mpc \in {"init", "check", "in_odd", "exit"} =>
               Upcoming = Sample(Following(mframe), 0)
<1>1. /\ Following(mframe) \in FrameNumbers /\ mframe \in FrameNumbers
      /\ \A f \in FrameNumbers, c \in {0, 1} : Sample(f, c) \in Real
  BY Numbers DEF Types
<1>2. 0 \in {0, 1} /\ 1 \in {0, 1}
  OBVIOUS
<1>3. Due \in {0, 1}
  BY DEF Due
<1>4. QED
  BY <1>1, <1>2, <1>3 DEF Upcoming

LEMMA AfterSample ==
  \A f : /\ After(Sample(f, 0)) = Sample(f, 1)
         /\ After(Sample(f, 1)) = Sample(Following(f), 0)
BY Numbers DEF After

Kept == Level' = Level /\ ("out" \in mlines => Wire' = Wire)

LEMMA MasterCheckQueues ==
  ASSUME Types, Types', MasterQueues, UNCHANGED lines,
         NEW r \in MasterCommands, MasterCheck(r)
  PROVE  MasterQueues' /\ Kept
<1>1. /\ mpc = "check" /\ mrestart' = r /\ UNCHANGED <<mlr, mdout, mdin, bclk>>
      /\ bclk /\ mheld = 1
      /\ IF r = Proceed THEN MasterSend /\ mheld' = mheld + 1 /\ mpc' = "out_even"
         ELSE mpc' = "in_even" /\ UNCHANGED <<mframe, mheld>>
  BY DEF MasterCheck, MasterQueues
<1>2. Due = 0 /\ Due' = 0 /\ Lead = 0 /\ Lead' = 0
  BY <1>1 DEF Due, Lead
<1>3. "out" \in mlines => Upcoming' = Upcoming
  <2>1. Upcoming = Sample(Following(mframe), 0)
    BY <1>1, UpcomingFacts
  <2>2. CASE r = Proceed
    <3>1. Upcoming' = Sample(mframe', 0) /\ ("out" \in mlines => mframe' = Following(mframe))
      BY <1>1, <2>2 DEF Upcoming, MasterSend
    <3>2. QED
      BY <2>1, <3>1
  <2>3. CASE r # Proceed
    <3>1. Upcoming' = Sample(Following(mframe'), 0) /\ mframe' = mframe
      BY <1>1, <2>3 DEF Upcoming
    <3>2. QED
      BY <2>1, <3>1
  <2>4. QED
    BY <2>2, <2>3
<1>4. Level' = Level /\ ("out" \in mlines => Wire' = Wire)
  BY <1>1, <1>2, <1>3 DEF Level, Wire
<1>5. Chain(mdout', Upcoming')
  <2>1. CASE "out" \in mlines
    BY <1>1, <1>3, <2>1 DEF MasterQueues
  <2>2. CASE "out" \notin mlines
    BY <1>1, <2>2 DEF MasterQueues, Chain
  <2>3. QED
    BY <2>1, <2>2
<1>6. mheld' = IF mrestart' # Proceed THEN 1 ELSE 2
  BY <1>1
<1>7. QED
  BY <1>1, <1>2, <1>4, <1>5, <1>6 DEF MasterQueues, lines, Kept

LEMMA MasterOutEvenQueues ==
  ASSUME Types, Types', MasterQueues, UNCHANGED lines, MasterOutEven
  PROVE  MasterQueues' /\ Kept
<1>1. /\ mpc = "out_even" /\ Len(mdout) < 2 /\ mpc' = "in_even"
      /\ mdout' = IF "out" \in mlines THEN Append(mdout, Upcoming) ELSE mdout
      /\ UNCHANGED <<mrestart, mframe, mlr, mdin, bclk, mheld>>
      /\ mrestart = Proceed /\ bclk
  BY UpcomingFacts DEF MasterOutEven, Room, MasterQueues
<1>2. Due = 0 /\ Due' = 0 /\ Lead = 0 /\ Lead' = 1
  BY <1>1 DEF Due, Lead
<1>3. Upcoming' = After(Upcoming) /\ Upcoming \in Real
  BY <1>1, UpcomingFacts, AfterSample DEF Upcoming
<1>4. Level' = Level
  BY <1>1, <1>2 DEF Level
<1>5. CASE "out" \in mlines
  <2>1. /\ Chain(mdout', Upcoming') /\ Len(mdout') = Len(mdout) + 1
        /\ Wire' = Wire
    BY <1>1, <1>3, <1>5, ChainAppend DEF MasterQueues, Wire
  <2>2. PICK d \in Nat, l \in Nat : d = Len(mdout) /\ l = Len(mlr) /\ d = l + 0 /\ d < 2
    BY <1>1, <1>2, <1>5 DEF MasterQueues
  <2>3. Len(mdout') = l + 1 /\ Len(mdout') <= 2 /\ Len(mlr') = l
    BY <1>1, <2>1, <2>2
  <2>4. QED
    BY <1>1, <1>2, <1>4, <1>5, <2>1, <2>2, <2>3 DEF MasterQueues, lines, Kept
<1>6. CASE "out" \notin mlines
  BY <1>1, <1>2, <1>4, <1>6 DEF MasterQueues, lines, Kept, Chain
<1>7. QED
  BY <1>5, <1>6

LEMMA MasterInEvenQueues ==
  ASSUME Types, Types', MasterQueues, UNCHANGED lines, MasterInEven
  PROVE  MasterQueues' /\ Kept
<1>1. /\ mpc = "in_even" /\ ("in" \in mlines => mdin # <<>>)
      /\ mdin' = <<>> /\ mpc' = "lr_even"
      /\ UNCHANGED <<mrestart, mframe, mlr, mdout, bclk, mheld>> /\ bclk
  BY DEF MasterInEven, MasterQueues
<1>2. Due = 0 /\ Due' = 0 /\ Lead' = Lead
  BY <1>1 DEF Due, Lead
<1>3. Upcoming' = Upcoming
  BY <1>1 DEF Upcoming
<1>4. Level' = Level /\ Wire' = Wire
  BY <1>1, <1>2, <1>3 DEF Level, Wire
<1>5. "in" \in mlines => Len(mlr') + Len(mdin') = 1
  <2>1. SUFFICES ASSUME "in" \in mlines PROVE Len(mlr) + Len(mdin') = 1
    BY <1>1
  <2>2. PICK d \in Nat, l \in Nat :
          d = Len(mdin) /\ l = Len(mlr) /\ d <= 1 /\ d # 0 /\ l + d = 2
    BY <1>1, <2>1 DEF MasterQueues, Types
  <2>3. l = 1 /\ Len(mdin') = 0
    BY <1>1, <2>2
  <2>4. QED
    BY <2>2, <2>3
<1>6. /\ bclk' = (mpc' \notin {"init", "exit"})
      /\ mpc' \notin {"check", "out_even", "out_odd", "in_odd"}
      /\ mheld' = IF mrestart' # Proceed THEN 1 ELSE 2
  BY <1>1 DEF MasterQueues
<1>7. /\ Chain(mdout', Upcoming') /\ Alternate(mlr', Due')
      /\ "out" \in mlines => Len(mdout') = Len(mlr') + Lead' /\ Level' = Wire'.ch
  BY <1>1, <1>2, <1>3, <1>4 DEF MasterQueues
<1>8. Len(mdin') <= 1
  BY <1>1
<1>9. QED
  BY <1>1, <1>4, <1>5, <1>6, <1>7, <1>8 DEF MasterQueues, lines, Kept

LEMMA MasterLrEvenQueues ==
  ASSUME Types, Types', MasterQueues, UNCHANGED lines, MasterLrEven
  PROVE  MasterQueues' /\ Kept
<1>1. /\ mpc = "lr_even" /\ Len(mlr) < 2 /\ mlr' = Append(mlr, 0)
      /\ mpc' = IF mrestart = Proceed THEN "out_odd" ELSE "in_odd"
      /\ UNCHANGED <<mrestart, mframe, mdout, mdin, bclk, mheld>> /\ bclk
  BY DEF MasterLrEven, MasterQueues, Room
<1>2. Due = 0 /\ Due' = 1 /\ Lead' = Lead - 1 /\ Lead \in {0, 1}
  BY <1>1 DEF Due, Lead
<1>3. Upcoming' = Upcoming
  BY <1>1 DEF Upcoming
<1>4. /\ Alternate(mlr', Due') /\ Current(mlr', Due') = Current(mlr, Due)
      /\ mlr' \in Seq({0, 1}) /\ Len(mlr') = Len(mlr) + 1
  <2>1. mlr \in Seq({0, 1}) /\ Alternate(mlr, 0) /\ 0 \in {0, 1} /\ 1 - 0 = 1
    BY <1>1, <1>2 DEF MasterQueues
  <2>2. QED
    BY <1>1, <1>2, <2>1, LevelAppend
<1>5. Level' = Level /\ Wire' = Wire
  BY <1>1, <1>3, <1>4 DEF Level, Wire
<1>6. PICK l \in Nat, d \in Nat, n \in Nat :
        l = Len(mlr) /\ d = Len(mdout) /\ n = Len(mdin) /\ l < 2
  <2>1. Len(mlr) \in Nat /\ Len(mdin) \in Nat
    BY DEF MasterQueues, Types
  <2>2. Len(mdout) \in Nat
    BY Tuples DEF MasterQueues, Chain
  <2>3. QED
    BY <1>1, <2>1, <2>2
<1>7. "out" \in mlines => Len(mdout') = Len(mlr') + Lead'
  BY <1>1, <1>2, <1>4, <1>6 DEF MasterQueues
<1>8. "in" \in mlines => Len(mlr') + Len(mdin') = 2
  BY <1>1, <1>4, <1>6 DEF MasterQueues
<1>9. Len(mlr') <= 2
  BY <1>4, <1>6
<1>10. ~(mpc' = "in_odd" /\ mrestart' = Proceed) /\ mpc' # "lr_even"
  BY <1>1
<1>11. mheld' = (IF mrestart' # Proceed THEN 1 ELSE 2) /\ mpc' \notin {"init", "exit", "check", "out_even"}
       /\ (mpc' = "out_odd" => mrestart' = Proceed)
  BY <1>1 DEF MasterQueues
<1>12. QED
  BY <1>1, <1>3, <1>4, <1>5, <1>7, <1>8, <1>9, <1>10, <1>11
  DEF MasterQueues, lines, Kept

LEMMA MasterOutOddQueues ==
  ASSUME Types, Types', MasterQueues, UNCHANGED lines, MasterOutOdd
  PROVE  MasterQueues' /\ Kept
<1>1. /\ mpc = "out_odd" /\ Len(mlr) < 2 /\ Len(mdout) < 2 /\ mlr' = Append(mlr, 1)
      /\ mdout' = IF "out" \in mlines THEN Append(mdout, Upcoming) ELSE mdout
      /\ mpc' = "in_odd" /\ mrestart = Proceed
      /\ UNCHANGED <<mrestart, mframe, mdin, bclk, mheld>> /\ bclk
  BY UpcomingFacts DEF MasterOutOdd, MasterQueues, Room
<1>2. Due = 1 /\ Due' = 0 /\ Lead' = 0 /\ Lead = 0
  BY <1>1 DEF Due, Lead
<1>3. Upcoming' = After(Upcoming) /\ Upcoming \in Real
  BY <1>1, UpcomingFacts, AfterSample DEF Upcoming
<1>4. /\ Alternate(mlr', Due') /\ Current(mlr', Due') = Current(mlr, Due)
      /\ mlr' \in Seq({0, 1}) /\ Len(mlr') = Len(mlr) + 1
  <2>1. mlr \in Seq({0, 1}) /\ Alternate(mlr, 1) /\ 1 \in {0, 1} /\ 1 - 1 = 0
    BY <1>1, <1>2 DEF MasterQueues
  <2>2. QED
    BY <1>1, <1>2, <2>1, LevelAppend
<1>5. Level' = Level
  BY <1>1, <1>4 DEF Level
<1>6. PICK l \in Nat, n \in Nat : l = Len(mlr) /\ n = Len(mdin) /\ l < 2
  BY <1>1 DEF MasterQueues, Types
<1>7. CASE "out" \in mlines
  <2>1. /\ Chain(mdout', Upcoming') /\ Len(mdout') = Len(mdout) + 1
        /\ Wire' = Wire
    BY <1>1, <1>3, <1>7, ChainAppend DEF MasterQueues, Wire
  <2>2. Len(mdout) = l
    BY <1>1, <1>2, <1>6, <1>7 DEF MasterQueues
  <2>3. Len(mdout') = Len(mlr') /\ Len(mdout') <= 2 /\ Len(mlr') <= 2
    BY <1>4, <1>6, <2>1, <2>2
  <2>4. "in" \in mlines => Len(mlr') + Len(mdin') = 3
    BY <1>1, <1>4, <1>6 DEF MasterQueues
  <2>5. Len(mdout') = Len(mlr') + Lead'
    BY <1>2, <1>4, <1>6, <2>3
  <2>6. Level' = Wire'.ch /\ mheld' = 2
    BY <1>1, <1>5, <1>7, <2>1 DEF MasterQueues
  <2>7. QED
    BY <1>1, <1>4, <1>5, <1>7, <2>1, <2>3, <2>4, <2>5, <2>6 DEF MasterQueues, lines, Kept
<1>8. CASE "out" \notin mlines
  <2>1. "in" \in mlines => Len(mlr') + Len(mdin') = 3
    BY <1>1, <1>4, <1>6 DEF MasterQueues
  <2>2. Len(mlr') <= 2
    BY <1>4, <1>6
  <2>3. QED
    BY <1>1, <1>2, <1>4, <1>5, <1>8, <2>1, <2>2 DEF MasterQueues, lines, Kept, Chain
<1>9. QED
  BY <1>7, <1>8

LEMMA MasterInOddQueues ==
  ASSUME Types, Types', MasterQueues, UNCHANGED lines, MasterInOdd
  PROVE  /\ MasterQueues' /\ Kept
         /\ mrestart # Proceed => Level = 0 /\ mdout = <<>>
<1>1. /\ mpc = "in_odd" /\ ("in" \in mlines => mdin # <<>>)
      /\ mrestart # Proceed /\ "in" \notin mlines => mdout = <<>>
      /\ mdin' = <<>> /\ mheld' = mheld - 1 /\ bclk' = (mrestart = Proceed)
      /\ UNCHANGED <<mrestart, mframe, mlr, mdout>> /\ bclk
      /\ mheld = IF mrestart # Proceed THEN 1 ELSE 2
      /\ mrestart = Proceed => mpc' = "check"
      /\ mrestart # Proceed => mpc' \in {"init", "exit"}
  BY DEF MasterInOdd, MasterQueues, Types, Commands, Proceed
<1>2. Upcoming' = Upcoming
  BY <1>1 DEF Upcoming
<1>3. PICK l \in Nat, n \in Nat :
        /\ l = Len(mlr) /\ n = Len(mdin) /\ l <= 2 /\ n <= 1
        /\ "in" \in mlines => n = 1
        /\ "in" \in mlines => l + n = IF mrestart = Proceed THEN 3 ELSE 2
  <2>1. Len(mlr) \in Nat /\ Len(mdin) \in Nat /\ Len(mlr) <= 2 /\ Len(mdin) <= 1
    BY DEF MasterQueues, Types
  <2>2. "in" \in mlines => Len(mdin) # 0
    BY <1>1 DEF Types
  <2>3. "in" \in mlines => Len(mlr) + Len(mdin) = IF mrestart = Proceed THEN 3 ELSE 2
    BY <1>1 DEF MasterQueues
  <2>4. QED
    BY <2>1, <2>2, <2>3
<1>4. Len(mdin') = 0
  BY <1>1
<1>5. CASE mrestart = Proceed
  <2>a. mpc' = "check" /\ bclk' /\ mrestart' = Proceed /\ mheld = 2 /\ mheld' = mheld - 1
    BY <1>1, <1>5
  <2>b. mheld' = 1
    BY <2>a
  <2>c. Due = 0 /\ Due' = 0
    BY <1>1, <1>5, <2>a DEF Due
  <2>d. Lead = 0 /\ Lead' = 0
    BY <1>1, <1>5, <2>a DEF Lead
  <2>1. mpc' = "check" /\ bclk' /\ mheld' = 1 /\ Due = 0 /\ Due' = 0 /\ Lead = 0 /\ Lead' = 0
    BY <2>a, <2>b, <2>c, <2>d
  <2>2. Level' = Level /\ Wire' = Wire
    BY <1>1, <1>2, <2>1 DEF Level, Wire
  <2>3. "in" \in mlines => Len(mlr') + Len(mdin') = 2
    BY <1>1, <1>3, <1>4, <1>5
  <2>4. QED
    BY <1>1, <1>2, <1>4, <1>5, <2>1, <2>2, <2>3 DEF MasterQueues, lines, Kept
<1>6. CASE mrestart # Proceed
  <2>a. mpc' \in {"init", "exit"} /\ ~bclk' /\ mheld = 1 /\ mheld' = mheld - 1
    BY <1>1, <1>6
  <2>b. mheld' = 0
    BY <2>a
  <2>c. Due = 1
    BY <1>1, <1>6 DEF Due
  <2>d. Lead = -1
    BY <1>1, <1>6 DEF Lead
  <2>1. mpc' \in {"init", "exit"} /\ ~bclk' /\ mheld' = 0 /\ Due = 1 /\ Lead = -1
    BY <2>a, <2>b, <2>c, <2>d
  <2>2. Chain(mdout, Upcoming) /\ Alternate(mlr, 1) /\ mlr \in Seq({0, 1})
    BY <1>1, <2>1 DEF MasterQueues
  <2>3. "out" \in mlines => Len(mdout) = l - 1
    BY <1>1, <1>3, <2>1 DEF MasterQueues
  <2>4. mdout = <<>>
    <3>1. CASE "in" \in mlines
      <4>1. CASE "out" \in mlines
        <5>1. l - 1 = 0
          <6>1. l + n = 2 /\ n = 1
            BY <1>3, <1>6, <3>1
          <6>2. QED
            BY ONLY <6>1, l \in Nat, n \in Nat
        <5>2. Len(mdout) = 0
          BY <2>3, <4>1, <5>1
        <5>3. QED
          BY <2>2, <5>2, ChainLengths
      <4>2. CASE "out" \notin mlines
        BY <4>2 DEF MasterQueues
      <4>3. QED
        BY <4>1, <4>2
    <3>2. CASE "in" \notin mlines
      BY <1>1, <1>6, <3>2
    <3>3. QED
      BY <3>1, <3>2
  <2>5. l = 1
    <3>1. CASE "in" \in mlines
      BY <1>3, <1>6, <3>1
    <3>2. CASE "in" \notin mlines
      <4>1. "out" \in mlines
        BY <3>2 DEF Types
      <4>2. l - 1 = 0
        <5>1. Len(mdout) = 0
          BY <2>4
        <5>2. QED
          BY <2>3, <4>1, <5>1
      <4>3. QED
        BY ONLY <4>2, l \in Nat
    <3>3. QED
      BY <3>1, <3>2
  <2>6. Level = 0
    <3>1. mlr = <<0>>
      <4>1. Len(mlr) = 1 /\ 1 - 1 = 0 /\ 1 \in {0, 1}
        BY <1>3, <2>5
      <4>2. mlr = <<1 - 1>>
        BY <2>2, <4>1, LastLevel
      <4>3. QED
        BY <4>1, <4>2
    <3>2. QED
      BY <1>1, <3>1, Tuples DEF Level, Current
  <2>7. Level' = 0 /\ Wire' = Wire
    BY <1>1, <1>2, <2>1 DEF Level, Wire
  <2>8. Chain(mdout', Upcoming')
    BY <1>1, <1>2, <2>2
  <2>9. QED
    BY <1>1, <1>2, <1>4, <1>6, <2>1, <2>4, <2>6, <2>7, <2>8 DEF MasterQueues, lines, Kept
<1>7. QED
  BY <1>5, <1>6

LEMMA MasterStartQueues ==
  ASSUME Types, Types', MasterQueues, UNCHANGED lines, MasterStart
  PROVE  MasterQueues' /\ Kept /\ Level' = 0 /\ mlr' = <<0, 1>>
<1>1. /\ mpc = "init" /\ mpc' = "check" /\ mlr' = <<0, 1>> /\ mdin' = <<>> /\ mheld' = 1
      /\ bclk' = TRUE /\ bclk = FALSE /\ mdout = <<>>
      /\ mdout' = IF "out" \in mlines
                  THEN <<Sample(mframe', 0), Sample(mframe', 1)>> ELSE <<>>
      /\ "out" \in mlines => mframe' = Following(mframe)
  BY DEF MasterStart, MasterSend, MasterQueues
<1>2. Due' = 0 /\ Lead' = 0
  BY <1>1 DEF Due, Lead
<1>3. /\ mlr' \in Seq({0, 1}) /\ Len(mlr') = 2 /\ Current(mlr', 0) = 0
      /\ Alternate(mlr', 0)
  <2>1. 1 - 0 = 1
    OBVIOUS
  <2>2. QED
    BY <1>1, <2>1, Tuples DEF Current, Alternate
<1>4. Level = 0 /\ Level' = 0
  BY <1>1, <1>2, <1>3 DEF Level
<1>5. Len(mdin') = 0
  BY <1>1
<1>6. "out" \in mlines =>
        /\ Chain(mdout', Upcoming') /\ Len(mdout') = 2
        /\ Wire' = Sample(mframe', 0) /\ Wire = Sample(Following(mframe), 0)
  <2>1. SUFFICES ASSUME "out" \in mlines
                 PROVE  /\ Chain(mdout', Upcoming') /\ Len(mdout') = 2
                        /\ Wire' = Sample(mframe', 0)
                        /\ Wire = Sample(Following(mframe), 0)
    OBVIOUS
  <2>2. PICK v : v = Sample(mframe', 0)
    OBVIOUS
  <2>3. v \in Real /\ After(v) = Sample(mframe', 1)
    BY <2>2, Numbers, AfterSample DEF Types
  <2>4. mdout' = <<v, After(v)>>
    BY <1>1, <2>1, <2>2, <2>3
  <2>5. Upcoming' = After(After(v))
    <3>1. Upcoming' = Sample(Following(mframe'), 0)
      BY <1>1 DEF Upcoming
    <3>2. QED
      BY <2>3, <3>1, AfterSample
  <2>6. Wire = Sample(Following(mframe), 0)
    BY <1>1, UpcomingFacts DEF Wire, Current
  <2>7. QED
    BY <2>2, <2>3, <2>4, <2>5, <2>6, Tuples DEF Chain, Wire, Current
<1>7. "out" \notin mlines => Chain(mdout', Upcoming') /\ mdout' = <<>> /\ Len(mdout') = 0
  BY <1>1 DEF Chain
<1>8. "out" \in mlines =>
        /\ Wire' = Wire /\ Level' = Wire'.ch /\ Len(mdout') = Len(mlr') + Lead'
  <2>1. SUFFICES ASSUME "out" \in mlines
                 PROVE  /\ Wire' = Wire /\ Level' = Wire'.ch
                        /\ Len(mdout') = Len(mlr') + Lead'
    OBVIOUS
  <2>2. QED
    <3>1. Wire' = Wire
      BY <1>1, <1>6, <2>1
    <3>2. Wire'.ch = 0
      BY <1>6, <2>1, Numbers
    <3>3. QED
      BY <1>2, <1>3, <1>4, <1>6, <2>1, <3>1, <3>2
<1>9. mlines' = mlines /\ Len(mlr') <= 2 /\ Len(mdout') <= 2 /\ Len(mdin') <= 1
  <2>1. Len(mdout') = 0 \/ Len(mdout') = 2
    BY <1>6, <1>7
  <2>2. Len(mdout') <= 2
    <3>1. PICK d : d = Len(mdout')
      OBVIOUS
    <3>2. d \in Nat /\ d <= 2
      BY <2>1, <3>1
    <3>3. QED
      BY <3>1, <3>2
  <2>3. Len(mlr') <= 2 /\ Len(mdin') <= 1
    BY <1>3, <1>5
  <2>4. mlines' = mlines
    BY DEF lines
  <2>5. QED
    BY <2>2, <2>3, <2>4
<1>10. /\ bclk' = (mpc' \notin {"init", "exit"})
       /\ mpc' \in {"out_even", "out_odd"} => mrestart' = Proceed
       /\ mheld' = IF ~bclk' THEN 0 ELSE IF mpc' = "check" \/ mrestart' # Proceed
                                        THEN 1 ELSE 2
  BY <1>1
<1>11. /\ Alternate(mlr', Due')
       /\ ~bclk' => mdout' = <<>>
       /\ "out" \notin mlines' => mdout' = <<>>
       /\ Chain(mdout', Upcoming')
       /\ "out" \in mlines' => Len(mdout') = Len(mlr') + Lead' /\ Level' = Wire'.ch
  BY <1>1, <1>2, <1>3, <1>6, <1>7, <1>8, <1>9
<1>12. "in" \in mlines' =>
          Len(mlr') + Len(mdin') = IF mpc' = "lr_even" THEN 1
             ELSE IF mpc' = "in_odd" /\ mrestart' = Proceed THEN 3 ELSE 2
  BY <1>1, <1>3, <1>5
<1>13. MasterQueues'
  BY <1>1, <1>3, <1>9, <1>10, <1>11, <1>12 DEF MasterQueues
<1>14. Kept
  BY <1>4, <1>7, <1>8 DEF Kept
<1>15. QED
  BY <1>1, <1>4, <1>13, <1>14

(* A word passes.                                                          *)
Passes ==
    /\ bclk /\ InTime /\ mlr' = Tail(mlr) /\ mdout' = Taken(mdout)
    /\ UNCHANGED <<mpc, mrestart, mframe, bclk, mgot, mheld, mlast>>

LEMMA WirePasses ==
  ASSUME Types, MasterQueues, UNCHANGED lines, Passes, NEW x,
         mdin' = IF "in" \in mlines THEN <<x>> ELSE <<>>
  PROVE  /\ MasterQueues' /\ Head(mlr) = Level /\ Level' = 1 - Level /\ Level \in {0, 1}
         /\ mdout = <<>> <=> "out" \notin mlines
         /\ "out" \in mlines =>
               /\ mdout # <<>> /\ Head(mdout) = Wire /\ Wire \in Real
               /\ Wire' = After(Wire) /\ Wire.ch = Level
<1>1. /\ bclk /\ mlr # <<>> /\ ("out" \in mlines => mdout # <<>>) /\ mdin = <<>>
      /\ mlr' = Tail(mlr) /\ mdout' = IF mdout = <<>> THEN <<>> ELSE Tail(mdout)
      /\ UNCHANGED <<mpc, mrestart, mframe, bclk, mheld, mlines>>
  BY DEF Passes, InTime, Taken, lines
<1>2. Due' = Due /\ Upcoming' = Upcoming /\ Lead' = Lead /\ Due \in {0, 1}
      /\ Lead \in {-1, 0, 1}
  BY <1>1 DEF Due, Upcoming, Lead
<1>3. /\ Head(mlr) = Current(mlr, Due) /\ Head(mlr) \in {0, 1}
      /\ Alternate(Tail(mlr), Due) /\ Current(Tail(mlr), Due) = 1 - Head(mlr)
      /\ Tail(mlr) \in Seq({0, 1}) /\ Len(Tail(mlr)) = Len(mlr) - 1
  BY <1>1, <1>2, LevelTail DEF MasterQueues
<1>4. Head(mlr) = Level /\ Level' = 1 - Level /\ Level \in {0, 1}
  BY <1>1, <1>2, <1>3 DEF Level
<1>5. PICK l \in Nat : l = Len(mlr) /\ l >= 1 /\ l <= 2
  BY <1>1 DEF MasterQueues
<1>6. Len(mlr') = l - 1 /\ Len(mlr') <= 2
  BY <1>1, <1>3, <1>5
<1>7. /\ Len(mdin) = 0 /\ Len(mdin') <= 1 /\ ("in" \in mlines => Len(mdin') = 1)
      /\ "in" \notin mlines => mdin' = <<>>
  BY <1>1, Tuples
<1>8. "in" \in mlines => Len(mlr') + Len(mdin') = Len(mlr) + Len(mdin)
  BY <1>5, <1>6, <1>7
<1>9. "out" \in mlines =>
        /\ mdout # <<>> /\ Head(mdout) = Wire /\ Wire \in Real
        /\ Chain(mdout', Upcoming') /\ Wire' = After(Wire) /\ Wire.ch = Level
        /\ Level' = Wire'.ch /\ Len(mdout') = Len(mlr') + Lead' /\ Len(mdout') <= 2
  <2>1. SUFFICES ASSUME "out" \in mlines
                 PROVE  /\ mdout # <<>> /\ Head(mdout) = Wire /\ Wire \in Real
                        /\ Chain(mdout', Upcoming') /\ Wire' = After(Wire)
                        /\ Wire.ch = Level /\ Level' = Wire'.ch
                        /\ Len(mdout') = Len(mlr') + Lead' /\ Len(mdout') <= 2
    OBVIOUS
  <2>2. /\ mdout # <<>> /\ Head(mdout) = Wire /\ Wire \in Real
        /\ Chain(mdout', Upcoming') /\ Wire' = After(Wire)
        /\ Len(mdout') = Len(mdout) - 1 /\ Len(mdout) \in {1, 2}
    BY <1>1, <1>2, <2>1, ChainTail DEF MasterQueues, Wire
  <2>3. Level = Wire.ch /\ Len(mdout) = l + Lead
    BY <1>1, <1>5, <2>1 DEF MasterQueues
  <2>4. Level' = Wire'.ch
    BY <1>4, <2>2, <2>3, AfterFacts
  <2>5. Len(mdout') = Len(mlr') + Lead' /\ Len(mdout') <= 2
    BY <1>2, <1>6, <2>2, <2>3
  <2>6. QED
    BY <2>2, <2>3, <2>4, <2>5
<1>10. "out" \notin mlines =>
         mdout = <<>> /\ mdout' = <<>> /\ Chain(mdout', Upcoming') /\ Len(mdout') = 0
  BY <1>1 DEF MasterQueues, Chain
<1>11. /\ bclk' = (mpc' \notin {"init", "exit"})
       /\ mpc' \in {"out_even", "out_odd"} => mrestart' = Proceed
       /\ mheld' = IF ~bclk' THEN 0 ELSE IF mpc' = "check" \/ mrestart' # Proceed
                                        THEN 1 ELSE 2
       /\ bclk' /\ mlines' = mlines
  BY <1>1 DEF MasterQueues
<1>12. /\ mlr' \in Seq({0, 1}) /\ Alternate(mlr', Due')
       /\ Chain(mdout', Upcoming') /\ Len(mdout') <= 2
  <2>1. "out" \notin mlines => Len(mdout') <= 2
    BY <1>10
  <2>2. QED
    BY <1>1, <1>2, <1>3, <1>9, <1>10, <2>1
<1>13. "in" \in mlines' =>
          Len(mlr') + Len(mdin') = IF mpc' = "lr_even" THEN 1
             ELSE IF mpc' = "in_odd" /\ mrestart' = Proceed THEN 3 ELSE 2
  BY <1>1, <1>8 DEF MasterQueues
<1>14. MasterQueues'
  BY <1>6, <1>7, <1>9, <1>10, <1>11, <1>12, <1>13 DEF MasterQueues
<1>15. QED
  BY <1>4, <1>9, <1>10, <1>14

-----------------------------------------------------------------------------
(* The types.                                                              *)
LEMMA SendTypes ==
  ASSUME Types
  PROVE  /\ MasterSend => mframe' \in FrameNumbers
         /\ SlaveSend => sframe' \in FrameNumbers
BY Numbers DEF Types, MasterSend, SlaveSend

LEMMA Quiet == <<>> \in Seq(Samples) /\ Len(<<>>) = 0
OBVIOUS

LEMMA Queued ==
  \A q \in Seq(Samples), x \in Samples :
     Len(q) < 2 => Append(q, x) \in Seq(Samples) /\ Len(Append(q, x)) <= 2
OBVIOUS

(* What a word brings to a task of the given lines.                        *)
LEMMA Brought ==
  \A of : \A x \in Samples :
      Captured(of, x) \in Seq(Samples) /\ Len(Captured(of, x)) <= 1
BY DEF Captured

LEMMA TakenFacts ==
  \A q \in Seq(Samples) :
      /\ Taken(q) \in Seq(Samples) /\ Len(Taken(q)) <= Len(q)
      /\ q # <<>> => Head(q) \in Samples
BY DEF Taken

(* The clock starts under a slave.                                         *)
Restarted == Resumed \/ (grid' = "frames" /\ UNCHANGED slave)

LEMMA RestartTypes ==
  ASSUME Types, Restarted
  PROVE  /\ grid' \in {"frames", "words", "bits"}
         /\ UNCHANGED <<spc, srestart, sframe, syncerror, wait, sgot, slast>>
         /\ sdout' \in Seq(Samples) /\ sdin' \in Seq(Samples)
         /\ SlavePorts => SlavePorts'
<1>1. CASE UNCHANGED slave
  BY <1>1 DEF Restarted, Resumed, Types, SlavePorts, slave
<1>2. CASE /\ slr' = <<0>> /\ sdout' = Taken(sdout) /\ sdin' = Captured(slines, Idle)
           /\ grid' = "words"
           /\ UNCHANGED <<spc, srestart, sframe, syncerror, wait, sgot, slast>>
  <2>1. sdin' \in Seq(Samples) /\ Len(sdin') <= 1
    BY <1>2, Brought, LineTypes
  <2>2. sdout' \in Seq(Samples) /\ Len(sdout') <= Len(sdout)
    BY <1>2, TakenFacts DEF Types
  <2>3. Len(sdout) <= 2 => Len(sdout') <= 2
    BY <2>2 DEF Types
  <2>4. QED
    BY <1>2, <2>1, <2>2, <2>3 DEF SlavePorts
<1>3. QED
  BY <1>1, <1>2 DEF Restarted, Resumed

LEMMA MasterTypes ==
  ASSUME Types, MasterStep, UNCHANGED lines
  PROVE  Types'
<1>1. mlines' = mlines /\ slines' = slines
  BY DEF lines
<1>2. CASE MasterStart
  <2>1. mframe' \in FrameNumbers
    BY <1>2, SendTypes DEF MasterStart
  <2>2. Restarted /\ cut' \in BOOLEAN
    BY <1>2 DEF MasterStart, Restarted
  <2>3. QED
    BY <1>1, <1>2, <2>1, <2>2, RestartTypes, Quiet DEF MasterStart, Types, NoFrame
<1>3. ASSUME NEW r \in MasterCommands, MasterCheck(r) PROVE Types'
  <2>1. mframe' \in FrameNumbers
    BY <1>3, SendTypes DEF MasterCheck, Types
  <2>2. r \in Commands
    BY I2sAssumption
  <2>3. QED
    BY <1>1, <1>3, <2>1, <2>2 DEF MasterCheck, Types, slave, Places
<1>4. CASE MasterOutEven
  BY <1>1, <1>4 DEF MasterOutEven, Types, slave
<1>5. CASE MasterInEven
  BY <1>1, <1>5, Quiet DEF MasterInEven, Types, slave
<1>6. CASE MasterLrEven
  BY <1>1, <1>6 DEF MasterLrEven, Types, slave
<1>7. CASE MasterOutOdd
  BY <1>1, <1>7 DEF MasterOutOdd, Types, slave
<1>8. CASE MasterInOdd
  <2>1. mpc' \in {"init", "check", "exit"} /\ bclk' \in BOOLEAN
    BY <1>8 DEF MasterInOdd, Types, Commands, Proceed
  <2>2. /\ spc' \in {spc, "arm"} /\ wait' \in {wait, 1}
        /\ UNCHANGED <<srestart, sframe, sdout, sdin, syncerror, sgot>>
    BY <1>8 DEF MasterInOdd, slave
  <2>3. QED
    BY <1>1, <1>8, <2>1, <2>2, Quiet DEF MasterInOdd, Types, NoFrame, Places
<1>9. QED
  BY <1>2, <1>3, <1>4, <1>5, <1>6, <1>7, <1>8 DEF MasterStep

LEMMA SlaveTypes ==
  ASSUME Types, SlavePorts, SlaveStep, UNCHANGED lines
  PROVE  Types' /\ SlavePorts'
<1>1. mlines' = mlines /\ slines' = slines
  BY DEF lines
<1>2. CASE SlaveStart
  <2>1. sframe' \in FrameNumbers
    BY <1>2, SendTypes DEF SlaveStart
  <2>2. SlavePorts'
    BY <1>2, Quiet DEF SlaveStart, SlavePorts
  <2>3. /\ UNCHANGED <<mpc, mrestart, mframe, bclk, mdin, mgot, grid, cut>>
        /\ spc' = "high" /\ srestart' \in Commands /\ syncerror' = FALSE /\ wait' = 0
        /\ sdout' = <<>> /\ sdin' = <<>> /\ sgot' = <<>>
    BY <1>2 DEF SlaveStart, master, NoFrame, Commands, Proceed
  <2>4. QED
    BY <1>1, <2>1, <2>2, <2>3, Quiet DEF Types
<1>3. CASE SlaveArm
  <2>1. Sample(sframe, 0) \in Samples /\ Sample(sframe, 1) \in Samples
    BY LineTypes, Numbers DEF Types
  <2>2. sdout' \in Seq(Samples) /\ Len(sdout') <= 2
    BY <1>3, <2>1 DEF SlaveArm
  <2>3. QED
    BY <1>1, <1>3, <2>2 DEF SlaveArm, Types, SlavePorts, master, Places
<1>4. ASSUME NEW r \in SlaveCommands, SlaveCheck(r) PROVE Types' /\ SlavePorts'
  <2>1. sframe' \in FrameNumbers
    BY <1>4, SendTypes DEF SlaveCheck, Types
  <2>2. r \in Commands
    BY I2sAssumption
  <2>3. QED
    BY <1>1, <1>4, <2>1, <2>2 DEF SlaveCheck, Types, SlavePorts, master, Places
<1>5. CASE SlaveOutEven
  <2>1. Sample(sframe, 0) \in Samples
    BY LineTypes, Numbers DEF Types
  <2>2. sdout' \in Seq(Samples) /\ Len(sdout') <= 2
    BY <1>5, <2>1 DEF SlaveOutEven, Types, SlavePorts, Room
  <2>3. QED
    BY <1>1, <1>5, <2>2 DEF SlaveOutEven, Types, SlavePorts, master, Places
<1>6. CASE SlaveEven
  <2>1. syncerror' \in BOOLEAN
    BY <1>6 DEF SlaveEven, Types, Unexpected
  <2>2. QED
    BY <1>1, <1>6, <2>1, Quiet DEF SlaveEven, Types, SlavePorts, master, Places
<1>7. CASE SlaveOdd
  <2>1. Sample(sframe, 1) \in Samples
    BY LineTypes, Numbers DEF Types
  <2>2. sdout' \in Seq(Samples) /\ Len(sdout') <= 2
    <3>1. \/ sdout' = sdout
          \/ Len(sdout) < 2 /\ sdout' = Append(sdout, Sample(sframe, 1))
      BY <1>7 DEF SlaveOdd, Room
    <3>2. QED
      BY <2>1, <3>1, Queued DEF Types, SlavePorts
  <2>3. syncerror' \in BOOLEAN /\ spc' \in {"init", "check"}
    BY <1>7 DEF SlaveOdd, Types, Unexpected
  <2>4. QED
    BY <1>1, <1>7, <2>2, <2>3, Quiet DEF SlaveOdd, Types, SlavePorts, master, Places, NoFrame
<1>8. QED
  BY <1>2, <1>3, <1>4, <1>5, <1>6, <1>7 DEF SlaveStep

LEMMA WordTypes ==
  ASSUME Types, SlavePorts, MasterQueues, Slot \/ SlotEdge, UNCHANGED lines
  PROVE  Types' /\ SlavePorts'
<1>1. mlines' = mlines /\ slines' = slines
  BY DEF lines
<1>2. bclk /\ InTime
  BY DEF Slot, SlotEdge
<1>3. /\ mlr \in Seq({0, 1}) /\ mlr # <<>> /\ Head(mlr) \in {0, 1}
  BY <1>2 DEF MasterQueues, InTime
<1>4. mdout \in Seq(Samples)
  BY ChainSamples DEF MasterQueues
<1>5. PICK x \in Samples : Slot \/ SlotEdge => mdin' = Captured(mlines, x)
  BY LineTypes, TakenFacts DEF Types, Slot, SlotEdge
<1>6. mdin' \in Seq(Samples)
  BY <1>5, Brought
<1>7. wait' \in {0, 1}
  BY DEF Types, Slot, SlotEdge
<1>8. CASE Slot
  <2>1. /\ spc' \in {spc, "low"} /\ grid' = grid /\ cut' = cut
        /\ UNCHANGED <<mpc, mrestart, mframe, bclk, mgot, srestart, sframe, syncerror, sgot>>
    BY <1>8 DEF Slot
  <2>2. /\ sdout' \in Seq(Samples) /\ Len(sdout') <= 2
    <3>1. sdout' \in {sdout, Taken(sdout)}
      BY <1>8 DEF Slot
    <3>2. Taken(sdout) \in Seq(Samples) /\ Len(Taken(sdout)) <= Len(sdout)
      BY TakenFacts DEF Types
    <3>3. QED
      BY <3>1, <3>2 DEF Types, SlavePorts
  <2>3. slr' \in {<<>>, <<0>>, <<1>>, <<2>>}
    <3>1. slr' = slr \/ slr' = <<Head(mlr)>> \/ slr' = <<2>>
      BY <1>8 DEF Slot
    <3>2. QED
      BY <1>3, <3>1 DEF SlavePorts
  <2>4. sdin' \in Seq(Samples) /\ Len(sdin') <= 1
    <3>1. CASE Active
      <4>1. PICK y \in Samples : sdin' = Captured(slines, y)
        BY <1>4, <1>8, <3>1, LineTypes, TakenFacts DEF Slot
      <4>2. QED
        BY <4>1, Brought
    <3>2. CASE ~Active
      BY <1>8, <3>2 DEF Slot, Types, SlavePorts
    <3>3. QED
      BY <3>1, <3>2
  <2>5. QED
    BY <1>1, <1>6, <1>7, <2>1, <2>2, <2>3, <2>4 DEF Types, SlavePorts
<1>9. CASE SlotEdge
  BY <1>1, <1>6, <1>7, <1>9 DEF SlotEdge, Types, SlavePorts
<1>10. QED
  BY <1>8, <1>9

-----------------------------------------------------------------------------
(* The queues, at every step.                                              *)
Queues == Types /\ SlavePorts /\ MasterQueues

LEMMA QueuesInit ==
  ASSUME Init
  PROVE  Queues
<1>1. Types /\ SlavePorts
  <2>1. 0 \in FrameNumbers
    BY Numbers DEF FrameNumbers
  <2>2. SlavePorts
    BY Quiet DEF Init, SlavePorts
  <2>3. /\ mlines \subseteq {"in", "out"} /\ slines \subseteq {"in", "out"}
        /\ mlines # {} /\ slines # {}
    BY DEF Init
  <2>4. QED
    BY <2>1, <2>2, <2>3, Quiet DEF Init, Types, NoFrame, Commands, Proceed
<1>2. /\ bclk = FALSE /\ mpc = "init" /\ mheld = 0 /\ mlr = <<>> /\ mdout = <<>>
      /\ mdin = <<>>
  BY DEF Init
<1>3. mlr \in Seq({0, 1}) /\ Len(mlr) <= 2 /\ Len(mdout) <= 2 /\ Len(mdin) <= 1
  BY <1>2
<1>4. QED
  BY <1>1, <1>2, <1>3 DEF Queues, MasterQueues, Chain

LEMMA Still ==
  ASSUME Queues, UNCHANGED <<master, lines>>
  PROVE  MasterQueues' /\ Kept
BY DEF Queues, MasterQueues, master, lines, Kept, Due, Level, Upcoming, Wire, Lead

(* A step of the master leaves the level and the sample that are next on   *)
(* the wire, also the one that stops the clock and the one that starts it. *)
LEMMA MasterStepQueues ==
  ASSUME Queues, MasterStep, UNCHANGED lines
  PROVE  Queues' /\ Kept
<1>1. Types /\ MasterQueues
  BY DEF Queues
<1>2. Types'
  BY <1>1, MasterTypes
<1>3. SlavePorts'
  <2>1. CASE MasterStart
    <3>1. Restarted
      BY <2>1 DEF MasterStart, Restarted
    <3>2. QED
      BY <1>1, <3>1, RestartTypes DEF Queues
  <2>2. CASE ~MasterStart
    BY <2>2 DEF Queues, SlavePorts, MasterStep, MasterCheck, MasterOutEven,
         MasterInEven, MasterLrEven, MasterOutOdd, MasterInOdd, slave
  <2>3. QED
    BY <2>1, <2>2
<1>4. MasterQueues' /\ Kept
  BY <1>1, <1>2, MasterStartQueues, MasterCheckQueues, MasterOutEvenQueues,
     MasterInEvenQueues, MasterLrEvenQueues, MasterOutOddQueues, MasterInOddQueues
  DEF MasterStep
<1>5. QED
  BY <1>2, <1>3, <1>4 DEF Queues

LEMMA WordQueues ==
  ASSUME Queues, Slot \/ SlotEdge, UNCHANGED lines
  PROVE  /\ Queues' /\ Head(mlr) = Level /\ Level' = 1 - Level /\ Level \in {0, 1}
         /\ mdout = <<>> <=> "out" \notin mlines
         /\ "out" \in mlines =>
               /\ mdout # <<>> /\ Head(mdout) = Wire /\ Wire \in Real
               /\ Wire' = After(Wire) /\ Wire.ch = Level
<1>1. Types /\ SlavePorts /\ MasterQueues
  BY DEF Queues
<1>2. Types' /\ SlavePorts'
  BY <1>1, WordTypes
<1>3. Passes
  BY DEF Passes, Slot, SlotEdge
<1>4. PICK x : mdin' = IF "in" \in mlines THEN <<x>> ELSE <<>>
  BY DEF Slot, SlotEdge, Captured
<1>5. QED
  BY <1>1, <1>2, <1>3, <1>4, WirePasses DEF Queues

LEMMA QueuesStep ==
  ASSUME Queues, [Next]_vars
  PROVE  Queues'
<1>1. CASE MasterStep /\ UNCHANGED lines
  BY <1>1, MasterStepQueues
<1>2. CASE SlaveStep /\ UNCHANGED lines
  <2>1. Types' /\ SlavePorts'
    BY <1>2, SlaveTypes DEF Queues
  <2>2. UNCHANGED master
    BY <1>2 DEF SlaveStep, SlaveStart, SlaveArm, SlaveCheck, SlaveOutEven, SlaveEven,
                SlaveOdd
  <2>3. QED
    BY <1>2, <2>1, <2>2, Still DEF Queues
<1>3. CASE (Slot \/ SlotEdge) /\ UNCHANGED lines
  BY <1>3, WordQueues
<1>4. CASE UNCHANGED vars
  <2>1. Types' /\ SlavePorts'
    BY <1>4 DEF vars, lines, master, slave, Queues, Types, SlavePorts
  <2>2. QED
    BY <1>4, <2>1, Still DEF vars, Queues
<1>5. QED
  BY <1>1, <1>2, <1>3, <1>4 DEF Next

-----------------------------------------------------------------------------
(* The slave on the frames: half a frame read goes with the high level; on *)
(* the other words of the master it goes with the low one, until an odd    *)
(* word is found to be wrong.  Nothing but a stopped clock takes it off.   *)
Reading == {"arm"} \cup Places
Half == spc = "odd" <=> slr = <<>>

Alignment ==
    /\ wait = 1 => spc \in Reading /\ spc # "odd" /\ slr = <<>>
    /\ spc \notin Places => slr = <<>>
    /\ grid = "frames" \/ cut
    /\ grid = "frames" /\ spc \in Reading =>
          /\ bclk => Level = IF wait = 1 \/ Half THEN 1 ELSE 0
          /\ wait = 0 /\ Half => bclk
    /\ grid = "words" /\ spc \in Reading /\ (spc = "odd" => slr = <<>>) =>
          Level = IF wait = 1 \/ Half THEN 0 ELSE 1
    /\ grid = "words" /\ spc = "odd" => syncerror \/ slr # <<1>>

LEMMA EdgeFound == OnFrames
BY DEF OnFrames, OutStart, InEnd, FrameStart

LEMMA Levels ==
  /\ <<>> # <<0>> /\ <<>> # <<1>> /\ <<>> # <<2>>
  /\ <<0>> # <<1>> /\ <<0>> # <<2>> /\ <<1>> # <<2>>
<1>1. <<0>>[1] = 0 /\ <<1>>[1] = 1 /\ <<2>>[1] = 2
  OBVIOUS
<1>2. QED
  BY <1>1, Tuples

LEMMA AlignmentInit == Init => Alignment
BY DEF Init, Alignment, Reading, Places

LEMMA MasterStopLevel ==
  ASSUME Queues, MasterInOdd, UNCHANGED lines, mrestart # Proceed
  PROVE  Level = 0
<1>1. Types /\ MasterQueues
  BY DEF Queues
<1>2. Types'
  BY <1>1, MasterTypes DEF MasterStep
<1>3. QED
  BY <1>1, <1>2, MasterInOddQueues

LEMMA MasterStartLevel ==
  ASSUME Queues, MasterStart, UNCHANGED lines
  PROVE  ~bclk /\ bclk' /\ Level' = 0 /\ mlr' = <<0, 1>>
<1>1. Types /\ MasterQueues
  BY DEF Queues
<1>2. Types'
  BY <1>1, MasterTypes DEF MasterStep
<1>3. Level' = 0 /\ mlr' = <<0, 1>>
  BY <1>1, <1>2, MasterStartQueues
<1>4. QED
  BY <1>1, <1>3 DEF MasterStart, MasterQueues

\* The steps of the master inside a session.
Inside ==
    \/ \E r \in MasterCommands : MasterCheck(r)
    \/ MasterOutEven \/ MasterInEven \/ MasterLrEven \/ MasterOutOdd

LEMMA InsideStep ==
  ASSUME Inside PROVE UNCHANGED <<bclk, slave, grid, cut, mlast>>
BY DEF Inside, MasterCheck, MasterOutEven, MasterInEven, MasterLrEven, MasterOutOdd

LEMMA MasterAlignment ==
  ASSUME Queues, Alignment, MasterStep, UNCHANGED lines
  PROVE  Alignment'
<1>1. Level' = Level
  BY MasterStepQueues DEF Kept
<1>2. CASE MasterStart
  <2>1. bclk' /\ Level' = 0
    BY <1>2, MasterStartLevel
  <2>2. grid' = "frames" \/ cut'
    BY <1>2 DEF MasterStart
  <2>3. CASE UNCHANGED slave /\ grid' = "frames"
    <3>1. UNCHANGED <<spc, slr, wait>>
      BY <2>3 DEF slave
    <3>2. spc \in Reading => spc # "odd" /\ wait = 0 /\ slr = <<>>
      BY <1>2, <2>3 DEF MasterStart, Resumed, Looping, Reading, Places, Queues, Types
    <3>3. QED
      BY <2>1, <2>2, <2>3, <3>1, <3>2 DEF Alignment, Half
  <2>4. CASE UNCHANGED slave /\ grid' = "words"
    <3>1. UNCHANGED <<spc, slr, wait>>
      BY <2>4 DEF slave
    <3>2. slr = <<>> /\ (spc = "odd" \/ wait = 1)
      BY <1>2, <2>4, Levels DEF MasterStart, Resumed, SlaveInTime, slave
    <3>3. QED
      BY <2>1, <2>2, <2>4, <3>1, <3>2, Levels DEF Alignment, Half
  <2>5. CASE UNCHANGED slave /\ grid' = "bits"
    <3>1. UNCHANGED <<spc, slr, wait>>
      BY <2>5 DEF slave
    <3>2. QED
      BY <2>1, <2>2, <2>5, <3>1 DEF Alignment
  <2>6. CASE /\ Active /\ slr' = <<0>> /\ grid' = "words"
             /\ UNCHANGED <<spc, wait>>
    <3>1. wait' = 0 /\ spc' \in Places /\ slr' # <<>> /\ slr' # <<1>>
      BY <2>6, Levels DEF Active, Looping, Places
    <3>2. QED
      BY <2>1, <2>2, <2>6, <3>1 DEF Alignment, Half
  <2>7. QED
    BY <1>2, <2>3, <2>4, <2>5, <2>6 DEF MasterStart, Resumed
<1>3. CASE Inside
  BY <1>1, <1>3, InsideStep DEF Alignment, Half, slave
<1>4. CASE MasterInOdd
  <2>1. grid' = grid /\ cut' = cut /\ syncerror' = syncerror /\ bclk
    BY <1>4 DEF MasterInOdd, Queues, MasterQueues, slave
  <2>2. mrestart # Proceed => Level = 0
    BY <1>4, MasterStopLevel
  <2>3. bclk' <=> mrestart = Proceed
    BY <1>4 DEF MasterInOdd
  <2>4. CASE UNCHANGED <<spc, slr, wait>>
    BY <1>1, <2>1, <2>2, <2>3, <2>4 DEF Alignment, Half
  <2>5. CASE spc = "low" /\ spc' = "arm" /\ wait' = 1 /\ slr' = slr /\ mrestart # Proceed
    BY <1>1, <2>1, <2>2, <2>3, <2>5 DEF Alignment, Reading, Places, Half
  <2>6. QED
    BY <1>4, <2>4, <2>5 DEF MasterInOdd, slave
<1>5. QED
  BY <1>2, <1>3, <1>4 DEF MasterStep, Inside

LEMMA SlaveStill ==
  ASSUME SlaveStep, Queues, UNCHANGED lines
  PROVE  UNCHANGED <<master, grid, cut, bclk, mdout>> /\ Kept
<1>1. UNCHANGED <<master, grid, cut>>
  BY DEF SlaveStep, SlaveStart, SlaveArm, SlaveCheck, SlaveOutEven, SlaveEven, SlaveOdd
<1>2. QED
  BY <1>1, Still DEF master

LEMMA SlaveAlignment ==
  ASSUME Queues, Alignment, SlaveStep, UNCHANGED lines
  PROVE  Alignment'
<1>1. Level' = Level /\ bclk' = bclk /\ grid' = grid /\ cut' = cut
  BY SlaveStill DEF Kept
<1>2. CASE SlaveStart
  BY <1>1, <1>2 DEF SlaveStart, Alignment, Reading, Places
<1>3. CASE SlaveArm
  <2>1. spc = "arm" /\ spc' = "check" /\ UNCHANGED <<slr, wait>> /\ slr = <<>>
    BY <1>3 DEF SlaveArm, Alignment, Places
  <2>2. QED
    BY <1>1, <2>1 DEF Alignment, Reading, Places, Half
<1>4. CASE (\E r \in SlaveCommands : SlaveCheck(r)) \/ SlaveOutEven
  <2>1. /\ spc \in {"check", "out_even"} /\ spc' \in {"out_even", "even"}
        /\ UNCHANGED <<slr, wait>>
    BY <1>4 DEF SlaveCheck, SlaveOutEven
  <2>2. QED
    BY <1>1, <2>1 DEF Alignment, Reading, Places, Half
<1>5. CASE SlaveEven
  <2>1. spc = "even" /\ spc' = "odd" /\ slr # <<>> /\ slr' = <<>> /\ wait' = wait
    BY <1>5 DEF SlaveEven
  <2>2. QED
    BY <1>1, <2>1, Levels DEF Alignment, Reading, Places, Half
<1>6. CASE SlaveOdd
  <2>1. /\ spc = "odd" /\ spc' \in {"init", "check"} /\ slr # <<>> /\ slr' = <<>>
        /\ wait' = wait
    BY <1>6 DEF SlaveOdd
  <2>2. grid = "words" => spc' = "init"
    BY <1>6, <2>1 DEF SlaveOdd, Alignment, Unexpected
  <2>3. QED
    BY <1>1, <2>1, <2>2 DEF Alignment, Reading, Places, Half
<1>7. QED
  BY <1>2, <1>3, <1>4, <1>5, <1>6 DEF SlaveStep

LEMMA WordAlignment ==
  ASSUME Queues, Alignment, Slot \/ SlotEdge, UNCHANGED lines
  PROVE  Alignment'
<1>1. Head(mlr) = Level /\ Level' = 1 - Level /\ Level \in {0, 1}
  BY WordQueues
<1>2. bclk' = bclk /\ bclk /\ InTime
  BY DEF Slot, SlotEdge
<1>3. CASE Slot /\ Active
  <2>1. /\ spc \in Places /\ wait = 0 /\ slr = <<>> /\ slr' # <<>> /\ wait' = 0
        /\ spc' = spc /\ grid' = grid /\ cut' = cut /\ syncerror' = syncerror
    BY <1>2, <1>3 DEF Slot, Active, Looping, InTime, SlaveInTime, Places
  <2>2. grid = "words" => Level = (IF spc = "odd" THEN 0 ELSE 1)
    BY <2>1 DEF Alignment, Reading, Half
  <2>3. grid = "words" /\ spc = "odd" => slr' # <<1>>
    <3>1. grid = "words" => slr' = <<Level>>
      BY <1>1, <1>3 DEF Slot
    <3>2. QED
      BY <2>2, <3>1, Levels
  <2>4. grid = "words" /\ spc # "odd" => Level' = 0
    BY <1>1, <2>2
  <2>5. QED
    BY <1>1, <1>2, <2>1, <2>3, <2>4 DEF Alignment, Reading, Half
<1>4. CASE Slot /\ ~Active
  <2>1. slr' = slr /\ grid' = grid /\ cut' = cut /\ syncerror' = syncerror
    BY <1>4 DEF Slot
  <2>2. CASE spc \notin Reading
    <3>1. spc' \notin Reading /\ wait = 0 /\ wait' = 0
      BY <1>4, <2>2 DEF Slot, Reading, Places, Alignment, Queues, Types
    <3>2. QED
      BY <2>1, <2>2, <3>1 DEF Alignment, Reading, Places
  <2>3. CASE spc \in Reading
    <3>1. spc' = spc /\ wait = 1 /\ wait' = 0
      BY <1>2, <1>4, <2>3
      DEF Slot, Reading, Places, Active, Looping, InTime, Queues, Types
    <3>2. QED
      BY <1>1, <1>2, <2>1, <2>3, <3>1 DEF Alignment, Half
  <2>4. QED
    BY <2>2, <2>3
<1>5. CASE SlotEdge
  <2>1. /\ spc = "low" /\ spc' = "arm" /\ wait' = 1 /\ slr' = slr /\ Level = 0
        /\ grid' = "frames"
    BY <1>1, <1>5, EdgeFound DEF SlotEdge
  <2>2. QED
    BY <1>1, <1>2, <2>1 DEF Alignment, Reading, Places, Half
<1>6. QED
  BY <1>3, <1>4, <1>5

-----------------------------------------------------------------------------
(* The slave compares the word clock.  Its clock may stop and start        *)
(* between any two of its words: it then finds the synchronisation error   *)
(* in the very frame whose words are no longer those of the master, and    *)
(* until it has read one no word of the new session has passed.            *)
Fresh ==
    bclk /\ Len(mlr) = 2 /\ mpc \in {"check", "out_even", "in_even", "lr_even"}

Detection ==
    /\ spc \in {"high", "low", "arm"} \/ wait = 1 => slast = NoFrame
    /\ syncerror => spc = "init" \/ (spc = "odd" /\ grid # "frames")
    /\ spc \in Places /\ grid = "frames" =>
          slr \in {<<>>, <<IF spc = "odd" THEN 1 ELSE 0>>}
    /\ spc \in Places /\ grid # "frames" =>
          /\ spc # "odd" /\ slr = <<0>> => Fresh /\ grid = "words"
          /\ spc = "odd" /\ ~syncerror =>
                slr = <<0>> \/ (Fresh /\ (slr = <<1>> \/ (slr = <<>> /\ grid = "words")))
          /\ spc # "odd" /\ wait = 0 /\ slr = <<>> /\ slast # NoFrame => Fresh

(* The frame it reads, and what is next on the wire: f follows the last.   *)
Ahead(f) == IF Half THEN Sample(f, 1)
            ELSE IF slr = <<>> THEN Sample(f, 0) ELSE Sample(Following(f), 0)
FrameRead(f) ==
    /\ spc = "odd" => sgot = <<Sample(f, 0)>>
    /\ slr # <<>> => sdin = <<Sample(f, IF spc = "odd" THEN 1 ELSE 0)>>
    /\ grid = "frames" => Wire = Ahead(f)
    /\ slast # NoFrame => f = Following(slast[1].frame)
Intact == wait = 0 /\ (grid = "frames" \/ (spc = "odd" /\ ~syncerror /\ slr = <<1>>))

(* No left sample of the master.                                           *)
Foreign(q) == \E v \in Samples : q = <<v>> /\ \A g \in FrameNumbers : v # Sample(g, 0)

SlaveReads ==
    /\ "in" \notin slines => sdin = <<>> /\ sgot = <<>> /\ slast = NoFrame
    /\ "in" \in slines /\ "out" \notin mlines =>
          /\ sdin \in {<<>>, <<Idle>>} /\ slast \in {NoFrame, <<Idle, Idle>>}
          /\ spc = "odd" => sgot = <<Idle>>
    /\ "in" \in slines /\ "out" \in mlines =>
          /\ slast # NoFrame => Whole(slast) \/ (syncerror /\ spc = "init")
          /\ spc = "odd" /\ (syncerror \/ (grid # "frames" /\ slr # <<1>>)) => Foreign(sgot)
          /\ spc \in Places /\ spc # "odd" /\ grid # "frames" /\ slr # <<>> => Foreign(sdin)
          /\ spc \in Places /\ Intact => \E f \in FrameNumbers : FrameRead(f)

SlaveSide == Alignment /\ Detection /\ SlaveReads

LEMMA Pairs ==
  \A v, w : <<v>> \o <<w>> = <<v, w>>
<1> SUFFICES ASSUME NEW v, NEW w PROVE <<v>> \o <<w>> = <<v, w>>
  OBVIOUS
<1> DEFINE t == <<v>> \o <<w>>
<1>1. <<v>> \in Seq({v, w}) /\ <<w>> \in Seq({v, w})
  OBVIOUS
<1>2. t \in Seq({v, w}) /\ Len(t) = 2 /\ t[1] = v /\ t[2] = w
  BY <1>1
<1> HIDE DEF t
<1>3. t = <<v, w>>
  BY <1>2
<1>4. QED
  BY <1>3 DEF t

LEMMA Joined ==
  \A v \in Samples, q \in Seq(Samples) : (<<v>> \o q)[1] = v
OBVIOUS

LEMMA ForeignWords ==
  /\ Foreign(<<Torn>>) /\ Foreign(<<Idle>>)
  /\ \A f \in FrameNumbers : Foreign(<<Sample(f, 1)>>)
<1>1. Foreign(<<Torn>>)
  <2>1. Torn.ch = 1
    BY DEF Torn
  <2>2. \A g \in FrameNumbers : Torn # Sample(g, 0)
    BY <2>1, Numbers
  <2>3. QED
    BY <2>2, LineTypes DEF Foreign
<1>2. Foreign(<<Idle>>)
  <2>1. Idle.frame = Frames /\ Frames \notin FrameNumbers
    BY Numbers DEF Idle, FrameNumbers
  <2>2. \A g \in FrameNumbers : Idle # Sample(g, 0)
    BY <2>1, Numbers
  <2>3. QED
    BY <2>2, LineTypes DEF Foreign
<1>3. ASSUME NEW f \in FrameNumbers PROVE Foreign(<<Sample(f, 1)>>)
  <2>1. \A g \in FrameNumbers : Sample(f, 1) # Sample(g, 0)
    <3>1. SUFFICES ASSUME NEW g, Sample(f, 1) = Sample(g, 0) PROVE FALSE
      OBVIOUS
    <3>2. Sample(f, 1).ch = 1 /\ Sample(g, 0).ch = 0
      BY Numbers
    <3>3. QED
      BY <3>1, <3>2
  <2>2. Sample(f, 1) \in Samples
    BY LineTypes, Numbers
  <2>3. QED
    BY <2>1, <2>2 DEF Foreign
<1>4. QED
  BY <1>1, <1>2, <1>3

LEMMA SlaveSideInit == Init => SlaveSide
<1> SUFFICES ASSUME Init PROVE SlaveSide
  OBVIOUS
<1>1. /\ spc = "init" /\ syncerror = FALSE /\ wait = 0 /\ sdin = <<>> /\ sgot = <<>>
      /\ slast = NoFrame
  BY DEF Init, NoFrame
<1>2. QED
  BY <1>1, AlignmentInit DEF SlaveSide, Detection, SlaveReads, Places

LEMMA WireLevel ==
  ASSUME Queues, "out" \in mlines
  PROVE  Wire \in Real /\ Wire.ch = Level /\ Wire = Sample(Wire.frame, Level)
         /\ Wire.frame \in FrameNumbers
<1>1. Types /\ MasterQueues
  BY DEF Queues
<1>2. Wire \in Real /\ Wire.ch = Level
  <2>1. CASE bclk
    <3>1. Level = Wire.ch
      BY <1>1, <2>1 DEF MasterQueues
    <3>2. Wire \in Real
      <4>1. CASE mdout = <<>>
        BY <1>1, <4>1, UpcomingFacts DEF Wire, Current
      <4>2. CASE mdout # <<>>
        BY <1>1, <4>2, ChainTail DEF Wire, MasterQueues
      <4>3. QED
        BY <4>1, <4>2
    <3>3. QED
      BY <3>1, <3>2
  <2>2. CASE ~bclk
    <3>1. mdout = <<>> /\ mpc \in {"init", "exit"} /\ Level = 0
      BY <1>1, <2>2 DEF MasterQueues, Level, Types
    <3>2. Wire = Upcoming
      BY <3>1 DEF Wire, Current
    <3>3. Upcoming = Sample(Following(mframe), 0) /\ Upcoming \in Real
      BY <1>1, <3>1, UpcomingFacts
    <3>4. QED
      BY <3>1, <3>2, <3>3, Numbers
  <2>3. QED
    BY <2>1, <2>2
<1>3. QED
  BY <1>2, AfterFacts

LEMMA FreshInside ==
  ASSUME Inside, Fresh PROVE Fresh'
<1>1. ~MasterLrEven /\ ~MasterOutOdd
  <2>1. ~(Len(mlr) < 2)
    BY DEF Fresh
  <2>2. QED
    BY <2>1 DEF MasterLrEven, MasterOutOdd, Room
<1>2. /\ mpc' \in {"out_even", "in_even", "lr_even"}
      /\ UNCHANGED <<bclk, mlr>>
  BY <1>1 DEF Inside, MasterCheck, MasterOutEven, MasterInEven
<1>3. QED
  BY <1>2 DEF Fresh

LEMMA MasterSlaveSide ==
  ASSUME Queues, SlaveSide, MasterStep, UNCHANGED lines
  PROVE  SlaveSide'
<1>1. Alignment'
  BY MasterAlignment DEF SlaveSide
<1>2. mlines' = mlines /\ slines' = slines /\ ("out" \in mlines => Wire' = Wire)
  BY MasterStepQueues DEF Kept, lines
<1>3. Detection /\ SlaveReads /\ Alignment
  BY DEF SlaveSide
<1>4. CASE Inside
  <2>1. UNCHANGED <<spc, slr, sdin, sgot, slast, syncerror, wait, grid>>
    BY <1>4, InsideStep DEF slave
  <2>2. \A f : "out" \in mlines /\ FrameRead(f) => FrameRead(f)'
    BY <1>2, <2>1 DEF FrameRead, Ahead, Half
  <2>3. SlaveReads'
    BY <1>2, <1>3, <2>1, <2>2 DEF SlaveReads, Intact
  <2>4. Detection'
    BY <1>3, <1>4, <2>1, FreshInside DEF Detection
  <2>5. QED
    BY <1>1, <2>3, <2>4 DEF SlaveSide
<1>5. CASE MasterInOdd
  <2>1. UNCHANGED <<slr, sdin, sgot, slast, syncerror, grid>> /\ ~Fresh
    BY <1>5 DEF MasterInOdd, slave, Fresh
  <2>2. \/ UNCHANGED <<spc, wait>>
        \/ spc = "low" /\ spc' = "arm"
    BY <1>5 DEF MasterInOdd, slave
  <2>3. \A f : "out" \in mlines /\ FrameRead(f) /\ spc' = spc => FrameRead(f)'
    BY <1>2, <2>1 DEF FrameRead, Ahead, Half
  <2>4. SlaveReads'
    BY <1>2, <1>3, <2>1, <2>2, <2>3 DEF SlaveReads, Intact, Places
  <2>5. Detection'
    BY <1>3, <2>1, <2>2 DEF Detection, Places
  <2>6. QED
    BY <1>1, <2>4, <2>5 DEF SlaveSide
<1>6. CASE MasterStart
  <2>1. /\ UNCHANGED <<spc, sgot, slast, syncerror, wait>>
        /\ ~bclk /\ Level = 0 /\ Level' = 0
    BY <1>6, MasterStartLevel, RestartTypes DEF MasterStart, Restarted, Level, Queues
  <2>2. Fresh'
    <3>1. Len(mlr') = 2
      BY <1>6, MasterStartLevel, Tuples
    <3>2. QED
      BY <1>6, <3>1, MasterStartLevel DEF MasterStart, Fresh
  <2>3. ~Fresh
    BY <2>1 DEF Fresh
  <2>4. spc \in Places /\ grid = "frames" =>
            /\ ~syncerror /\ (spc # "odd" => slr = <<>>) /\ (spc = "odd" => slr = <<1>>)
    <3>1. SUFFICES ASSUME spc \in Places, grid = "frames"
                   PROVE  /\ ~syncerror /\ (spc # "odd" => slr = <<>>)
                          /\ (spc = "odd" => slr = <<1>>)
      OBVIOUS
    <3>2. wait = 0 \/ wait = 1
      BY DEF Queues, Types
    <3>3. wait = 0 => ~Half
      BY <1>3, <2>1, <3>1 DEF Alignment, Reading
    <3>4. ~syncerror
      BY <1>3, <3>1 DEF Detection, Places
    <3>5. QED
      BY <1>3, <3>1, <3>2, <3>3, <3>4 DEF Alignment, Half, Detection
  <2>5. CASE UNCHANGED slave /\ spc \notin Places
    <3>1. UNCHANGED <<slr, sdin>>
      BY <2>5 DEF slave
    <3>2. QED
      BY <1>1, <1>2, <1>3, <2>1, <2>5, <3>1 DEF SlaveSide, Detection, SlaveReads, Places
  <2>6. CASE UNCHANGED slave /\ spc \in Places /\ grid' = "frames"
    <3>0. UNCHANGED <<slr, sdin>>
      BY <2>6 DEF slave
    <3>1. spc # "odd" /\ wait = 0 /\ slr = <<>> /\ ~syncerror
      BY <1>3, <1>6, <2>6 DEF MasterStart, Resumed, Looping, Places, Detection, Queues, Types
    <3>2. grid # "frames" => slast = NoFrame
      BY <1>3, <2>3, <2>6, <3>1 DEF Detection
    <3>3. Detection'
      BY <1>3, <2>1, <2>6, <3>0, <3>1, Levels DEF Detection, Places
    <3>4. ASSUME "in" \in slines, "out" \in mlines
          PROVE  \E f \in FrameNumbers : FrameRead(f)'
      <4>1. CASE grid = "frames"
        <5>1. PICK f \in FrameNumbers : FrameRead(f)
          BY <1>3, <2>6, <3>1, <3>4, <4>1 DEF SlaveReads, Intact
        <5>2. FrameRead(f)'
          BY <1>2, <2>1, <3>0, <3>4, <4>1, <5>1 DEF FrameRead, Ahead, Half
        <5>3. QED
          BY <5>2
      <4>2. CASE grid # "frames"
        <5>1. PICK f \in FrameNumbers : Wire = Sample(f, Level)
          BY <3>4, WireLevel
        <5>2. Wire' = Sample(f, 0)
          BY <1>2, <2>1, <3>4, <5>1
        <5>3. Ahead(f)' = Sample(f, 0)
          BY <2>1, <3>0, <3>1 DEF Ahead, Half
        <5>4. FrameRead(f)'
          BY <2>1, <3>0, <3>1, <3>2, <4>2, <5>2, <5>3 DEF FrameRead
        <5>5. QED
          BY <5>4
      <4>3. QED
        BY <4>1, <4>2
    <3>5. SlaveReads'
      BY <1>2, <1>3, <2>1, <3>0, <3>1, <3>4, Levels DEF SlaveReads
    <3>6. QED
      BY <1>1, <3>3, <3>5 DEF SlaveSide
  <2>7. CASE UNCHANGED slave /\ spc \in Places /\ grid' # "frames"
    <3>0. UNCHANGED <<slr, sdin>>
      BY <2>7 DEF slave
    <3>1. grid' = "words" => slr = <<>>
      BY <1>6, <2>7, Levels DEF MasterStart, Resumed, SlaveInTime, slave
    <3>2. Detection'
      BY <1>3, <2>1, <2>2, <2>3, <2>4, <2>7, <3>0, <3>1, Levels DEF Detection
    <3>3. \A f : FrameRead(f) => FrameRead(f)'
      BY <2>1, <2>7, <3>0 DEF FrameRead
    <3>4. Intact' => Intact
      BY <2>1, <2>7, <3>0 DEF Intact
    <3>5. SlaveReads'
      BY <1>2, <1>3, <2>1, <2>4, <2>7, <3>0, <3>3, <3>4, Levels DEF SlaveReads
    <3>6. QED
      BY <1>1, <3>2, <3>5 DEF SlaveSide
  <2>8. CASE /\ Active /\ slr = <<>>
             /\ slr' = <<0>> /\ sdin' = Captured(slines, Idle) /\ grid' = "words"
    <3>1. spc \in Places /\ wait = 0
      BY <2>8 DEF Active, Looping, Places
    <3>2. Detection'
      BY <1>3, <2>1, <2>2, <2>4, <2>8, <3>1, Levels DEF Detection, Places
    <3>3. spc = "odd" => grid # "frames" /\ slr # <<1>>
      BY <2>4, <2>8, <3>1, Levels
    <3>4. ~Intact'
      BY <2>8, Levels DEF Intact
    <3>5. sdin' = IF "in" \in slines THEN <<Idle>> ELSE <<>>
      BY <2>8 DEF Captured
    <3>6. SlaveReads'
      BY <1>2, <1>3, <2>1, <2>8, <3>1, <3>3, <3>4, <3>5, ForeignWords DEF SlaveReads, Places
    <3>7. QED
      BY <1>1, <3>2, <3>6 DEF SlaveSide
  <2>9. QED
    BY <1>6, <2>5, <2>6, <2>7, <2>8 DEF MasterStart, Resumed, SlaveInTime
<1>7. QED
  BY <1>4, <1>5, <1>6 DEF MasterStep, Inside

LEMMA SlaveStepSlaveSide ==
  ASSUME Queues, SlaveSide, SlaveStep, UNCHANGED lines
  PROVE  SlaveSide'
<1>1. Alignment'
  BY SlaveAlignment DEF SlaveSide
<1>2. /\ mlines' = mlines /\ slines' = slines /\ ("out" \in mlines => Wire' = Wire)
      /\ UNCHANGED <<grid, bclk, mlr, mpc>>
  BY SlaveStill DEF Kept, lines, master
<1>3. Fresh' = Fresh
  BY <1>2 DEF Fresh
<1>4. Detection /\ SlaveReads /\ Alignment /\ Types
  BY DEF SlaveSide, Queues
<1>5. CASE SlaveStart
  <2>1. /\ spc' = "high" /\ sdin' = <<>> /\ sgot' = <<>> /\ slast' = NoFrame
        /\ syncerror' = FALSE
    BY <1>5 DEF SlaveStart, NoFrame
  <2>2. QED
    BY <1>1, <2>1 DEF SlaveSide, Detection, SlaveReads, Places
<1>6. CASE SlaveArm
  <2>1. /\ spc = "arm" /\ spc' = "check" /\ slast = NoFrame /\ ~syncerror /\ slr = <<>>
        /\ UNCHANGED <<slr, sdin, sgot, slast, syncerror, wait>>
    BY <1>4, <1>6 DEF SlaveArm, Detection, Alignment, Places
  <2>2. Detection'
    BY <2>1, Levels DEF Detection, Places
  <2>3. ASSUME "out" \in mlines, Intact'
        PROVE  \E f \in FrameNumbers : FrameRead(f)'
    <3>1. wait = 0 /\ grid = "frames"
      BY <1>2, <2>1, <2>3 DEF Intact
    <3>2. Level = 0
      BY <1>4, <2>1, <3>1 DEF Alignment, Reading, Half, Level
    <3>3. PICK f \in FrameNumbers : Wire = Sample(f, 0)
      BY <2>3, <3>2, WireLevel
    <3>4. Ahead(f)' = Sample(f, 0)
      BY <2>1 DEF Ahead, Half
    <3>5. FrameRead(f)'
      BY <1>2, <2>1, <2>3, <3>3, <3>4 DEF FrameRead
    <3>6. QED
      BY <3>5
  <2>4. SlaveReads'
    BY <1>2, <1>4, <2>1, <2>3, Levels DEF SlaveReads
  <2>5. QED
    BY <1>1, <2>2, <2>4 DEF SlaveSide
<1>7. CASE (\E r \in SlaveCommands : SlaveCheck(r)) \/ SlaveOutEven
  <2>1. /\ spc \in {"check", "out_even"} /\ spc' \in {"out_even", "even"}
        /\ UNCHANGED <<slr, sdin, sgot, slast, syncerror, wait>>
    BY <1>7 DEF SlaveCheck, SlaveOutEven
  <2>2. Detection'
    BY <1>2, <1>3, <1>4, <2>1 DEF Detection, Places
  <2>3. \A f : "out" \in mlines /\ FrameRead(f) => FrameRead(f)'
    BY <1>2, <2>1 DEF FrameRead, Ahead, Half
  <2>4. SlaveReads'
    BY <1>2, <1>4, <2>1, <2>3 DEF SlaveReads, Intact, Places
  <2>5. QED
    BY <1>1, <2>2, <2>4 DEF SlaveSide
<1>8. CASE SlaveEven
  <2>1. /\ spc = "even" /\ spc' = "odd" /\ slr # <<>> /\ slr' = <<>>
        /\ "in" \in slines => sdin # <<>>
        /\ sgot' = sdin /\ sdin' = <<>> /\ UNCHANGED <<slast, wait>>
        /\ syncerror' = (syncerror \/ Unexpected(0))
    BY <1>8 DEF SlaveEven
  <2>2. wait = 0 /\ ~syncerror
    BY <1>4, <2>1 DEF Alignment, Detection, Types
  <2>3. syncerror' <=> slr # <<0>>
    BY <2>1, <2>2 DEF Unexpected
  <2>4. grid = "frames" => slr = <<0>>
    BY <1>4, <2>1 DEF Detection, Places
  <2>5. Detection'
    BY <1>2, <1>3, <1>4, <2>1, <2>2, <2>3, <2>4, Levels DEF Detection, Places
  <2>6. \A f : "out" \in mlines /\ FrameRead(f) => FrameRead(f)'
    BY <1>2, <2>1 DEF FrameRead, Ahead, Half
  <2>7. CASE "in" \in slines /\ "out" \in mlines
    <3>1. grid # "frames" => Foreign(sgot')
      BY <1>4, <2>1, <2>7 DEF SlaveReads, Places
    <3>2. Intact' => \E f \in FrameNumbers : FrameRead(f)'
      <4>1. SUFFICES ASSUME Intact' PROVE \E f \in FrameNumbers : FrameRead(f)'
        OBVIOUS
      <4>2. Intact
        BY <1>2, <2>1, <2>2, <4>1, Levels DEF Intact
      <4>3. QED
        BY <1>4, <2>1, <2>6, <2>7, <4>2 DEF SlaveReads, Places
    <3>3. slast' # NoFrame => Whole(slast')
      BY <1>4, <2>1, <2>7 DEF SlaveReads
    <3>4. SlaveReads'
      BY <1>2, <2>1, <2>3, <2>4, <2>7, <3>1, <3>2, <3>3 DEF SlaveReads
    <3>5. QED
      BY <1>1, <2>5, <3>4 DEF SlaveSide
  <2>8. CASE "in" \notin slines \/ "out" \notin mlines
    <3>1. SlaveReads'
      BY <1>2, <1>4, <2>1, <2>8 DEF SlaveReads
    <3>2. QED
      BY <1>1, <2>5, <3>1 DEF SlaveSide
  <2>9. QED
    BY <2>7, <2>8
<1>9. CASE SlaveOdd
  <2>1. /\ spc = "odd" /\ spc' \in {"init", "check"} /\ slr # <<>> /\ slr' = <<>>
        /\ "in" \in slines => sdin # <<>>
        /\ slast' = sgot \o sdin /\ sdin' = <<>> /\ sgot' = <<>> /\ wait' = wait
        /\ syncerror' = (syncerror \/ Unexpected(1))
        /\ syncerror' => spc' = "init"
    BY <1>9 DEF SlaveOdd, NoFrame
  <2>2. wait = 0
    BY <1>4, <2>1 DEF Alignment, Types
  <2>3. syncerror' <=> syncerror \/ slr # <<1>>
    BY <2>1 DEF Unexpected
  <2>4. grid # "frames" /\ ~syncerror' => Fresh
    BY <1>4, <2>1, <2>2, <2>3, Levels DEF Detection, Places
  <2>5. Detection'
    BY <1>2, <1>3, <2>1, <2>2, <2>4, Levels DEF Detection, Places
  <2>6. CASE "in" \in slines /\ "out" \in mlines /\ ~syncerror'
    <3>1. Intact /\ slr = <<1>>
      BY <2>1, <2>2, <2>3, <2>6 DEF Intact
    <3>2. PICK f \in FrameNumbers : FrameRead(f)
      BY <1>4, <2>1, <2>6, <3>1 DEF SlaveReads, Places
    <3>3. slast' = <<Sample(f, 0), Sample(f, 1)>>
      <4>1. sgot = <<Sample(f, 0)>> /\ sdin = <<Sample(f, 1)>>
        BY <2>1, <3>2 DEF FrameRead
      <4>2. QED
        BY <2>1, <4>1, Pairs
    <3>4. Whole(slast') /\ slast'[1].frame = f
      BY <3>3, Tuples, Numbers DEF Whole, FrameNumbers
    <3>5. FrameRead(Following(f))'
      <4>1. Ahead(f) = Sample(Following(f), 0)
        BY <2>1 DEF Ahead, Half
      <4>2. Ahead(Following(f))' = Sample(Following(f), 0)
        BY <2>1 DEF Ahead, Half
      <4>3. QED
        BY <1>2, <2>1, <2>6, <3>2, <3>4, <4>1, <4>2 DEF FrameRead
    <3>6. SlaveReads'
      BY <1>2, <2>1, <2>6, <3>4, <3>5, Numbers, Levels DEF SlaveReads
    <3>7. QED
      BY <1>1, <2>5, <3>6 DEF SlaveSide
  <2>7. CASE "in" \in slines /\ "out" \in mlines /\ syncerror'
    <3>1. SlaveReads'
      BY <1>2, <2>1, <2>7 DEF SlaveReads, Places
    <3>2. QED
      BY <1>1, <2>5, <3>1 DEF SlaveSide
  <2>8. CASE "in" \in slines /\ "out" \notin mlines
    <3>1. slast' = <<Idle, Idle>>
      <4>1. sgot = <<Idle>> /\ sdin = <<Idle>>
        BY <1>4, <2>1, <2>8 DEF SlaveReads
      <4>2. QED
        BY <2>1, <4>1, Pairs
    <3>2. SlaveReads'
      BY <1>2, <2>1, <2>8, <3>1 DEF SlaveReads
    <3>3. QED
      BY <1>1, <2>5, <3>2 DEF SlaveSide
  <2>9. CASE "in" \notin slines
    <3>1. slast' = NoFrame
      BY <1>4, <2>1, <2>9 DEF SlaveReads, NoFrame
    <3>2. SlaveReads'
      BY <1>2, <2>1, <2>9, <3>1 DEF SlaveReads
    <3>3. QED
      BY <1>1, <2>5, <3>2 DEF SlaveSide
  <2>10. QED
    BY <2>6, <2>7, <2>8, <2>9
<1>10. QED
  BY <1>5, <1>6, <1>7, <1>8, <1>9 DEF SlaveStep

LEMMA WordSlaveSide ==
  ASSUME Queues, SlaveSide, Slot \/ SlotEdge, UNCHANGED lines
  PROVE  SlaveSide'
<1>1. Alignment'
  BY WordAlignment DEF SlaveSide
<1>2. /\ mlines' = mlines /\ slines' = slines /\ bclk /\ InTime
      /\ UNCHANGED <<sgot, slast, syncerror>>
  BY DEF Slot, SlotEdge, lines
<1>3. Detection /\ SlaveReads /\ Alignment /\ Types
  BY DEF SlaveSide, Queues
<1>4. /\ Head(mlr) = Level /\ Level' = 1 - Level /\ Level \in {0, 1}
      /\ mdout = <<>> <=> "out" \notin mlines
      /\ "out" \in mlines =>
               /\ mdout # <<>> /\ Head(mdout) = Wire /\ Wire \in Real
               /\ Wire' = After(Wire) /\ Wire.ch = Level
  BY WordQueues
<1>5. CASE Slot /\ Active /\ grid = "frames"
  <2>1. /\ spc \in Places /\ wait = 0 /\ slr = <<>> /\ wait' = 0
        /\ spc' = spc /\ grid' = grid /\ slr' = <<Level>>
        /\ sdin' = IF "in" \in slines THEN <<IF "out" \in mlines THEN Wire ELSE Idle>>
                   ELSE <<>>
    <3>1. spc \in Places /\ wait = 0 /\ slr = <<>>
      BY <1>2, <1>5 DEF Active, Looping, InTime, SlaveInTime, Places
    <3>2. wait' = 0 /\ spc' = spc /\ grid' = grid /\ slr' = <<Level>>
      <4>1. slr' = <<IF grid = "bits" THEN 2 ELSE Head(mlr)>>
        BY <1>5 DEF Slot
      <4>2. slr' = <<Level>>
        BY <1>4, <1>5, <4>1
      <4>3. wait' = 0 /\ spc' = spc /\ grid' = grid
        <5>1. wait' = IF wait > 0 THEN wait - 1 ELSE 0
          BY <1>5 DEF Slot
        <5>2. spc = "high" \/ UNCHANGED <<spc, grid>>
          BY <1>5 DEF Slot
        <5>3. QED
          BY <3>1, <5>1, <5>2 DEF Places
      <4>4. QED
        BY <4>2, <4>3
    <3>3. /\ mdout = <<>> => sdin' = Captured(slines, Idle)
          /\ mdout # <<>> => sdin' = Captured(slines, Head(mdout))
      BY <1>5 DEF Slot
    <3>4. QED
      BY <1>4, <3>1, <3>2, <3>3 DEF Captured
  <2>2. Level = IF spc = "odd" THEN 1 ELSE 0
    BY <1>2, <1>3, <1>5, <2>1 DEF Alignment, Reading, Half
  <2>3. Detection'
    BY <1>2, <1>3, <1>5, <2>1, <2>2, Levels DEF Detection
  <2>4. ASSUME "in" \in slines, "out" \in mlines, NEW f, FrameRead(f)
        PROVE  FrameRead(f)'
    <3>1. Wire = Sample(f, Level)
      BY <1>5, <2>1, <2>2, <2>4 DEF FrameRead, Ahead, Half
    <3>2. sdin' = <<Sample(f, Level)>>
      BY <2>1, <2>4, <3>1
    <3>3. Wire' = Ahead(f)'
      <4>1. CASE Level = 0
        <5>1. Wire' = Sample(f, 1)
          BY <1>4, <2>4, <3>1, <4>1, AfterSample
        <5>2. Half'
          BY <2>1, <2>2, <4>1, Levels DEF Half
        <5>3. QED
          BY <5>1, <5>2 DEF Ahead
      <4>2. CASE Level = 1
        <5>1. Wire' = Sample(Following(f), 0)
          BY <1>4, <2>4, <3>1, <4>2, AfterSample
        <5>2. ~Half' /\ slr' # <<>>
          BY <2>1, <2>2, <4>2, Levels DEF Half
        <5>3. QED
          BY <5>1, <5>2 DEF Ahead
      <4>3. QED
        BY <1>4, <4>1, <4>2
    <3>4. QED
      BY <1>2, <2>1, <2>2, <2>4, <3>2, <3>3 DEF FrameRead
  <2>5. SlaveReads'
    <3>1. slr' # <<2>>
      BY <1>4, <2>1, Levels
    <3>2. QED
      BY <1>2, <1>3, <1>5, <2>1, <2>4, <3>1 DEF SlaveReads, Intact
  <2>6. QED
    BY <1>1, <2>3, <2>5 DEF SlaveSide
<1>6. CASE Slot /\ Active /\ grid # "frames"
  <2>1. spc \in Places /\ wait = 0 /\ slr = <<>>
    BY <1>2, <1>6 DEF Active, Looping, InTime, SlaveInTime, Places
  <2>2. /\ wait' = 0 /\ spc' = spc /\ grid' = grid
        /\ slr' = <<IF grid = "bits" THEN 2 ELSE Level>>
    <3>1. slr' = <<IF grid = "bits" THEN 2 ELSE Head(mlr)>>
      BY <1>6 DEF Slot
    <3>2. wait' = IF wait > 0 THEN wait - 1 ELSE 0
      BY <1>6 DEF Slot
    <3>3. grid' = grid /\ (spc = "high" \/ spc' = spc)
      BY <1>6 DEF Slot
    <3>4. QED
      BY <1>4, <2>1, <3>1, <3>2, <3>3 DEF Places
  <2>3. sdin' = IF "in" \in slines
                THEN <<IF "out" \in mlines THEN (IF grid = "bits" THEN Torn ELSE Wire)
                                           ELSE Idle>>
                ELSE <<>>
    <3>1. /\ mdout = <<>> => sdin' = Captured(slines, Idle)
          /\ mdout # <<>> /\ grid = "bits" => sdin' = Captured(slines, Torn)
          /\ mdout # <<>> /\ grid # "bits" => sdin' = Captured(slines, Head(mdout))
      BY <1>6 DEF Slot
    <3>2. QED
      BY <1>4, <3>1 DEF Captured
  <2>4. grid \in {"words", "bits"}
    BY <1>3, <1>6 DEF Types
  <2>5. grid = "words" => Level = IF spc = "odd" THEN 0 ELSE 1
    BY <1>3, <2>1 DEF Alignment, Reading, Half
  <2>6. /\ grid = "bits" => slr' = <<2>>
        /\ grid = "words" => slr' = <<IF spc = "odd" THEN 0 ELSE 1>>
    BY <2>2, <2>5
  <2>7. spc = "odd" => syncerror \/ grid = "words"
    BY <1>3, <1>6, <2>1, Levels DEF Detection
  <2>8. Detection'
    BY <1>2, <1>3, <1>6, <2>1, <2>2, <2>4, <2>6, <2>7, Levels DEF Detection
  <2>9. ~Intact'
    BY <1>6, <1>2, <2>2, <2>4, <2>6, <2>7, Levels DEF Intact
  <2>10. "in" \in slines /\ "out" \in mlines /\ spc # "odd" => Foreign(sdin')
    <3>1. SUFFICES ASSUME "in" \in slines, "out" \in mlines, spc # "odd"
                   PROVE  Foreign(sdin')
      OBVIOUS
    <3>2. CASE grid = "bits"
      BY <2>3, <3>1, <3>2, ForeignWords
    <3>3. CASE grid = "words"
      <4>1. Wire.ch = 1 /\ Wire.frame \in FrameNumbers /\ Wire = Sample(Wire.frame, 1)
        BY <1>4, <2>5, <3>1, <3>3, AfterFacts
      <4>2. QED
        BY <2>3, <3>1, <3>3, <4>1, ForeignWords
    <3>4. QED
      BY <2>4, <3>2, <3>3
  <2>11. SlaveReads'
    <3>1. slr # <<1>>
      BY <2>1, Levels
    <3>2. QED
      BY <1>2, <1>3, <1>6, <2>1, <2>2, <2>3, <2>9, <2>10, <3>1 DEF SlaveReads
  <2>12. QED
    BY <1>1, <2>8, <2>11 DEF SlaveSide
<1>7. CASE Slot /\ ~Active
  <2>1. UNCHANGED <<slr, sdin, grid>>
    BY <1>7 DEF Slot
  <2>2. CASE spc \notin Places
    <3>1. spc' \notin Places /\ (spc' = spc \/ (spc = "high" /\ spc' = "low"))
      BY <1>7, <2>2 DEF Slot, Places
    <3>2. wait' \in {0, wait}
      BY <1>3, <1>7 DEF Slot, Types
    <3>3. Detection'
      BY <1>2, <1>3, <2>1, <3>1, <3>2 DEF Detection
    <3>4. SlaveReads'
      BY <1>2, <1>3, <2>1, <3>1, Levels DEF SlaveReads, Places
    <3>5. QED
      BY <1>1, <3>3, <3>4 DEF SlaveSide
  <2>3. CASE spc \in Places
    <3>1. spc' = spc /\ wait = 1 /\ wait' = 0
      BY <1>3, <1>7, <2>3 DEF Slot, Places, Active, Looping, Types
    <3>2. slast = NoFrame /\ slr = <<>> /\ spc # "odd" /\ ~syncerror
      BY <1>3, <2>3, <3>1 DEF Detection, Alignment, Places
    <3>3. Detection'
      BY <1>2, <2>1, <2>3, <3>1, <3>2, Levels DEF Detection
    <3>4. ASSUME "out" \in mlines, grid = "frames"
          PROVE  \E f \in FrameNumbers : FrameRead(f)'
      <4>1. Level = 1
        BY <1>2, <1>3, <2>3, <3>1, <3>4 DEF Alignment, Reading
      <4>2. PICK f \in FrameNumbers : Wire' = Sample(f, 0)
        BY <1>4, <3>4, <4>1, Numbers, AfterFacts DEF After
      <4>3. Ahead(f)' = Sample(f, 0)
        BY <2>1, <3>1, <3>2 DEF Ahead, Half
      <4>4. FrameRead(f)'
        BY <1>2, <2>1, <3>1, <3>2, <4>2, <4>3 DEF FrameRead
      <4>5. QED
        BY <4>4
    <3>5. SlaveReads'
      BY <1>2, <1>3, <2>1, <3>1, <3>2, <3>4, Levels DEF SlaveReads, Intact
    <3>6. QED
      BY <1>1, <3>3, <3>5 DEF SlaveSide
  <2>4. QED
    BY <2>2, <2>3
<1>8. CASE SlotEdge
  <2>1. spc = "low" /\ spc' = "arm" /\ UNCHANGED <<slr, sdin>>
    BY <1>8 DEF SlotEdge
  <2>2. slast = NoFrame /\ ~syncerror
    BY <1>3, <2>1 DEF Detection
  <2>3. Detection'
    BY <1>2, <2>1, <2>2 DEF Detection, Places
  <2>4. SlaveReads'
    BY <1>2, <1>3, <2>1, <2>2 DEF SlaveReads, Places
  <2>5. QED
    BY <1>1, <2>3, <2>4 DEF SlaveSide
<1>9. QED
  BY <1>5, <1>6, <1>7, <1>8

-----------------------------------------------------------------------------
(* What the slave sends: whole frames, one ahead of the words it reads.    *)
SUpcoming ==
    CASE spc = "out_even" -> Sample(sframe, 0)
      [] spc \in {"even", "odd"} /\ srestart = Proceed -> Sample(sframe, 1)
      [] OTHER -> Sample(Following(sframe), 0)
Queueing ==
    CASE spc = "even" /\ srestart = Proceed -> 2
      [] spc = "odd" /\ srestart # Proceed -> IF slr = <<>> THEN 1 ELSE 0
      [] OTHER -> IF slr = <<>> THEN 2 ELSE 1

SlaveSends ==
    /\ spc \in {"high", "low", "arm", "check", "out_even"} => srestart = Proceed
    /\ "out" \notin slines => sdout = <<>>
    /\ spc \in Places /\ "out" \in slines =>
          /\ Chain(sdout, SUpcoming) /\ Len(sdout) = Queueing
          /\ spc = "even" /\ srestart = Proceed => slr # <<>>

LEMMA SlaveSendsInit == Init => SlaveSends
BY DEF Init, SlaveSends, Places

LEMMA SlaveSendsStill ==
  ASSUME SlaveSends, UNCHANGED <<spc, srestart, sframe, slr, sdout, slines>>
  PROVE  SlaveSends'
BY DEF SlaveSends, SUpcoming, Queueing

LEMMA SlaveUpcoming ==
  ASSUME Types
  PROVE  /\ SUpcoming \in Real
         /\ Sample(sframe, 0) \in Real /\ Sample(sframe, 1) \in Real
BY Numbers DEF SUpcoming, Types

LEMMA SlaveSendsStep ==
  ASSUME Queues, Alignment, SlaveSends, SlaveStep, UNCHANGED lines
  PROVE  SlaveSends'
<1>1. slines' = slines /\ Types
  BY DEF lines, Queues
<1>2. CASE SlaveStart
  BY <1>2 DEF SlaveStart, SlaveSends, Places
<1>3. CASE SlaveArm
  <2>1. /\ spc = "arm" /\ spc' = "check" /\ slr' = <<>> /\ UNCHANGED <<srestart, sframe>>
        /\ srestart = Proceed
        /\ sdout' = IF "out" \in slines
                    THEN <<Sample(sframe, 0), Sample(sframe, 1)>> ELSE <<>>
    BY <1>3 DEF SlaveArm, Alignment, SlaveSends, Places
  <2>2. PICK v \in Real : v = Sample(sframe, 0) /\ After(v) = Sample(sframe, 1)
    BY <1>1, SlaveUpcoming, AfterSample
  <2>3. SUpcoming' = After(After(v)) /\ Queueing' = 2
    BY <2>1, <2>2, AfterSample DEF SUpcoming, Queueing
  <2>4. "out" \in slines => sdout' = <<v, After(v)>> /\ Len(sdout') = 2
    BY <2>1, <2>2, Tuples
  <2>5. "out" \in slines => Chain(sdout', SUpcoming')
    BY <2>3, <2>4 DEF Chain
  <2>6. QED
    BY <1>1, <2>1, <2>3, <2>4, <2>5 DEF SlaveSends
<1>4. ASSUME NEW r \in SlaveCommands, SlaveCheck(r) PROVE SlaveSends'
  <2>1. /\ spc = "check" /\ srestart' = r /\ UNCHANGED <<slr, sdout>>
        /\ IF r = Proceed THEN SlaveSend /\ spc' = "out_even"
           ELSE spc' = "even" /\ sframe' = sframe
    BY <1>4 DEF SlaveCheck
  <2>2. "out" \in slines => SUpcoming' = SUpcoming
    BY <2>1 DEF SUpcoming, SlaveSend
  <2>3. Queueing' = Queueing
    BY <2>1 DEF Queueing
  <2>4. QED
    BY <1>1, <2>1, <2>2, <2>3 DEF SlaveSends, Places
<1>5. CASE SlaveOutEven
  <2>1. /\ spc = "out_even" /\ spc' = "even" /\ Len(sdout) < 2 /\ srestart = Proceed
        /\ UNCHANGED <<srestart, sframe, slr>>
        /\ sdout' = IF "out" \in slines THEN Append(sdout, SUpcoming) ELSE sdout
    BY <1>5 DEF SlaveOutEven, SUpcoming, Room, SlaveSends
  <2>2. SUpcoming' = After(SUpcoming) /\ Queueing' = 2
    BY <2>1, AfterSample DEF SUpcoming, Queueing
  <2>3. CASE "out" \in slines
    <3>1. Chain(sdout, SUpcoming) /\ Len(sdout) = IF slr = <<>> THEN 2 ELSE 1
      BY <2>1, <2>3 DEF SlaveSends, Places, Queueing
    <3>2. slr # <<>> /\ Len(sdout) = 1
      BY <2>1, <3>1
    <3>3. Chain(sdout', SUpcoming') /\ Len(sdout') = Len(sdout) + 1
      BY <1>1, <2>1, <2>2, <2>3, <3>1, ChainAppend, SlaveUpcoming
    <3>4. Len(sdout') = 2
      BY <3>2, <3>3
    <3>5. QED
      BY <1>1, <2>1, <2>2, <2>3, <3>2, <3>3, <3>4 DEF SlaveSends
  <2>4. CASE "out" \notin slines
    BY <1>1, <2>1, <2>4 DEF SlaveSends
  <2>5. QED
    BY <2>3, <2>4
<1>6. CASE SlaveEven
  <2>1. /\ spc = "even" /\ spc' = "odd" /\ slr # <<>> /\ slr' = <<>>
        /\ UNCHANGED <<srestart, sframe, sdout>>
    BY <1>6 DEF SlaveEven
  <2>2. SUpcoming' = SUpcoming /\ Queueing' = Queueing
    BY <2>1 DEF SUpcoming, Queueing
  <2>3. QED
    BY <1>1, <2>1, <2>2 DEF SlaveSends, Places
<1>7. CASE SlaveOdd
  <2>1. /\ spc = "odd" /\ slr # <<>> /\ slr' = <<>> /\ UNCHANGED <<srestart, sframe>>
        /\ spc' = "init" \/ (spc' = "check" /\ srestart = Proceed)
    BY <1>7 DEF SlaveOdd
  <2>2. CASE "out" \in slines /\ spc' = "check"
    <3>1. Len(sdout) < 2 /\ sdout' = Append(sdout, SUpcoming)
      BY <1>7, <2>1, <2>2 DEF SlaveOdd, Room, SUpcoming
    <3>2. Chain(sdout, SUpcoming) /\ Len(sdout) = 1
      BY <2>1, <2>2 DEF SlaveSends, Places, Queueing
    <3>3. SUpcoming' = After(SUpcoming) /\ Queueing' = 2
      BY <2>1, <2>2, AfterSample DEF SUpcoming, Queueing
    <3>4. Chain(sdout', SUpcoming') /\ Len(sdout') = Len(sdout) + 1
      BY <1>1, <3>1, <3>2, <3>3, ChainAppend, SlaveUpcoming
    <3>5. Len(sdout') = 2
      BY <3>2, <3>4
    <3>6. QED
      BY <1>1, <2>1, <2>2, <3>3, <3>4, <3>5 DEF SlaveSends
  <2>3. CASE "out" \notin slines
    <3>1. sdout' = <<>>
      BY <1>7, <2>3 DEF SlaveOdd, SlaveSends
    <3>2. QED
      BY <1>1, <2>1, <2>3, <3>1 DEF SlaveSends
  <2>4. CASE spc' = "init"
    <3>1. "out" \notin slines => sdout' = <<>>
      BY <1>7 DEF SlaveOdd, SlaveSends
    <3>2. QED
      BY <1>1, <2>4, <3>1 DEF SlaveSends, Places
  <2>5. QED
    BY <2>1, <2>2, <2>3, <2>4
<1>8. QED
  BY <1>2, <1>3, <1>4, <1>5, <1>6, <1>7 DEF SlaveStep

(* The words of a slave that is on the bus leave in order.                 *)
LEMMA SlaveQueued ==
  ASSUME SlaveSends, Active, SlaveInTime, "out" \in slines
  PROVE  /\ slr = <<>> /\ Chain(sdout, SUpcoming) /\ spc \in Places
         /\ ~(spc = "even" /\ srestart = Proceed)
         /\ Len(sdout) = IF spc = "odd" /\ srestart # Proceed THEN 1 ELSE 2
         /\ sdout # <<>>
<1>1. slr = <<>> /\ spc \in Places
  BY DEF SlaveInTime, Active, Looping, Places
<1>2. ~(spc = "even" /\ srestart = Proceed) /\ Chain(sdout, SUpcoming)
  BY <1>1 DEF SlaveSends
<1>3. Len(sdout) = IF spc = "odd" /\ srestart # Proceed THEN 1 ELSE 2
  BY <1>1, <1>2 DEF SlaveSends, Queueing
<1>4. sdout # <<>>
  BY <1>3
<1>5. QED
  BY <1>1, <1>2, <1>3, <1>4

LEMMA SlaveWordSent ==
  ASSUME SlaveSends, Active, SlaveInTime, slr' # <<>>, sdout' = Taken(sdout),
         UNCHANGED <<spc, srestart, sframe, slines>>
  PROVE  SlaveSends'
<1>1. SUpcoming' = SUpcoming
  BY DEF SUpcoming
<1>2. CASE "out" \in slines
  <2>1. sdout' = Tail(sdout)
    BY <1>2, SlaveQueued DEF Taken
  <2>2. Chain(sdout', SUpcoming') /\ Len(sdout') = Len(sdout) - 1
    BY <1>1, <1>2, <2>1, SlaveQueued, ChainTail
  <2>3. Len(sdout') = Queueing'
    <3>1. Queueing' = IF spc = "odd" /\ srestart # Proceed THEN 0 ELSE 1
      BY <1>2, SlaveQueued DEF Queueing
    <3>2. QED
      BY <1>2, <2>2, <3>1, SlaveQueued
  <2>4. QED
    BY <1>2, <2>2, <2>3, SlaveQueued DEF SlaveSends
<1>3. CASE "out" \notin slines
  <2>1. sdout = <<>> /\ sdout' = <<>>
    BY <1>3 DEF SlaveSends, Taken
  <2>2. QED
    BY <1>3, <2>1 DEF SlaveSends
<1>4. QED
  BY <1>2, <1>3

LEMMA WordSlaveSends ==
  ASSUME Queues, Alignment, SlaveSends, Slot \/ SlotEdge, UNCHANGED lines
  PROVE  /\ SlaveSends'
         /\ Active /\ "out" \in slines =>
               /\ sdout # <<>> /\ Chain(sdout, SUpcoming)
               /\ Len(sdout) = IF spc = "odd" /\ srestart # Proceed THEN 1 ELSE 2
<1>1. slines' = slines /\ SlaveInTime /\ UNCHANGED <<srestart, sframe>>
  BY DEF Slot, SlotEdge, InTime, lines
<1>2. Active /\ "out" \in slines =>
               /\ sdout # <<>> /\ Chain(sdout, SUpcoming)
               /\ Len(sdout) = IF spc = "odd" /\ srestart # Proceed THEN 1 ELSE 2
  BY <1>1, SlaveQueued
<1>3. CASE Slot /\ Active
  <2>1. spc # "high" /\ (spc = "high" \/ spc' = spc)
    BY <1>3 DEF Slot, Active, Looping
  <2>2. \E x : slr' = <<x>> /\ sdout' = Taken(sdout)
    BY <1>3 DEF Slot
  <2>3. QED
    BY <1>1, <1>2, <1>3, <2>1, <2>2, SlaveWordSent, Tuples
<1>4. CASE Slot /\ ~Active
  <2>1. UNCHANGED <<slr, sdout>> /\ (spc' = spc \/ (spc = "high" /\ spc' = "low"))
    BY <1>4 DEF Slot
  <2>2. CASE spc' = spc
    BY <1>1, <1>2, <2>1, <2>2, SlaveSendsStill
  <2>3. CASE spc = "high" /\ spc' = "low"
    BY <1>1, <1>4, <2>1, <2>3 DEF SlaveSends, Places
  <2>4. QED
    BY <1>4, <2>1, <2>2, <2>3
<1>5. CASE SlotEdge
  <2>1. spc = "low" /\ spc' = "arm" /\ UNCHANGED <<slr, sdout>>
    BY <1>5 DEF SlotEdge
  <2>2. QED
    BY <1>1, <2>1 DEF SlaveSends, Places, Active, Looping
<1>6. QED
  BY <1>3, <1>4, <1>5

LEMMA MasterSlaveSends ==
  ASSUME SlaveSends, MasterStep, UNCHANGED lines
  PROVE  SlaveSends'
<1>1. CASE UNCHANGED slave
  BY <1>1, SlaveSendsStill DEF slave, lines
<1>2. CASE spc = "low" /\ spc' = "arm" /\ UNCHANGED <<srestart, sframe, slr, sdout>>
  BY <1>2 DEF SlaveSends, Places, lines
<1>3. CASE /\ Active /\ SlaveInTime /\ slr' = <<0>> /\ sdout' = Taken(sdout)
           /\ UNCHANGED <<spc, srestart, sframe>>
  <2>1. slr' # <<>>
    BY <1>3, Levels
  <2>2. QED
    BY <1>3, <2>1, SlaveWordSent DEF lines
<1>4. QED
  BY <1>1, <1>2, <1>3, InsideStep
  DEF MasterStep, Inside, MasterStart, Resumed, MasterInOdd

-----------------------------------------------------------------------------
(* What the master reads.  A slave is on its frames, or it is not, for the *)
(* two words of a frame alike, unless one of them is torn or the other of  *)
(* its own frame.                                                          *)
InPhase == spc \in Places /\ wait = 0 /\ grid = "frames"
Got == mpc \in {"lr_even", "out_odd", "in_odd"}

First(x) ==
    \/ x.ch = 1
    \/ x = Idle /\ ("out" \in slines => ~InPhase)
    \/ \E g \in FrameNumbers :
          x = Sample(g, 0) /\ InPhase /\ sdout # <<>> /\ Head(sdout) = Sample(g, 1)
Pair(x, y) ==
    \/ x.ch = 1 \/ y = Torn \/ (y.ch = 0 /\ y # Idle) \/ (x = Idle /\ y = Idle)
    \/ \E g \in FrameNumbers : x = Sample(g, 0) /\ y = Sample(g, 1)

MasterReads ==
    /\ "in" \notin mlines => mlast = NoFrame
    /\ "in" \in mlines =>
          /\ Got => \E x : mgot = <<x>>
          /\ mdin = <<>> \/ \E x : mdin = <<x>>
          /\ ~Got /\ mdin # <<>> => First(mdin[1])
          /\ Got /\ mdin = <<>> => First(mgot[1])
          /\ Got /\ mdin # <<>> => Pair(mgot[1], mdin[1])
          /\ mlast # NoFrame => \E x, y : mlast = <<x, y>> /\ Pair(x, y)

Frame == Alignment /\ SlaveSends /\ MasterReads

LEMMA LevelCount ==
  \A q \in Seq({0, 1}), due \in {0, 1} : Alternate(q, due) =>
     Current(q, due) = IF Len(q) = 1 THEN 1 - due ELSE due
<1> SUFFICES ASSUME NEW q \in Seq({0, 1}), NEW due \in {0, 1}, Alternate(q, due)
             PROVE  Current(q, due) = IF Len(q) = 1 THEN 1 - due ELSE due
  OBVIOUS
<1>1. CASE q = <<>>
  BY <1>1 DEF Current
<1>2. CASE q = <<1 - due>>
  BY <1>2, Tuples DEF Current
<1>3. CASE q = <<due, 1 - due>>
  BY <1>3, Tuples DEF Current
<1>4. QED
  BY <1>1, <1>2, <1>3 DEF Alternate

(* Half a frame is captured exactly while the high level is next.          *)
LEMMA MidFrame ==
  ASSUME Queues, "in" \in mlines, bclk
  PROVE  Level = IF (Got <=> mdin = <<>>) THEN 1 ELSE 0
<1>1. Types /\ MasterQueues
  BY DEF Queues
<1>2. /\ mlr \in Seq({0, 1}) /\ Alternate(mlr, Due) /\ Due \in {0, 1}
      /\ mpc \notin {"init", "exit"}
      /\ mpc \in {"out_even", "out_odd"} => mrestart = Proceed
  BY <1>1, UpcomingFacts DEF MasterQueues
<1>3. Level = IF Len(mlr) = 1 THEN 1 - Due ELSE Due
  BY <1>2, LevelCount DEF Level
<1>4. PICK l \in Nat, n \in Nat :
        /\ l = Len(mlr) /\ n = Len(mdin) /\ l <= 2 /\ n <= 1
        /\ l + n = IF mpc = "lr_even" THEN 1
                  ELSE IF mpc = "in_odd" /\ mrestart = Proceed THEN 3 ELSE 2
  <2>1. Len(mlr) \in Nat /\ Len(mdin) \in Nat /\ Len(mlr) <= 2 /\ Len(mdin) <= 1
    BY <1>1 DEF MasterQueues, Types
  <2>2. Len(mlr) + Len(mdin) = IF mpc = "lr_even" THEN 1
                  ELSE IF mpc = "in_odd" /\ mrestart = Proceed THEN 3 ELSE 2
    BY <1>1 DEF MasterQueues
  <2>3. QED
    BY <2>1, <2>2
<1>5. mdin = <<>> <=> n = 0
  BY <1>1, <1>4 DEF Types
<1>6. n = 0 \/ n = 1
  BY <1>4
<1>7. CASE mpc \in {"check", "out_even", "in_even"}
  <2>1. Due = 0 /\ ~Got /\ l + n = 2
    BY <1>4, <1>7 DEF Due, Got
  <2>2. l = 1 <=> n = 1
    BY ONLY <2>1, <1>6, l \in Nat, n \in Nat
  <2>3. QED
    BY <1>3, <1>4, <1>5, <1>6, <2>1, <2>2
<1>8. CASE mpc = "lr_even"
  <2>1. Due = 0 /\ Got /\ l + n = 1
    BY <1>4, <1>8 DEF Due, Got
  <2>2. l = 1 <=> n = 0
    BY ONLY <2>1, <1>6, l \in Nat, n \in Nat
  <2>3. QED
    BY <1>3, <1>4, <1>5, <1>6, <2>1, <2>2
<1>9. CASE mpc = "out_odd" \/ (mpc = "in_odd" /\ mrestart # Proceed)
  <2>1. Due = 1 /\ Got /\ l + n = 2
    BY <1>2, <1>4, <1>9 DEF Due, Got
  <2>2. l = 1 <=> n = 1
    BY ONLY <2>1, <1>6, l \in Nat, n \in Nat
  <2>3. QED
    BY <1>3, <1>4, <1>5, <1>6, <2>1, <2>2
<1>10. CASE mpc = "in_odd" /\ mrestart = Proceed
  <2>1. Due = 0 /\ Got /\ l + n = 3
    BY <1>4, <1>10 DEF Due, Got
  <2>2. l = 2 /\ n = 1
    BY ONLY <2>1, <1>6, <1>4, l \in Nat, n \in Nat
  <2>3. QED
    BY <1>3, <1>4, <1>5, <1>6, <2>1, <2>2
<1>11. QED
  BY <1>1, <1>2, <1>7, <1>8, <1>9, <1>10 DEF Types

LEMMA FrameInit == Init => Frame
<1> SUFFICES ASSUME Init PROVE Frame
  OBVIOUS
<1>1. mpc = "init" /\ mdin = <<>> /\ mlast = NoFrame
  BY DEF Init
<1>2. QED
  BY <1>1, AlignmentInit, SlaveSendsInit DEF Frame, MasterReads, Got

LEMMA MasterFrame ==
  ASSUME Queues, Frame, MasterStep, UNCHANGED lines
  PROVE  Frame'
<1>1. Alignment' /\ SlaveSends' /\ MasterReads
  BY MasterAlignment, MasterSlaveSends DEF Frame
<1>2. mlines' = mlines /\ slines' = slines
  BY DEF lines
<1>3. CASE Inside
  <2>1. UNCHANGED <<spc, wait, grid, sdout, mlast>>
    BY <1>3, InsideStep DEF slave
  <2>2. \A x : First(x) => First(x)'
    BY <1>2, <2>1 DEF First, InPhase
  <2>3. CASE MasterInEven
    <3>1. /\ mpc = "in_even" /\ mpc' = "lr_even" /\ mgot' = mdin /\ mdin' = <<>>
          /\ "in" \in mlines => mdin # <<>>
      BY <2>3 DEF MasterInEven
    <3>2. ~Got /\ Got'
      BY <3>1 DEF Got
    <3>3. MasterReads'
      BY <1>1, <1>2, <2>1, <2>2, <3>1, <3>2 DEF MasterReads
    <3>4. QED
      BY <1>1, <3>3 DEF Frame
  <2>4. CASE ~MasterInEven
    <3>1. UNCHANGED <<mgot, mdin>> /\ (Got' <=> Got)
      BY <1>3, <2>4
      DEF Inside, MasterCheck, MasterOutEven, MasterLrEven, MasterOutOdd, Got
    <3>2. MasterReads'
      BY <1>1, <1>2, <2>1, <2>2, <3>1 DEF MasterReads
    <3>3. QED
      BY <1>1, <3>2 DEF Frame
  <2>5. QED
    BY <2>3, <2>4
<1>4. CASE MasterStart
  <2>1. mpc' = "check" /\ mdin' = <<>> /\ mlast' = mlast
    BY <1>4 DEF MasterStart
  <2>2. ~Got'
    BY <2>1 DEF Got
  <2>3. MasterReads'
    BY <1>1, <1>2, <2>1, <2>2 DEF MasterReads
  <2>4. QED
    BY <1>1, <2>3 DEF Frame
<1>5. CASE MasterInOdd
  <2>1. /\ Got /\ mdin' = <<>> /\ ("in" \in mlines => mdin # <<>>)
        /\ mlast' = IF "in" \in mlines THEN mgot \o mdin ELSE NoFrame
    BY <1>5 DEF MasterInOdd, Got
  <2>2. ~Got'
    BY <1>5 DEF MasterInOdd, Got, Queues, Types, Commands, Proceed
  <2>3. CASE "in" \in mlines
    <3>1. PICK x, y : mgot = <<x>> /\ mdin = <<y>>
      BY <1>1, <2>1, <2>3 DEF MasterReads
    <3>2. Pair(x, y)
      BY <1>1, <2>1, <2>3, <3>1, Tuples DEF MasterReads
    <3>3. mlast' = <<x, y>>
      BY <2>1, <2>3, <3>1, Pairs
    <3>4. MasterReads'
      BY <1>2, <2>1, <2>2, <2>3, <3>2, <3>3 DEF MasterReads, Pair
    <3>5. QED
      BY <1>1, <3>4 DEF Frame
  <2>4. CASE "in" \notin mlines
    <3>1. MasterReads'
      BY <1>2, <2>1, <2>4 DEF MasterReads
    <3>2. QED
      BY <1>1, <3>1 DEF Frame
  <2>5. QED
    BY <2>3, <2>4
<1>6. QED
  BY <1>3, <1>4, <1>5 DEF MasterStep, Inside

LEMMA SlaveFrame ==
  ASSUME Queues, Frame, SlaveStep, UNCHANGED lines
  PROVE  Frame'
<1>1. Alignment' /\ SlaveSends' /\ MasterReads /\ Alignment /\ SlaveSends
  BY SlaveAlignment, SlaveSendsStep DEF Frame
<1>2. /\ mlines' = mlines /\ slines' = slines /\ UNCHANGED <<mpc, mgot, mdin, mlast, grid>>
      /\ Got' = Got /\ Types /\ MasterQueues
  BY SlaveStill DEF lines, master, Got, Queues
<1>3. ASSUME NEW x, First(x), bclk, Level = 1 PROVE First(x)'
  <2>1. CASE SlaveStart
    <3>1. ~InPhase /\ ~InPhase'
      BY <2>1 DEF SlaveStart, InPhase, Places
    <3>2. QED
      BY <1>2, <1>3, <3>1 DEF First
  <2>2. CASE SlaveArm
    <3>1. ~InPhase /\ spc = "arm" /\ wait' = wait /\ slr = <<>>
      BY <1>1, <2>2 DEF SlaveArm, InPhase, Places, Alignment
    <3>2. ~InPhase'
      BY <1>1, <1>2, <1>3, <3>1 DEF Alignment, InPhase, Half, Reading
    <3>3. QED
      BY <1>2, <1>3, <3>1, <3>2 DEF First
  <2>3. CASE (\E r \in SlaveCommands : SlaveCheck(r)) \/ SlaveEven
    <3>1. UNCHANGED <<sdout, wait>> /\ spc \in Places /\ spc' \in Places
      BY <2>3 DEF SlaveCheck, SlaveEven, Places
    <3>2. QED
      BY <1>2, <1>3, <3>1 DEF First, InPhase
  <2>4. CASE SlaveOutEven
    <3>1. /\ wait' = wait /\ spc \in Places /\ spc' \in Places
          /\ sdout' = sdout \/ sdout' = Append(sdout, Sample(sframe, 0))
      BY <2>4 DEF SlaveOutEven, Places
    <3>2. sdout # <<>> => sdout' # <<>> /\ Head(sdout') = Head(sdout)
      <4>1. Sample(sframe, 0) \in Samples /\ sdout \in Seq(Samples)
        BY <1>2, LineTypes, Numbers DEF Types
      <4>2. QED
        BY <3>1, <4>1
    <3>3. QED
      BY <1>2, <1>3, <3>1, <3>2 DEF First, InPhase
  <2>5. CASE SlaveOdd
    <3>1. ~InPhase
      <4>1. spc = "odd" /\ slr # <<>>
        BY <2>5 DEF SlaveOdd
      <4>2. QED
        BY <1>1, <1>3, <4>1 DEF Alignment, Half, Reading, InPhase
    <3>2. ~InPhase'
      BY <1>2, <2>5, <3>1 DEF SlaveOdd, InPhase, Places
    <3>3. QED
      BY <1>2, <1>3, <3>1, <3>2 DEF First
  <2>6. QED
    BY <2>1, <2>2, <2>3, <2>4, <2>5 DEF SlaveStep
<1>4. CASE "in" \notin mlines
  BY <1>1, <1>2, <1>4 DEF Frame, MasterReads
<1>5. CASE "in" \in mlines
  <2>1. Got \/ mdin # <<>> => bclk
    BY <1>2, <1>5 DEF MasterQueues, Got
  <2>2. bclk => Level = IF (Got <=> mdin = <<>>) THEN 1 ELSE 0
    BY <1>5, MidFrame
  <2>3. ~Got /\ mdin # <<>> => First(mdin[1])'
    BY <1>1, <1>2, <1>3, <1>5, <2>1, <2>2 DEF MasterReads
  <2>4. Got /\ mdin = <<>> => First(mgot[1])'
    BY <1>1, <1>2, <1>3, <1>5, <2>1, <2>2 DEF MasterReads
  <2>5. MasterReads'
    BY <1>1, <1>2, <1>5, <2>3, <2>4 DEF MasterReads, Pair
  <2>6. QED
    BY <1>1, <2>5 DEF Frame
<1>6. QED
  BY <1>4, <1>5

(* The two words a slave on its frames sends first.                        *)
LEMMA SlaveLeft ==
  ASSUME Queues, Alignment, SlaveSends, Slot, UNCHANGED lines,
         Active, spc # "odd", "out" \in slines
  PROVE  \E g \in FrameNumbers :
            /\ Head(sdout) = Sample(g, 0)
            /\ sdout' # <<>> /\ Head(sdout') = Sample(g, 1)
<1>1. /\ sdout # <<>> /\ Chain(sdout, SUpcoming) /\ spc \in Places
      /\ Len(sdout) = 2 /\ ~(spc = "even" /\ srestart = Proceed)
  BY SlaveQueued DEF Slot, InTime
<1>2. SUpcoming.ch = 0
  BY <1>1, Numbers DEF SUpcoming, Places
<1>3. ASSUME NEW v \in Real, sdout = <<v>> PROVE FALSE
  BY <1>1, <1>3, Tuples
<1>4. PICK v \in Real : sdout = <<v, After(v)>> /\ SUpcoming = After(After(v))
  BY <1>1, <1>3 DEF Chain
<1>5. v.ch = 0
  <2>1. v.ch \in {0, 1} /\ After(v) \in Real /\ After(v).ch = 1 - v.ch
    BY AfterFacts
  <2>2. After(After(v)).ch = 1 - (1 - v.ch)
    BY <2>1, AfterFacts
  <2>3. QED
    BY <1>2, <1>4, <2>1, <2>2
<1>6. v = Sample(v.frame, 0) /\ v.frame \in FrameNumbers
  BY <1>5, AfterFacts
<1>7. sdout' = Tail(sdout)
  BY <1>1 DEF Slot, Taken
<1>8. sdout' = <<After(v)>> /\ Head(sdout) = v
  BY <1>4, <1>7, Tuples
<1>9. After(v) = Sample(v.frame, 1)
  BY <1>6, AfterSample
<1>10. QED
  BY <1>6, <1>8, <1>9, Tuples

(* Half a frame later it sends a right sample.                             *)
LEMMA SlaveRight ==
  ASSUME Queues, SlaveSends, SlaveInTime, Active, spc = "odd", "out" \in slines
  PROVE  Head(sdout).ch = 1
<1>1. /\ sdout # <<>> /\ Chain(sdout, SUpcoming)
      /\ Len(sdout) = IF srestart # Proceed THEN 1 ELSE 2
  BY SlaveQueued
<1>2. CASE srestart = Proceed
  <2>1. SUpcoming.ch = 1
    BY <1>2, Numbers DEF SUpcoming
  <2>2. ASSUME NEW v \in Real, sdout = <<v>> PROVE FALSE
    BY <1>1, <1>2, <2>2, Tuples
  <2>3. PICK v \in Real : sdout = <<v, After(v)>> /\ SUpcoming = After(After(v))
    BY <1>1, <2>2 DEF Chain
  <2>4. v.ch \in {0, 1} /\ After(v) \in Real /\ After(v).ch = 1 - v.ch
    BY AfterFacts
  <2>5. After(After(v)).ch = 1 - (1 - v.ch)
    BY <2>4, AfterFacts
  <2>6. v.ch = 1
    BY <2>1, <2>3, <2>4, <2>5
  <2>7. QED
    BY <2>3, <2>6, Tuples
<1>3. CASE srestart # Proceed
  <2>1. SUpcoming.ch = 0
    BY <1>3, Numbers DEF SUpcoming
  <2>2. ASSUME NEW v \in Real, sdout = <<v, After(v)>> PROVE FALSE
    BY <1>1, <1>3, <2>2, Tuples
  <2>3. PICK v \in Real : sdout = <<v>> /\ SUpcoming = After(v)
    BY <1>1, <2>2 DEF Chain
  <2>4. v.ch \in {0, 1} /\ After(v).ch = 1 - v.ch
    BY AfterFacts
  <2>5. v.ch = 1
    BY <2>1, <2>3, <2>4
  <2>6. QED
    BY <2>3, <2>5, Tuples
<1>4. QED
  BY <1>2, <1>3

LEMMA WordFrame ==
  ASSUME Queues, Frame, Slot \/ SlotEdge, UNCHANGED lines
  PROVE  Frame'
<1>1. Alignment' /\ SlaveSends' /\ MasterReads /\ Alignment /\ SlaveSends
  BY WordAlignment, WordSlaveSends DEF Frame
<1>2. /\ mlines' = mlines /\ slines' = slines /\ UNCHANGED <<mpc, mgot, mlast>>
      /\ Got' = Got /\ Types /\ bclk /\ InTime /\ mdin = <<>>
  BY DEF Slot, SlotEdge, lines, Got, Queues, InTime
<1>3. CASE "in" \notin mlines
  BY <1>1, <1>2, <1>3 DEF Frame, MasterReads
<1>4. CASE "in" \in mlines
  <2>0. PICK x : x = mdin'[1]
    OBVIOUS
  <2>1. /\ mdin' = <<x>>
        /\ \/ x = Idle /\ (SlotEdge \/ ~Active \/ sdout = <<>>)
           \/ /\ Slot /\ Active /\ sdout # <<>>
              /\ x = IF grid = "bits" THEN Torn ELSE Head(sdout)
    <3>1. CASE SlotEdge
      <4>1. mdin' = Captured(mlines, Idle)
        BY <3>1 DEF SlotEdge
      <4>2. mdin' = <<Idle>>
        BY <1>4, <4>1 DEF Captured
      <4>3. x = Idle
        BY <2>0, <4>2, Tuples
      <4>4. QED
        BY <3>1, <4>2, <4>3
    <3>2. CASE Slot /\ (~Active \/ sdout = <<>>)
      <4>1. mdin' = Captured(mlines, Idle)
        BY <3>2 DEF Slot
      <4>2. mdin' = <<Idle>>
        BY <1>4, <4>1 DEF Captured
      <4>3. x = Idle
        BY <2>0, <4>2, Tuples
      <4>4. QED
        BY <3>2, <4>2, <4>3
    <3>3. CASE Slot /\ Active /\ sdout # <<>>
      <4>1. mdin' = Captured(mlines, IF grid = "bits" THEN Torn ELSE Head(sdout))
        BY <3>3 DEF Slot
      <4>2. mdin' = <<IF grid = "bits" THEN Torn ELSE Head(sdout)>>
        BY <1>4, <4>1 DEF Captured
      <4>3. QED
        BY <2>0, <3>3, <4>2, Tuples
    <3>4. QED
      BY <3>1, <3>2, <3>3
  <2>2. mdin' # <<>> /\ mdin'[1] = x
    BY <2>1, Tuples
  <2>3. Level = IF Got THEN 1 ELSE 0
    BY <1>2, <1>4, MidFrame
  <2>3a. Slot /\ Active /\ grid = "words" /\ "out" \in slines =>
           /\ sdout # <<>>
           /\ Head(sdout).ch = 1 - Level /\ (Level = 1 => Head(sdout) # Idle)
    <3>1. SUFFICES ASSUME Slot, Active, grid = "words", "out" \in slines
                   PROVE  /\ sdout # <<>> /\ Head(sdout).ch = 1 - Level
                          /\ Level = 1 => Head(sdout) # Idle
      OBVIOUS
    <3>2. spc \in Places /\ wait = 0 /\ slr = <<>> /\ SlaveInTime
      BY <1>2, <3>1 DEF Active, Looping, Places, InTime, SlaveInTime
    <3>3. Level = IF spc = "odd" THEN 0 ELSE 1
      BY <1>1, <3>1, <3>2 DEF Alignment, Reading, Half
    <3>4. CASE spc = "odd"
      BY <1>1, <3>1, <3>2, <3>3, <3>4, SlaveRight, SlaveQueued
    <3>5. CASE spc # "odd"
      <4>1. PICK g \in FrameNumbers : Head(sdout) = Sample(g, 0)
        BY <1>1, <3>1, <3>5, SlaveLeft
      <4>2. Idle.frame \notin FrameNumbers
        BY Numbers DEF Idle, FrameNumbers
      <4>3. Head(sdout).ch = 0 /\ Head(sdout) # Idle
        BY <4>1, <4>2, Numbers
      <4>4. QED
        BY <1>1, <3>1, <3>2, <3>3, <3>5, <4>3, SlaveQueued
    <3>6. QED
      BY <3>4, <3>5
  <2>4. CASE Got
    <3>1. First(mgot[1])
      BY <1>1, <1>2, <1>4, <2>4 DEF MasterReads
    <3>2. Pair(mgot[1], x)
      <4>1. CASE mgot[1].ch = 1
        BY <4>1 DEF Pair
      <4>2. CASE mgot[1] = Idle /\ ("out" \in slines => ~InPhase)
        <5>1. "out" \notin slines => sdout = <<>>
          BY <1>1 DEF SlaveSends
        <5>2. Active /\ grid = "frames" => InPhase
          BY DEF Active, Looping, InPhase, Places
        <5>3. x = Idle \/ x = Torn \/ (x.ch = 0 /\ x # Idle)
          BY <1>2, <2>1, <2>3, <2>3a, <2>4, <4>2, <5>1, <5>2 DEF Types
        <5>4. QED
          BY <4>2, <5>3 DEF Pair
      <4>3. ASSUME NEW g \in FrameNumbers, mgot[1] = Sample(g, 0), InPhase,
                   sdout # <<>>, Head(sdout) = Sample(g, 1)
            PROVE  Pair(mgot[1], x)
        <5>1. Active /\ grid = "frames" /\ ~SlotEdge
          BY <4>3 DEF InPhase, Active, Looping, Places, SlotEdge
        <5>2. x = Sample(g, 1)
          BY <2>1, <4>3, <5>1
        <5>3. QED
          BY <4>3, <5>2 DEF Pair
      <4>4. QED
        BY <3>1, <4>1, <4>2, <4>3 DEF First
    <3>3. MasterReads'
      BY <1>1, <1>2, <1>4, <2>1, <2>2, <2>4, <3>2 DEF MasterReads, Pair
    <3>4. QED
      BY <1>1, <3>3 DEF Frame
  <2>5. CASE ~Got
    <3>1. Level = 0
      BY <2>3, <2>5
    <3>2. First(x)'
      <4>1. CASE Slot /\ Active /\ grid = "frames" /\ "out" \in slines
        <5>0. spc # "odd"
          <6>1. slr = <<>> /\ spc \in Places /\ wait = 0
            BY <1>2, <4>1 DEF InTime, SlaveInTime, Active, Looping, Places
          <6>2. QED
            BY <1>1, <1>2, <3>1, <4>1, <6>1 DEF Alignment, Reading, Half
        <5>1. PICK g \in FrameNumbers :
                /\ Head(sdout) = Sample(g, 0)
                /\ sdout' # <<>> /\ Head(sdout') = Sample(g, 1)
          BY <1>1, <4>1, <5>0, SlaveLeft
        <5>2. sdout # <<>>
          BY <1>1, <4>1, WordSlaveSends
        <5>3. x = Sample(g, 0)
          <6>1. ~SlotEdge
            BY <4>1 DEF Active, Looping, SlotEdge
          <6>2. QED
            BY <2>1, <4>1, <5>1, <5>2, <6>1
        <5>4. InPhase'
          <6>1. spc \in Places /\ wait = 0
            BY <4>1 DEF Active, Looping, Places
          <6>2. wait' = IF wait > 0 THEN wait - 1 ELSE 0
            BY <4>1 DEF Slot
          <6>3. spc = "high" \/ UNCHANGED <<spc, grid>>
            BY <4>1 DEF Slot
          <6>4. wait' = 0
            BY <6>1, <6>2
          <6>5. spc' = spc /\ grid' = grid
            BY <6>1, <6>3 DEF Places
          <6>6. QED
            BY <4>1, <6>1, <6>4, <6>5 DEF InPhase
        <5>5. QED
          BY <5>1, <5>3, <5>4 DEF First
      <4>2. CASE "out" \notin slines
        <5>1. sdout = <<>>
          BY <1>1, <4>2 DEF SlaveSends
        <5>2. x = Idle
          BY <2>1, <5>1
        <5>3. QED
          BY <1>2, <4>2, <5>2 DEF First
      <4>3. CASE Slot /\ Active /\ grid # "frames"
        <5>0. "out" \notin slines => sdout = <<>>
          BY <1>1 DEF SlaveSends
        <5>1. x = Idle \/ x.ch = 1
          <6>1. Torn.ch = 1
            BY DEF Torn
          <6>2. QED
            BY <1>2, <2>1, <2>3a, <3>1, <4>3, <5>0, <6>1 DEF Types
        <5>2. grid' = grid
          BY <4>3 DEF Slot
        <5>3. QED
          BY <4>3, <5>1, <5>2 DEF First, InPhase
      <4>4. CASE Slot /\ ~Active
        <5>1. x = Idle
          BY <2>1, <4>4
        <5>2. ~InPhase'
          <6>1. SUFFICES ASSUME InPhase' PROVE FALSE
            OBVIOUS
          <6>2. spc' = spc /\ grid' = grid /\ spc \in Places
            BY <4>4, <6>1 DEF Slot, InPhase, Places
          <6>3. wait = 1
            BY <1>2, <4>4, <6>2 DEF Active, Looping, Places, Types
          <6>4. QED
            BY <1>1, <1>2, <3>1, <6>1, <6>2, <6>3 DEF Alignment, Reading, InPhase
        <5>3. QED
          BY <5>1, <5>2 DEF First
      <4>5. CASE SlotEdge
        <5>1. spc' = "arm"
          BY <4>5 DEF SlotEdge
        <5>2. x = Idle
          BY <2>1, <4>5 DEF SlotEdge, Active, Looping
        <5>3. QED
          BY <5>1, <5>2 DEF First, InPhase, Places
      <4>6. QED
        BY <4>1, <4>2, <4>3, <4>4, <4>5
    <3>3. MasterReads'
      BY <1>1, <1>2, <1>4, <2>1, <2>2, <2>5, <3>2 DEF MasterReads, Pair
    <3>4. QED
      BY <1>1, <3>3 DEF Frame
  <2>6. QED
    BY <2>4, <2>5
<1>5. QED
  BY <1>3, <1>4

-----------------------------------------------------------------------------
(* The invariant.                                                          *)
Bus == Queues /\ Frame /\ SlaveSide

LEMMA BusInit == Init => Bus
BY QueuesInit, FrameInit, SlaveSideInit DEF Bus

LEMMA BusStep ==
  ASSUME Bus, [Next]_vars
  PROVE  Bus'
<1>1. Queues /\ Frame /\ SlaveSide
  BY DEF Bus
<1>2. Queues'
  BY <1>1, QueuesStep
<1>3. CASE MasterStep /\ UNCHANGED lines
  BY <1>1, <1>2, <1>3, MasterFrame, MasterSlaveSide DEF Bus
<1>4. CASE SlaveStep /\ UNCHANGED lines
  BY <1>1, <1>2, <1>4, SlaveFrame, SlaveStepSlaveSide DEF Bus
<1>5. CASE (Slot \/ SlotEdge) /\ UNCHANGED lines
  BY <1>1, <1>2, <1>5, WordFrame, WordSlaveSide DEF Bus
<1>6. CASE UNCHANGED vars
  <2>1. UNCHANGED <<mlines, slines, mpc, mrestart, mframe, mlr, mdout, mdin, bclk, mgot,
                    mheld, mlast, spc, srestart, sframe, slr, sdout, sdin, syncerror,
                    wait, sgot, slast, grid, cut>>
    BY <1>6 DEF vars, lines, master, slave
  <2>2. Alignment'
    BY <1>1, <2>1
    DEF Frame, Alignment, Half, Level, Current, Due
  <2>3. SlaveSends'
    BY <1>1, <2>1, SlaveSendsStill DEF Frame
  <2>4. MasterReads'
    BY <1>1, <2>1 DEF Frame, MasterReads, First, Pair, InPhase, Got
  <2>5. Detection'
    BY <1>1, <2>1 DEF SlaveSide, Detection, Fresh
  <2>6. SlaveReads'
    <3>1. Wire' = Wire
      BY <2>1 DEF Wire, Upcoming
    <3>2. \A f : FrameRead(f) => FrameRead(f)'
      BY <2>1, <3>1 DEF FrameRead, Ahead, Half
    <3>3. QED
      BY <1>1, <2>1, <3>2 DEF SlaveSide, SlaveReads, Intact
  <2>7. QED
    BY <1>2, <2>2, <2>3, <2>4, <2>5, <2>6 DEF Bus, Frame, SlaveSide
<1>7. QED
  BY <1>3, <1>4, <1>5, <1>6 DEF Next

(* A slave that has found the frames knows its place in them; once the     *)
(* clock has stopped under it, it is still on them or finds the            *)
(* synchronisation error in the frame it is reading (i2s_slave.c).         *)
THEOREM Invariance == Spec => []Bus
<1>1. Init => Bus
  BY BusInit
<1>2. Bus /\ [Next]_vars => Bus'
  BY BusStep
<1>3. QED
  BY <1>1, <1>2, PTL DEF Spec

(* Frames cross the bus whole, left sample first, also over restarts of    *)
(* either task and lost or added bits and words: no receive callback gets  *)
(* half a frame of one and half of another, except in the one frame whose  *)
(* word clock is wrong, after which i2s_slave starts all over.             *)
THEOREM FramesWhole == Spec => []WholeFrames
<1>1. Bus => WholeFrames
  <2>1. SUFFICES ASSUME Bus PROVE WholeFrames
    OBVIOUS
  <2>2. SlaveReads /\ MasterReads
    BY <2>1 DEF Bus, Frame, SlaveSide
  <2>3. slast # NoFrame =>
          \/ Whole(slast) \/ (syncerror /\ spc = "init")
          \/ slast = <<Idle, Idle>> /\ "out" \notin mlines
    BY <2>2 DEF SlaveReads
  <2>4. ASSUME mlast # NoFrame, InPlace(mlast)
        PROVE  Whole(mlast) \/ mlast = <<Idle, Idle>>
    <3>1. PICK x, y : mlast = <<x, y>> /\ Pair(x, y)
      BY <2>2, <2>4 DEF MasterReads
    <3>2. x \in Range(<<x, y>>) /\ y \in Range(<<x, y>>)
      BY DEF Range
    <3>3. y # Torn
      BY <2>4, <3>1, <3>2 DEF InPlace
    <3>4. (x = Idle \/ x.ch = 0) /\ (y = Idle \/ y.ch = 1)
      <4>1. mlast[1] = x /\ mlast[2] = y /\ 1 \in 1..Len(mlast) /\ 2 \in 1..Len(mlast)
        BY <3>1, Tuples
      <4>2. mlast[1] = Idle \/ mlast[1].ch = 1 - 1
        BY <2>4, <4>1 DEF InPlace
      <4>3. mlast[2] = Idle \/ mlast[2].ch = 2 - 1
        BY <2>4, <4>1 DEF InPlace
      <4>4. QED
        BY <4>1, <4>2, <4>3
    <3>5. Idle.ch = 0
      BY DEF Idle
    <3>6. x.ch # 1 /\ ~(y.ch = 0 /\ y # Idle)
      BY <3>4, <3>5
    <3>7. QED
      BY <3>1, <3>3, <3>6 DEF Pair, Whole, FrameNumbers
  <2>5. QED
    BY <2>3, <2>4 DEF WholeFrames
<1>2. QED
  BY <1>1, Invariance, PTL

(* The frames a slave receives between two starts are consecutive frames   *)
(* of the master: none is lost to the callbacks or received twice, at once *)
(* or later, also when the clock stopped and started again in between; and *)
(* i2s_slave leaves its loop only on a command or after the clock stopped. *)
THEOREM NoneMissed == Spec => NoFrameMissed
<1> DEFINE Received == spc = "odd" /\ spc' # "odd" =>
                /\ Whole(slast) /\ Whole(slast') =>
                      slast'[1].frame = Following(slast[1].frame)
                /\ spc' = "init" => srestart # Proceed \/ cut
<1>1. Bus /\ [Next]_vars => [Received]_vars
  <2>1. SUFFICES ASSUME Bus, Next, spc = "odd", spc' # "odd"
                 PROVE  /\ Whole(slast) /\ Whole(slast') =>
                              slast'[1].frame = Following(slast[1].frame)
                        /\ spc' = "init" => srestart # Proceed \/ cut
    OBVIOUS
  <2>2. SlaveOdd
    <3>1. CASE MasterStep
      <4>1. UNCHANGED spc \/ spc = "low"
        BY <3>1, InsideStep
        DEF MasterStep, Inside, MasterStart, Resumed, MasterInOdd, slave
      <4>2. QED
        BY <2>1, <4>1
    <3>2. CASE Slot \/ SlotEdge
      BY <2>1, <3>2 DEF Slot, SlotEdge
    <3>3. CASE SlaveStep
      BY <2>1, <3>3
      DEF SlaveStep, SlaveStart, SlaveArm, SlaveCheck, SlaveOutEven, SlaveEven
    <3>4. QED
      BY <2>1, <3>1, <3>2, <3>3 DEF Next
  <2>3. /\ slr # <<>> /\ ("in" \in slines => sdin # <<>>)
        /\ slast' = sgot \o sdin
        /\ spc' = "init" => srestart # Proceed \/ syncerror \/ slr # <<1>>
    BY <2>2 DEF SlaveOdd, Unexpected
  <2>4. SlaveReads /\ Detection /\ Alignment /\ Types
    BY <2>1 DEF Bus, SlaveSide, Queues
  <2>5. spc' = "init" => srestart # Proceed \/ cut
    <3>1. grid = "frames" => ~syncerror /\ slr = <<1>>
      BY <2>1, <2>3, <2>4 DEF Detection, Places
    <3>2. grid # "frames" => cut
      BY <2>4 DEF Alignment
    <3>3. QED
      BY <2>3, <3>1, <3>2
  <2>6. ASSUME Whole(slast), Whole(slast')
        PROVE  slast'[1].frame = Following(slast[1].frame)
    <3>1. PICK h \in FrameNumbers : slast' = <<Sample(h, 0), Sample(h, 1)>>
      BY <2>6 DEF Whole, FrameNumbers
    <3>2. slast # NoFrame
      BY <2>6, Tuples DEF Whole, NoFrame
    <3>3. slast'[1] = Sample(h, 0) /\ slast' # <<>>
      BY <3>1, Tuples
    <3>4. "in" \in slines
      BY <2>4, <3>2 DEF SlaveReads
    <3>5. "out" \in mlines
      <4>1. SUFFICES ASSUME "out" \notin mlines PROVE FALSE
        OBVIOUS
      <4>2. sgot = <<Idle>> /\ sdin = <<Idle>>
        BY <2>1, <2>3, <2>4, <3>4, <4>1 DEF SlaveReads
      <4>3. Idle = Sample(h, 0)
        BY <2>3, <3>3, <4>2, Pairs, Tuples
      <4>4. QED
        BY <4>3, Numbers DEF Idle, FrameNumbers
    <3>6. CASE syncerror \/ (grid # "frames" /\ slr # <<1>>)
      <4>1. PICK v \in Samples : sgot = <<v>> /\ \A g \in FrameNumbers : v # Sample(g, 0)
        BY <2>1, <2>4, <3>4, <3>5, <3>6 DEF SlaveReads, Foreign
      <4>2. slast'[1] = v
        BY <2>3, <2>4, <4>1, Joined DEF Types
      <4>3. QED
        BY <3>3, <4>1, <4>2
    <3>7. CASE ~syncerror /\ (grid = "frames" \/ slr = <<1>>)
      <4>1. Intact /\ spc \in Places
        BY <2>1, <2>4, <3>7 DEF Intact, Places, Alignment, Types
      <4>2. PICK f \in FrameNumbers : FrameRead(f)
        BY <2>4, <3>4, <3>5, <4>1 DEF SlaveReads
      <4>3. slast'[1] = Sample(f, 0)
        <5>1. Sample(f, 0) \in Samples
          BY LineTypes, Numbers
        <5>2. QED
          BY <2>1, <2>3, <2>4, <4>2, <5>1, Joined DEF FrameRead, Types
      <4>4. QED
        BY <3>2, <4>2, <4>3, Numbers DEF FrameRead
    <3>8. QED
      BY <3>6, <3>7
  <2>7. QED
    BY <2>5, <2>6
<1>2. QED
  BY <1>1, Invariance, PTL DEF Spec, NoFrameMissed

(* The queues hold consecutive words, and the levels and the samples the   *)
(* same ones, at every step of every session of the master.                *)
THEOREM QueuesInvariance == Spec => []Queues
<1>1. Init => Queues
  BY QueuesInit
<1>2. Queues /\ [Next]_vars => Queues'
  BY QueuesStep
<1>3. QED
  BY <1>1, <1>2, PTL DEF Spec

(* No port of either task ever holds more than two words to send or one    *)
(* received, and what is queued or captured is a sample, an idle line or a *)
(* torn word, whatever the commands given to the tasks.                    *)
THEOREM TypeCorrect == Spec => []TypeOK
<1>1. Queues => TypeOK
  <2>1. SUFFICES ASSUME Queues PROVE TypeOK
    OBVIOUS
  <2>2. Types /\ SlavePorts /\ MasterQueues
    BY <2>1 DEF Queues
  <2>3. /\ Len(mlr) <= 2 /\ Len(mdout) <= 2 /\ Len(sdout) <= 2
        /\ Len(mdin) <= 1 /\ Len(sdin) <= 1
    BY <2>2 DEF SlavePorts, MasterQueues
  <2>4. Len(slr) <= 1
    <3>1. slr = <<>> \/ (\E c \in {0, 1, 2} : slr = <<c>>)
      BY <2>2 DEF SlavePorts
    <3>2. PICK d \in {0, 1} : d = Len(slr)
      BY <3>1, Tuples
    <3>3. d <= 1
      OBVIOUS
    <3>4. QED
      BY <3>2, <3>3
  <2>5. \A q \in {mdout, mdin, mgot, sdout, sdin, sgot} : q \in Seq(Samples)
    BY <2>2, ChainSamples DEF Types, MasterQueues
  <2>6. \A q \in Seq(Samples) : \A k \in 1..Len(q) : q[k] \in Samples
    OBVIOUS
  <2>7. /\ mheld \in 0..2 /\ wait \in 0..1
        /\ grid \in {"frames", "words", "bits"} /\ cut \in BOOLEAN
    BY <2>2 DEF MasterQueues, Types
  <2>8. QED
    BY <2>2, <2>3, <2>4, <2>5, <2>6, <2>7 DEF TypeOK, Types, Places
<1>2. QED
  BY <1>1, QueuesInvariance, PTL

(* A left sample goes with the low level, and a right one with the high    *)
(* level, in every session; when i2s_ratio_n has stopped the clock, every  *)
(* frame it asked of the application has left.                             *)
THEOREM InStep == Spec => []MasterInStep
<1>1. Queues => MasterInStep
  <2>1. SUFFICES ASSUME Queues PROVE MasterInStep
    OBVIOUS
  <2>2. MasterQueues /\ Types
    BY <2>1 DEF Queues
  <2>3. mpc \in {"init", "exit"} => mheld = 0 /\ mdout = <<>>
    BY <2>2 DEF MasterQueues
  <2>4. ASSUME NEW k \in 1..Len(mdout), k <= Len(mlr)
        PROVE  mlr[k] = mdout[k].ch
    <3>1. mdout # <<>> /\ mlr # <<>> /\ bclk /\ "out" \in mlines
      <4>1. mdout # <<>> /\ mlr # <<>>
        BY <2>2, <2>4, ChainLengths DEF MasterQueues
      <4>2. QED
        BY <2>2, <4>1 DEF MasterQueues
    <3>2. Head(mdout) = Wire /\ Wire \in Real
      BY <2>2, <3>1, ChainTail DEF MasterQueues, Wire
    <3>3. /\ Head(mlr) = Level /\ Level \in {0, 1} /\ mlr \in Seq({0, 1})
          /\ Len(mlr) = 2 => mlr[1] = Head(mlr) /\ mlr[2] = 1 - Head(mlr)
      BY <2>2, <3>1, LevelTail, UpcomingFacts DEF MasterQueues, Level
    <3>4. Level = Wire.ch
      BY <2>2, <3>1 DEF MasterQueues
    <3>5. mdout[1] = Head(mdout) /\ mlr[1] = Head(mlr)
      BY <3>1, <3>3, <2>2, ChainSamples DEF MasterQueues
    <3>6. Len(mdout) = 2 => mdout[2] = After(Head(mdout))
      BY <2>2, ChainSecond DEF MasterQueues
    <3>7. k = 1 \/ (k = 2 /\ Len(mdout) = 2 /\ Len(mlr) = 2)
      <4>1. Len(mdout) \in {0, 1, 2} /\ Len(mlr) \in Nat /\ Len(mlr) <= 2
        BY <2>2, ChainLengths DEF MasterQueues
      <4>2. PICK m \in {0, 1, 2}, l \in Nat : m = Len(mdout) /\ l = Len(mlr) /\ l <= 2
        BY <4>1
      <4>3. k \in 1..m /\ k <= l
        BY <2>4, <4>2
      <4>4. k = 1 \/ (k = 2 /\ m = 2 /\ l = 2)
        BY <4>2, <4>3
      <4>5. QED
        BY <4>2, <4>4
    <3>8. QED
      BY <3>2, <3>3, <3>4, <3>5, <3>6, <3>7, AfterFacts
  <2>5. QED
    BY <2>3, <2>4 DEF MasterInStep
<1>2. QED
  BY <1>1, QueuesInvariance, PTL

=============================================================================
