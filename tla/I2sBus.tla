------------------------------- MODULE I2sBus -------------------------------
(***************************************************************************)
(* The I2S master task (i2s_master.c) and the I2S slave task (i2s_slave.c) *)
(* on one bus, with a data line each way, of which either task may do      *)
(* without one (num_in or num_out is 0).  Time is counted in words: a      *)
(* Slot is the time of one word, half a frame, in which the word clock has *)
(* one level and each data line carries one sample.  The buffered ports    *)
(* hold the word being shifted and one more; software fills and empties    *)
(* them, and is assumed to keep up with the clock (InTime), as the tasks   *)
(* must.  What is left is the pipeline of frames, restarts of both tasks,  *)
(* and the slave finding the frames of the master, to the bit, or losing   *)
(* them.  Words have 32 bits (I2S_DATA_WIDTH).                             *)
(***************************************************************************)
EXTENDS Naturals, Sequences, Functions

CONSTANTS
    Frames,           \* frames are numbered modulo this
    MasterCommands,   \* what restart_check returns to the master,
    SlaveCommands     \* and to the slave

Commands == {"I2S_NO_RESTART", "I2S_RESTART", "I2S_SHUTDOWN"}
Proceed == "I2S_NO_RESTART"

ASSUME I2sAssumption ==
    /\ Frames \in Nat /\ Frames > 3
    /\ MasterCommands \subseteq Commands /\ SlaveCommands \subseteq Commands

VARIABLES
    mlines, slines,            \* the data lines of each task: "in", "out" or both
    mpc, mrestart, mframe,     \* the master: place, command, frame last sent
    mlr, mdout, mdin,          \* its ports: words queued, and captured
    bclk,                      \* the bit clock runs
    mgot, mheld,               \* samples of the frame it reads; history: frames
                               \* started less frames finished in this session
    spc, srestart, sframe,     \* the slave
    slr, sdout, sdin,
    syncerror,
    wait,                      \* words until its ports start
    grid,                      \* its words are those of the master's "frames", only
                               \* "words" of the master, or lie across the "bits" of two
    cut,                       \* history: the clock stopped since it found the frames
    sgot,                      \* samples of the frame it reads
    mlast, slast               \* history: the last frame each task received

master == <<mpc, mrestart, mframe, mlr, mdout, mdin, bclk, mgot, mheld, mlast>>
slave == <<spc, srestart, sframe, slr, sdout, sdin, syncerror, wait, sgot, slast>>
lines == <<mlines, slines>>
vars == <<lines, master, slave, grid, cut>>

Idle == [frame |-> Frames, ch |-> 0]       \* no data: the line is idle
Torn == [frame |-> Frames, ch |-> 1]       \* bits of two words
Sample(f, c) == [frame |-> f, ch |-> c]
NoFrame == <<>>
Following(f) == (f + 1) % Frames
Room(queue) == Len(queue) < 2

Init ==
    /\ mlines \in (SUBSET {"in", "out"}) \ {{}}
    /\ slines \in (SUBSET {"in", "out"}) \ {{}}
    /\ mpc = "init" /\ mrestart = Proceed /\ mframe = 0
    /\ mlr = <<>> /\ mdout = <<>> /\ mdin = <<>>
    /\ bclk = FALSE /\ mgot = NoFrame /\ mheld = 0 /\ mlast = NoFrame
    /\ spc = "init" /\ srestart = Proceed /\ sframe = 0
    /\ slr = <<>> /\ sdout = <<>> /\ sdin = <<>>
    /\ syncerror = FALSE /\ wait = 0 /\ sgot = NoFrame /\ slast = NoFrame
    /\ grid = "frames" /\ cut = FALSE

----------------------------------------------------------------------------
(* The master: i2s_master and i2s_ratio_n *)

Looping == spc \in {"check", "out_even", "even", "odd"}

Active == Looping /\ wait = 0

\* Software has emptied and filled the slave's ports since the last word.
SlaveInTime ==
    Active => /\ slr = <<>> /\ sdin = <<>>
              /\ "out" \in slines => sdout # <<>> \/ srestart # Proceed

Taken(queue) == IF queue = <<>> THEN <<>> ELSE Tail(queue)
Captured(of, sample) == IF "in" \in of THEN <<sample>> ELSE <<>>

\* The clock starts while the slave is at some word of frames it found before.
\* The bits since the clock stopped leave it off the words of the master, or on
\* them: none was added, or, in a slave that was quick enough to take it, a word of
\* the level that was left on the word clock.  It is on the frames if it stood
\* between two of them and nothing was added.
Resumed ==
    \/ grid' = "bits" /\ UNCHANGED slave
    \/ /\ slr = <<>>
       /\ grid' = IF spc = "odd" \/ wait = 1 THEN "words" ELSE "frames"
       /\ UNCHANGED slave
    \/ /\ Active /\ SlaveInTime
       /\ slr' = <<0>> /\ sdout' = Taken(sdout) /\ sdin' = Captured(slines, Idle)
       /\ grid' = "words"
       /\ UNCHANGED <<spc, srestart, sframe, syncerror, wait, sgot, slast>>

\* send for the next frame, in a task with data outputs.
MasterSend ==
    IF "out" \in mlines THEN mframe' = Following(mframe) ELSE UNCHANGED mframe

\* mutant: three words of word clock are queued
MasterStartLong ==
    /\ mpc = "init"
    /\ MasterSend
    /\ mdout' = IF "out" \in mlines
                THEN <<Sample(mframe', 0), Sample(mframe', 1)>> ELSE <<>>
    /\ mlr' = <<0, 1, 0>>
    /\ mdin' = <<>> /\ mgot' = NoFrame
    /\ mheld' = 1
    /\ bclk' = TRUE
    /\ mpc' = "check"
    /\ cut' = (Looping \/ spc = "arm")
    /\ IF cut' THEN Resumed ELSE grid' = "frames" /\ UNCHANGED slave
    /\ UNCHANGED <<mrestart, mlast>>

\* Ports initialised, the first frame asked for and queued, the clock started.
MasterStart ==
    /\ mpc = "init"
    /\ MasterSend
    /\ mdout' = IF "out" \in mlines
                THEN <<Sample(mframe', 0), Sample(mframe', 1)>> ELSE <<>>
    /\ mlr' = <<0, 1>>
    /\ mdin' = <<>> /\ mgot' = NoFrame
    /\ mheld' = 1
    /\ bclk' = TRUE
    /\ mpc' = "check"
    /\ cut' = (Looping \/ spc = "arm")
    /\ IF cut' THEN Resumed ELSE grid' = "frames" /\ UNCHANGED slave
    /\ UNCHANGED <<mrestart, mlast>>

\* restart_check, and send for the frame after the one on the wire.
MasterCheck(r) ==
    /\ mpc = "check"
    /\ mrestart' = r
    /\ IF r = Proceed
       THEN MasterSend /\ mheld' = mheld + 1 /\ mpc' = "out_even"
       ELSE mpc' = "in_even" /\ UNCHANGED <<mframe, mheld>>
    /\ UNCHANGED <<mlr, mdout, mdin, bclk, mgot, mlast, slave, grid, cut>>

MasterOutEven ==
    /\ mpc = "out_even" /\ Room(mdout)
    /\ mdout' = IF "out" \in mlines THEN Append(mdout, Sample(mframe, 0)) ELSE mdout
    /\ mpc' = "in_even"
    /\ UNCHANGED <<mrestart, mframe, mlr, mdin, bclk, mgot, mheld, mlast, slave, grid, cut>>

MasterInEven ==
    /\ mpc = "in_even" /\ ("in" \in mlines => mdin # <<>>)
    /\ mgot' = mdin /\ mdin' = <<>>
    /\ mpc' = "lr_even"
    /\ UNCHANGED <<mrestart, mframe, mlr, mdout, bclk, mheld, mlast, slave, grid, cut>>

MasterLrEven ==
    /\ mpc = "lr_even" /\ Room(mlr)
    /\ mlr' = Append(mlr, 0)
    /\ mpc' = IF mrestart = Proceed THEN "out_odd" ELSE "in_odd"
    /\ UNCHANGED <<mrestart, mframe, mdout, mdin, bclk, mgot, mheld, mlast, slave, grid, cut>>

MasterOutOdd ==
    /\ mpc = "out_odd" /\ Room(mdout) /\ Room(mlr)
    /\ mdout' = IF "out" \in mlines THEN Append(mdout, Sample(mframe, 1)) ELSE mdout
    /\ mlr' = Append(mlr, 1)
    /\ mpc' = "in_odd"
    /\ UNCHANGED <<mrestart, mframe, mdin, bclk, mgot, mheld, mlast, slave, grid, cut>>

\* mutant: the clock stops without waiting for the last word of a master without
\* inputs
MasterInOddNoSync ==
    /\ mpc = "in_odd" /\ ("in" \in mlines => mdin # <<>>)
    /\ mlast' = IF "in" \in mlines THEN mgot \o mdin ELSE NoFrame
    /\ mgot' = NoFrame /\ mdin' = <<>>
    /\ mheld' = mheld - 1
    /\ bclk' = (mrestart = Proceed)
    /\ mpc' = CASE mrestart = Proceed -> "check"
                [] mrestart = "I2S_RESTART" -> "init"
                [] mrestart = "I2S_SHUTDOWN" -> "exit"
    /\ UNCHANGED <<mrestart, mframe, mlr, mdout, grid, cut>>
    /\ UNCHANGED slave

\* The frame is received; the clock stops once a restart was asked for.  Without
\* inputs nothing says that the last word has left, and the port is waited for.
MasterInOdd ==
    /\ mpc = "in_odd" /\ ("in" \in mlines => mdin # <<>>)
    /\ mrestart # Proceed /\ "in" \notin mlines => mdout = <<>>
    /\ mlast' = IF "in" \in mlines THEN mgot \o mdin ELSE NoFrame
    /\ mgot' = NoFrame /\ mdin' = <<>>
    /\ mheld' = mheld - 1
    /\ bclk' = (mrestart = Proceed)
    /\ mpc' = CASE mrestart = Proceed -> "check"
                [] mrestart = "I2S_RESTART" -> "init"
                [] mrestart = "I2S_SHUTDOWN" -> "exit"
    /\ UNCHANGED <<mrestart, mframe, mlr, mdout, grid, cut>>
    \* the first bit of the next word left the word clock low: a slave that waits
    \* for that edge may take it for the start of a frame
    /\ \/ UNCHANGED slave
       \/ /\ spc = "low" /\ mrestart # Proceed
          /\ spc' = "arm" /\ wait' = 1
          /\ UNCHANGED <<srestart, sframe, slr, sdout, sdin, syncerror, sgot, slast>>

MasterStep ==
    \/ MasterStart \/ \E r \in MasterCommands : MasterCheck(r)
    \/ MasterOutEven \/ MasterInEven \/ MasterLrEven \/ MasterOutOdd \/ MasterInOdd

----------------------------------------------------------------------------
(* The slave: i2s_slave *)

SlaveSend ==
    IF "out" \in slines THEN sframe' = Following(sframe) ELSE UNCHANGED sframe

\* Ports initialised, init called and the first frame asked for.
SlaveStart ==
    /\ spc = "init"
    /\ srestart' = Proceed /\ syncerror' = FALSE
    /\ SlaveSend
    /\ slr' = <<>> /\ sdout' = <<>> /\ sdin' = <<>> /\ sgot' = NoFrame
    /\ slast' = NoFrame
    /\ wait' = 0
    /\ spc' = "high"
    /\ UNCHANGED <<master, grid, cut>>

\* The frame starts a whole frame after the falling edge of the word clock.
SlaveArm ==
    /\ spc = "arm"
    /\ sdout' = IF "out" \in slines
                THEN <<Sample(sframe, 0), Sample(sframe, 1)>> ELSE <<>>
    /\ spc' = "check"
    /\ UNCHANGED <<master, srestart, sframe, slr, sdin, syncerror, wait, sgot, slast,
                   grid, cut>>

SlaveCheck(r) ==
    /\ spc = "check"
    /\ srestart' = r
    /\ IF r = Proceed
       THEN SlaveSend /\ spc' = "out_even"
       ELSE spc' = "even" /\ UNCHANGED sframe
    /\ UNCHANGED <<master, slr, sdout, sdin, syncerror, wait, sgot, slast, grid, cut>>

SlaveOutEven ==
    /\ spc = "out_even" /\ Room(sdout)
    /\ sdout' = IF "out" \in slines THEN Append(sdout, Sample(sframe, 0)) ELSE sdout
    /\ spc' = "even"
    /\ UNCHANGED <<master, srestart, sframe, slr, sdin, syncerror, wait, sgot, slast,
                   grid, cut>>

\* mutant: the mask leaves nothing to compare
UnexpectedMasked(lr) == slr = <<>>

\* The word clock is not the one of the sample just read.
Unexpected(lr) == slr # <<lr>>

SlaveEven ==
    /\ spc = "even" /\ slr # <<>> /\ ("in" \in slines => sdin # <<>>)
    /\ sgot' = sdin
    /\ syncerror' = (syncerror \/ Unexpected(0))
    /\ slr' = <<>> /\ sdin' = <<>>
    /\ spc' = "odd"
    /\ UNCHANGED <<master, srestart, sframe, sdout, wait, slast, grid, cut>>

\* mutant: a synchronisation error does not end the loop
SlaveOddCarriesOn ==
    /\ spc = "odd" /\ slr # <<>> /\ ("in" \in slines => sdin # <<>>)
    /\ \/ srestart = Proceed /\ "out" \in slines /\ Room(sdout)
          /\ sdout' = Append(sdout, Sample(sframe, 1))
       \/ (srestart # Proceed \/ "out" \notin slines) /\ UNCHANGED sdout
    /\ slast' = sgot \o sdin
    /\ syncerror' = (syncerror \/ Unexpected(1))
    /\ slr' = <<>> /\ sdin' = <<>> /\ sgot' = NoFrame
    /\ spc' = IF srestart # Proceed THEN "init" ELSE "check"
    /\ UNCHANGED <<master, srestart, sframe, wait, grid, cut>>

\* The frame is received whatever the word clock was, and the task starts all
\* over after a synchronisation error or any command but I2S_NO_RESTART.
SlaveOdd ==
    /\ spc = "odd" /\ slr # <<>> /\ ("in" \in slines => sdin # <<>>)
    /\ \/ srestart = Proceed /\ "out" \in slines /\ Room(sdout)
          /\ sdout' = Append(sdout, Sample(sframe, 1))
       \/ (srestart # Proceed \/ "out" \notin slines) /\ UNCHANGED sdout
    /\ slast' = sgot \o sdin
    /\ syncerror' = (syncerror \/ Unexpected(1))
    /\ slr' = <<>> /\ sdin' = <<>> /\ sgot' = NoFrame
    /\ spc' = IF syncerror' \/ srestart # Proceed THEN "init" ELSE "check"
    /\ UNCHANGED <<master, srestart, sframe, wait, grid, cut>>

SlaveStep ==
    \/ SlaveStart \/ SlaveArm \/ \E r \in SlaveCommands : SlaveCheck(r)
    \/ SlaveOutEven \/ SlaveEven \/ SlaveOdd

----------------------------------------------------------------------------
(* The bus *)

\* Software has emptied and filled the ports since the last word.
InTime ==
    /\ mlr # <<>> /\ ("out" \in mlines => mdout # <<>>) /\ mdin = <<>>
    /\ spc # "arm" \/ wait > 0
    /\ SlaveInTime

Slot ==
    LET lr == Head(mlr) IN
    /\ bclk /\ InTime
    /\ mlr' = Tail(mlr) /\ mdout' = Taken(mdout)
    /\ mdin' = Captured(mlines, CASE ~Active \/ sdout = <<>> -> Idle
                                  [] Active /\ sdout # <<>> /\ grid # "bits" -> Head(sdout)
                                  [] Active /\ sdout # <<>> /\ grid = "bits" -> Torn)
    /\ IF Active
       THEN /\ sdout' = Taken(sdout)
            /\ slr' = <<IF grid = "bits" THEN 2 ELSE lr>>
            /\ sdin' = Captured(slines, CASE mdout = <<>> -> Idle
                                          [] mdout # <<>> /\ grid # "bits" -> Head(mdout)
                                          [] mdout # <<>> /\ grid = "bits" -> Torn)
       ELSE UNCHANGED <<sdout, slr, sdin>>
    /\ wait' = IF wait > 0 THEN wait - 1 ELSE 0
    /\ \/ spc = "high" /\ lr = 1 /\ spc' = "low"
       \/ UNCHANGED spc /\ ~(spc = "high" /\ lr = 1) /\ ~(spc = "low" /\ lr = 0)
    /\ UNCHANGED <<mpc, mrestart, mframe, bclk, mgot, mheld, mlast,
                   srestart, sframe, syncerror, sgot, slast, grid, cut>>

\* Bits from the edge to the first bit of data of the next frame on the wire: the
\* master's word clock starts at 1, its data at 1 + offset, which I2S mode makes 1.
FrameStart(offset) == offset + 2 * 32

\* mutant: the bit that is captured at the trigger time is counted twice
InEndLate(offset) == offset + (2 * 32 + 32)

\* When the slave's outputs start, and the last bit of its first word comes in.
OutStart(offset) == offset + 2 * 32
InEnd(offset) == offset + (2 * 32 + 32) - 1

OnFrames ==
    \A offset \in {0, 1} : /\ OutStart(offset) = FrameStart(offset)
                           /\ InEnd(offset) = FrameStart(offset) + 32 - 1

\* The falling edge of the word clock the slave waits for.
SlotEdge ==
    /\ bclk /\ InTime
    /\ spc = "low" /\ Head(mlr) = 0
    /\ mlr' = Tail(mlr) /\ mdout' = Taken(mdout) /\ mdin' = Captured(mlines, Idle)
    /\ spc' = "arm" /\ wait' = 1
    /\ grid' = IF OnFrames THEN "frames" ELSE "bits"
    /\ cut' = FALSE
    /\ UNCHANGED <<mpc, mrestart, mframe, bclk, mgot, mheld, mlast,
                   srestart, sframe, slr, sdout, sdin, syncerror, sgot, slast>>

Next == (MasterStep \/ SlaveStep \/ Slot \/ SlotEdge) /\ UNCHANGED lines

Fairness ==
    /\ WF_vars(MasterStep /\ UNCHANGED lines) /\ WF_vars(SlaveStep /\ UNCHANGED lines)
    /\ WF_vars((Slot \/ SlotEdge) /\ UNCHANGED lines)

Spec == Init /\ [][Next]_vars /\ Fairness

----------------------------------------------------------------------------
(* Properties *)

Samples == [frame : 0..Frames, ch : 0..1]
TypeOK ==
    /\ mpc \in {"init", "check", "out_even", "in_even", "lr_even", "out_odd", "in_odd",
                "exit"}
    /\ spc \in {"init", "high", "low", "arm", "check", "out_even", "even", "odd"}
    /\ Len(mlr) <= 2 /\ Len(mdout) <= 2 /\ Len(sdout) <= 2
    /\ Len(mdin) <= 1 /\ Len(slr) <= 1 /\ Len(sdin) <= 1
    /\ \A q \in {mdout, mdin, mgot, sdout, sdin, sgot} :
          \A k \in 1..Len(q) : q[k] \in Samples
    /\ mheld \in 0..2 /\ wait \in 0..1
    /\ grid \in {"frames", "words", "bits"} /\ cut \in BOOLEAN

Whole(frame) == \E f \in 0..(Frames - 1) : frame = <<Sample(f, 0), Sample(f, 1)>>

\* Every sample is one of its own place in a frame, or there was none.
InPlace(frame) ==
    /\ Torn \notin Range(frame)
    /\ \A k \in 1..Len(frame) : frame[k] = Idle \/ frame[k].ch = k - 1

\* Frames cross the bus whole, left sample first.  A frame the slave receives is
\* one frame of the master, or an idle line of one without outputs, or it is the
\* only one received before the slave finds the synchronisation error and looks
\* for the frames again.  The master receives frames of the slave and idle lines,
\* or torn or exchanged words from a slave that is off the frames, and never half
\* a frame.
WholeFrames ==
    /\ slast # NoFrame =>
          \/ Whole(slast) \/ (syncerror /\ spc = "init")
          \/ slast = <<Idle, Idle>> /\ "out" \notin mlines
    /\ mlast # NoFrame /\ InPlace(mlast) =>
          Whole(mlast) \/ mlast = <<Idle, Idle>>

\* Between two starts of the slave no frame of the master is missed and none is
\* received twice, at once or later; and it found the frames to the bit: it starts
\* over only on a command, or after the clock stopped under it.
NoFrameMissed ==
    [][spc = "odd" /\ spc' # "odd" =>
          /\ Whole(slast) /\ Whole(slast') =>
                slast'[1].frame = Following(slast[1].frame)
          /\ spc' = "init" => srestart # Proceed \/ cut]_vars

\* The word clock and the data the master queues stay on the same words: a left
\* sample goes with the low level, and when the clock stops every frame that
\* was asked of the application has left and as many frames were finished, also
\* in a master without inputs, whose loop runs ahead of the wire.
MasterInStep ==
    /\ \A k \in 1..Len(mdout) : k <= Len(mlr) => mlr[k] = mdout[k].ch
    /\ mpc \in {"init", "exit"} => mheld = 0 /\ mdout = <<>>

\* A slave whose words are off the frames starts all over, unless the clock stops.
SlaveRecovers == (Active /\ grid # "frames") ~> (spc = "init" \/ ~bclk)
============================================================================
