------------------------------ MODULE TdmSlave ------------------------------
(***************************************************************************)
(* The I2S TDM slave task (i2s_tdm_slave.c), which sends frames of         *)
(* Channels words to an external master.  A Bit is one period of the bit   *)
(* clock: the master is at position pos of its frame, fsync is high in the *)
(* first FsyncLen positions, and the slave shifts out one bit.  The clock  *)
(* may gain or lose bits (Slip), which is what the task checks fsync for.  *)
(* The hardware's trigger times are kept as the bits still to wait.  The   *)
(* data port holds the word being shifted and one more; software is        *)
(* assumed to keep up with it (InTime), but may take up to ArmBits to wait *)
(* for the rising edge once it has seen fsync low.                         *)
(***************************************************************************)
EXTENDS Integers, Sequences

CONSTANTS
    Channels,       \* ch_per_frame
    WordBits,       \* word_len
    FsyncLens,      \* lengths of the master's fsync pulse explored, in bits
    TxOffsets,      \* values of tx_offset explored
    TdmCommands,    \* what restart_check returns; I2S_NO_RESTART if it is NULL
    ArmBits,        \* bound on the bits between the two waits for fsync
    Frames,         \* frames are numbered modulo this
    MaxSlips        \* bound on the slips in one behaviour

Commands == {"I2S_NO_RESTART", "I2S_RESTART", "I2S_SHUTDOWN"}
Proceed == "I2S_NO_RESTART"
Period == Channels * WordBits       \* the master's frame, in bits

ASSUME TdmAssumption ==
    /\ Channels \in Nat \ {0, 1} /\ WordBits \in Nat \ {0}
    /\ FsyncLens \subseteq 1 .. Period - 1
    /\ TxOffsets \subseteq 0 .. WordBits
    /\ TdmCommands \subseteq Commands
    /\ ArmBits \in Nat /\ MaxSlips \in Nat
    /\ Frames \in Nat \ {0, 1}

VARIABLES
    fsync_len, tx_offset,   \* of the master; of i2s_tdm_slave_init
    pc, i, first,           \* place, next channel, before the main loop
    restart,                \* what restart_check returned last
    fysnch_error,           \* the flag of the context
    frame,                  \* the frame in out_samps
    fs, fs_wait,            \* p_fsync: level latched; bits until the next sample
    dout, dbit, out_wait,   \* p_dout: words queued, bits sent of the first one,
                            \* 0 once it has started, or the bits until it does
    pos, slips, late,       \* the master; slips so far; bits passed while arming
    line,                   \* history: the bit last sent in this session,
    astray, failed,         \* bits sent out of place, the last sample was low,
    slipped                 \* a slip since fsync was seen low

config == <<fsync_len, tx_offset>>
task == <<pc, i, first, restart, fysnch_error, frame>>
ports == <<fs, fs_wait, dout, dbit, out_wait>>
master == <<pos, slips, late>>
history == <<line, astray, failed, slipped>>
vars == <<config, task, ports, master, history>>

NoLevel == 2                                \* nothing latched
NoBit == [frame |-> 0, at |-> Period]       \* nothing sent yet
Word(f, c) == [frame |-> f, ch |-> c]

Room == Len(dout) < IF out_wait > 0 THEN 1 ELSE 2
Streaming == fs_wait > 0

Init ==
    /\ fsync_len \in FsyncLens /\ tx_offset \in TxOffsets
    /\ pc = "init" /\ i = 1 /\ first = TRUE
    /\ restart = Proceed /\ fysnch_error = FALSE
    /\ frame = 0
    /\ fs = NoLevel /\ fs_wait = 0
    /\ dout = <<>> /\ dbit = 0 /\ out_wait = 0
    /\ pos \in 0 .. Period - 1 /\ slips = 0 /\ late = 0
    /\ line = NoBit /\ astray = 0 /\ failed = FALSE /\ slipped = FALSE

-----------------------------------------------------------------------------
(* The task.                                                               *)

Goto(from, to) == pc = from /\ pc' = to

\* mutant: the flag is cleared before tdm_post_port_init can read it
InitResourcesClears ==
    /\ Goto("init", "post")
    /\ fysnch_error' = FALSE
    /\ UNCHANGED <<config, i, first, restart, frame, ports, master, history>>

\* The init callback, and i2s_tdm_slave_init_resources: the clock runs.
InitResources ==
    /\ Goto("init", "post")
    /\ UNCHANGED <<config, i, first, restart, fysnch_error, frame, ports, master,
                   history>>

\* tdm_post_port_init, the first frame, and fsync waited for to be low.
PostInit ==
    /\ Goto("post", "low")
    /\ fysnch_error' = FALSE
    /\ frame' = (frame + 1) % Frames
    /\ first' = TRUE /\ restart' = Proceed
    /\ UNCHANGED <<config, i, ports, master, history>>

\* fsync was low: wait for it to be high.
Arm ==
    /\ Goto("arm", "high")
    /\ late' = 0
    /\ UNCHANGED <<config, i, first, restart, fysnch_error, frame, ports, pos, slips,
                   history>>

\* Word 0 of the frame: its start is triggered in the first frame.
OutFirst ==
    /\ Goto("out", "fsync")
    /\ Room
    /\ dout' = Append(dout, Word(frame, 0))
    /\ UNCHANGED <<config, i, first, restart, fysnch_error, frame, fs, fs_wait, dbit,
                   out_wait, master, history>>

\* mutant: fsync is read and not looked at
FsyncUnchecked ==
    /\ pc = "fsync" /\ fs # NoLevel
    /\ fs' = NoLevel
    /\ failed' = (fs = 0)
    /\ pc' = "fill" /\ i' = 1
    /\ UNCHANGED <<config, first, restart, fysnch_error, frame, fs_wait, dout, dbit,
                   out_wait, master, line, astray, slipped>>

\* fsync a frame time after it was last read; the first time it is not looked at.
Fsync ==
    /\ pc = "fsync" /\ fs # NoLevel
    /\ fs' = NoLevel
    /\ failed' = (fs = 0)
    /\ IF fs # 1 /\ ~first
       THEN fysnch_error' = TRUE /\ pc' = "deinit" /\ UNCHANGED i
       ELSE pc' = "fill" /\ i' = 1 /\ UNCHANGED fysnch_error
    /\ UNCHANGED <<config, first, restart, frame, fs_wait, dout, dbit, out_wait,
                   master, line, astray, slipped>>

\* mutant: one word more than out_samps has
FillOneMore ==
    /\ pc = "fill" /\ Room
    /\ dout' = Append(dout, Word(frame, i))
    /\ IF i < Channels
       THEN i' = i + 1 /\ UNCHANGED pc
       ELSE pc' = (IF first THEN "send" ELSE "check") /\ i' = 1
    /\ UNCHANGED <<config, first, restart, fysnch_error, frame, fs, fs_wait, dbit,
                   out_wait, master, history>>

\* The other words of the frame; restart_check follows but in the first frame.
Fill ==
    /\ pc = "fill" /\ Room
    /\ dout' = Append(dout, Word(frame, i))
    /\ IF i < Channels - 1
       THEN i' = i + 1 /\ UNCHANGED pc
       ELSE pc' = (IF first THEN "send" ELSE "check") /\ i' = 1
    /\ UNCHANGED <<config, first, restart, fysnch_error, frame, fs, fs_wait, dbit,
                   out_wait, master, history>>

RestartCheck(r) ==
    /\ Goto("check", IF r = Proceed THEN "send" ELSE "deinit")
    /\ restart' = r
    /\ UNCHANGED <<config, i, first, fysnch_error, frame, ports, master, history>>

Send ==
    /\ Goto("send", "out")
    /\ first' = FALSE
    /\ frame' = (frame + 1) % Frames
    /\ UNCHANGED <<config, i, restart, fysnch_error, ports, master, history>>

\* i2s_tdm_slave_deinit_resources: what the data port still holds is lost.
Deinit ==
    /\ Goto("deinit", IF restart = "I2S_SHUTDOWN" THEN "exit" ELSE "init")
    /\ fs' = NoLevel /\ fs_wait' = 0
    /\ dout' = <<>> /\ dbit' = 0 /\ out_wait' = 0
    /\ line' = NoBit /\ astray' = 0
    /\ UNCHANGED <<config, i, first, restart, fysnch_error, frame, master, failed,
                   slipped>>

Task ==
    \/ InitResources \/ PostInit \/ Arm \/ OutFirst \/ Fsync \/ Fill \/ Send \/ Deinit
    \/ \E r \in TdmCommands : RestartCheck(r)

-----------------------------------------------------------------------------
(* The bus.                                                                *)

Level == IF pos < fsync_len THEN 1 ELSE 0

\* The positions by which the slave's frames are behind the master's.
Skew == (pos + fs_wait - 1) % Period

\* Data bits sent while fsync is low where the slave expects its edge, counted
\* to one more than SlipSeen allows.
Astray == IF ~Streaming \/ Skew < fsync_len THEN 0
          ELSE IF out_wait > 1 \/ astray > Period + tx_offset + WordBits THEN astray
          ELSE astray + 1

InTime ==
    /\ Streaming /\ out_wait <= 1 => dout # <<>>
    /\ fs_wait = 1 => fs = NoLevel
    /\ pc = "arm" => late < ArmBits

\* mutant: the frame is taken to be a bit short
FrameTimeShort == Channels * WordBits - 1

\* port_frame_time
FrameTime == Channels * WordBits

\* The rising edge: the times of the next fsync and of the first data bit.
Edge ==
    /\ pc = "high" /\ Level = 1
    /\ pc' = "out"
    /\ fs_wait' = FrameTime
    /\ out_wait' = FrameTime + tx_offset
    /\ UNCHANGED <<fs, dout, dbit, late, line, slipped>>

Waiting ==
    /\ ~Streaming /\ ~(pc = "high" /\ Level = 1)
    /\ pc' = IF pc = "low" /\ Level = 0 THEN "arm" ELSE pc
    /\ slipped' = (slipped /\ pc' = pc)
    /\ late' = IF pc = "arm" THEN late + 1 ELSE late
    /\ UNCHANGED <<ports, line>>

ShiftOut ==
    LET word == Head(dout)
    IN  /\ dbit' = (dbit + 1) % WordBits
        /\ dout' = IF dbit' = 0 THEN Tail(dout) ELSE dout
        /\ line' = [frame |-> word.frame, at |-> word.ch * WordBits + dbit]

\* fsync is sampled at its trigger time, which is moved on by a frame time.
Stream ==
    /\ Streaming
    /\ IF fs_wait = 1 THEN fs' = Level /\ fs_wait' = FrameTime
       ELSE fs_wait' = fs_wait - 1 /\ UNCHANGED fs
    /\ IF out_wait <= 1 THEN ShiftOut /\ out_wait' = 0
       ELSE out_wait' = out_wait - 1 /\ UNCHANGED <<dout, dbit, line>>
    /\ UNCHANGED <<pc, late, slipped>>

Bit ==
    /\ InTime
    /\ Edge \/ Waiting \/ Stream
    /\ pos' = (pos + 1) % Period
    /\ astray' = Astray
    /\ UNCHANGED <<config, i, first, restart, fysnch_error, frame, slips, failed>>

\* The bit clock gains or loses bits, or the master starts over.
Slip ==
    /\ slips < MaxSlips
    /\ slips' = slips + 1
    /\ pos' \in 0 .. Period - 1 \ {pos}
    /\ slipped' = TRUE
    /\ UNCHANGED <<config, task, ports, late, line, astray, failed>>

Next == Task \/ Bit \/ Slip

(* The bit clock runs and the task is not held up; nothing makes it slip. *)
Spec == Init /\ [][Next]_vars /\ WF_vars(Task) /\ WF_vars(Bit)

-----------------------------------------------------------------------------
(* Properties.                                                             *)

Bits == [frame : 0 .. Frames - 1, at : 0 .. Period]

TypeOK ==
    /\ fsync_len \in FsyncLens /\ tx_offset \in TxOffsets
    /\ pc \in {"init", "post", "low", "arm", "high", "out", "fsync", "fill", "check",
               "send", "deinit", "exit"}
    /\ i \in 1 .. Channels - 1
    /\ restart \in Commands
    /\ {first, fysnch_error, failed, slipped} \subseteq BOOLEAN
    /\ frame \in 0 .. Frames - 1
    /\ fs \in 0 .. 2 /\ fs_wait \in 0 .. Period
    /\ dout \in Seq([frame : 0 .. Frames - 1, ch : 0 .. Channels - 1])
    /\ Len(dout) <= 2
    /\ dbit \in 0 .. WordBits - 1 /\ out_wait \in 0 .. Period + WordBits
    /\ pos \in 0 .. Period - 1 /\ slips \in 0 .. MaxSlips /\ late \in 0 .. ArmBits
    /\ line \in Bits
    /\ astray \in 0 .. Period + tx_offset + WordBits + 1

(* The bits of the frames the application was asked for leave without a    *)
(* gap, none lost or repeated, and each at its place: tx_offset bits and   *)
(* the skew after the master's frame.  If the clock has not slipped since  *)
(* the slave looked for the edge, the skew is what software was late with  *)
(* its second wait, and stays inside the fsync pulse.                      *)
WordsInPlace ==
    [][/\ line' # line /\ line' # NoBit =>
             /\ line'.at = (pos - Skew - tx_offset) % Period
             /\ line # NoBit =>
                   \/ line'.at = line.at + 1 /\ line'.frame = line.frame
                   \/ /\ line.at = Period - 1 /\ line'.at = 0
                      /\ line'.frame = (line.frame + 1) % Frames
             /\ line = NoBit => line'.at = 0
       /\ Streaming /\ ~slipped => Skew < fsync_len /\ Skew <= ArmBits]_vars

(* A slave that a slip took past the fsync pulse notices ("this will catch *)
(* nonperiod drifting"), though the first fsync is not looked at: it sends *)
(* at most a frame, the offset and a word so.                              *)
SlipSeen == astray <= Period + tx_offset + WordBits

(* tdm_post_port_init finds in fysnch_error whether fsync was missing when *)
(* the ports ran last, which the application may use to find out why.      *)
ErrorFlagTells == pc = "post" => fysnch_error = failed

(* A slave that a slip took past the fsync pulse sends in place again,     *)
(* unless the application shuts it down.                                   *)
Recovers == (Streaming /\ Skew >= fsync_len) ~>
                \/ Streaming /\ out_wait = 0 /\ Skew < fsync_len
                \/ pc = "exit" /\ restart = "I2S_SHUTDOWN"

=============================================================================
