---------------------------- MODULE I2cTransfer ----------------------------
(***************************************************************************)
(* What an I2C master and the slave devices on its bus promise each other, *)
(* byte by byte: a call of i2c_master_read, i2c_master_write or            *)
(* i2c_master_stop_bit_send makes the addressed device run its callbacks   *)
(* in order, and the value returned to the caller is what those callbacks  *)
(* said.  I2cBus, the two wires and the code at both ends of them, is      *)
(* shown to implement this specification; I2cReg builds on it.             *)
(***************************************************************************)
EXTENDS Naturals, Sequences, SequencesExt

CONSTANTS
    Devices,   \* addresses at which an i2c_slave task listens
    Absent,    \* addresses at which there is none
    Written,   \* bytes the master's callers write
    Supplied,  \* bytes master_requires_data returns
    MaxLen     \* longest payload of one call

VARIABLES
    call,      \* the call in progress, or NoCall
    seen,      \* what the addressed device answered so far: address, then bytes
    reply,     \* what the last call returned
    held,      \* the last call left the bus without a stop bit (~stopped)
    owed,      \* devices addressed since the last stop bit
    stopping   \* devices that are to hear of the stop bit just sent

vars == <<call, seen, reply, held, owed, stopping>>

NoCall == [dir |-> "none"]
NoReply == [ack |-> FALSE, count |-> 0, bytes |-> <<>>]
StopCall == [dir |-> "stop", stop |-> TRUE]
Writes == [dir : {"write"}, addr : Devices \cup Absent,
           bytes : BoundedSeq(Written, MaxLen), stop : BOOLEAN]
Reads == [dir : {"read"}, addr : Devices \cup Absent,
          len : 1..MaxLen, stop : BOOLEAN]

\* The bytes a call moves when nothing is refused.
Length(c) == IF c.dir = "write" THEN Len(c.bytes) ELSE c.len

\* The device has answered everything the call asks of it, or refused.
Complete ==
    \/ call.dir = "stop"
    \/ call.dir # "stop" /\ call.addr \in Absent
    \/ seen # <<>> /\ ~Last(seen).ok
    \/ seen # <<>> /\ Len(seen) = Length(call) + 1

Values == [k \in 1..(Len(seen) - 1) |-> seen[k + 1].value]

Outcome ==
    IF seen = <<>> THEN NoReply
    ELSE CASE call.dir = "write" ->
                 [ack |-> Last(seen).ok, count |-> Len(seen) - 1, bytes |-> <<>>]
           [] call.dir = "read" ->
                 [ack |-> Head(seen).ok, count |-> 0, bytes |-> Values]

Init ==
    /\ call = NoCall
    /\ seen = <<>>
    /\ reply = NoReply
    /\ held = FALSE
    /\ owed = {}
    /\ stopping = {}

\* The caller enters the master library; a stop bit alone is only sent to
\* finish a transaction that was left open.
Begin(c) ==
    /\ call = NoCall
    /\ stopping = {}
    /\ c = StopCall => held
    /\ call' = c
    /\ seen' = <<>>
    /\ reply' = NoReply
    /\ UNCHANGED <<held, owed, stopping>>

\* ack_read_request or ack_write_request.
Request(d, ok) ==
    /\ call.dir \in {"read", "write"}
    /\ call.addr = d
    /\ seen = <<>>
    /\ seen' = <<[value |-> 0, ok |-> ok]>>
    /\ owed' = owed \cup {d}
    /\ UNCHANGED <<call, reply, held, stopping>>

\* master_sent_data: the device is handed the next byte of the payload.
Sent(d, ok) ==
    /\ call.dir = "write"
    /\ call.addr = d
    /\ seen # <<>>
    /\ ~Complete
    /\ seen' = Append(seen, [value |-> call.bytes[Len(seen)], ok |-> ok])
    /\ UNCHANGED <<call, reply, held, owed, stopping>>

\* master_requires_data.
Required(d, v) ==
    /\ call.dir = "read"
    /\ call.addr = d
    /\ seen # <<>>
    /\ ~Complete
    /\ seen' = Append(seen, [value |-> v, ok |-> TRUE])
    /\ UNCHANGED <<call, reply, held, owed, stopping>>

Return ==
    /\ call # NoCall
    /\ Complete
    /\ call' = NoCall
    /\ reply' = Outcome
    /\ held' = ~call.stop
    /\ stopping' = IF call.stop THEN owed ELSE {}
    /\ owed' = IF call.stop THEN {} ELSE owed
    /\ UNCHANGED seen

\* The stop_bit callback.
StopSeen(d) ==
    /\ d \in stopping
    /\ stopping' = stopping \ {d}
    /\ UNCHANGED <<call, seen, reply, held, owed>>

Next ==
    \/ \E c \in Writes \cup Reads \cup {StopCall} : Begin(c)
    \/ \E d \in Devices, ok \in BOOLEAN : Request(d, ok) \/ Sent(d, ok)
    \/ \E d \in Devices, v \in Supplied : Required(d, v)
    \/ Return
    \/ \E d \in Devices : StopSeen(d)

Spec == Init /\ [][Next]_vars
============================================================================
