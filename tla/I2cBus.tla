------------------------------- MODULE I2cBus -------------------------------
(***************************************************************************)
(* The I2C master library (i2c_master.c) and the slave tasks (i2c_slave.c) *)
(* on the two open-drain wires that join them.  The master is a sequence   *)
(* of edges it puts on SCL and SDA; a slave is an event loop woken by the  *)
(* level of a pin, which holds SCL low while an application callback runs. *)
(* Times are not counted: the master keeps every level for the minimum     *)
(* period of the bus (low_period_ticks, high_period_ticks, s_hold_ticks,   *)
(* ...), and a slave that is not inside a callback serves its events       *)
(* within that period and within the setup time of another slave.          *)
(* Callbacks other than stop_bit take any time.                            *)
(***************************************************************************)
EXTENDS Naturals, Sequences, SequencesExt

CONSTANTS
    ByteBits,                       \* bits of a byte on the wire; 8 in the code
    Devices, Absent, Written, Supplied, MaxLen,    \* see I2cTransfer
    StopsTogether                   \* slaves sample SCL at the same time after
                                    \* a stop bit, before any of them holds it

ASSUME BusAssumption ==
    /\ StopsTogether \in BOOLEAN
    /\ Devices \cap Absent = {} /\ MaxLen \in Nat \ {0}
    /\ ByteBits \in 2..8
    /\ Devices \cup Absent \subseteq 0..(2^(ByteBits - 1) - 1)
    /\ Written \cup Supplied \subseteq 0..(2^ByteBits - 1)

VARIABLES
    pc, op,      \* where the master is, and in which call
    j, i,        \* byte (0 is the address) and pulse within it, from 1
    ack,         \* the last acknowledge bit sampled by tx8
    cur, buf,    \* byte being read, bytes read
    stopped,     \* i2c_master_t.stopped
    mscl, msda,  \* what the master drives: 0, or 1 for released
    slave,       \* the local variables of each i2c_slave task, and its drive
    seen,        \* history: answers of the application in this call
    reply        \* history: what the last call returned

master == <<pc, op, j, i, ack, cur, buf, stopped, mscl, msda, reply>>
vars == <<master, slave, seen>>

Wire(m, s) == IF m = 1 /\ \A d \in Devices : s[d] = 1 THEN 1 ELSE 0
SCL == Wire(mscl, [d \in Devices |-> slave[d].scl])
SDA == Wire(msda, [d \in Devices |-> slave[d].sda])

MsbFirst(v, k) == (v \div 2^(ByteBits - k)) % 2       \* k in 1..ByteBits

----------------------------------------------------------------------------
(* The slave task *)

Waiting == "WAITING_FOR_START_OR_STOP"

SlaveInit ==
    [state |-> Waiting, next |-> Waiting, sda_val |-> 0, scl_val |-> 0,
     bitnum |-> 0, rw |-> 0, check |-> FALSE, ignore |-> TRUE, data |-> 0,
     scl |-> 1, sda |-> 1, cb |-> "none"]

\* The triggers are on the level of the pin.
SclDue(d) == slave[d].state # Waiting /\ SCL = slave[d].scl_val
SdaDue(d) ==
    (slave[d].state = Waiting \/ slave[d].check) /\ SDA = slave[d].sda_val
Due(d) == slave[d].cb = "none" /\ (SclDue(d) \/ SdaDue(d))
Quiet == \A d \in Devices : ~Due(d)

OnScl(d, state) == slave[d].cb = "none" /\ SclDue(d) /\ slave[d].state = state
Stretch(d, cb) == slave' = [slave EXCEPT ![d].scl = 0, ![d].cb = cb]

ReadingAddr(d) ==
    LET s == slave[d] IN
    /\ OnScl(d, "READING_ADDR")
    /\ \/ /\ s.scl_val = 0
          /\ slave' = [slave EXCEPT ![d].scl_val = 1]
       \/ /\ s.scl_val = 1
          /\ s.bitnum < ByteBits - 1
          /\ slave' = [slave EXCEPT ![d].data = 2 * s.data + SDA,
                                    ![d].bitnum = s.bitnum + 1, ![d].scl_val = 0]
       \/ /\ s.scl_val = 1
          /\ s.bitnum = ByteBits - 1
          /\ IF s.data # d
             THEN slave' = [slave EXCEPT ![d].state = "IGNORE_ACK", ![d].scl_val = 0]
             ELSE slave' = [slave EXCEPT ![d].state = "ACK_ADDR", ![d].rw = SDA,
                                         ![d].scl_val = 0]
    /\ UNCHANGED <<master, seen>>

IgnoreAck(d) ==
    /\ OnScl(d, "IGNORE_ACK")
    /\ slave' = [slave EXCEPT ![d].next = Waiting, ![d].scl_val = 1,
                              ![d].state = "ACK_WAIT_HIGH"]
    /\ UNCHANGED <<master, seen>>

AckAddr(d) ==
    /\ OnScl(d, "ACK_ADDR")
    /\ Stretch(d, "request")
    /\ UNCHANGED <<master, seen>>

\* The application's answer to the address.
AckAddrReturn(d, ok) ==
    /\ slave[d].cb = "request"
    /\ slave' = [slave EXCEPT ![d].ignore = FALSE, ![d].cb = "setup",
                              ![d].sda = IF ok THEN 0 ELSE 1,
                              ![d].next = IF ~ok THEN Waiting
                                          ELSE IF slave[d].rw = 1 THEN "MASTER_READ"
                                          ELSE "MASTER_WRITE",
                              ![d].scl_val = 1, ![d].state = "ACK_WAIT_HIGH"]
    /\ seen' = Append(seen, [value |-> 0, ok |-> ok])
    /\ UNCHANGED master

AckWaitHigh(d) ==
    /\ OnScl(d, "ACK_WAIT_HIGH")
    /\ slave' = [slave EXCEPT ![d].state = "ACK_WAIT_LOW", ![d].scl_val = 0]
    /\ UNCHANGED <<master, seen>>

\* mutant: the bit counter is not reset after an acknowledge
AckWaitLowNoReset(d) ==
    LET s == slave[d] IN
    /\ OnScl(d, "ACK_WAIT_LOW")
    /\ slave' = [slave EXCEPT ![d].state = s.next, ![d].sda = 1,
                 ![d].scl_val = IF s.next = "MASTER_WRITE" THEN 1 ELSE 0,
                 ![d].data = IF s.next = "MASTER_WRITE" THEN 0 ELSE s.data,
                 ![d].sda_val = IF s.next = Waiting THEN 0 ELSE s.sda_val]
    /\ UNCHANGED <<master, seen>>

AckWaitLow(d) ==
    LET s == slave[d] IN
    /\ OnScl(d, "ACK_WAIT_LOW")
    /\ \/ /\ s.next = "MASTER_READ"
          /\ slave' = [slave EXCEPT ![d].state = "MASTER_READ", ![d].bitnum = 0,
                                    ![d].sda = 1, ![d].scl_val = 0]
       \/ /\ s.next = "MASTER_WRITE"
          /\ slave' = [slave EXCEPT ![d].state = "MASTER_WRITE", ![d].bitnum = 0,
                                    ![d].sda = 1, ![d].data = 0, ![d].scl_val = 1]
       \/ /\ s.next = Waiting
          /\ slave' = [slave EXCEPT ![d].state = Waiting, ![d].bitnum = 0,
                                    ![d].sda = 1, ![d].sda_val = 0]
    /\ UNCHANGED <<master, seen>>

MasterReadRise(d) ==
    LET s == slave[d] IN
    /\ OnScl(d, "MASTER_READ")
    /\ s.scl_val = 1
    /\ \/ s.bitnum = ByteBits /\ SDA = 1
          /\ slave' = [slave EXCEPT ![d].state = Waiting, ![d].sda_val = 0]
       \/ s.bitnum = ByteBits /\ SDA = 0
          /\ slave' = [slave EXCEPT ![d].bitnum = 0, ![d].scl_val = 0]
       \/ s.bitnum # ByteBits
          /\ slave' = [slave EXCEPT ![d].bitnum = s.bitnum + 1, ![d].scl_val = 0]
    /\ UNCHANGED <<master, seen>>

MasterReadFall(d) ==
    LET s == slave[d] IN
    /\ OnScl(d, "MASTER_READ")
    /\ s.scl_val = 0
    /\ \/ s.bitnum = 0 /\ Stretch(d, "data")
       \/ s.bitnum \in 1..(ByteBits - 1)
          /\ slave' = [slave EXCEPT ![d].sda = MsbFirst(s.data, s.bitnum + 1),
                                    ![d].scl_val = 1]
       \/ s.bitnum >= ByteBits
          /\ slave' = [slave EXCEPT ![d].sda = 1, ![d].scl_val = 1]
    /\ UNCHANGED <<master, seen>>

MasterRequiresDataReturn(d, v) ==
    /\ slave[d].cb = "data"
    /\ slave' = [slave EXCEPT ![d].data = v, ![d].sda = MsbFirst(v, 1),
                              ![d].scl_val = 1, ![d].cb = "setup"]
    /\ seen' = Append(seen, [value |-> v, ok |-> TRUE])
    /\ UNCHANGED master

\* mutant: only a stop bit is looked for after an acknowledge, no repeated start
MasterWriteRiseStopOnly(d) ==
    LET s == slave[d]
        stop == s.bitnum = 0 /\ SDA = 0
    IN
    /\ OnScl(d, "MASTER_WRITE")
    /\ s.scl_val = 1
    /\ slave' = [slave EXCEPT ![d].data = (2 * s.data + SDA) % 2^ByteBits,
                              ![d].bitnum = s.bitnum + 1, ![d].scl_val = 0,
                              ![d].sda_val = IF stop THEN 1 ELSE s.sda_val,
                              ![d].check = stop \/ s.check]
    /\ UNCHANGED <<master, seen>>

\* The first bit after an acknowledge may turn out to be a start or a stop.
MasterWriteRise(d) ==
    LET s == slave[d] IN
    /\ OnScl(d, "MASTER_WRITE")
    /\ s.scl_val = 1
    /\ slave' = [slave EXCEPT ![d].data = (2 * s.data + SDA) % 2^ByteBits,
                              ![d].bitnum = s.bitnum + 1, ![d].scl_val = 0,
                              ![d].sda_val = IF s.bitnum = 0 THEN 1 - SDA ELSE s.sda_val,
                              ![d].check = s.bitnum = 0 \/ s.check]
    /\ UNCHANGED <<master, seen>>

MasterWriteFall(d) ==
    LET s == slave[d] IN
    /\ OnScl(d, "MASTER_WRITE")
    /\ s.scl_val = 0
    /\ IF s.bitnum = ByteBits
       THEN slave' = [slave EXCEPT ![d].check = FALSE, ![d].scl = 0, ![d].cb = "sent"]
       ELSE slave' = [slave EXCEPT ![d].check = FALSE, ![d].scl_val = 1]
    /\ UNCHANGED <<master, seen>>

MasterSentDataReturn(d, ok) ==
    /\ slave[d].cb = "sent"
    /\ slave' = [slave EXCEPT ![d].sda = IF ok THEN 0 ELSE 1, ![d].cb = "setup",
                              ![d].scl_val = 1, ![d].state = "ACK_WAIT_HIGH"]
    /\ seen' = Append(seen, [value |-> slave[d].data, ok |-> ok])
    /\ UNCHANGED master

\* mutant: no ensure_setup_time
ReleaseAtOnce(d) ==
    /\ slave[d].cb = "setup"
    /\ slave' = [slave EXCEPT ![d].scl = 1, ![d].cb = "none"]
    /\ UNCHANGED <<master, seen>>

\* ensure_setup_time, in which the other slaves see SDA change, and the clock
\* released.
Release(d) ==
    /\ slave[d].cb = "setup" /\ Quiet
    /\ slave' = [slave EXCEPT ![d].scl = 1, ![d].cb = "none"]
    /\ UNCHANGED <<master, seen>>

\* A change of SDA while SCL is high is a start or stop bit.  The first slave
\* to run its stop_bit callback hides the stop bit from one that comes later.
EventSda(d) ==
    LET s == slave[d] IN
    /\ s.cb = "none"
    /\ SdaDue(d)
    /\ \/ /\ s.sda_val = 1 /\ SCL = 1 /\ ~s.ignore
          /\ slave' = [slave EXCEPT ![d].cb = "stop_seen"]
       \/ /\ s.sda_val = 1 /\ SCL = 1 /\ s.ignore
          /\ slave' = [slave EXCEPT ![d].state = Waiting, ![d].sda_val = 0,
                                    ![d].check = FALSE]
       \/ /\ s.sda_val = 0 /\ SCL = 1
          /\ slave' = [slave EXCEPT ![d].state = "READING_ADDR", ![d].bitnum = 0,
                          ![d].data = 0, ![d].scl_val = 0, ![d].check = FALSE]
       \/ /\ SCL = 0
          /\ slave' = [slave EXCEPT ![d].sda_val = 1 - s.sda_val]
    /\ UNCHANGED <<master, seen>>

HoldForStop(d) ==
    /\ slave[d].cb = "stop_seen"
    /\ StopsTogether => Quiet
    /\ Stretch(d, "stop")
    /\ UNCHANGED <<master, seen>>

\* mutant: the clock is not released after the stop_bit callback
StopBitReturnHolds(d) ==
    /\ slave[d].cb = "stop"
    /\ slave' = [slave EXCEPT ![d].cb = "none", ![d].state = Waiting,
                 ![d].ignore = TRUE, ![d].check = FALSE, ![d].sda_val = 0]
    /\ UNCHANGED <<master, seen>>

StopBitReturn(d) ==
    /\ slave[d].cb = "stop"
    /\ slave' = [slave EXCEPT ![d].scl = 1, ![d].cb = "none", ![d].state = Waiting,
                 ![d].ignore = TRUE, ![d].check = FALSE, ![d].sda_val = 0]
    /\ UNCHANGED <<master, seen>>

Event(d) ==
    \/ ReadingAddr(d) \/ IgnoreAck(d) \/ AckAddr(d)
    \/ AckWaitHigh(d) \/ AckWaitLow(d)
    \/ MasterReadRise(d) \/ MasterReadFall(d)
    \/ MasterWriteRise(d) \/ MasterWriteFall(d)
    \/ EventSda(d)

Callback(d) ==
    \/ \E ok \in BOOLEAN : AckAddrReturn(d, ok) \/ MasterSentDataReturn(d, ok)
    \/ \E v \in Supplied : MasterRequiresDataReturn(d, v)
    \/ HoldForStop(d) \/ StopBitReturn(d)
    \/ Release(d)

----------------------------------------------------------------------------
(* The master library *)

Calls == INSTANCE I2cTransfer WITH
    call <- op, held <- ~stopped, owed <- {}, stopping <- {}

Slaves == UNCHANGED <<slave, seen>>

\* SDA in a pulse: the bit sent, released while the slave sends, and the
\* acknowledge of i2c_master_read, withheld from the last byte.
AddressByte == 2 * op.addr + (IF op.dir = "read" THEN 1 ELSE 0)
Receiving == op.dir = "read" /\ j > 0
DataBit ==
    CASE j = 0 -> MsbFirst(AddressByte, i)
      [] j > 0 /\ op.dir = "write" -> MsbFirst(op.bytes[j], i)
      [] Receiving -> 1
\* mutant: i2c_master_read acknowledges the last byte too
AckBitAlways == IF Receiving THEN 0 ELSE 1
AckBit == IF Receiving /\ j # op.len THEN 0 ELSE 1
PulseBit == IF i <= ByteBits THEN DataBit ELSE AckBit

Init ==
    /\ pc = "idle" /\ op = Calls!NoCall /\ reply = Calls!NoReply
    /\ j = 0 /\ i = 0 /\ ack = 0 /\ cur = 0 /\ buf = <<>>
    /\ stopped = TRUE
    /\ mscl = 1 /\ msda = 1
    /\ slave = [d \in Devices |-> SlaveInit]
    /\ seen = <<>>

\* A slave that is still inside its stop_bit callback would miss the start:
\* the callback returns within the bus-off time.
Begin(c) ==
    /\ pc = "idle"
    /\ c = Calls!StopCall => ~stopped
    /\ Quiet
    /\ \A d \in Devices : slave[d].cb = "none"
    /\ op' = c
    /\ pc' = CASE c = Calls!StopCall -> "stop_sda"
              [] c # Calls!StopCall /\ stopped -> "start_sda"
              [] c # Calls!StopCall /\ ~stopped -> "sr_rise"
    /\ j' = 0 /\ i' = 1 /\ ack' = 0 /\ cur' = 0 /\ buf' = <<>>
    /\ reply' = Calls!NoReply
    /\ seen' = <<>>
    /\ UNCHANGED <<stopped, mscl, msda, slave>>

StartRise ==
    /\ pc = "sr_rise" /\ Quiet
    /\ mscl' = 1
    /\ pc' = "sr_high"
    /\ UNCHANGED <<op, j, i, ack, cur, buf, stopped, msda, reply>> /\ Slaves

StartHigh ==
    /\ pc = "sr_high" /\ SCL = 1
    /\ pc' = "start_sda"
    /\ UNCHANGED <<op, j, i, ack, cur, buf, stopped, mscl, msda, reply>> /\ Slaves

StartSda ==
    /\ pc = "start_sda" /\ Quiet
    /\ msda' = 0
    /\ pc' = "low"
    /\ UNCHANGED <<op, j, i, ack, cur, buf, stopped, mscl, reply>> /\ Slaves

PulseLow ==
    /\ pc = "low" /\ Quiet
    /\ mscl' = 0
    /\ pc' = "data"
    /\ UNCHANGED <<op, j, i, ack, cur, buf, stopped, msda, reply>> /\ Slaves

\* Right behind the falling edge: a slave may see either change first.
PulseData ==
    /\ pc = "data"
    /\ msda' = PulseBit
    /\ pc' = "rise"
    /\ UNCHANGED <<op, j, i, ack, cur, buf, stopped, mscl, reply>> /\ Slaves

PulseRise ==
    /\ pc = "rise" /\ Quiet
    /\ mscl' = 1
    /\ pc' = "high"
    /\ UNCHANGED <<op, j, i, ack, cur, buf, stopped, msda, reply>> /\ Slaves

\* A data bit; the loop over the eight of them.
PulseHigh ==
    /\ pc = "high" /\ SCL = 1 /\ i <= ByteBits
    /\ cur' = IF Receiving THEN 2 * cur + SDA ELSE cur
    /\ i' = i + 1
    /\ pc' = "low"
    /\ UNCHANGED <<op, j, ack, buf, stopped, mscl, msda, reply>> /\ Slaves

\* The acknowledge of a byte sent is sampled, that of a byte read is driven.
Goes(acked) == acked = 0 /\ j < Calls!Length(op)

AckHigh ==
    /\ pc = "high" /\ SCL = 1 /\ i = ByteBits + 1
    /\ ack' = IF Receiving THEN ack ELSE SDA
    /\ buf' = IF Receiving THEN Append(buf, cur) ELSE buf
    /\ \/ Goes(ack') /\ j' = j + 1 /\ i' = 1 /\ cur' = 0 /\ pc' = "low"
       \/ ~Goes(ack') /\ pc' = "end" /\ UNCHANGED <<j, i, cur>>
    /\ UNCHANGED <<op, stopped, mscl, msda, reply>> /\ Slaves

Result ==
    IF op = Calls!StopCall THEN Calls!NoReply
    ELSE [ack |-> ack = 0, count |-> IF op.dir = "write" THEN j ELSE 0,
          bytes |-> buf]

\* The call is over: without a stop bit the clock is left low.
EndLow ==
    /\ pc = "end" /\ Quiet
    /\ mscl' = 0
    /\ \/ /\ op.stop
          /\ pc' = "stop_sda"
          /\ UNCHANGED <<op, stopped, reply>>
       \/ /\ ~op.stop
          /\ pc' = "idle"
          /\ op' = Calls!NoCall
          /\ stopped' = FALSE
          /\ reply' = Result
    /\ UNCHANGED <<j, i, ack, cur, buf, msda>> /\ Slaves

StopSda ==
    /\ pc = "stop_sda"
    /\ msda' = 0
    /\ pc' = "stop_rise"
    /\ UNCHANGED <<op, j, i, ack, cur, buf, stopped, mscl, reply>> /\ Slaves

StopRise ==
    /\ pc = "stop_rise" /\ Quiet
    /\ mscl' = 1
    /\ pc' = "stop_high"
    /\ UNCHANGED <<op, j, i, ack, cur, buf, stopped, msda, reply>> /\ Slaves

StopHigh ==
    /\ pc = "stop_high" /\ SCL = 1
    /\ pc' = "stop_release"
    /\ UNCHANGED <<op, j, i, ack, cur, buf, stopped, mscl, msda, reply>> /\ Slaves

StopRelease ==
    /\ pc = "stop_release" /\ Quiet
    /\ msda' = 1
    /\ pc' = "idle"
    /\ op' = Calls!NoCall
    /\ stopped' = TRUE
    /\ reply' = Result
    /\ UNCHANGED <<j, i, ack, cur, buf, mscl>> /\ Slaves

MasterStep ==
    \/ StartRise \/ StartHigh \/ StartSda
    \/ PulseLow \/ PulseData \/ PulseRise \/ PulseHigh \/ AckHigh
    \/ EndLow \/ StopSda \/ StopRise \/ StopHigh \/ StopRelease

Next ==
    \/ \E c \in Calls!Writes \cup Calls!Reads \cup {Calls!StopCall} : Begin(c)
    \/ MasterStep
    \/ \E d \in Devices : Event(d) \/ Callback(d)

Fairness ==
    /\ WF_vars(MasterStep)
    /\ \A d \in Devices : WF_vars(Event(d)) /\ WF_vars(Callback(d))

Spec == Init /\ [][Next]_vars /\ Fairness

----------------------------------------------------------------------------
(* Properties *)

States == {Waiting, "READING_ADDR", "ACK_ADDR", "ACK_WAIT_HIGH", "ACK_WAIT_LOW",
           "IGNORE_ACK", "MASTER_WRITE", "MASTER_READ"}

\* The types, with the ranges that keep the loops of the code in bounds: no
\* bit counter passes its byte and no byte is read or sent past the buffer.
TypeOK ==
    /\ pc \in {"idle", "sr_rise", "sr_high", "start_sda", "low", "data", "rise",
               "high", "end", "stop_sda", "stop_rise", "stop_high", "stop_release"}
    /\ pc = "idle" <=> op = Calls!NoCall
    /\ j \in 0..MaxLen /\ i \in 0..(ByteBits + 1)
    /\ ack \in 0..1 /\ cur \in 0..(2^ByteBits - 1) /\ stopped \in BOOLEAN
    /\ Len(buf) <= MaxLen
    /\ mscl \in 0..1 /\ msda \in 0..1
    /\ \A d \in Devices :
          /\ slave[d].state \in States
          /\ slave[d].next \in {Waiting, "MASTER_READ", "MASTER_WRITE"}
          /\ slave[d].bitnum \in 0..ByteBits
          /\ slave[d].data \in 0..(2^ByteBits - 1)
          /\ slave[d].cb \in {"none", "request", "data", "sent", "setup",
                          "stop_seen", "stop"}

\* What the callbacks of the addressed device were told and answered, and what
\* the call of the master returns, are those of one transfer: bytes written
\* arrive once, in order, with their values, bytes supplied are the bytes
\* read, acknowledges and counts agree, devices not addressed hear nothing, and
\* the stop_bit callback runs once for each device addressed since the last.
Stopping == IF pc = "idle" /\ stopped THEN {d \in Devices : ~slave[d].ignore} ELSE {}
Owed == {d \in Devices : ~slave[d].ignore} \ Stopping

Transfer == INSTANCE I2cTransfer WITH
    call <- op, held <- ~stopped, owed <- Owed, stopping <- Stopping
ImplementsTransfer == Transfer!Spec

\* Between calls the bus is as start_bit and stop_bit expect it: released
\* after a stop bit, and otherwise SCL low by the master alone and SDA high
\* (i2c_master.c, "SCL is left low and SDA is left high").  Once it has come to
\* rest after a stop bit, every device addressed since the last one has run its
\* stop_bit callback (i2c.h, "called when a stop bit is sent by the bus master").
BusAtRest ==
    pc = "idle" /\ Quiet /\ (\A d \in Devices : slave[d].cb = "none") =>
        /\ SDA = 1
        /\ SCL = IF stopped THEN 1 ELSE 0
        /\ \A d \in Devices : slave[d].sda = 1 /\ slave[d].scl = 1
        /\ stopped => \A d \in Devices : slave[d].state = Waiting /\ slave[d].ignore

\* Only the master sends start and stop bits: no other step changes SDA while
\* SCL is and stays high, and a slave takes a start or stop bit for one only when
\* the master sends one.
StartsAndStops ==
    [][/\ SCL = 1 /\ SCL' = 1 /\ SDA' # SDA => pc \in {"start_sda", "stop_release"}
       /\ \A d \in Devices :
            /\ slave[d].state # "READING_ADDR" /\ slave'[d].state = "READING_ADDR"
                  => pc = "low" /\ j = 0 /\ i = 1
            /\ slave[d].cb # "stop" /\ slave'[d].cb = "stop"
                  => pc = "idle" /\ stopped]_vars

\* Every call returns, however long the callbacks hold the clock.
CallsReturn == pc # "idle" ~> pc = "idle"
============================================================================
