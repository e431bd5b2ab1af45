------------------------------- MODULE I2cReg -------------------------------
(***************************************************************************)
(* The register functions of i2c_reg.h: read_reg, read_reg8_addr16,        *)
(* read_reg16_addr8, read_reg16 and the four write_* functions.  They are  *)
(* one program for registers whose address and contents are one or two     *)
(* bytes: a write is one transfer, a read selects the register, leaves     *)
(* the bus without a stop bit and reads after a repeated start.  The       *)
(* transfers, and what the device may answer, are those of I2cTransfer.    *)
(***************************************************************************)
EXTENDS Naturals, Sequences

CONSTANTS Devices, Absent, Written, Supplied, MaxLen   \* see I2cTransfer

\* The longest write of these functions is two bytes of address and two of data.
ASSUME RegAssumption ==
    /\ Devices \cap Absent = {}
    /\ Written \cup Supplied \subseteq Nat
    /\ MaxLen \in Nat /\ MaxLen >= 4

VARIABLES
    call, seen, reply, held, owed, stopping,           \* see I2cTransfer
    stage,     \* where the register function is, "idle" when it has returned
    fn,        \* the function called and its arguments
    result,    \* i2c_regop_res_t
    value,     \* bytes of the register read, most significant first
    log        \* history: the transfers of this function and their answers

transfer == <<call, seen, reply, held, owed, stopping>>
vars == <<transfer, stage, fn, result, value, log>>

T == INSTANCE I2cTransfer

Words == {<<b>> : b \in Written} \cup {<<b, c>> : b, c \in Written}
Addresses == Devices \cup Absent
Functions == [dir : {"write"}, addr : Addresses, reg : Words, data : Words]
             \cup [dir : {"read"}, addr : Addresses, reg : Words, width : 1..2]

Zero(n) == [k \in 1..n |-> 0]

Init ==
    /\ T!Init
    /\ stage = "idle"
    /\ fn = [dir |-> "none"]
    /\ result = "none"
    /\ value = <<>>
    /\ log = <<>>

Enter(f, first) ==
    /\ stage = "idle"
    /\ stage' = first
    /\ fn' = f
    /\ result' = "none"
    /\ value' = <<>>
    /\ log' = <<>>

WriteReg(f) ==
    /\ f.dir = "write"
    /\ Enter(f, "write")
    /\ T!Begin([dir |-> "write", addr |-> f.addr, bytes |-> f.reg \o f.data,
                stop |-> TRUE])

ReadReg(f) ==
    /\ f.dir = "read"
    /\ Enter(f, "select")
    /\ T!Begin([dir |-> "write", addr |-> f.addr, bytes |-> f.reg,
                stop |-> FALSE])

\* The write has returned; bytes_sent counts the bytes up to a refused one.
WriteResult(sent, n) ==
    CASE sent = 0 -> "I2C_REGOP_DEVICE_NACK"
      [] sent > 0 /\ sent < n -> "I2C_REGOP_INCOMPLETE"
      [] sent >= n -> "I2C_REGOP_SUCCESS"

WriteDone ==
    /\ stage = "write" /\ call = T!NoCall
    /\ result' = WriteResult(reply.count, Len(fn.reg) + Len(fn.data))
    /\ stage' = "idle"
    /\ UNCHANGED <<transfer, fn, value, log>>

Selected == reply.count = Len(fn.reg)

\* mutant: one byte too many is read
SelectDoneOneMore ==
    /\ stage = "select" /\ call = T!NoCall
    /\ Selected
    /\ T!Begin([dir |-> "read", addr |-> fn.addr, len |-> fn.width + 1, stop |-> TRUE])
    /\ stage' = "read"
    /\ UNCHANGED <<fn, result, value, log>>

\* mutant: the transaction is not ended
SelectRefusedNoStop ==
    /\ stage = "select" /\ call = T!NoCall
    /\ ~Selected
    /\ stage' = "abort"
    /\ UNCHANGED <<transfer, fn, result, value, log>>

\* The register is selected: read it after a repeated start.
SelectDone ==
    /\ stage = "select" /\ call = T!NoCall
    /\ Selected
    /\ T!Begin([dir |-> "read", addr |-> fn.addr, len |-> fn.width, stop |-> TRUE])
    /\ stage' = "read"
    /\ UNCHANGED <<fn, result, value, log>>

\* The device refused: end the transaction and give up.
SelectRefused ==
    /\ stage = "select" /\ call = T!NoCall
    /\ ~Selected
    /\ T!Begin(T!StopCall)
    /\ stage' = "abort"
    /\ UNCHANGED <<fn, result, value, log>>

AbortDone ==
    /\ stage = "abort" /\ call = T!NoCall
    /\ result' = "I2C_REGOP_DEVICE_NACK"
    /\ value' = Zero(fn.width)
    /\ stage' = "idle"
    /\ UNCHANGED <<transfer, fn, log>>

\* mutant: buf still holds the register address when the read is refused
ReadDoneNotCleared ==
    /\ stage = "read" /\ call = T!NoCall
    /\ result' = IF reply.ack THEN "I2C_REGOP_SUCCESS" ELSE "I2C_REGOP_DEVICE_NACK"
    /\ value' = IF reply.ack THEN reply.bytes ELSE fn.reg
    /\ stage' = "idle"
    /\ UNCHANGED <<transfer, fn, log>>

\* buf was cleared, so that a refused read returns zero.
ReadDone ==
    /\ stage = "read" /\ call = T!NoCall
    /\ result' = IF reply.ack THEN "I2C_REGOP_SUCCESS" ELSE "I2C_REGOP_DEVICE_NACK"
    /\ value' = IF reply.ack THEN reply.bytes ELSE Zero(fn.width)
    /\ stage' = "idle"
    /\ UNCHANGED <<transfer, fn, log>>

\* The transfer proceeds.
Device ==
    /\ \/ \E d \in Devices, ok \in BOOLEAN : T!Request(d, ok) \/ T!Sent(d, ok)
       \/ \E d \in Devices, v \in Supplied : T!Required(d, v)
       \/ \E d \in Devices : T!StopSeen(d)
    /\ UNCHANGED <<stage, fn, result, value, log>>

Return ==
    /\ T!Return
    /\ log' = Append(log, [call |-> call, seen |-> seen])
    /\ UNCHANGED <<stage, fn, result, value>>

Step == WriteDone \/ SelectDone \/ SelectRefused \/ AbortDone \/ ReadDone
Next ==
    \/ \E f \in Functions : WriteReg(f) \/ ReadReg(f)
    \/ Step \/ Device \/ Return

Spec == Init /\ [][Next]_vars

----------------------------------------------------------------------------
(* Properties *)

Results == {"none", "I2C_REGOP_DEVICE_NACK", "I2C_REGOP_INCOMPLETE",
            "I2C_REGOP_SUCCESS"}
TypeOK ==
    /\ stage \in {"idle", "write", "select", "read", "abort"}
    /\ fn \in Functions \cup {[dir |-> "none"]}
    /\ result \in Results
    /\ value \in Seq(Nat) /\ Len(value) <= 2
    /\ Len(log) <= 2

Returned(dir) == stage = "idle" /\ fn.dir = dir

\* The bytes the device was handed in the k-th transfer, and the answers to
\* everything sent to it in that transfer, its address first.
Handed(k) == [n \in 1..(Len(log[k].seen) - 1) |-> log[k].seen[n + 1].value]
Refused(k) == \E n \in 1..Len(log[k].seen) : ~log[k].seen[n].ok
Addressed(k) == log[k].seen # <<>> /\ Head(log[k].seen).ok

\* A write_* function has made one transfer, and returns how far the device got
\* in it.
WriteTold ==
    LET sent == fn.reg \o fn.data IN
    /\ Len(log) = 1
    /\ result = "I2C_REGOP_DEVICE_NACK" <=> ~Addressed(1)
    /\ result = "I2C_REGOP_INCOMPLETE" <=>
           Addressed(1) /\ Len(log[1].seen) - 1 \in 1..(Len(sent) - 1)
    /\ result = "I2C_REGOP_INCOMPLETE" => Refused(1)
    /\ result = "I2C_REGOP_SUCCESS" <=> Addressed(1) /\ Handed(1) = sent

\* A read_* function has made a second transfer to the device that was handed
\* the whole register address in the first, or returns zero.
ReadTold ==
    \/ /\ result = "I2C_REGOP_SUCCESS"
       /\ Len(log) = 2
       /\ Addressed(1) /\ Handed(1) = fn.reg
       /\ Addressed(2) /\ Handed(2) = value /\ Len(value) = fn.width
    \/ /\ result = "I2C_REGOP_DEVICE_NACK"
       /\ \E k \in 1..2 : ~Addressed(k) \/ Refused(k)
       /\ value = Zero(fn.width)

\* What a register function returns tells what the device heard and supplied.
\* After write_*, the address was refused and nothing handed over, or a proper
\* part of the bytes was and the last of them refused, or every byte, in the order
\* address and contents, most significant byte first.  A read_* that reports
\* success returns the bytes the device supplied, read from the register whose
\* whole address it was handed before; otherwise zero and some refusal.
ResultTells == (Returned("write") => WriteTold) /\ (Returned("read") => ReadTold)

\* However a register function ends, the bus is free: the last transfer sent a
\* stop bit and no device that was addressed is left without one.
BusFreed == stage = "idle" => ~held /\ owed = {}

\* i2c_reg.h: I2C_REGOP_INCOMPLETE if not all data was ACKed, and
\* I2C_REGOP_SUCCESS on successful completion.
SuccessMeansAcked ==
    stage = "idle" /\ result = "I2C_REGOP_SUCCESS" =>
        \A k \in 1..Len(log) : ~Refused(k)
============================================================================
