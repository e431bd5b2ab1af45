------------------------------ MODULE UartFifo ------------------------------
(***************************************************************************)
(* The byte FIFO of the buffered UART modes (uart_util.c), called by two   *)
(* threads without a lock: the producer calls push_byte_into_buffer, the   *)
(* consumer pop_byte_from_buffer, either may call get_buffer_fill_level.   *)
(*                                                                         *)
(* An action makes at most one access to memory that the other thread      *)
(* writes (a load of its index, a load or store of a slot, the store of    *)
(* the own index the other thread reads), so every interleaving of the     *)
(* loads and stores of the code is a behaviour.  Loads and stores take     *)
(* effect in program order: the core is in-order, and the byte store may   *)
(* alias the index, so the compiler keeps the two stores in order too.     *)
(*                                                                         *)
(* sent and got are history variables: the bytes that became visible to    *)
(* the consumer, and those whose slot was given back to the producer.      *)
(***************************************************************************)
EXTENDS Integers, Sequences

CONSTANTS
    Bytes,          \* the values of a uint8_t the model tells apart
    Zero,           \* the byte memset stores
    SizePlusOne,    \* size_plus_one: length of the storage array
    UintMod,        \* 2^32, the range of unsigned
    MaxSent         \* bound on the bytes accepted in one behaviour

ASSUME FifoAssumption ==
    /\ Zero \in Bytes
    /\ SizePlusOne \in Nat \ {0}
    /\ UintMod \in Nat /\ UintMod > 2 * SizePlusOne
    /\ MaxSent \in Nat

Threads == {"producer", "consumer"}
Slots == 0 .. SizePlusOne - 1

VARIABLES
    buffer, write_idx, read_idx,    \* uart_buffer_t
    place,                          \* where each thread is inside its call
    data,                           \* each thread's byte: argument, or *data
    pushResult, popResult,          \* what the last decided call returns
    fillLevel,                      \* each thread's last fill level
    sent, got                       \* history

storage == <<buffer, write_idx, read_idx>>
fifoVars == <<buffer, write_idx, read_idx, place, data, pushResult, popResult,
          fillLevel, sent, got>>

\* The index after i in the circular storage (and, for a mutant, no wrap).
SuccNoWrap(i) == i + 1
Succ(i) == IF i + 1 = SizePlusOne THEN 0 ELSE i + 1

Goto(t, from, to) == place[t] = from /\ place' = [place EXCEPT ![t] = to]

FifoInit ==
    /\ buffer = [i \in Slots |-> Zero]
    /\ write_idx = 0
    /\ read_idx = 0
    /\ place = [t \in Threads |-> "out"]
    /\ data = [t \in Threads |-> Zero]
    /\ pushResult = "ok"
    /\ popResult = "ok"
    /\ fillLevel = [t \in Threads |-> 0]
    /\ sent = <<>>
    /\ got = <<>>

-----------------------------------------------------------------------------
(* push_byte_into_buffer: load read_idx; store the byte; store write_idx.  *)

PushRefusedOneEarly ==     \* mutant: keeps two slots free
    /\ place["producer"] = "out"
    /\ Succ(Succ(write_idx)) = read_idx
    /\ pushResult' = "full"
    /\ UNCHANGED <<storage, place, data, popResult, fillLevel, sent, got>>

PushRefused ==
    /\ place["producer"] = "out"
    /\ Succ(write_idx) = read_idx
    /\ pushResult' = "full"
    /\ UNCHANGED <<storage, place, data, popResult, fillLevel, sent, got>>

PushBeginUnchecked(d) ==   \* mutant: overwrites when full
    /\ Len(sent) < MaxSent
    /\ Goto("producer", "out", "data")
    /\ data' = [data EXCEPT !["producer"] = d]
    /\ UNCHANGED <<storage, pushResult, popResult, fillLevel, sent, got>>

PushBegin(d) ==
    /\ Len(sent) < MaxSent
    /\ Goto("producer", "out", "data")
    /\ Succ(write_idx) # read_idx
    /\ data' = [data EXCEPT !["producer"] = d]
    /\ UNCHANGED <<storage, pushResult, popResult, fillLevel, sent, got>>

PushData ==
    /\ Goto("producer", "data", "index")
    /\ buffer' = [buffer EXCEPT ![write_idx] = data["producer"]]
    /\ UNCHANGED <<write_idx, read_idx, data, pushResult, popResult,
                   fillLevel, sent, got>>

PushIndex ==
    /\ Goto("producer", "index", "out")
    /\ write_idx' = Succ(write_idx)
    /\ pushResult' = "ok"
    /\ sent' = Append(sent, data["producer"])
    /\ UNCHANGED <<buffer, read_idx, data, popResult, fillLevel, got>>

-----------------------------------------------------------------------------
(* pop_byte_from_buffer: load write_idx; load the byte; store read_idx.    *)

PopRefused ==
    /\ place["consumer"] = "out"
    /\ read_idx = write_idx
    /\ popResult' = "empty"
    /\ UNCHANGED <<storage, place, data, pushResult, fillLevel, sent, got>>

PopBeginUnchecked ==       \* mutant: pops from an empty FIFO
    /\ Goto("consumer", "out", "data")
    /\ UNCHANGED <<storage, data, pushResult, popResult, fillLevel, sent, got>>

PopBeginOneLate ==         \* mutant: never pops the last byte
    /\ Goto("consumer", "out", "data")
    /\ read_idx # write_idx /\ Succ(read_idx) # write_idx
    /\ UNCHANGED <<storage, data, pushResult, popResult, fillLevel, sent, got>>

PopBegin ==
    /\ Goto("consumer", "out", "data")
    /\ read_idx # write_idx
    /\ UNCHANGED <<storage, data, pushResult, popResult, fillLevel, sent, got>>

PopData ==
    /\ Goto("consumer", "data", "index")
    /\ data' = [data EXCEPT !["consumer"] = buffer[read_idx]]
    /\ UNCHANGED <<storage, pushResult, popResult, fillLevel, sent, got>>

PopIndex ==
    /\ Goto("consumer", "index", "out")
    /\ read_idx' = Succ(read_idx)
    /\ popResult' = "ok"
    /\ got' = Append(got, data["consumer"])
    /\ UNCHANGED <<buffer, write_idx, data, pushResult, fillLevel, sent>>

-----------------------------------------------------------------------------
(* get_buffer_fill_level names the other thread's index twice: in the      *)
(* comparison and in the subtraction of the branch taken.  The fields are  *)
(* not volatile, so a build may keep the first value (FillAtOnce) or load  *)
(* the index again (FillCompare, then FillSubtract).                       *)

Above == (write_idx - read_idx) % UintMod
BelowBySize == (SizePlusOne - 1 + write_idx - read_idx) % UintMod     \* mutant
Below == (SizePlusOne + write_idx - read_idx) % UintMod

FillAtOnce(t) ==
    /\ place[t] = "out"
    /\ fillLevel' = [fillLevel EXCEPT ![t] =
                        IF write_idx >= read_idx THEN Above ELSE Below]
    /\ UNCHANGED <<storage, place, data, pushResult, popResult, sent, got>>

FillCompare(t) ==
    /\ Goto(t, "out", IF write_idx >= read_idx THEN "above" ELSE "below")
    /\ UNCHANGED <<storage, data, pushResult, popResult, fillLevel, sent, got>>

FillSubtract(t) ==
    /\ place[t] \in {"above", "below"}
    /\ place' = [place EXCEPT ![t] = "out"]
    /\ fillLevel' = [fillLevel EXCEPT ![t] =
                        IF place[t] = "above" THEN Above ELSE Below]
    /\ UNCHANGED <<storage, data, pushResult, popResult, sent, got>>

-----------------------------------------------------------------------------

Producer == PushRefused \/ (\E d \in Bytes : PushBegin(d)) \/ PushData \/ PushIndex
Consumer == PopRefused \/ PopBegin \/ PopData \/ PopIndex
FillLevel(t) == FillAtOnce(t) \/ FillCompare(t) \/ FillSubtract(t)

FifoNext == Producer \/ Consumer \/ \E t \in Threads : FillLevel(t)

FifoSpec == FifoInit /\ [][FifoNext]_fifoVars

(* A call once begun returns, and the consumer keeps polling pop, as       *)
(* uart_rx's callers do; SF because it may poll the fill level in between. *)
FifoFairness ==
    /\ WF_fifoVars(PushData) /\ WF_fifoVars(PushIndex)
    /\ SF_fifoVars(PopBegin) /\ WF_fifoVars(PopData) /\ WF_fifoVars(PopIndex)
    /\ \A t \in Threads : WF_fifoVars(FillSubtract(t))

FifoFairSpec == FifoSpec /\ FifoFairness

-----------------------------------------------------------------------------
(* Properties.                                                             *)

FifoTypeOK ==
    /\ buffer \in [Slots -> Bytes]
    /\ write_idx \in Slots
    /\ read_idx \in Slots
    /\ place \in [Threads -> {"out", "data", "index", "above", "below"}]
    /\ data \in [Threads -> Bytes]
    /\ pushResult \in {"ok", "full"}
    /\ popResult \in {"ok", "empty"}
    /\ fillLevel \in [Threads -> 0 .. UintMod - 1]
    /\ sent \in Seq(Bytes)
    /\ got \in Seq(Bytes)

(* The two threads are never both about to touch the same slot, the        *)
(* producer storing a byte and the consumer loading it: push stores "data  *)
(* first so valid after idx++" and one slot is always kept free.           *)
NoSlotRace ==
    ~ /\ place["producer"] \in {"data", "index"}
      /\ place["consumer"] \in {"data", "index"}
      /\ write_idx = read_idx

(* The bytes handed out are the first bytes accepted, in order and with    *)
(* their values: the FIFO loses, repeats, reorders and invents nothing.    *)
FirstInFirstOut ==
    /\ Len(got) <= Len(sent)
    /\ \A i \in 1 .. Len(got) : got[i] = sent[i]

(* A thread that is told the fill level is 0 finds the FIFO empty when the *)
(* answer is computed, whichever way the indices are loaded: uart_tx      *)
(* starts a transmission past the FIFO on the strength of this answer.     *)
ZeroMeansEmpty ==
    [][\A t \in Threads :
          FillLevel(t) /\ place'[t] = "out" /\ fillLevel'[t] = 0
             => Len(sent) = Len(got)]_fifoVars

(* Every accepted byte is handed out, as long as the consumer keeps        *)
(* calling pop.                                                            *)
EveryByteHandedOut ==
    \A n \in 1 .. MaxSent : Len(sent) >= n ~> Len(got) >= n

(* The FIFO implements the bounded queue of size_plus_one - 1 bytes: each  *)
(* call takes effect at one of its steps, and "full" and "empty" are       *)
(* answered only of a full and of an empty queue.                          *)
Queue == INSTANCE BoundedQueue WITH Capacity <- SizePlusOne - 1

ImplementsQueue == Queue!Spec

=============================================================================
