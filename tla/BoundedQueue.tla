---------------------------- MODULE BoundedQueue ----------------------------
(***************************************************************************)
(* What the UART byte FIFO promises its two threads: a bounded queue.      *)
(* Every call takes effect at one instant, a byte is refused only when     *)
(* the queue really is full at that instant, "empty" is answered only when *)
(* it really is empty, and bytes leave in the order in which they came.    *)
(*                                                                         *)
(* sent and got are the bytes accepted and handed out so far; the queue's  *)
(* content is the part of sent that got does not cover.                    *)
(***************************************************************************)
EXTENDS Naturals, Sequences

CONSTANTS
    Bytes,      \* the data words
    Capacity,   \* how many bytes the queue holds
    MaxSent     \* bound on the bytes accepted in one behaviour

VARIABLES sent, got, pushResult, popResult

vars == <<sent, got, pushResult, popResult>>

Results == {"ok", "full", "empty"}

Fill == Len(sent) - Len(got)

Init ==
    /\ sent = <<>>
    /\ got = <<>>
    /\ pushResult = "ok"
    /\ popResult = "ok"

Push(d) ==
    /\ Len(sent) < MaxSent
    /\ Fill < Capacity
    /\ sent' = Append(sent, d)
    /\ pushResult' = "ok"
    /\ UNCHANGED <<got, popResult>>

RefusePush ==
    /\ Fill = Capacity
    /\ pushResult' = "full"
    /\ UNCHANGED <<sent, got, popResult>>

Pop ==
    /\ Fill > 0
    /\ got' = Append(got, sent[Len(got) + 1])
    /\ popResult' = "ok"
    /\ UNCHANGED <<sent, pushResult>>

RefusePop ==
    /\ Fill = 0
    /\ popResult' = "empty"
    /\ UNCHANGED <<sent, got, pushResult>>

Next == (\E d \in Bytes : Push(d)) \/ RefusePush \/ Pop \/ RefusePop

Spec == Init /\ [][Next]_vars

=============================================================================
