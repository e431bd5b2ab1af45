--------------------------- MODULE SpiMasterProofs ---------------------------
(***************************************************************************)
(* Proofs about SpiMaster, for every set of devices, all their delays and  *)
(* every length of transfer.                                               *)
(***************************************************************************)
EXTENDS SpiMaster, TLAPS

Places == {"off", "idle", "start_sync", "select", "open", "sync", "clock", "loop", "end"}
Bytes(k) == [b \in 1..k |-> b]      \* the first k bytes of a buffer, in order

Types ==
    /\ pc \in Places /\ dev \in Devices
    /\ current \in Devices \cup {None} /\ delay \in BOOLEAN
    /\ mode \in {"normal", "fast"} /\ saved \in {"normal", "fast"}
    /\ cs \in Devices \cup {None} /\ pending \in 0..Cap
    /\ buffers \subseteq {"out", "in"}
    /\ len \in Nat /\ words \in Nat /\ o \in Nat /\ n \in Nat /\ clocked \in Nat
    /\ age \in [{"cs", "delay", "clk"} -> 0..Cap]
    /\ off \in [Devices -> 0..Cap]
    /\ asked \in 0..Cap

(* Where the thread is says which device is selected and what its mode is. *)
Transaction ==
    /\ pc \in {"off", "idle"} => cs = None /\ mode = "normal"
    /\ pc \in {"start_sync", "select"} =>
          cs = None /\ current = dev /\ saved = "normal"
    /\ pc \in {"open", "sync", "clock", "loop", "end"} => cs = dev /\ current = dev
    /\ pc \in {"open", "sync", "clock", "loop"} => saved = "normal"
    /\ pc = "end" => mode = "normal"

(* The bytes clocked, taken in, and sampled but not yet taken in, which are *)
(* the ones behind offset n.                                               *)
Moved(taken, waiting) ==
    /\ mosi = IF "out" \in buffers THEN Bytes(clocked) ELSE <<>>
    /\ data_in = IF "in" \in buffers THEN Bytes(taken) ELSE <<>>
    /\ groups = IF "in" \in buffers /\ waiting > 0
                THEN <<[b \in 1..waiting |-> n + b]>> ELSE <<>>

Progress ==
    /\ pc \in {"sync", "clock"} =>
          /\ len > 0 /\ words = len \div 2 /\ o = 0 /\ n = 0 /\ clocked = 0
          /\ Moved(0, 0)
    /\ pc = "loop" =>
          /\ len > 0 /\ o = n + 2
          /\ words > 0 => clocked = n + 2 /\ n + 2 * words = 2 * (len \div 2)
          /\ words = 0 => clocked = len /\ n + 1 = len /\ len % 2 = 1
          /\ Moved(n, clocked - n)
    /\ pc \notin {"sync", "clock", "loop"} => clocked = len /\ Moved(len, 0)

(* What is still pending makes up for what has not passed of a delay.      *)
Waited ==
    /\ pc = "sync" => delay
    /\ pc \in {"clock", "loop"} => ~delay
    /\ pc \in {"open", "sync", "clock", "loop"} =>
          /\ age["cs"] >= age["delay"]
          /\ delay => pending + age["delay"] >= asked
          /\ ~delay => age["delay"] >= asked
    /\ pc \in {"open", "end"} /\ ~delay => pending + age["clk"] >= ClkToCs[dev]
    /\ pc \in {"idle", "start_sync"} /\ current # None =>
          pending + off[current] >= CsToCs[current]

IInv == Types /\ Transaction /\ Progress /\ Waited

-----------------------------------------------------------------------------
LEMMA AgeTick ==
  ASSUME Types, Tick
  PROVE  /\ age' \in [{"cs", "delay", "clk"} -> 0..Cap]
         /\ off' \in [Devices -> 0..Cap]
         /\ \A k \in {"cs", "delay", "clk"} : age'[k] = Older(age[k])
         /\ \A d \in Devices : off'[d] = Older(off[d])
  BY MasterAssumption DEF Types, Tick, Older

LEMMA AgeReset ==
  ASSUME Types, NEW kinds, age' = Reset(kinds)
  PROVE  /\ age' \in [{"cs", "delay", "clk"} -> 0..Cap]
         /\ \A k \in {"cs", "delay", "clk"} :
               age'[k] = IF k \in kinds THEN 0 ELSE age[k]
  BY MasterAssumption DEF Types, Reset

LEMMA TypesInit == ASSUME Init PROVE Types
<1> USE MasterAssumption DEF Init, Types
<1>1. age \in [{"cs", "delay", "clk"} -> 0..Cap]
  OBVIOUS
<1>2. dev \in Devices
  OBVIOUS
<1>3. QED
  BY <1>1, <1>2 DEF Places

LEMMA InDelays == \A d \in Devices : {CsToClk[d], ClkToCs[d], CsToCs[d]} \subseteq 0..Cap
  BY MasterAssumption DEF AllDelays

LEMMA Numbers ==
  /\ Cap \in Nat
  /\ \A l \in Lens : l \in Nat /\ l > 0 /\ l \div 2 \in Nat
  /\ \A t \in Delays : t \in 0..Cap
  /\ \A d \in Devices : d # None
  BY MasterAssumption DEF AllDelays

LEMMA TypesStep == ASSUME Types, [Next]_vars PROVE Types'
<1> USE Numbers DEF Types, Places, call, ctx, port, data, history
<1>1. CASE Tick
  BY <1>1, AgeTick DEF Tick
<1>2. CASE Setup
  BY <1>2 DEF Setup
<1>3. CASE Deinit
  BY <1>3 DEF Deinit
<1>4. ASSUME NEW d \in Devices, StartOther(d) PROVE Types'
  BY <1>4 DEF StartOther
<1>5. ASSUME NEW d \in Devices, StartSame(d) PROVE Types'
  BY <1>5 DEF StartSame
<1>6. CASE StartSync
  BY <1>6 DEF StartSync
<1>7. ASSUME NEW t \in 0..Cap, DelayBeforeNext(t), pc' \in Places PROVE Types'
  BY <1>7, AgeReset DEF DelayBeforeNext
<1>8. CASE Select
  BY <1>7, <1>8, InDelays DEF Select
<1>9. ASSUME NEW t \in Delays, Delay(t) PROVE Types'
  BY <1>7, <1>9 DEF Delay
<1>10. ASSUME NEW l \in Lens, NEW b \in SUBSET {"out", "in"}, Transfer(l, b) PROVE Types'
  BY <1>10 DEF Transfer
<1>11. CASE TransferSync
  BY <1>11 DEF TransferSync
<1>12. CASE FirstWord
  BY <1>12 DEF FirstWord, ClockOut
<1>13. CASE NextWord
  BY <1>13 DEF NextWord, ClockOut
<1>14. CASE Remainder
  BY <1>14 DEF Remainder, ClockOut
<1>15. CASE LastWord
  BY <1>15, AgeReset, InDelays DEF LastWord
<1>16. CASE End
  BY <1>16 DEF End
<1>17. CASE EndSync
  BY <1>17, InDelays DEF EndSync
<1>18. CASE UNCHANGED vars
  BY <1>18 DEF vars
<1>19. QED
  BY <1>1, <1>2, <1>3, <1>4, <1>5, <1>6, <1>8, <1>9, <1>10, <1>11, <1>12, <1>13,
     <1>14, <1>15, <1>16, <1>17, <1>18 DEF Next

-----------------------------------------------------------------------------
LEMMA TransactionStep == ASSUME Types, Transaction, [Next]_vars PROVE Transaction'
<1> USE Numbers DEF Types, Places, Transaction, call, ctx, port, data, history
<1>1. CASE Tick
  BY <1>1 DEF Tick
<1>2. CASE Setup \/ Deinit
  BY <1>2 DEF Setup, Deinit
<1>3. ASSUME NEW d \in Devices, StartOther(d) \/ StartSame(d) PROVE Transaction'
  BY <1>3 DEF StartOther, StartSame
<1>4. CASE StartSync \/ Select
  BY <1>4 DEF StartSync, Select, DelayBeforeNext
<1>5. ASSUME NEW t \in Delays, Delay(t) PROVE Transaction'
  BY <1>5 DEF Delay, DelayBeforeNext
<1>6. ASSUME NEW l, NEW b, Transfer(l, b) PROVE Transaction'
  BY <1>6 DEF Transfer
<1>7. CASE TransferSync \/ FirstWord
  BY <1>7 DEF TransferSync, FirstWord
<1>8. CASE NextWord \/ Remainder
  BY <1>8 DEF NextWord, Remainder
<1>9. CASE LastWord
  BY <1>9 DEF LastWord
<1>10. CASE End \/ EndSync
  BY <1>10 DEF End, EndSync
<1>11. CASE UNCHANGED vars
  BY <1>11 DEF vars
<1>12. QED
  BY <1>1, <1>2, <1>3, <1>4, <1>5, <1>6, <1>7, <1>8, <1>9, <1>10, <1>11 DEF Next

LEMMA WaitedStep == ASSUME Types, Transaction, Waited, [Next]_vars PROVE Waited'
<1> USE Numbers DEF Types, Places, Waited, call, ctx, port, data, history
<1>1. CASE Tick
  BY <1>1, AgeTick, InDelays DEF Tick, Older
<1>2. CASE Setup \/ Deinit
  BY <1>2 DEF Setup, Deinit
<1>3. ASSUME NEW d \in Devices, StartOther(d) \/ StartSame(d) PROVE Waited'
  BY <1>3 DEF StartOther, StartSame
<1>4. CASE StartSync
  BY <1>4 DEF StartSync
<1>5. ASSUME NEW t \in 0..Cap, DelayBeforeNext(t), pc' = "open",
             pc = "select" => cs = None, pc \in {"select", "open"}
      PROVE  Waited'
  BY <1>5, AgeReset DEF DelayBeforeNext
<1>6. CASE Select
  BY <1>5, <1>6, InDelays DEF Select, Transaction
<1>7. ASSUME NEW t \in Delays, Delay(t) PROVE Waited'
  BY <1>5, <1>7 DEF Delay
<1>8. ASSUME NEW l, NEW b, Transfer(l, b) PROVE Waited'
  BY <1>8 DEF Transfer
<1>9. CASE TransferSync \/ FirstWord
  BY <1>9 DEF TransferSync, FirstWord
<1>10. CASE NextWord \/ Remainder
  BY <1>10 DEF NextWord, Remainder
<1>11. CASE LastWord
  BY <1>11, AgeReset, InDelays DEF LastWord
<1>12. CASE End
  BY <1>12 DEF End
<1>13. CASE EndSync
  BY <1>13, InDelays DEF EndSync, Transaction
<1>14. CASE UNCHANGED vars
  BY <1>14 DEF vars
<1>15. QED
  BY <1>1, <1>2, <1>3, <1>4, <1>6, <1>7, <1>8, <1>9, <1>10, <1>11, <1>12, <1>13,
     <1>14 DEF Next

-----------------------------------------------------------------------------
(* The bytes moved.                                                        *)

LEMMA Whole ==
  ASSUME NEW s, NEW m \in Nat, NEW k \in Nat, s = [b \in 1..m |-> k + b]
  PROVE  SubSeq(s, 1, m) = s
  OBVIOUS

(* k bytes clocked: the offset of data_out is the number of bytes clocked  *)
(* so far, and the port holds w bytes behind offset m.                     *)
LEMMA Clocked ==
  ASSUME Types, NEW k \in 1..2, NEW waiting, ClockOut(k, waiting),
         buffers' = buffers, o = clocked, "in" \in buffers => waiting = <<>>,
         mosi = IF "out" \in buffers THEN Bytes(clocked) ELSE <<>>,
         "in" \notin buffers => groups = <<>>
  PROVE  /\ clocked' = clocked + k
         /\ mosi' = IF "out" \in buffers THEN Bytes(clocked') ELSE <<>>
         /\ groups' = IF "in" \in buffers THEN <<[b \in 1..k |-> clocked + b]>> ELSE <<>>
<1>1. clocked \in Nat /\ clocked' = clocked + k
  BY DEF Types, ClockOut
<1>2. Bytes(clocked) \o [b \in 1..k |-> clocked + b] = Bytes(clocked + k)
  BY <1>1 DEF Bytes
<1>5. "out" \in buffers => mosi' = Bytes(clocked')
  BY <1>1, <1>2 DEF ClockOut
<1>3. "in" \in buffers => groups' = <<[b \in 1..k |-> clocked + b]>>
  BY DEF ClockOut
<1>4. QED
  BY <1>1, <1>5, <1>3 DEF ClockOut

(* Taking the group in the port in: it holds the k bytes behind offset n.  *)
LEMMA TakenIn ==
  ASSUME Types, NEW k \in 1..2, TakeIn(k), buffers' = buffers, Moved(n, k)
  PROVE  /\ data_in' = IF "in" \in buffers THEN Bytes(n + k) ELSE <<>>
         /\ Taken = <<>>
<1>1. n \in Nat
  BY DEF Types
<1>2. CASE "in" \in buffers
  <2>1. groups = <<[b \in 1..k |-> n + b]>> /\ data_in = Bytes(n)
    BY <1>2 DEF Moved
  <2>2. Head(groups) = [b \in 1..k |-> n + b] /\ Tail(groups) = <<>>
    BY <2>1
  <2>3. SubSeq(Head(groups), 1, k) = [b \in 1..k |-> n + b]
    BY <1>1, <2>2, Whole
  <2>4. data_in' = Bytes(n + k)
    <3>1. Bytes(n) \o [b \in 1..k |-> n + b] = Bytes(n + k)
      BY <1>1 DEF Bytes
    <3>2. QED
      BY <1>2, <2>1, <2>3, <3>1 DEF TakeIn
  <2>5. QED
    BY <1>2, <2>2, <2>4 DEF Taken
<1>3. CASE "in" \notin buffers
  BY <1>3 DEF Moved, TakeIn, Taken
<1>4. QED
  BY <1>2, <1>3

LEMMA ProgressStep == ASSUME Types, Progress, [Next]_vars PROVE Progress'
<1> USE Numbers DEF call, ctx, port, data, history
<1>0. /\ len \in Nat /\ words \in Nat /\ o \in Nat /\ n \in Nat /\ clocked \in Nat
  BY DEF Types
<1>1. ASSUME UNCHANGED data,
             pc' = pc \/ (pc' = "clock" /\ pc = "sync")
               \/ {pc, pc'} \cap {"sync", "clock", "loop"} = {}
      PROVE  Progress'
  BY <1>1 DEF Progress, Moved
<1>2. ASSUME NEW l \in Lens, NEW b, Transfer(l, b) PROVE Progress'
  BY <1>2 DEF Transfer, Progress, Moved, Bytes
<1>3. CASE FirstWord
  <2> DEFINE k == IF len = 1 THEN 1 ELSE 2
  <2>1. /\ len > 0 /\ words = len \div 2 /\ o = 0 /\ n = 0 /\ clocked = 0
        /\ Moved(0, 0) /\ groups = <<>>
    BY <1>3 DEF FirstWord, Progress, Moved
  <2>2. /\ clocked' = k
        /\ mosi' = IF "out" \in buffers THEN Bytes(k) ELSE <<>>
        /\ groups' = IF "in" \in buffers THEN <<[b \in 1..k |-> b]>> ELSE <<>>
    <3>1. k \in 1..2 /\ ClockOut(k, groups) /\ buffers' = buffers
      BY <1>3 DEF FirstWord
    <3>2. /\ clocked' = 0 + k
          /\ mosi' = IF "out" \in buffers THEN Bytes(clocked') ELSE <<>>
          /\ groups' = IF "in" \in buffers THEN <<[b \in 1..k |-> 0 + b]>> ELSE <<>>
      BY <2>1, <3>1, Clocked DEF Moved
    <3>3. [b \in 1..k |-> 0 + b] = [b \in 1..k |-> b]
      OBVIOUS
    <3>4. QED
      BY <3>2, <3>3
  <2>3. Moved(n, clocked - n)'
    BY <1>3, <2>1, <2>2 DEF FirstWord, Moved
  <2>4. len = 1 => words = 0
    BY <2>1
  <2>5. len # 1 => words > 0 /\ 2 * words = 2 * (len \div 2)
    BY <1>0, <2>1
  <2>6. QED
    BY <1>0, <1>3, <2>1, <2>2, <2>3, <2>4, <2>5 DEF FirstWord, ClockOut, Progress
<1>4. ASSUME pc = "loop", words > 0, NEW k \in 1..2, ClockOut(k, Taken), TakeIn(2),
             n' = n + 2, buffers' = buffers
      PROVE  /\ clocked' = clocked + k /\ clocked = n'
             /\ o' = n' + 2
             /\ Moved(n, clocked - n)'
  <2>1. clocked = n + 2 /\ o = clocked /\ Moved(n, 2)
    BY <1>0, <1>4 DEF Progress
  <2>2. data_in' = (IF "in" \in buffers THEN Bytes(n') ELSE <<>>) /\ Taken = <<>>
    BY <1>4, <2>1, TakenIn
  <2>3. /\ clocked' = clocked + k
        /\ mosi' = IF "out" \in buffers THEN Bytes(clocked') ELSE <<>>
        /\ groups' = IF "in" \in buffers THEN <<[b \in 1..k |-> clocked + b]>> ELSE <<>>
    BY <1>4, <2>1, <2>2, Clocked DEF Moved
  <2>4. clocked = n' /\ clocked' - n' = k /\ o' = n' + 2
    BY <1>0, <1>4, <2>1, <2>3 DEF ClockOut
  <2>5. QED
    BY <1>4, <2>2, <2>3, <2>4 DEF Moved
<1>5. CASE NextWord
  BY <1>0, <1>4, <1>5 DEF NextWord, Progress
<1>6. CASE Remainder
  BY <1>0, <1>4, <1>6 DEF Remainder, Progress
<1>7. CASE LastWord
  <2> DEFINE k == IF len % 2 = 1 THEN 1 ELSE 2
  <2>1. Moved(n, k) /\ clocked = len /\ n + k = len
    <3>1. CASE words = 0
      BY <1>0, <1>7, <3>1 DEF LastWord, Progress
    <3>2. CASE words = 1 /\ len % 2 = 0
      BY <1>0, <1>7, <3>2 DEF LastWord, Progress
    <3>3. QED
      BY <1>7, <3>1, <3>2 DEF LastWord
  <2>2. data_in' = (IF "in" \in buffers THEN Bytes(len) ELSE <<>>) /\ Taken = <<>>
    BY <1>7, <2>1, TakenIn DEF LastWord
  <2>3. QED
    BY <1>0, <1>7, <2>1, <2>2 DEF LastWord, Progress, Moved
<1>8. QED
  BY <1>1, <1>2, <1>3, <1>5, <1>6, <1>7
  DEF Next, vars, Tick, Setup, Deinit, StartOther, StartSame, StartSync, Select, Delay,
      DelayBeforeNext, TransferSync, End, EndSync

-----------------------------------------------------------------------------
LEMMA InvInit == ASSUME Init PROVE IInv
<1>1. Types
  BY TypesInit
<1>2. Transaction
  BY DEF Init, Transaction
<1>3. Progress
  BY DEF Init, Progress, Moved, Bytes
<1>4. Waited
  BY DEF Init, Waited
<1>5. QED
  BY <1>1, <1>2, <1>3, <1>4 DEF IInv

(* The properties are not inductive: IInv adds what the thread still has   *)
(* to move at every place of the loop, and what is pending of each delay.  *)
THEOREM Invariance == Spec => []IInv
<1>1. Init => IInv
  BY InvInit
<1>2. IInv /\ [Next]_vars => IInv'
  BY TypesStep, TransactionStep, ProgressStep, WaitedStep DEF IInv
<1>3. QED
  BY <1>1, <1>2, PTL DEF Spec

(* The loop of spi_master_transfer never reads data_out or stores to       *)
(* data_in past len, whatever the length, and its types are right.         *)
THEOREM TypeCorrect == Spec => []TypeOK
<1>1. ASSUME IInv PROVE TypeOK
  <2>1. /\ len \in Nat /\ words \in Nat /\ n \in Nat /\ clocked \in Nat
        /\ pc \in Places
    BY <1>1 DEF IInv, Types
  <2>2. \A k \in Nat : Len(Bytes(k)) = k
    BY DEF Bytes
  <2>3. \E taken \in 0..len : \E waiting :
           /\ clocked <= len /\ Moved(taken, waiting)
           /\ pc = "loop" => taken = n
    <3>1. CASE pc = "loop"
      <4>1. clocked <= len /\ n \in 0..len /\ Moved(n, clocked - n)
        BY <1>1, <2>1, <3>1 DEF IInv, Progress
      <4>2. QED
        BY <3>1, <4>1
    <3>2. CASE pc \in {"sync", "clock"}
      BY <1>1, <2>1, <3>2 DEF IInv, Progress
    <3>3. CASE pc \notin {"sync", "clock", "loop"}
      BY <1>1, <2>1, <3>3 DEF IInv, Progress
    <3>4. QED
      BY <3>1, <3>2, <3>3
  <2>4. QED
    BY <1>1, <2>1, <2>2, <2>3 DEF IInv, Types, Places, Moved, TypeOK
<1>2. QED
  BY <1>1, Invariance, PTL

(* Every transfer of every length moves exactly its bytes, in order and    *)
(* each to its place, through the loop, the remainder and the last word of *)
(* spi_master_transfer.                                                    *)
THEOREM BytesMoved == Spec => []TransferExact
<1>1. IInv => TransferExact
  BY DEF IInv, Progress, Moved, Bytes, TransferExact
<1>2. QED
  BY <1>1, Invariance, PTL

(* Clocks run only with chip select asserted to the device of the call,    *)
(* and the thread leaves every transaction in the mode it had.             *)
THEOREM Selection == Spec => []SelectedOnly
<1>1. IInv => SelectedOnly
  BY DEF IInv, Transaction, SelectedOnly
<1>2. QED
  BY <1>1, Invariance, PTL

(* The delays asked for are waited for, for every choice of delays: what   *)
(* is pending on the chip select port makes up for what has not passed.    *)
THEOREM Delayed == Spec => DelaysKept
<1> DEFINE Kept ==
      /\ clocked = 0 /\ clocked' > 0 =>
             /\ age.delay >= asked
             /\ age.cs >= CsToClk[dev] \/ asked < CsToClk[dev]
      /\ cs # None /\ cs' = None => age.clk >= ClkToCs[cs] \/ delay
      /\ pc = "start_sync" /\ pc' = "select" => off[dev] >= CsToCs[dev]
<1>1. ASSUME IInv, [Next]_vars PROVE Kept
  <2>0. /\ \A d \in Devices : CsToClk[d] \in Nat /\ ClkToCs[d] \in Nat /\ CsToCs[d] \in Nat
        /\ age.cs \in Nat /\ age.delay \in Nat /\ age.clk \in Nat
        /\ dev \in Devices /\ asked \in Nat /\ off[dev] \in Nat
        /\ clocked \in Nat /\ words \in Nat /\ dev # None
    BY <1>1, MasterAssumption DEF IInv, Types
  <2> USE DEF call, ctx, port, data, history
  <2>1. CASE FirstWord
    <3>1. pc = "clock" /\ cs' = cs /\ pc' = "loop"
      BY <2>1 DEF FirstWord
    <3>2. age.cs >= age.delay /\ age.delay >= asked
      BY <1>1, <3>1 DEF IInv, Waited
    <3>3. QED
      BY <2>0, <3>1, <3>2
  <2>2. CASE EndSync
    <3>1. pc = "end" /\ pending = 0 /\ clocked' = clocked /\ pc' = "idle" /\ cs = dev
      BY <1>1, <2>2 DEF EndSync, IInv, Transaction
    <3>2. ~delay => age.clk >= ClkToCs[dev]
      BY <1>1, <2>0, <3>1 DEF IInv, Waited
    <3>3. QED
      BY <2>0, <3>1, <3>2
  <2>3. CASE StartSync
    <3>1. pc = "start_sync" /\ pending = 0 /\ clocked' = clocked /\ cs' = cs
      BY <2>3 DEF StartSync
    <3>2. current = dev
      BY <1>1, <3>1 DEF IInv, Transaction
    <3>3. off[dev] >= CsToCs[dev]
      BY <1>1, <2>0, <3>1, <3>2 DEF IInv, Waited
    <3>4. QED
      BY <3>1, <3>3
  <2>4. CASE NextWord \/ Remainder
    <3>1. pc = "loop" /\ pc' = pc /\ words > 0 /\ cs' = cs
      BY <2>0, <2>4 DEF NextWord, Remainder
    <3>2. clocked = n + 2 /\ n \in Nat
      BY <1>1, <3>1 DEF IInv, Types, Progress
    <3>3. QED
      BY <2>0, <3>1, <3>2
  <2>5. ASSUME ~FirstWord, ~EndSync, ~StartSync, ~NextWord, ~Remainder
        PROVE  /\ clocked' = clocked \/ clocked' = 0
               /\ cs # None => cs' # None
               /\ ~(pc = "start_sync" /\ pc' = "select")
    BY <1>1, <2>0, <2>5
    DEF Next, vars, Tick, Setup, Deinit, StartOther, StartSame, Select, Delay,
        DelayBeforeNext, Transfer, TransferSync, LastWord, End, IInv, Transaction
  <2>6. QED
    BY <2>0, <2>1, <2>2, <2>3, <2>4, <2>5
<1>2. IInv /\ [Next]_vars => [Kept]_vars
  BY <1>1
<1>3. QED
  BY <1>2, Invariance, PTL DEF Spec, DelaysKept

=============================================================================
