---------------------------- MODULE I2cRegProofs ----------------------------
(***************************************************************************)
(* Proofs about I2cReg, for every set of devices, whatever they answer and *)
(* supply, and every byte written.                                         *)
(***************************************************************************)
EXTENDS I2cReg, TLAPS

WriteFunctions == {f \in Functions : f.dir = "write"}
ReadFunctions == {f \in Functions : f.dir = "read"}

\* The transfers of the functions.
WriteCall(f) ==
    [dir |-> "write", addr |-> f.addr, bytes |-> f.reg \o f.data, stop |-> TRUE]
SelectCall(f) == [dir |-> "write", addr |-> f.addr, bytes |-> f.reg, stop |-> FALSE]
ReadCall(f) == [dir |-> "read", addr |-> f.addr, len |-> f.width, stop |-> TRUE]

Answer == [value : Nat, ok : BOOLEAN]

(* What a device may have answered in a transfer: to its address, and then *)
(* to one byte after the other, up to a refusal.                           *)
Conversation(c, s) ==
    /\ s \in Seq(Answer)
    /\ s # <<>> => c.addr \in Devices
    /\ Len(s) <= T!Length(c) + 1
    /\ \A k \in 1..(Len(s) - 1) : s[k].ok
    /\ \A k \in 2..Len(s) :
          /\ c.dir = "write" => s[k].value = c.bytes[k - 1]
          /\ c.dir = "read" => s[k].ok

Finished(c, s) ==
    /\ Conversation(c, s)
    /\ s # <<>> => ~s[Len(s)].ok \/ Len(s) = T!Length(c) + 1

(* The caller has what the device answered.                                *)
Told(c, s) ==
    /\ c.dir = "write" => reply.count = IF s = <<>> THEN 0 ELSE Len(s) - 1
    /\ c.dir = "read" =>
          /\ reply.ack = (s # <<>> /\ s[1].ok)
          /\ s # <<>> => reply.bytes = [k \in 1..(Len(s) - 1) |-> s[k + 1].value]

Entry(c, s) == [call |-> c, seen |-> s]

(* Transfer c is under way behind those in the log, or it has returned and *)
(* joined them.                                                            *)
During(c, before) == call = c /\ log = before /\ Conversation(c, seen)
Behind(c, before) ==
    /\ call = T!NoCall /\ log = Append(before, Entry(c, seen))
    /\ Finished(c, seen) /\ Told(c, seen)
    /\ held = ~c.stop /\ (c.stop => owed = {})

Aborted(before) ==
    \/ call = T!StopCall /\ log = before /\ seen = <<>>
    \/ /\ call = T!NoCall /\ log = Append(before, Entry(T!StopCall, seen))
       /\ ~held /\ owed = {}

(* Where a register function is says what its transfers have done.         *)
Stages ==
    /\ stage = "idle" => call = T!NoCall
    /\ stage = "write" =>
          /\ fn \in WriteFunctions
          /\ During(WriteCall(fn), <<>>) \/ Behind(WriteCall(fn), <<>>)
    /\ stage = "select" =>
          /\ fn \in ReadFunctions
          /\ During(SelectCall(fn), <<>>) \/ Behind(SelectCall(fn), <<>>)
    /\ stage \in {"read", "abort"} =>
          LET s == log[1].seen
              before == <<Entry(SelectCall(fn), s)>>
          IN
          /\ fn \in ReadFunctions
          /\ Finished(SelectCall(fn), s)
          /\ stage = "read" =>
                /\ Len(s) = Len(fn.reg) + 1
                /\ During(ReadCall(fn), before) \/ Behind(ReadCall(fn), before)
          /\ stage = "abort" => Len(s) # Len(fn.reg) + 1 /\ Aborted(before)

IInv == TypeOK /\ Stages /\ ResultTells /\ BusFreed

-----------------------------------------------------------------------------
Calls(c) ==
    \/ c.dir = "write" /\ c.bytes \in Seq(Nat)
    \/ c.dir = "read" /\ c.len \in Nat

LEMMA WordFacts ==
  \A w \in Words : w \in Seq(Nat) /\ Len(w) >= 1 /\ Len(w) <= 2
<1>1. \A b \in Written : b \in Nat
  BY RegAssumption
<1>2. \A b \in Written : <<b>> \in Seq(Nat) /\ Len(<<b>>) = 1
  BY <1>1
<1>3. \A b, c \in Written : <<b, c>> \in Seq(Nat) /\ Len(<<b, c>>) = 2
  BY <1>1
<1>4. ASSUME NEW w \in Words PROVE w \in Seq(Nat) /\ Len(w) >= 1 /\ Len(w) <= 2
  <2>1. CASE w \in {<<b>> : b \in Written}
    <3>1. PICK b \in Written : w = <<b>>
      BY <2>1
    <3>2. QED
      BY <1>2, <3>1
  <2>2. CASE w \in {<<b, c>> : b, c \in Written}
    <3>1. PICK b, c \in Written : w = <<b, c>>
      BY <2>2
    <3>2. QED
      BY <1>3, <3>1
  <2>3. QED
    BY <2>1, <2>2 DEF Words
<1>5. QED
  BY <1>4

LEMMA FunctionFacts ==
  /\ \A f \in WriteFunctions : f.reg \in Words /\ f.data \in Words
  /\ \A f \in ReadFunctions : f.reg \in Words /\ f.width \in 1..2
<1>1. ASSUME NEW f \in WriteFunctions PROVE f.reg \in Words /\ f.data \in Words
  BY <1>1 DEF WriteFunctions, Functions
<1>2. ASSUME NEW f \in ReadFunctions PROVE f.reg \in Words /\ f.width \in 1..2
  BY <1>2 DEF ReadFunctions, Functions
<1>3. QED
  BY <1>1, <1>2

LEMMA CallFacts ==
  /\ \A f \in WriteFunctions :
        /\ Calls(WriteCall(f)) /\ T!Length(WriteCall(f)) = Len(f.reg) + Len(f.data)
        /\ WriteCall(f) # T!NoCall
  /\ \A f \in ReadFunctions :
        /\ Calls(SelectCall(f)) /\ T!Length(SelectCall(f)) = Len(f.reg)
        /\ Calls(ReadCall(f)) /\ T!Length(ReadCall(f)) = f.width
        /\ SelectCall(f) # T!NoCall /\ ReadCall(f) # T!NoCall
  /\ T!StopCall # T!NoCall
<1> USE DEF WriteCall, SelectCall, ReadCall, Calls, T!Length, T!NoCall
<1>1. ASSUME NEW f \in WriteFunctions
      PROVE  /\ Calls(WriteCall(f)) /\ T!Length(WriteCall(f)) = Len(f.reg) + Len(f.data)
             /\ WriteCall(f) # T!NoCall
  <2>1. /\ f.reg \in Seq(Nat) /\ f.data \in Seq(Nat)
        /\ f.reg \o f.data \in Seq(Nat)
        /\ Len(f.reg \o f.data) = Len(f.reg) + Len(f.data)
    BY FunctionFacts, WordFacts
  <2>2. QED
    BY <2>1
<1>2. ASSUME NEW f \in ReadFunctions
      PROVE  /\ Calls(SelectCall(f)) /\ T!Length(SelectCall(f)) = Len(f.reg)
             /\ Calls(ReadCall(f)) /\ T!Length(ReadCall(f)) = f.width
             /\ SelectCall(f) # T!NoCall /\ ReadCall(f) # T!NoCall
  BY FunctionFacts, WordFacts
<1>3. T!StopCall # T!NoCall
  BY DEF T!StopCall
<1>4. QED
  BY <1>1, <1>2, <1>3

(* A device continues the conversation of the call under way.              *)
LEMMA DeviceStep ==
  ASSUME NEW c, Calls(c), call = c, Conversation(c, seen), Device
  PROVE  call' = c /\ Conversation(c, seen')
<1> USE DEF Conversation, Calls, T!Length
<1>1. ASSUME NEW d \in Devices, NEW ok \in BOOLEAN, T!Request(d, ok)
      PROVE  call' = c /\ Conversation(c, seen')
  BY <1>1 DEF T!Request, Answer
<1>2. ASSUME seen # <<>>, ~T!Complete, call' = call,
             NEW e \in Answer, seen' = Append(seen, e),
             c.dir = "write" => e.value = c.bytes[Len(seen)],
             c.dir = "read" => e.ok
      PROVE  call' = c /\ Conversation(c, seen')
  <2>1. Len(seen) >= 1 /\ Len(seen) # T!Length(c) + 1 /\ seen[Len(seen)].ok
    BY <1>2 DEF T!Complete, T!Last, T!NoCall
  <2>2. seen' \in Seq(Answer) /\ Len(seen') = Len(seen) + 1
    BY <1>2
  <2>3. \A k \in 1..Len(seen) : seen'[k] = seen[k]
    BY <1>2
  <2>4. seen'[Len(seen) + 1] = e
    BY <1>2
  <2>5. \A k \in 1..(Len(seen') - 1) : seen'[k].ok
    BY <2>1, <2>2, <2>3
  <2>6. \A k \in 2..Len(seen') :
          /\ c.dir = "write" => seen'[k].value = c.bytes[k - 1]
          /\ c.dir = "read" => seen'[k].ok
    BY <1>2, <2>1, <2>2, <2>3, <2>4
  <2>7. QED
    BY <1>2, <2>1, <2>2, <2>5, <2>6
<1>3. ASSUME NEW d \in Devices, NEW ok \in BOOLEAN, T!Sent(d, ok)
      PROVE  call' = c /\ Conversation(c, seen')
  <2>1. Len(seen) \in 1..Len(c.bytes) /\ c.bytes[Len(seen)] \in Nat
    BY <1>3 DEF T!Sent, T!Complete
  <2>2. [value |-> c.bytes[Len(seen)], ok |-> ok] \in Answer
    BY <2>1 DEF Answer
  <2>3. QED
    BY <1>2, <1>3, <2>2 DEF T!Sent
<1>4. ASSUME NEW d \in Devices, NEW v \in Supplied, T!Required(d, v)
      PROVE  call' = c /\ Conversation(c, seen')
  <2>1. [value |-> v, ok |-> TRUE] \in Answer
    BY RegAssumption DEF Answer
  <2>2. QED
    BY <1>2, <1>4, <2>1 DEF T!Required
<1>5. ASSUME NEW d \in Devices, T!StopSeen(d)
      PROVE  call' = c /\ Conversation(c, seen')
  BY <1>5 DEF T!StopSeen
<1>6. QED
  BY <1>1, <1>3, <1>4, <1>5 DEF Device

(* Between transfers a device only hears of the stop bit.                  *)
LEMMA QuietStep ==
  ASSUME call = T!NoCall \/ call = T!StopCall, Device
  PROVE  UNCHANGED <<call, seen, reply, held, owed>>
<1>1. call.dir \notin {"read", "write"}
  BY DEF T!NoCall, T!StopCall
<1>2. QED
  BY <1>1 DEF Device, T!Request, T!Sent, T!Required, T!StopSeen

(* A transfer returns when it is finished, with what the device answered.  *)
LEMMA ReturnStep ==
  ASSUME NEW c, Calls(c), call = c, Conversation(c, seen), c.stop \in BOOLEAN,
         NEW before, log = before, Return
  PROVE  Behind(c, before)'
<1> USE DEF Return, T!Return
<1>1. Finished(c, seen)
  <2>1. CASE seen = <<>>
    BY <2>1 DEF Finished
  <2>2. CASE seen # <<>>
    <3>1. c.addr \notin Absent
      BY <2>2, RegAssumption DEF Conversation
    <3>2. QED
      BY <2>2, <3>1 DEF Finished, T!Complete, T!Last, Calls
  <2>3. QED
    BY <2>1, <2>2
<1>2. Told(c, seen)'
  <2>1. reply' = T!Outcome /\ seen' = seen
    OBVIOUS
  <2>2. CASE seen = <<>>
    <3>1. reply'.ack = FALSE /\ reply'.count = 0 /\ seen' = <<>>
      BY <2>1, <2>2 DEF T!Outcome, T!NoReply
    <3>2. QED
      BY <3>1 DEF Told
  <2>3. CASE seen # <<>> /\ c.dir = "write"
    BY <2>1, <2>3 DEF Told, T!Outcome
  <2>4. CASE seen # <<>> /\ c.dir = "read"
    <3>1. Head(seen) = seen[1]
      BY <2>4 DEF Conversation
    <3>2. seen[1].ok \in BOOLEAN
      <4>1. 1 \in 1..Len(seen) /\ seen \in Seq(Answer)
        BY <2>4 DEF Conversation
      <4>2. seen[1] \in Answer
        BY <4>1
      <4>3. QED
        BY <4>2 DEF Answer
    <3>3. reply'.ack = seen[1].ok /\ reply'.bytes = T!Values
      BY <2>1, <2>4, <3>1 DEF T!Outcome
    <3>4. QED
      BY ONLY <2>1, <2>4, <3>2, <3>3 DEF Told, T!Values
  <2>5. QED
    BY <2>2, <2>3, <2>4 DEF Calls
<1>3. Finished(c, seen)'
  BY <1>1 DEF Finished, Conversation
<1>4. QED
  BY <1>2, <1>3 DEF Behind, Entry

(* Once it has returned nothing changes until the register function goes on. *)
LEMMA TransferStep ==
  ASSUME NEW c, Calls(c), c.stop \in BOOLEAN, c # T!NoCall, NEW before,
         During(c, before) \/ Behind(c, before), Device \/ Return
  PROVE  (During(c, before) \/ Behind(c, before))'
<1>1. CASE During(c, before) /\ Device
  <2>1. log' = log
    BY <1>1 DEF Device
  <2>2. QED
    BY <1>1, <2>1, DeviceStep DEF During, Conversation
<1>2. CASE During(c, before) /\ Return
  BY <1>2, ReturnStep DEF During
<1>3. CASE Behind(c, before) /\ Device
  <2>1. UNCHANGED <<call, seen, reply, held, owed, log>>
    BY <1>3, QuietStep DEF Behind, Device
  <2>2. QED
    BY <1>3, <2>1 DEF Behind, Finished, Conversation, Told, Entry
<1>4. CASE Behind(c, before) /\ Return
  BY <1>4 DEF Behind, Return, T!Return
<1>5. QED
  BY <1>1, <1>2, <1>3, <1>4

LEMMA BeginStep ==
  ASSUME NEW c, Calls(c), T!Begin(c), NEW before, log' = before
  PROVE  During(c, before)'
  BY DEF T!Begin, During, Conversation, Calls, T!Length

(* Where the functions start and go on, and where their transfers proceed. *)
LEMMA StagesStep == ASSUME Stages, Next PROVE Stages'
<1>1. ASSUME NEW f \in Functions, WriteReg(f) PROVE Stages'
  <2>1. f \in WriteFunctions /\ stage' = "write" /\ fn' = f /\ log' = <<>>
    BY <1>1 DEF WriteReg, WriteFunctions, Enter
  <2>2. During(WriteCall(f), <<>>)'
    BY <1>1, <2>1, BeginStep, CallFacts DEF WriteReg, WriteCall
  <2>3. QED
    BY <2>1, <2>2 DEF Stages
<1>2. ASSUME NEW f \in Functions, ReadReg(f) PROVE Stages'
  <2>1. f \in ReadFunctions /\ stage' = "select" /\ fn' = f /\ log' = <<>>
    BY <1>2 DEF ReadReg, ReadFunctions, Enter
  <2>2. During(SelectCall(f), <<>>)'
    BY <1>2, <2>1, BeginStep, CallFacts DEF ReadReg, SelectCall
  <2>3. QED
    BY <2>1, <2>2 DEF Stages
<1>3. CASE WriteDone
  BY <1>3 DEF Stages, WriteDone, transfer
<1>4. CASE AbortDone \/ ReadDone
  BY <1>4 DEF Stages, AbortDone, ReadDone, transfer
<1>5. CASE SelectDone \/ SelectRefused
  <2>1. PICK f, s :
          /\ f \in ReadFunctions
          /\ f = fn /\ s = seen /\ fn' = f
          /\ Finished(SelectCall(f), s)
          /\ reply.count = IF s = <<>> THEN 0 ELSE Len(s) - 1
          /\ log = <<Entry(SelectCall(f), s)>> /\ log' = log
    <3>1. fn \in ReadFunctions /\ Behind(SelectCall(fn), <<>>)
      BY <1>5, CallFacts DEF Stages, SelectDone, SelectRefused, During
    <3>2. /\ Finished(SelectCall(fn), seen) /\ Told(SelectCall(fn), seen)
          /\ log = <<Entry(SelectCall(fn), seen)>>
      BY <3>1 DEF Behind
    <3>3. reply.count = IF seen = <<>> THEN 0 ELSE Len(seen) - 1
      BY <3>2 DEF Told, SelectCall
    <3>4. UNCHANGED <<fn, log>>
      BY <1>5 DEF SelectDone, SelectRefused
    <3>5. QED
      BY <3>1, <3>2, <3>3, <3>4
  <2>2. log'[1].seen = s
    BY <2>1 DEF Entry
  <2>3. Len(f.reg) >= 1 /\ Len(f.reg) <= 2 /\ Len(s) \in Nat /\ (s # <<>> => Len(s) >= 1)
    <3>1. Len(f.reg) >= 1 /\ Len(f.reg) <= 2
      BY <2>1, FunctionFacts, WordFacts
    <3>2. s \in Seq(Answer)
      BY <2>1 DEF Finished, Conversation
    <3>3. Len(s) \in Nat /\ (s # <<>> => Len(s) >= 1)
      BY ONLY <3>2
    <3>4. QED
      BY ONLY <3>1, <3>3
  <2>4. CASE SelectDone
    <3>1. Len(s) = Len(f.reg) + 1 /\ stage' = "read"
      <4>1. stage' = "read" /\ reply.count = Len(fn.reg)
        BY <2>4 DEF SelectDone, Selected
      <4>2. Len(f.reg) = IF s = <<>> THEN 0 ELSE Len(s) - 1
        BY <2>1, <4>1
      <4>3. QED
        BY ONLY <2>3, <4>1, <4>2
    <3>2. During(ReadCall(f), <<Entry(SelectCall(f), s)>>)'
      BY <2>1, <2>4, BeginStep, CallFacts DEF SelectDone, ReadCall
    <3>3. QED
      BY <2>1, <2>2, <3>1, <3>2 DEF Stages
  <2>5. CASE SelectRefused
    <3>1. Len(s) # Len(f.reg) + 1 /\ stage' = "abort"
      BY <2>1, <2>3, <2>5 DEF SelectRefused, Selected
    <3>2. Aborted(<<Entry(SelectCall(f), s)>>)'
      BY <2>1, <2>5 DEF SelectRefused, T!Begin, Aborted
    <3>3. QED
      BY <2>1, <2>2, <3>1, <3>2 DEF Stages
  <2>6. QED
    BY <1>5, <2>4, <2>5
<1>6. CASE Device \/ Return
  <2>1. UNCHANGED <<stage, fn>>
    BY <1>6 DEF Device, Return
  <2>2. CASE stage = "idle"
    <3>1. call = T!NoCall
      BY <2>2 DEF Stages
    <3>2. call' = T!NoCall
      BY <1>6, <3>1, QuietStep DEF Return, T!Return
    <3>3. QED
      BY <2>1, <2>2, <3>2 DEF Stages
  <2>3. CASE stage = "write"
    <3>1. (During(WriteCall(fn), <<>>) \/ Behind(WriteCall(fn), <<>>))'
      BY <1>6, <2>1, <2>3, TransferStep, CallFacts DEF Stages, WriteCall
    <3>2. QED
      BY <2>1, <2>3, <3>1 DEF Stages
  <2>4. CASE stage = "select"
    <3>1. (During(SelectCall(fn), <<>>) \/ Behind(SelectCall(fn), <<>>))'
      BY <1>6, <2>1, <2>4, TransferStep, CallFacts DEF Stages, SelectCall
    <3>2. QED
      BY <2>1, <2>4, <3>1 DEF Stages
  <2>5. CASE stage = "read"
    <3>1. PICK f, s, before :
            /\ f \in ReadFunctions
            /\ f = fn /\ s = log[1].seen /\ before = <<Entry(SelectCall(f), s)>>
            /\ Finished(SelectCall(f), s) /\ Len(s) = Len(f.reg) + 1
            /\ During(ReadCall(f), before) \/ Behind(ReadCall(f), before)
      BY <2>5 DEF Stages
    <3>2. (During(ReadCall(f), before) \/ Behind(ReadCall(f), before))'
      BY <1>6, <3>1, TransferStep, CallFacts DEF ReadCall
    <3>3. log'[1].seen = s
      BY <3>1, <3>2 DEF During, Behind, Entry
    <3>4. QED
      BY <2>1, <2>5, <3>1, <3>2, <3>3 DEF Stages
  <2>6. CASE stage = "abort"
    <3>1. PICK f, s, before :
            /\ f \in ReadFunctions
            /\ f = fn /\ s = log[1].seen /\ before = <<Entry(SelectCall(f), s)>>
            /\ Finished(SelectCall(f), s) /\ Len(s) # Len(f.reg) + 1
            /\ Aborted(before)
      BY <2>6 DEF Stages
    <3>2. Aborted(before)'
      <4>1. CASE Device
        BY <3>1, <4>1, QuietStep DEF Aborted, Device, Entry
      <4>2. CASE Return
        <5>1. call = T!StopCall /\ log = before
          BY <3>1, <4>2 DEF Aborted, Return, T!Return
        <5>2. T!StopCall.stop = TRUE
          BY DEF T!StopCall
        <5>3. ~held' /\ owed' = {} /\ call' = T!NoCall
          BY <4>2, <5>1, <5>2 DEF Return, T!Return
        <5>4. log' = Append(before, Entry(T!StopCall, seen'))
          BY <4>2, <5>1 DEF Return, T!Return, Entry
        <5>5. QED
          BY <5>3, <5>4 DEF Aborted
      <4>3. QED
        BY <1>6, <4>1, <4>2
    <3>3. log'[1].seen = s
      BY <3>1, <3>2 DEF Aborted, Entry
    <3>4. QED
      BY <2>1, <2>6, <3>1, <3>2, <3>3 DEF Stages
  <2>7. CASE stage \notin {"idle", "write", "select", "read", "abort"}
    BY <2>1, <2>7 DEF Stages
  <2>8. QED
    BY <2>2, <2>3, <2>4, <2>5, <2>6, <2>7
<1>7. QED
  BY <1>1, <1>2, <1>3, <1>4, <1>5, <1>6 DEF Next, Step

-----------------------------------------------------------------------------
(* What the answers s to an address and the bytes b written after it say.  *)
Answers(s, b) ==
    /\ s \in Seq(Answer) /\ Len(s) <= Len(b) + 1
    /\ \A k \in 1..(Len(s) - 1) : s[k].ok
    /\ \A k \in 2..Len(s) : s[k].value = b[k - 1]
    /\ s # <<>> => ~s[Len(s)].ok \/ Len(s) = Len(b) + 1

Accepted(s) == s # <<>> /\ Head(s).ok
After(s) == [k \in 1..(Len(s) - 1) |-> s[k + 1].value]

LEMMA AnswerFacts ==
  ASSUME NEW s, NEW b \in Seq(Nat), Len(b) >= 1, Answers(s, b)
  PROVE  /\ Len(s) \in 0..(Len(b) + 1)
         /\ s = <<>> <=> Len(s) = 0
         /\ Accepted(s) <=> Len(s) >= 2
         /\ After(s) = b <=> Len(s) = Len(b) + 1
         /\ Len(s) \in 1..Len(b) => \E k \in 1..Len(s) : ~s[k].ok
<1> USE DEF Answers
<1>1. Len(s) \in 0..(Len(b) + 1)
  OBVIOUS
<1>2. s = <<>> <=> Len(s) = 0
  OBVIOUS
<1>3. Accepted(s) <=> Len(s) >= 2
  <2>1. ASSUME s # <<>> PROVE Head(s) = s[1] /\ Len(s) >= 1
    BY <2>1
  <2>2. ASSUME Len(s) = 1 PROVE ~s[1].ok
    <3>1. ~s[Len(s)].ok
      BY <1>2, <2>2
    <3>2. QED
      BY <2>2, <3>1
  <2>3. Len(s) >= 2 => s[1].ok
    BY <1>1
  <2>4. QED
    BY <1>1, <1>2, <2>1, <2>2, <2>3 DEF Accepted
<1>4. After(s) = b <=> Len(s) = Len(b) + 1
  <2>1. ASSUME Len(s) = Len(b) + 1 PROVE After(s) = b
    <3>1. \A k \in 1..Len(b) : s[k + 1].value = b[k]
      BY <2>1
    <3>2. After(s) = [k \in 1..Len(b) |-> b[k]]
      BY <2>1, <3>1 DEF After
    <3>3. QED
      BY <3>2
  <2>2. ASSUME After(s) = b, Len(s) >= 1 PROVE Len(s) = Len(b) + 1
    <3>1. Len(s) - 1 \in Nat
      BY <1>1, <2>2
    <3>2. Len(After(s)) = Len(s) - 1
      BY <3>1 DEF After
    <3>3. QED
      BY <1>1, <2>2, <3>2
  <2>3. ASSUME After(s) = b, Len(s) = 0 PROVE FALSE
    <3>1. 1 \in DOMAIN b
      OBVIOUS
    <3>2. DOMAIN After(s) = {}
      BY <2>3 DEF After
    <3>3. QED
      BY <2>3, <3>1, <3>2
  <2>4. QED
    BY <1>1, <2>1, <2>2, <2>3
<1>5. ASSUME Len(s) \in 1..Len(b) PROVE \E k \in 1..Len(s) : ~s[k].ok
  <2>1. ~s[Len(s)].ok /\ Len(s) \in 1..Len(s)
    BY <1>5
  <2>2. QED
    BY <2>1
<1>6. QED
  BY <1>1, <1>2, <1>3, <1>4, <1>5

LEMMA WriteFacts ==
  ASSUME NEW n \in Nat, n >= 2, NEW m \in 0..(n + 1)
  PROVE  LET r == WriteResult(IF m = 0 THEN 0 ELSE m - 1, n) IN
         /\ r = "I2C_REGOP_DEVICE_NACK" <=> m <= 1
         /\ r = "I2C_REGOP_INCOMPLETE" <=> m \in 2..n
         /\ r = "I2C_REGOP_SUCCESS" <=> m = n + 1
         /\ r \in Results
<1> DEFINE k == IF m = 0 THEN 0 ELSE m - 1
           r == WriteResult(k, n)
<1>1. CASE m <= 1
  <2>1. k = 0
    BY <1>1
  <2>2. r = "I2C_REGOP_DEVICE_NACK"
    BY <2>1 DEF WriteResult
  <2>3. QED
    BY <1>1, <2>2 DEF Results
<1>2. CASE m \in 2..n
  <2>1. k > 0 /\ k < n /\ ~(k = 0) /\ ~(k >= n)
    BY <1>2
  <2>2. r = "I2C_REGOP_INCOMPLETE"
    BY <2>1 DEF WriteResult
  <2>3. QED
    BY <1>2, <2>2 DEF Results
<1>3. CASE m = n + 1
  <2>1. k >= n /\ ~(k = 0) /\ ~(k < n)
    BY <1>3
  <2>2. r = "I2C_REGOP_SUCCESS"
    BY <2>1 DEF WriteResult
  <2>3. QED
    BY <1>3, <2>2 DEF Results
<1>4. QED
  BY <1>1, <1>2, <1>3

(* What a write returns says what the device answered.                     *)
LEMMA WriteOutcome ==
  ASSUME NEW s, NEW b \in Seq(Nat), Len(b) >= 2, Answers(s, b), NEW count,
         count = IF s = <<>> THEN 0 ELSE Len(s) - 1,
         NEW r, r = WriteResult(count, Len(b))
  PROVE  /\ r \in Results
         /\ r = "I2C_REGOP_DEVICE_NACK" <=> ~Accepted(s)
         /\ r = "I2C_REGOP_INCOMPLETE" <=>
                Accepted(s) /\ Len(s) - 1 \in 1..(Len(b) - 1)
         /\ r = "I2C_REGOP_INCOMPLETE" => \E k \in 1..Len(s) : ~s[k].ok
         /\ r = "I2C_REGOP_SUCCESS" <=> Accepted(s) /\ After(s) = b
<1>1. PICK n \in Nat : n = Len(b) /\ n >= 2
  OBVIOUS
<1>2. PICK m \in 0..(n + 1) :
        /\ m = Len(s)
        /\ s = <<>> <=> m = 0
        /\ Accepted(s) <=> m >= 2
        /\ After(s) = b <=> m = n + 1
        /\ m \in 1..n => \E k \in 1..Len(s) : ~s[k].ok
  BY <1>1, AnswerFacts
<1>3. r = WriteResult(IF m = 0 THEN 0 ELSE m - 1, n)
  BY <1>1, <1>2
<1>4. /\ r = "I2C_REGOP_DEVICE_NACK" <=> m <= 1
      /\ r = "I2C_REGOP_INCOMPLETE" <=> m \in 2..n
      /\ r = "I2C_REGOP_SUCCESS" <=> m = n + 1
      /\ r \in Results
  BY <1>1, <1>3, WriteFacts
<1>5. Len(s) - 1 \in 1..(Len(b) - 1) <=> m \in 2..n
  BY <1>1, <1>2
<1>6. QED
  BY ONLY <1>1, <1>2, <1>4, <1>5

(* The device that was asked for w bytes, and accepted, supplied them all. *)
LEMMA ReadOutcome ==
  ASSUME NEW s, NEW w \in 1..2, s \in Seq(Answer), Accepted(s),
         \A k \in 2..Len(s) : s[k].ok,
         ~s[Len(s)].ok \/ Len(s) = w + 1
  PROVE  After(s) \in Seq(Nat) /\ Len(After(s)) = w
<1>1. Len(s) >= 1 /\ s[1].ok
  BY DEF Accepted
<1>2. s[Len(s)].ok
  BY <1>1
<1>3. Len(s) = w + 1
  BY <1>2
<1>4. \A k \in 1..w : s[k + 1].value \in Nat
  <2>1. \A k \in 1..w : s[k + 1] \in Answer
    BY <1>3
  <2>2. QED
    BY <2>1 DEF Answer
<1>5. After(s) = [k \in 1..w |-> s[k + 1].value]
  BY <1>3 DEF After
<1>6. QED
  BY ONLY <1>4, <1>5

(* The register address was handed over, or there is a refusal.            *)
LEMMA SelectOutcome ==
  ASSUME NEW s, NEW b \in Seq(Nat), Len(b) >= 1 /\ Len(b) <= 2, Answers(s, b)
  PROVE  /\ Len(s) = Len(b) + 1 => Accepted(s) /\ After(s) = b
         /\ Len(s) # Len(b) + 1 => ~Accepted(s) \/ \E k \in 1..Len(s) : ~s[k].ok
<1>1. PICK n \in Nat : n = Len(b) /\ n >= 1
  OBVIOUS
<1>2. PICK m \in 0..(n + 1) :
        /\ m = Len(s)
        /\ Accepted(s) <=> m >= 2
        /\ After(s) = b <=> m = n + 1
        /\ m \in 1..n => \E k \in 1..Len(s) : ~s[k].ok
  BY <1>1, AnswerFacts
<1>3. QED
  BY ONLY <1>1, <1>2

LEMMA ZeroFacts == \A w \in 1..2 : Zero(w) \in Seq(Nat) /\ Len(Zero(w)) <= 2
<1>1. ASSUME NEW w \in 1..2 PROVE Zero(w) \in Seq(Nat) /\ Len(Zero(w)) <= 2
  BY DEF Zero
<1>2. QED
  BY <1>1

LEMMA Pair ==
  ASSUME NEW e1, NEW e2
  PROVE  /\ Append(<<e1>>, e2) = <<e1, e2>> /\ Len(Append(<<e1>>, e2)) = 2
         /\ Len(Append(<<>>, e2)) = 1
<1> DEFINE t == Append(<<e1>>, e2)
<1>1. <<e1>> \in Seq({e1, e2}) /\ Len(<<e1>>) = 1
  OBVIOUS
<1>2. t \in Seq({e1, e2}) /\ Len(t) = 2 /\ t[1] = e1 /\ t[2] = e2
  BY <1>1
<1> HIDE DEF t
<1>3. t = <<e1, e2>>
  BY <1>2
<1>4. Len(Append(<<>>, e2)) = 1
  OBVIOUS
<1>5. QED
  BY <1>2, <1>3, <1>4 DEF t

LEMMA PayloadFacts ==
  /\ \A f \in WriteFunctions :
        /\ f.reg \o f.data \in Seq(Nat)
        /\ Len(f.reg \o f.data) = Len(f.reg) + Len(f.data)
        /\ Len(f.reg \o f.data) >= 2
  /\ \A f \in ReadFunctions : f.reg \in Seq(Nat) /\ Len(f.reg) >= 1 /\ Len(f.reg) <= 2
<1>1. \A r, d \in Words :
        /\ r \o d \in Seq(Nat) /\ Len(r \o d) = Len(r) + Len(d)
        /\ Len(r \o d) >= 2
  BY WordFacts
<1>2. QED
  BY ONLY <1>1, FunctionFacts, WordFacts

LEMMA AnswersWrite ==
  ASSUME NEW f \in WriteFunctions, NEW s, Finished(WriteCall(f), s)
  PROVE  Answers(s, f.reg \o f.data)
<1>1. /\ WriteCall(f).dir = "write" /\ WriteCall(f).bytes = f.reg \o f.data
      /\ T!Length(WriteCall(f)) = Len(f.reg \o f.data)
  BY DEF WriteCall, T!Length
<1>2. QED
  BY ONLY <1>1, Finished(WriteCall(f), s) DEF Finished, Conversation, Answers

LEMMA AnswersSelect ==
  ASSUME NEW f \in ReadFunctions, NEW s, Finished(SelectCall(f), s)
  PROVE  Answers(s, f.reg)
<1>1. /\ SelectCall(f).dir = "write" /\ SelectCall(f).bytes = f.reg
      /\ T!Length(SelectCall(f)) = Len(f.reg)
  BY DEF SelectCall, T!Length
<1>2. QED
  BY ONLY <1>1, Finished(SelectCall(f), s) DEF Finished, Conversation, Answers

(* The transfers of a function that has ended.                             *)
LEMMA WriteEnds ==
  ASSUME Stages, WriteDone
  PROVE  /\ WriteTold' /\ result' \in Results
         /\ fn \in WriteFunctions /\ ~held /\ owed = {}
<1>1. fn \in WriteFunctions /\ Behind(WriteCall(fn), <<>>)
  BY CallFacts DEF Stages, WriteDone, During
<1>2. ~held /\ owed = {}
  BY <1>1 DEF Behind, WriteCall
<1>3. PICK f \in WriteFunctions, b \in Seq(Nat) :
        /\ f = fn /\ b = f.reg \o f.data
        /\ Len(b) = Len(f.reg) + Len(f.data) /\ Len(b) >= 2
  BY <1>1, PayloadFacts
<1>4. /\ Finished(WriteCall(f), seen) /\ Told(WriteCall(f), seen)
      /\ log = <<Entry(WriteCall(f), seen)>>
  BY <1>1, <1>3 DEF Behind
<1>5. /\ Len(log') = 1 /\ log'[1].seen = seen /\ fn' = f
  BY <1>3, <1>4 DEF WriteDone, Entry
<1>6. result' = WriteResult(reply.count, Len(b))
  BY <1>3 DEF WriteDone
<1>7. reply.count = IF seen = <<>> THEN 0 ELSE Len(seen) - 1
  BY <1>4 DEF Told, WriteCall
<1>8. Answers(seen, b)
  BY <1>3, <1>4, AnswersWrite
<1>9. /\ result' \in Results
      /\ result' = "I2C_REGOP_DEVICE_NACK" <=> ~Accepted(seen)
      /\ result' = "I2C_REGOP_INCOMPLETE" <=>
             Accepted(seen) /\ Len(seen) - 1 \in 1..(Len(b) - 1)
      /\ result' = "I2C_REGOP_INCOMPLETE" => \E k \in 1..Len(seen) : ~seen[k].ok
      /\ result' = "I2C_REGOP_SUCCESS" <=> Accepted(seen) /\ After(seen) = b
  BY ONLY <1>3, <1>6, <1>7, <1>8, WriteOutcome
<1>10. /\ Addressed(1)' <=> Accepted(seen)
       /\ Handed(1)' = After(seen)
       /\ Refused(1)' <=> \E k \in 1..Len(seen) : ~seen[k].ok
  BY <1>5 DEF Addressed, Accepted, Handed, After, Refused
<1>11. (fn.reg \o fn.data)' = b
  BY <1>3, <1>5
<1>12. WriteTold'
  BY ONLY <1>5, <1>9, <1>10, <1>11 DEF WriteTold
<1>13. QED
  BY <1>1, <1>2, <1>9, <1>12

LEMMA ReadEnds ==
  ASSUME Stages, ReadDone
  PROVE  /\ ReadTold' /\ result' \in Results /\ value' \in Seq(Nat) /\ Len(value') <= 2
         /\ fn \in ReadFunctions /\ ~held /\ owed = {}
<1>1. PICK f, s :
        /\ f \in ReadFunctions
        /\ f = fn /\ Finished(SelectCall(f), s) /\ Len(s) = Len(f.reg) + 1
        /\ Behind(ReadCall(f), <<Entry(SelectCall(f), s)>>)
  BY CallFacts DEF Stages, ReadDone, During
<1>2. ~held /\ owed = {}
  BY <1>1 DEF Behind, ReadCall
<1>3. PICK b \in Seq(Nat), w \in 1..2 :
        /\ b = f.reg /\ Len(b) >= 1 /\ Len(b) <= 2 /\ w = f.width
  BY <1>1, PayloadFacts, FunctionFacts
<1>4. /\ Finished(ReadCall(f), seen) /\ Told(ReadCall(f), seen)
      /\ log = <<Entry(SelectCall(f), s), Entry(ReadCall(f), seen)>>
  <2>1. /\ Finished(ReadCall(f), seen) /\ Told(ReadCall(f), seen)
        /\ log = Append(<<Entry(SelectCall(f), s)>>, Entry(ReadCall(f), seen))
    BY <1>1 DEF Behind
  <2>2. QED
    BY <2>1, Pair
<1>5. UNCHANGED log /\ fn' = f
  BY <1>1 DEF ReadDone
<1>6. Len(log') = 2 /\ log'[1].seen = s /\ log'[2].seen = seen
  BY <1>4, <1>5 DEF Entry
<1>7. Accepted(s) /\ After(s) = b
  <2>1. Answers(s, b)
    BY <1>1, <1>3, AnswersSelect
  <2>2. Len(s) = Len(b) + 1
    BY <1>1, <1>3
  <2>3. QED
    BY ONLY <1>3, <2>1, <2>2, SelectOutcome
<1>8. /\ Addressed(1)' <=> Accepted(s)
      /\ Handed(1)' = After(s)
      /\ Addressed(2)' <=> Accepted(seen)
      /\ Handed(2)' = After(seen)
  BY ONLY <1>6 DEF Addressed, Accepted, Handed, After
<1>9. /\ T!Length(ReadCall(f)) = w /\ ReadCall(f).dir = "read"
      /\ seen \in Seq(Answer)
  BY <1>1, <1>3, <1>4, CallFacts DEF ReadCall, Finished, Conversation
<1>10. /\ reply.ack <=> Accepted(seen)
       /\ Accepted(seen) => reply.bytes = After(seen)
  <2>1. seen # <<>> => seen[1] = Head(seen)
    BY <1>9
  <2>2. /\ reply.ack = (seen # <<>> /\ seen[1].ok)
        /\ seen # <<>> => reply.bytes = After(seen)
    BY ONLY <1>4, <1>9 DEF Told, After
  <2>3. QED
    BY <2>1, <2>2 DEF Accepted
<1>11. CASE ~Accepted(seen)
  <2>1. result' = "I2C_REGOP_DEVICE_NACK" /\ value' = Zero(w)
    BY <1>1, <1>3, <1>10, <1>11 DEF ReadDone
  <2>2. ReadTold'
    BY <1>3, <1>5, <1>8, <1>11, <2>1 DEF ReadTold
  <2>3. QED
    BY <1>1, <1>2, <2>1, <2>2, ZeroFacts DEF Results
<1>12. CASE Accepted(seen)
  <2>1. result' = "I2C_REGOP_SUCCESS" /\ value' = After(seen)
    BY <1>10, <1>12 DEF ReadDone
  <2>2. /\ \A k \in 2..Len(seen) : seen[k].ok
        /\ ~seen[Len(seen)].ok \/ Len(seen) = w + 1
    BY <1>4, <1>9, <1>12 DEF Finished, Conversation, Accepted
  <2>3. After(seen) \in Seq(Nat) /\ Len(After(seen)) = w
    BY ONLY <1>3, <1>9, <1>12, <2>2, ReadOutcome
  <2>4. ReadTold'
    BY <1>3, <1>5, <1>6, <1>7, <1>8, <1>12, <2>1, <2>3 DEF ReadTold
  <2>5. QED
    BY <1>1, <1>2, <1>3, <2>1, <2>3, <2>4 DEF Results
<1>13. QED
  BY <1>11, <1>12

LEMMA AbortEnds ==
  ASSUME Stages, AbortDone
  PROVE  /\ ReadTold' /\ result' \in Results /\ value' \in Seq(Nat) /\ Len(value') <= 2
         /\ fn \in ReadFunctions /\ ~held /\ owed = {}
<1>1. PICK f, s :
        /\ f \in ReadFunctions
        /\ f = fn /\ s = log[1].seen /\ Finished(SelectCall(f), s)
        /\ Len(s) # Len(f.reg) + 1
        /\ Aborted(<<Entry(SelectCall(f), s)>>)
  BY DEF Stages, AbortDone
<1>2. ~held /\ owed = {}
  BY <1>1, CallFacts DEF Aborted, AbortDone
<1>3. PICK b \in Seq(Nat), w \in 1..2 :
        /\ b = f.reg /\ Len(b) >= 1 /\ Len(b) <= 2 /\ w = f.width
  BY <1>1, PayloadFacts, FunctionFacts
<1>4. ~Accepted(s) \/ \E k \in 1..Len(s) : ~s[k].ok
  <2>1. Answers(s, b)
    BY <1>1, <1>3, AnswersSelect
  <2>2. Len(s) # Len(b) + 1
    BY <1>1, <1>3
  <2>3. QED
    BY ONLY <1>3, <2>1, <2>2, SelectOutcome
<1>5. UNCHANGED log /\ fn' = f
  BY <1>1 DEF AbortDone
<1>6. ~Addressed(1)' \/ Refused(1)'
  BY <1>1, <1>4, <1>5 DEF Accepted, Addressed, Refused
<1>7. result' = "I2C_REGOP_DEVICE_NACK" /\ value' = Zero(w)
  BY <1>1, <1>3 DEF AbortDone
<1>8. ReadTold'
  BY <1>3, <1>5, <1>6, <1>7 DEF ReadTold
<1>9. QED
  BY <1>1, <1>2, <1>7, <1>8, ZeroFacts DEF Results

-----------------------------------------------------------------------------
LEMMA InvInit == ASSUME Init PROVE IInv
<1> USE DEF Init, T!Init
<1>1. TypeOK
  BY DEF TypeOK, Results
<1>2. Stages
  BY DEF Stages
<1>3. ResultTells
  BY DEF ResultTells, Returned
<1>4. BusFreed
  BY DEF BusFreed
<1>5. QED
  BY <1>1, <1>2, <1>3, <1>4 DEF IInv

(* The log of one function.                                                *)
LEMMA LogStep == ASSUME TypeOK, Stages, Return PROVE Len(log') <= 2
<1>1. call # T!NoCall /\ log' = Append(log, [call |-> call, seen |-> seen])
  BY DEF Return, T!Return
<1>2. log = <<>> \/ \E e : log = <<e>>
  <2>1. CASE stage \in {"write", "select"}
    BY <1>1, <2>1 DEF Stages, During, Behind
  <2>2. CASE stage \in {"read", "abort"}
    BY <1>1, <2>2 DEF Stages, During, Behind, Aborted
  <2>3. CASE stage \notin {"write", "select", "read", "abort"}
    BY <1>1, <2>3 DEF TypeOK, Stages
  <2>4. QED
    BY <2>1, <2>2, <2>3
<1>3. CASE Len(log') = 1
  BY <1>3
<1>4. CASE Len(log') = 2
  BY <1>4
<1>5. QED
  BY <1>1, <1>2, <1>3, <1>4, Pair

LEMMA InvStep == ASSUME IInv, [Next]_vars PROVE IInv'
<1> USE DEF IInv
<1>1. ASSUME NEW f \in Functions, WriteReg(f) \/ ReadReg(f) PROVE IInv'
  <2>1. /\ stage' \in {"write", "select"} /\ fn' = f /\ result' = "none"
        /\ value' = <<>> /\ log' = <<>>
    BY <1>1 DEF WriteReg, ReadReg, Enter
  <2>2. Stages'
    BY <1>1, StagesStep DEF Next
  <2>3. TypeOK'
    BY <2>1 DEF TypeOK, Results
  <2>4. QED
    BY <2>1, <2>2, <2>3 DEF ResultTells, Returned, BusFreed
<1>2. CASE WriteDone
  <2>1. /\ Stages' /\ WriteTold' /\ result' \in Results
        /\ fn \in WriteFunctions /\ ~held /\ owed = {}
    BY <1>2, StagesStep, WriteEnds DEF Next, Step
  <2>2. /\ UNCHANGED <<held, owed, fn, value, log>> /\ stage' = "idle"
    BY <1>2 DEF WriteDone, transfer
  <2>3. fn'.dir = "write"
    BY <2>1, <2>2 DEF WriteFunctions
  <2>4. TypeOK'
    BY <2>1, <2>2 DEF TypeOK
  <2>5. QED
    BY <2>1, <2>2, <2>3, <2>4 DEF ResultTells, Returned, BusFreed
<1>3. CASE ReadDone \/ AbortDone
  <2>1. /\ Stages' /\ ReadTold' /\ result' \in Results
        /\ value' \in Seq(Nat) /\ Len(value') <= 2
        /\ fn \in ReadFunctions /\ ~held /\ owed = {}
    BY <1>3, StagesStep, ReadEnds, AbortEnds DEF Next, Step
  <2>2. /\ UNCHANGED <<held, owed, fn, log>> /\ stage' = "idle"
    BY <1>3 DEF ReadDone, AbortDone, transfer
  <2>3. fn'.dir = "read"
    BY <2>1, <2>2 DEF ReadFunctions
  <2>4. TypeOK'
    BY <2>1, <2>2 DEF TypeOK
  <2>5. QED
    BY <2>1, <2>2, <2>3, <2>4 DEF ResultTells, Returned, BusFreed
<1>4. CASE SelectDone \/ SelectRefused
  <2>1. /\ stage' \in {"read", "abort"} /\ UNCHANGED <<fn, result, value, log>>
    BY <1>4 DEF SelectDone, SelectRefused
  <2>2. Stages'
    BY <1>4, StagesStep DEF Next, Step
  <2>3. TypeOK'
    BY <2>1 DEF TypeOK
  <2>4. QED
    BY <2>1, <2>2, <2>3 DEF ResultTells, Returned, BusFreed
<1>5. CASE Device \/ Return
  <2>1. UNCHANGED <<stage, fn, result, value>>
    BY <1>5 DEF Device, Return
  <2>2. Stages'
    BY <1>5, StagesStep DEF Next
  <2>3. Len(log') <= 2
    BY <1>5, LogStep DEF TypeOK, Device
  <2>4. TypeOK'
    BY <2>1, <2>3 DEF TypeOK
  <2>5. ASSUME stage = "idle" PROVE UNCHANGED <<held, owed, log>>
    <3>1. call = T!NoCall
      BY <2>5 DEF Stages
    <3>2. QED
      BY <1>5, <3>1, QuietStep DEF Return, T!Return, Device
  <2>6. BusFreed'
    BY <2>1, <2>5 DEF BusFreed
  <2>7. ResultTells'
    BY <2>1, <2>5 DEF ResultTells, Returned, WriteTold, ReadTold, Addressed, Handed, Refused
  <2>8. QED
    BY <2>2, <2>4, <2>6, <2>7
<1>6. CASE UNCHANGED vars
  <2>1. UNCHANGED <<call, seen, reply, held, owed, stage, fn, result, value, log>>
    BY <1>6 DEF vars, transfer
  <2>2. TypeOK' /\ BusFreed'
    BY <2>1 DEF TypeOK, BusFreed
  <2>3. Stages'
    BY <2>1 DEF Stages, During, Behind, Aborted, Conversation, Finished, Told
  <2>4. ResultTells'
    BY <2>1 DEF ResultTells, Returned, WriteTold, ReadTold, Addressed, Handed, Refused
  <2>5. QED
    BY <2>2, <2>3, <2>4
<1>7. QED
  BY <1>1, <1>2, <1>3, <1>4, <1>5, <1>6 DEF Next, Step

(* Where a register function is says what its transfers have done, and the *)
(* results and the bus follow from it at every return: the invariant that  *)
(* makes the theorems below inductive.                                     *)
THEOREM Invariance == Spec => []IInv
<1>1. Init => IInv
  BY InvInit
<1>2. IInv /\ [Next]_vars => IInv'
  BY InvStep
<1>3. QED
  BY <1>1, <1>2, PTL DEF Spec

(* The variables have their types; a function makes at most two transfers. *)
THEOREM TypeCorrect == Spec => []TypeOK
<1>1. IInv => TypeOK
  BY DEF IInv
<1>2. QED
  BY <1>1, Invariance, PTL

(* What read_* and write_* return is what the device answered and supplied *)
(* in the transfers made for them, whatever that is.                       *)
THEOREM ResultsTold == Spec => []ResultTells
<1>1. IInv => ResultTells
  BY DEF IInv
<1>2. QED
  BY <1>1, Invariance, PTL

(* Whichever way read_* and write_* return, every device that was addressed *)
(* is owed no stop bit and the master does not hold the bus.               *)
THEOREM Freed == Spec => []BusFreed
<1>1. IInv => BusFreed
  BY DEF IInv
<1>2. QED
  BY <1>1, Invariance, PTL
=============================================================================
