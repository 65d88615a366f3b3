--------------------------- MODULE ResmgrProofs ---------------------------
(* Proofs about Resmgr for any lines, open control blocks, message sizes,  *)
(* offsets and width of size_t.                                            *)
EXTENDS Resmgr, TLAPS

-----------------------------------------------------------------------------
(* size_t arithmetic.                                                      *)

\* Where nothing wraps, the remainder changes nothing.
LEMMA SmallMod == ASSUME NEW m \in Nat \ {0}, NEW x \in 0 .. m - 1 PROVE x % m = x
OBVIOUS

\* From an offset within the file, what is left is no more than the rest of the
\* file (resmgr_read's nleft).
LEMMA LeftWithin ==
  ASSUME NEW o \in Opens, ocb[o].offset \in Nat, ocb[o].offset <= Size(ocb[o].file)
  PROVE  ocb[o].offset + Left(o) <= Size(ocb[o].file)
<1> DEFINE x == Size(ocb[o].file) - ocb[o].offset
<1>1. x \in 0 .. 1 /\ Size(ocb[o].file) \in Nat
  BY DEF Size
<1>2. Left(o) = x % SizeMod
  BY DEF Left
<1>3. x % SizeMod <= x
  <2>1. CASE x < SizeMod
    BY <2>1, <1>1, SmallMod, ResmgrAssumption
  <2>2. CASE ~(x < SizeMod)
    <3>1. SizeMod = 1 /\ x = 1
      BY <2>2, <1>1, ResmgrAssumption
    <3> QED BY <3>1
  <2> QED BY <2>1, <2>2
<1> QED BY <1>1, <1>2, <1>3, ResmgrAssumption

-----------------------------------------------------------------------------
(* The inductive invariant.  While a handler waits for the driver, the call *)
(* is the one its message asked for, on the file it has open, and what has  *)
(* come back is something the register has held since.                      *)

\* A value is a level, not a direction.
Levels == \A f \in Files : reg[Value(f)] \in {0, 1}

File == ocb[msg.ocb].file

Asks(q) ==
  /\ msg.op = "read" => q = Driver!Read(Value(File))
  /\ msg.op = "write" => \E v \in {0, 1} : q = Driver!Write(Value(File), v)
  /\ msg.op = "lineinfo" => \E l \in Lines : q = Driver!Read(Direction(l))

InHand ==
  /\ pc = "call" <=> call[Handler].state # "idle"
  /\ pc = "call" =>
       /\ msg.op # "none" /\ msg.ocb \in Opens /\ File \in ids
       /\ msg.op = "read" => msg.nbytes <= Left(msg.ocb)
       /\ call[Handler].state = "pending" => Asks(call[Handler].request)
       /\ call[Handler].state = "done" /\ call[Handler].rc = "EOK" /\ msg.op = "read"
            => call[Handler].value \in held \cap {0, 1}

IInv == TypeOK /\ Levels /\ InHand

\* Before anything is attached no call is in hand.
LEMMA InitEstablishesIInv == Init => IInv
<1> SUFFICES ASSUME Init PROVE IInv
  OBVIOUS
<1> USE ResmgrAssumption DEF Init, Files
<1>1. call = [c \in {Handler} |-> Driver!Idle("EOK", 0)]
      /\ reg \in [Files \X {"value", "direction"} -> 0 .. 2]
  BY DEF Driver!ServiceInit
<1>2. call \in [{Handler} -> CallStates] /\ call[Handler].state = "idle"
  BY <1>1 DEF Driver!Idle, CallStates
<1>3. TypeOK
  BY <1>1, <1>2 DEF TypeOK, Closed, NoMsg, NoData, ReplyCodes
<1>4. Levels
  BY DEF Levels
<1>5. InHand
  BY <1>2 DEF InHand
<1> QED BY <1>3, <1>4, <1>5 DEF IInv

\* Registers of files are registers of the device.
LEMMA FileRegs ==
  ASSUME NEW f \in Files
  PROVE  /\ Value(f) \in Files \X {"value", "direction"}
         /\ Direction(f) \in Files \X {"value", "direction"}
BY DEF Value, Direction

\* A step of a handler that answers, or that is none of its message's, leaves
\* the call in hand as it is.
LEMMA QuietStep ==
  ASSUME IInv, TypeOK', pc # "call", pc' # "call", UNCHANGED <<reg, call>>
  PROVE  IInv'
BY DEF IInv, Levels, InHand

\* A handler's call of the driver is on its way.
LEMMA AskPreserves ==
  ASSUME IInv, pc = "ready", NEW o \in Opens, ocb[o].file \in ids,
         NEW op \in {"read", "write", "lineinfo"}, NEW n \in 0 .. SizeMod - 1,
         op = "read" => n <= Left(o),
         NEW q \in Driver!Requests, Ask(op, o, n, q),
         op = "read" => q = Driver!Read(Value(ocb[o].file)),
         op = "write" => \E v \in {0, 1} : q = Driver!Write(Value(ocb[o].file), v),
         op = "lineinfo" => \E l \in Lines : q = Driver!Read(Direction(l)),
         q.reg \in Files \X {"value", "direction"},
         UNCHANGED <<ids, ocb, value>>
  PROVE  IInv'
<1> USE DEF IInv
<1>1. call' = [call EXCEPT ![Handler] = Driver!Pending(q)] /\ UNCHANGED reg
  BY DEF Ask, Driver!Invoke
<1>2. call' \in [{Handler} -> CallStates]
      /\ call'[Handler].state = "pending" /\ call'[Handler].request = q
  BY <1>1 DEF TypeOK, CallStates, Driver!Pending
<1>3. held' \subseteq 0 .. 2
  BY DEF Ask, TypeOK
<1>4. msg' = [op |-> op, ocb |-> o, nbytes |-> n] /\ pc' = "call" /\ UNCHANGED reply
  BY DEF Ask
<1>5. TypeOK'
  BY <1>1, <1>2, <1>3, <1>4 DEF TypeOK
<1>6. Left(o)' = Left(o)
  BY DEF Left
<1>7. InHand'
  BY <1>2, <1>4, <1>6 DEF InHand, Asks, File
<1>8. Levels'
  BY <1>1 DEF Levels
<1> QED BY <1>5, <1>7, <1>8

\* A handler that answers at once is done.
LEMMA AnswerPreserves ==
  ASSUME IInv, pc = "ready", NEW rc \in ReplyCodes, Answer(rc, 0),
         UNCHANGED <<ids, ocb, value>>
  PROVE  IInv'
<1>1. TypeOK'
  BY ResmgrAssumption DEF IInv, TypeOK, Answer, Reply
<1> QED BY <1>1, QuietStep DEF Answer

\* A message starts with its handler's answer or its call of the driver.
LEMMA MessagePreservesIInv ==
  ASSUME IInv, NEW o \in Opens,
         \/ \E n \in Counts : resmgr_read(o, n) \/ resmgr_write(o, n)
         \/ resmgr_devctl(o)
  PROVE  IInv'
<1>0. /\ pc = "ready" /\ ocb[o].file \in ids /\ ocb[o].file \in Files
      /\ UNCHANGED <<ids, ocb, value>>
  BY DEF IInv, TypeOK, resmgr_read, resmgr_write, resmgr_devctl
<1>1. ASSUME NEW n \in Counts, resmgr_read(o, n) PROVE IInv'
  <2> DEFINE nbytes == IF n < Left(o) THEN n ELSE Left(o)
             q == Driver!Read(Value(ocb[o].file))
  <2>1. n \in 0 .. SizeMod - 1 /\ Left(o) \in 0 .. SizeMod - 1
    BY ResmgrAssumption DEF Left, Size, IInv, TypeOK
  <2>2. nbytes \in 0 .. SizeMod - 1 /\ nbytes <= Left(o)
    BY <2>1, ResmgrAssumption
  <2>3. q \in Driver!Requests /\ q.reg \in Files \X {"value", "direction"}
    BY <1>0, FileRegs DEF Driver!Requests, Driver!Read
  <2>4. CASE Ask("read", o, nbytes, q)
    BY <1>0, <2>2, <2>3, <2>4, AskPreserves
  <2>5. ASSUME NEW rc \in {"EBADF", "EOK"}, Answer(rc, 0) PROVE IInv'
    BY <1>0, <2>5, AnswerPreserves DEF ReplyCodes
  <2> QED BY <1>1, <2>4, <2>5 DEF resmgr_read
<1>2. ASSUME NEW n \in Counts, resmgr_write(o, n) PROVE IInv'
  <2>1. ASSUME n = 1, NEW v \in {0, 1},
               Ask("write", o, n, Driver!Write(Value(ocb[o].file), v))
        PROVE  IInv'
    <3>1. /\ Driver!Write(Value(ocb[o].file), v) \in Driver!Requests
          /\ Driver!Write(Value(ocb[o].file), v).reg \in Files \X {"value", "direction"}
      BY <1>0, FileRegs DEF Driver!Requests, Driver!Write
    <3>2. n \in 0 .. SizeMod - 1
      BY ResmgrAssumption
    <3> QED BY <1>0, <2>1, <3>1, <3>2, AskPreserves
  <2>2. ASSUME NEW rc \in {"EBADF", "EINVAL"}, Answer(rc, 0) PROVE IInv'
    BY <1>0, <2>2, AnswerPreserves DEF ReplyCodes
  <2> QED BY <1>2, <2>1, <2>2 DEF resmgr_write
<1>3. CASE resmgr_devctl(o)
  <2>1. ASSUME NEW l \in Lines, Ask("lineinfo", o, 0, Driver!Read(Direction(l)))
        PROVE  IInv'
    <3>1. /\ Driver!Read(Direction(l)) \in Driver!Requests
          /\ Driver!Read(Direction(l)).reg \in Files \X {"value", "direction"}
      BY FileRegs DEF Files, Driver!Requests, Driver!Read
    <3>2. 0 \in 0 .. SizeMod - 1
      BY ResmgrAssumption
    <3> QED BY <1>0, <2>1, <3>1, <3>2, AskPreserves
  <2>2. ASSUME NEW rc \in {"EOK", "ENOENT", "ENOTSUP", "ENOSYS"}, Answer(rc, 0)
        PROVE  IInv'
    BY <1>0, <2>2, AnswerPreserves DEF ReplyCodes
  <2> QED BY <1>3, <2>1, <2>2 DEF resmgr_devctl
<1> QED BY <1>1, <1>2, <1>3

\* The driver's call is over, one way or another, and a reply is on its way.
LEMMA ReturnPreservesIInv == ASSUME IInv, Return PROVE IInv'
<1> USE DEF IInv
<1>0. /\ pc = "call" /\ msg.op \in {"read", "write", "lineinfo"}
      /\ msg.ocb \in Opens /\ File \in ids /\ File \in Files
      /\ call[Handler] \in CallStates
  BY DEF Return, Refused, NotSent, Answered, InHand, TypeOK
<1>1. CASE Refused
  <2>1. call' = [call EXCEPT ![Handler] =
                   Driver!Idle(call[Handler].rc, call[Handler].value)]
        /\ UNCHANGED reg
    BY <1>1 DEF Refused, Driver!Return
  <2>2. call[Handler].rc \in {"EOK", "EIO", "ENOENT", "ENOMEM"}
        /\ call[Handler].value \in 0 .. 2
    BY <1>0, <1>1 DEF Refused, CallStates
  <2>3. call' \in [{Handler} -> CallStates] /\ call'[Handler].state = "idle"
    BY <2>1, <2>2 DEF TypeOK, CallStates, Driver!Idle
  <2>4. value' \in [Files -> {"NUL", "0", "1"}]
    BY <1>0, <1>1 DEF Refused, TypeOK, File
  <2>5. TypeOK'
    BY <1>1, <2>1, <2>2, <2>3, <2>4, ResmgrAssumption
    DEF Refused, Hand_back, Reply, NoMsg, ReplyCodes, TypeOK
  <2>6. InHand' /\ Levels'
    BY <1>1, <2>1, <2>3 DEF Refused, Hand_back, InHand, Levels
  <2> QED BY <2>5, <2>6
<1>2. CASE NotSent
  <2>1. PICK e \in {"ENOENT", "ENOMEM"} :
          call' = [call EXCEPT ![Handler] = Driver!Idle(e, 0)]
    BY <1>2 DEF NotSent, Driver!Fail
  <2>2. call' \in [{Handler} -> CallStates]
        /\ call'[Handler].state = "idle" /\ call'[Handler].rc = e
    BY <2>1 DEF TypeOK, CallStates, Driver!Idle
  <2>3. UNCHANGED reg
    BY <1>2 DEF NotSent, Driver!Fail
  <2>4. TypeOK'
    BY <1>2, <2>2, <2>3, ResmgrAssumption
    DEF NotSent, Hand_back, Reply, NoMsg, NoData, ReplyCodes, TypeOK
  <2>5. InHand' /\ Levels'
    BY <1>2, <2>2, <2>3 DEF NotSent, Hand_back, InHand, Levels
  <2> QED BY <2>4, <2>5
<1>3. CASE Answered
  <2> DEFINE v == call[Handler].value
  <2>1. call' = [call EXCEPT ![Handler] = Driver!Idle(call[Handler].rc, v)]
        /\ UNCHANGED reg
    BY <1>3 DEF Answered, Driver!Return
  <2>2. call[Handler].rc \in {"EOK", "EIO", "ENOENT", "ENOMEM"} /\ v \in 0 .. 2
    BY <1>0, <1>3 DEF Answered, CallStates
  <2>3. call' \in [{Handler} -> CallStates] /\ call'[Handler].state = "idle"
    BY <2>1, <2>2 DEF TypeOK, CallStates, Driver!Idle
  <2>4. /\ pc' = "ready" /\ ids' = ids /\ held' = {} /\ msg' = NoMsg
        /\ UNCHANGED reg
    BY <1>3, <2>1 DEF Answered, Hand_back
  <2>5. msg.nbytes \in 0 .. SizeMod - 1
    BY DEF TypeOK
  <2>6. ASSUME msg.op = "read" PROVE TypeOK'
    <3>1. v \in {0, 1}
      BY <1>3, <1>0, <2>6 DEF Answered, InHand
    <3>2. Digit(v) \in {"0", "1"}
      BY <3>1 DEF Digit
    <3>3. /\ value' = [value EXCEPT ![File] = Digit(v)]
          /\ ocb' = [ocb EXCEPT ![msg.ocb].offset = (@ + msg.nbytes) % SizeMod]
          /\ reply' = [rc |-> "EOK", nbytes |-> msg.nbytes, data |-> value'[File]]
      BY <1>3, <2>6 DEF Answered, Reply, File
    <3>4. (ocb[msg.ocb].offset + msg.nbytes) % SizeMod \in 0 .. SizeMod - 1
      BY <1>0, ResmgrAssumption DEF TypeOK
    <3>5. /\ ocb' \in [Opens -> [file : Files \cup {NoFile}, offset : 0 .. SizeMod - 1]]
          /\ \A o \in Opens : ocb'[o] = Closed \/ ocb'[o].file \in ids'
      BY <1>0, <2>4, <3>3, <3>4 DEF TypeOK, File
    <3>6. value' \in [Files -> {"NUL", "0", "1"}] /\ value'[File] \in {"0", "1"}
      BY <1>0, <3>2, <3>3 DEF TypeOK
    <3>7. reply' \in [rc : ReplyCodes, nbytes : 0 .. SizeMod - 1,
                      data : {NoData, "0", "1", "INPUT", "OUTPUT"}]
      BY <2>5, <3>3, <3>6 DEF ReplyCodes
    <3> QED BY <1>0, <2>3, <2>4, <3>5, <3>6, <3>7, ResmgrAssumption DEF TypeOK, NoMsg
  <2>7. ASSUME msg.op # "read" PROVE TypeOK'
    <3>1. reply' = [rc |-> "EOK", nbytes |-> msg.nbytes,
                    data |-> IF msg.op = "write" THEN NoData ELSE Flag(v)]
      BY <1>3, <2>7 DEF Answered, Reply
    <3>2. reply' \in [rc : ReplyCodes, nbytes : 0 .. SizeMod - 1,
                      data : {NoData, "0", "1", "INPUT", "OUTPUT"}]
      BY <2>5, <3>1 DEF ReplyCodes, Flag
    <3>3. UNCHANGED <<value, ocb>>
      BY <1>3, <2>7 DEF Answered
    <3> QED BY <1>0, <2>3, <2>4, <3>2, <3>3, ResmgrAssumption DEF TypeOK, NoMsg
  <2>8. TypeOK'
    BY <2>6, <2>7
  <2>9. InHand' /\ Levels'
    BY <2>3, <2>4 DEF InHand, Levels
  <2> QED BY <2>8, <2>9
<1> QED BY <1>1, <1>2, <1>3 DEF Return

\* Attaching, giving up, opening, closing and seeking ask nothing of the driver.
LEMMA OtherPreservesIInv ==
  ASSUME IInv,
         \/ \E f \in Files : Attach(f)
         \/ Give_up
         \/ \E o \in Opens : \/ \E f \in Files : Open(o, f)
                             \/ Close(o)
                             \/ \E offset \in Seeks : Lseek(o, offset)
  PROVE  IInv'
<1> USE ResmgrAssumption DEF IInv
<1>1. ASSUME NEW f \in Files, Attach(f) PROVE IInv'
  <2>1. TypeOK'
    BY <1>1 DEF Attach, TypeOK
  <2> QED BY <1>1, <2>1, QuietStep DEF Attach
<1>2. CASE Give_up
  <2>1. TypeOK'
    BY <1>2 DEF Give_up, TypeOK, Closed
  <2> QED BY <1>2, <2>1, QuietStep DEF Give_up
<1>3. ASSUME NEW o \in Opens, NEW f \in Files, Open(o, f) PROVE IInv'
  <2>1. ids = Files
    BY <1>3 DEF Open, TypeOK
  <2>2. TypeOK'
    BY <1>3, <2>1 DEF Open, TypeOK, Closed
  <2> QED BY <1>3, <2>2, QuietStep DEF Open
<1>4. ASSUME NEW o \in Opens, Close(o) PROVE IInv'
  <2>1. TypeOK'
    BY <1>4 DEF Close, TypeOK, Closed
  <2> QED BY <1>4, <2>1, QuietStep DEF Close
<1>5. ASSUME NEW o \in Opens, NEW offset \in Seeks, Lseek(o, offset) PROVE IInv'
  <2>1. TypeOK'
    BY <1>5 DEF Lseek, TypeOK, Closed
  <2> QED BY <1>5, <2>1, QuietStep DEF Lseek
<1> QED BY <1>1, <1>2, <1>3, <1>4, <1>5

\* The device answers, and input lines change, at any time: what the register
\* held meanwhile is in held.
LEMMA DevicePreservesIInv == ASSUME IInv, Device PROVE IInv'
<1> USE DEF IInv
<1> DEFINE q == call[Handler].request
<1>1. /\ call[Handler].state = "pending" /\ pc = "call"
      /\ UNCHANGED <<pc, ids, ocb, value, msg, reply>>
  BY DEF Device, Driver!Refuse, InHand
<1>2. /\ q \in Driver!Requests /\ q.reg \in Files \X {"value", "direction"}
      /\ q.value \in 0 .. 2
  BY <1>1 DEF TypeOK, CallStates, Driver!Requests
<1>3. held' = held \cup {reg'[q.reg]}
  BY <1>1 DEF Device, Asked
<1>4. msg.ocb \in Opens /\ File \in Files /\ Asks(q) /\ msg.op # "none"
  BY <1>1 DEF InHand, TypeOK
<1>5. CASE Driver!Refuse(Handler)
  <2>1. call' = [call EXCEPT ![Handler] = Driver!Done("EIO", 0)] /\ UNCHANGED reg
    BY <1>5 DEF Driver!Refuse
  <2>2. /\ call' \in [{Handler} -> CallStates]
        /\ call'[Handler].state = "done" /\ call'[Handler].rc = "EIO"
    BY <2>1 DEF TypeOK, CallStates, Driver!Done
  <2>3. reg'[q.reg] \in 0 .. 2
    BY <1>2, <2>1 DEF TypeOK
  <2>4. TypeOK'
    BY <1>1, <1>3, <2>1, <2>2, <2>3 DEF TypeOK
  <2>5. InHand' /\ Levels'
    BY <1>1, <2>1, <2>2 DEF InHand, Levels, File, Left
  <2> QED BY <2>4, <2>5
<1>6. CASE Driver!Perform(Handler) /\ q.type = "READ"
  <2>1. call' = [call EXCEPT ![Handler] = Driver!Done("EOK", reg[q.reg])]
        /\ UNCHANGED reg
    BY <1>6 DEF Driver!Perform
  <2>2. reg[q.reg] \in 0 .. 2
    BY <1>2 DEF TypeOK
  <2>3. /\ call' \in [{Handler} -> CallStates]
        /\ call'[Handler].state = "done" /\ call'[Handler].value = reg[q.reg]
    BY <2>1, <2>2 DEF TypeOK, CallStates, Driver!Done
  <2>4. TypeOK'
    BY <1>1, <1>3, <2>1, <2>2, <2>3 DEF TypeOK
  <2>5. msg.op = "read" => reg[q.reg] \in {0, 1}
    BY <1>4 DEF Asks, Driver!Read, Levels
  <2>6. InHand' /\ Levels'
    BY <1>1, <1>3, <2>1, <2>3, <2>5 DEF InHand, Levels, File, Left
  <2> QED BY <2>4, <2>6
<1>7. CASE Driver!Perform(Handler) /\ q.type # "READ"
  <2>1. /\ call' = [call EXCEPT ![Handler] = Driver!Done("EOK", 0)]
        /\ reg' = [reg EXCEPT ![q.reg] = q.value]
    BY <1>7 DEF Driver!Perform
  <2>2. /\ call' \in [{Handler} -> CallStates]
        /\ call'[Handler].state = "done"
    BY <2>1 DEF TypeOK, CallStates, Driver!Done
  <2>3. msg.op = "write" /\ q.reg = Value(File) /\ q.value \in {0, 1}
    <3>1. msg.op # "read" /\ msg.op # "lineinfo"
      <4>1. \A r : Driver!Read(r).type = "READ"
        BY DEF Driver!Read
      <4>2. Asks(q) /\ q.type # "READ"
        BY <1>4, <1>7
      <4>3. /\ msg.op = "read" => q = Driver!Read(Value(File))
            /\ msg.op = "lineinfo" => \E l \in Lines : q = Driver!Read(Direction(l))
        BY <4>2 DEF Asks
      <4> HIDE DEF q
      <4> QED BY <4>1, <4>2, <4>3
    <3>2. msg.op = "write"
      BY <1>4, <3>1 DEF TypeOK
    <3>3. PICK v \in {0, 1} : q = Driver!Write(Value(File), v)
      BY <1>4, <3>2 DEF Asks
    <3> QED BY <3>2, <3>3 DEF Driver!Write
  <2>4. reg' \in [Files \X {"value", "direction"} -> 0 .. 2] /\ reg'[q.reg] \in 0 .. 2
    BY <1>2, <2>1 DEF TypeOK
  <2>5. TypeOK'
    BY <1>1, <1>3, <2>2, <2>4 DEF TypeOK
  <2>6. InHand'
    BY <1>1, <2>2, <2>3 DEF InHand, File, Left
  <2>7. Levels'
    BY <2>1, <2>3, FileRegs DEF Levels, TypeOK
  <2> QED BY <2>5, <2>6, <2>7
<1> QED BY <1>5, <1>6, <1>7 DEF Device

\* An input line changes: what it changes to counts as held.
LEMMA InputPreservesIInv == ASSUME IInv, NEW l \in Lines, Input(l) PROVE IInv'
<1> USE DEF IInv
<1>1. reg' = [reg EXCEPT ![Value(l)] = 1 - @]
      /\ UNCHANGED <<pc, ids, ocb, value, msg, reply, call>>
  BY DEF Input
<1>2. l \in Files /\ reg[Value(l)] \in {0, 1} /\ 1 - reg[Value(l)] \in {0, 1}
  BY DEF Files, Levels
<1>3. reg' \in [Files \X {"value", "direction"} -> 0 .. 2]
  BY <1>1, <1>2, FileRegs DEF TypeOK
<1>4. held \subseteq held' /\ held' \subseteq 0 .. 2
  <2>1. call[Handler].state = "pending" =>
          call[Handler].request.reg \in Files \X {"value", "direction"}
    BY DEF TypeOK, CallStates, Driver!Requests
  <2>2. CASE call[Handler].state = "pending"
    <3>1. held' = held \cup {reg'[call[Handler].request.reg]}
      BY <2>2 DEF Input, Asked
    <3>2. reg'[call[Handler].request.reg] \in 0 .. 2
      BY <2>1, <2>2, <1>3
    <3> QED BY <3>1, <3>2 DEF TypeOK
  <2>3. CASE call[Handler].state # "pending"
    BY <2>3 DEF Input, TypeOK
  <2> QED BY <2>2, <2>3
<1>5. TypeOK'
  BY <1>1, <1>3, <1>4 DEF TypeOK
<1>6. Levels'
  BY <1>1, <1>2, FileRegs DEF Levels, TypeOK
<1>7. InHand'
  BY <1>1, <1>4 DEF InHand, Asks, File, Left
<1> QED BY <1>5, <1>6, <1>7

-----------------------------------------------------------------------------
(* The theorems.                                                           *)

\* The invariant holds in every behaviour of the resource manager.
THEOREM IInvHolds == Spec => []IInv
<1>1. ASSUME IInv, [Next]_vars PROVE IInv'
  <2>1. CASE UNCHANGED vars
    BY <1>1, <2>1 DEF vars, IInv, TypeOK, Levels, InHand, Asks, File, Left
  <2>2. CASE Next
    BY <1>1, <2>2, MessagePreservesIInv, OtherPreservesIInv, ReturnPreservesIInv,
       DevicePreservesIInv, InputPreservesIInv DEF Next
  <2> QED BY <1>1, <2>1, <2>2
<1> QED BY InitEstablishesIInv, <1>1, PTL DEF Spec

\* Every variable keeps its type (TypeOK of Resmgr), for any number of lines and
\* of open control blocks: what a reply sends is a digit or a flag.
THEOREM TypeCorrect == Spec => []TypeOK
<1>1. IInv => TypeOK
  BY DEF IInv
<1> QED BY <1>1, IInvHolds, PTL

\* A read that is answered EOK is answered by Answered.
LEMMA GoodReadIsAnswered ==
  ASSUME IInv, [Next]_vars, ReadReply
  PROVE  Answered /\ msg.op = "read" /\ msg.ocb \in Opens /\ File \in Files
<1>1. pc = "call" /\ pc' = "ready" /\ reply'.rc = "EOK"
  BY DEF ReadReply
<1>2. ~ Refused
  BY <1>1 DEF Refused, Reply
<1>3. ~ NotSent
  <2>1. ASSUME NotSent PROVE FALSE
    <3>1. PICK e \in {"ENOENT", "ENOMEM"} :
            call' = [call EXCEPT ![Handler] = Driver!Idle(e, 0)]
      BY <2>1 DEF NotSent, Driver!Fail
    <3>2. call'[Handler].rc = e
      BY <3>1 DEF IInv, TypeOK, Driver!Idle
    <3> QED BY <1>1, <2>1, <3>2 DEF NotSent, Reply
  <2> QED BY <2>1
<1>4. Answered
  BY <1>1, <1>2, <1>3
  DEF Next, vars, Attach, Give_up, Open, Close, Lseek, resmgr_read,
      resmgr_write, resmgr_devctl, Return, Device, Input
<1> QED BY <1>4 DEF ReadReply, IInv, InHand, TypeOK

\* What a read replies comes from the driver's call and not from an earlier
\* message's attr->value (resmgr_read).
THEOREM ReadsLineValueHolds == Spec => ReadsLineValue
<1>1. ASSUME IInv, [Next]_vars, ReadReply
      PROVE  reply'.data \in {Digit(v) : v \in held}
  <2>1. Answered /\ msg.op = "read" /\ File \in Files
    BY <1>1, GoodReadIsAnswered
  <2>2. call[Handler].value \in held
    BY <1>1, <2>1 DEF Answered, IInv, InHand
  <2>3. reply'.data = Digit(call[Handler].value)
    BY <1>1, <2>1 DEF Answered, Reply, File, IInv, TypeOK
  <2> QED BY <2>2, <2>3
<1> QED BY <1>1, IInvHolds, PTL DEF Spec, ReadsLineValue

\* From an offset within the file a read sends no more than the rest of it, and
\* moves the offset by what it sends, whatever the width of size_t
\* (resmgr_read's nleft and offset).
THEOREM ReadsWithinFileHolds == Spec => ReadsWithinFile
<1>1. ASSUME IInv, [Next]_vars, ReadReply, ocb[msg.ocb].offset <= Size(File)
      PROVE  /\ ocb[msg.ocb].offset + reply'.nbytes <= Size(File)
             /\ ocb'[msg.ocb].offset = ocb[msg.ocb].offset + reply'.nbytes
  <2> DEFINE old == ocb[msg.ocb].offset
  <2>1. Answered /\ msg.op = "read" /\ msg.ocb \in Opens /\ File \in Files
    BY <1>1, GoodReadIsAnswered
  <2>2. msg.nbytes \in Nat /\ msg.nbytes <= Left(msg.ocb) /\ old \in Nat
    BY <1>1, <2>1, ResmgrAssumption DEF IInv, TypeOK, InHand, Answered
  <2>3. old + Left(msg.ocb) <= Size(File)
    BY <1>1, <2>1, <2>2, LeftWithin DEF File
  <2>4. Left(msg.ocb) \in 0 .. SizeMod - 1 /\ Size(File) \in 0 .. 1
    BY <2>2, ResmgrAssumption DEF Left, Size, File
  <2>5. old + msg.nbytes <= Size(File)
    BY <2>2, <2>3, <2>4
  <2>6. old + msg.nbytes \in 0 .. SizeMod - 1
    <3>1. old \in 0 .. SizeMod - 1
      BY <1>1, <2>1 DEF IInv, TypeOK
    <3> QED BY <3>1, <2>2, <2>4, <2>5, ResmgrAssumption
  <2>7. (old + msg.nbytes) % SizeMod = old + msg.nbytes
    BY <2>6, SmallMod, ResmgrAssumption
  <2>8. /\ reply'.nbytes = msg.nbytes
        /\ ocb' = [ocb EXCEPT ![msg.ocb].offset = (@ + msg.nbytes) % SizeMod]
    BY <2>1 DEF Answered, Reply
  <2>9. ocb'[msg.ocb].offset = (old + msg.nbytes) % SizeMod
    BY <1>1, <2>1, <2>8 DEF IInv, TypeOK
  <2> QED BY <2>5, <2>7, <2>8, <2>9
<1> QED BY <1>1, IInvHolds, PTL DEF Spec, ReadsWithinFile, File
=============================================================================
