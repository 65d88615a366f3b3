------------------------- MODULE GpioDriverProofs -------------------------
(* Proofs about GpioDriver for any clients, queue size, index width,       *)
(* registers, faults and transports.                                       *)
EXTENDS GpioDriver, VirtqProofs

-----------------------------------------------------------------------------
(* What the code relies on whenever it uses an index it keeps in a local    *)
(* variable: at the program points where virtio_gpio_request, the interrupt *)
(* callback or virtq_get_desc_chain reads idxs[0], idxs[1] or the id loaded *)
(* from the used ring, it names a descriptor of the table.                  *)

ClientIndicesNamed ==
  \A c \in Clients :
    /\ pc[c] # "idle" => op[c] \in Requests
    /\ pc[c] \in {"putback0", "alloc1", "putback1", "free0", "put", "publish"}
         => idxs[c][0] \in Desc
    /\ pc[c] \in {"putback1", "put", "publish"} => idxs[c][1] \in Desc

IstIndicesNamed ==
  /\ ist.pc = "idx" => ist.id \in Desc
  /\ ist.pc \in {"post", "free0"} => ist.idxs[0] \in Desc
  /\ ist.pc \in {"post", "free0", "free1"} => ist.idxs[1] \in Desc

IInv == TypeOK /\ ClientIndicesNamed /\ IstIndicesNamed

LEMMA InitEstablishesIInv == Init => IInv
<1> SUFFICES ASSUME Init PROVE IInv
  OBVIOUS
<1> USE ZeroIn, ValuesAssumption DEF Init, VirtqInit
<1>1. VirtqTypeOK
  <2>1. \A i \in 1 .. Num : i - 1 \in Desc
    BY NumAssumption DEF Desc
  <2>2. free_descs \in Seq(Desc)
    BY <2>1, NumAssumption
  <2> QED BY <2>2 DEF VirtqTypeOK
<1>2. desc \in DescTable
  BY DEF DescTable, FreeEntry, Buffers
<1>3. /\ idxs \in [Clients -> [0 .. 1 -> DescOrNone]]
      /\ context \in [Clients -> [sem : Nat, reply : Replies \cup {NoReply}]]
      /\ ret \in [Clients -> [rc : ReturnCodes, value : Values]]
  BY DEF NoDescs, Pair, DescOrNone, FreshContext, Reply, ReturnCodes
<1>4. ist \in [pc : IstPCs, id : DescOrNone, idxs : [0 .. 1 -> DescOrNone],
              stale : BOOLEAN]
  BY DEF IstIdle, IstPCs, NoDescs, Pair, DescOrNone
<1>5. TypeOK
  BY <1>1, <1>2, <1>3, <1>4 DEF TypeOK, ClientPCs
<1>6. ClientIndicesNamed
  BY DEF ClientIndicesNamed
<1>7. IstIndicesNamed
  BY DEF IstIndicesNamed, IstIdle
<1> QED BY <1>5, <1>6, <1>7 DEF IInv

-----------------------------------------------------------------------------
(* What the operations of virtq.c keep well typed.                         *)

LEMMA FifoGetTypes ==
  ASSUME TypeOK, NEW d \in Desc, fifo_get(d)
  PROVE  free_descs' \in Seq(Desc)
BY DEF TypeOK, VirtqTypeOK, fifo_get

LEMMA FifoPutTypes ==
  ASSUME TypeOK, NEW d \in Desc, fifo_put(d)
  PROVE  free_descs' \in Seq(Desc)
BY DEF TypeOK, VirtqTypeOK, fifo_put

LEMMA FreeDescTypes ==
  ASSUME TypeOK, NEW d \in Desc, virtq_free_desc(d)
  PROVE  free_descs' \in Seq(Desc) /\ desc' \in DescTable
<1> USE DEF virtq_free_desc
<1>1. CASE desc[d].buf # Unmapped
  <2>1. free_descs' \in Seq(Desc)
    BY <1>1, FifoPutTypes
  <2>2. desc' \in DescTable
    BY <1>1, ZeroIn DEF TypeOK, DescTable, FreeEntry, Buffers
  <2> QED BY <2>1, <2>2
<1>2. CASE desc[d].buf = Unmapped
  BY <1>2 DEF TypeOK, VirtqTypeOK
<1> QED BY <1>1, <1>2

LEMMA WrittenTypes ==
  ASSUME NEW t \in DescTable, NEW d \in Desc, NEW b \in Buffers
  PROVE  [t EXCEPT ![d].buf = b] \in DescTable
BY DEF DescTable

LEMMA LinkedTypes ==
  ASSUME NEW t \in DescTable, NEW h \in Desc, NEW n \in Desc
  PROVE  Linked(t, h, n) \in DescTable
<1> DEFINE u == [t EXCEPT ![h].next = n]
           v == [u EXCEPT ![h].flags = @ \cup {"NEXT"}]
<1>1. u \in DescTable
  BY DEF DescTable
<1>2. u[h].flags \cup {"NEXT"} \in SUBSET Flag
  BY <1>1 DEF DescTable, Flag
<1>3. v \in DescTable
  <2> HIDE DEF u
  <2> QED BY <1>1, <1>2 DEF DescTable
<1>4. Linked(t, h, n) = [v EXCEPT ![n].next = 0]
  BY DEF Linked
<1> HIDE DEF u, v
<1> QED BY <1>3, <1>4, ZeroIn DEF DescTable

LEMMA FinishTypes ==
  ASSUME TypeOK, ClientIndicesNamed, NEW c \in Clients,
         NEW rc \in ReturnCodes, NEW v \in Values, Finish(c, rc, v)
  PROVE  /\ pc' \in [Clients -> ClientPCs]
         /\ op' \in [Clients -> Requests \cup {NoRequest}]
         /\ idxs' \in [Clients -> [0 .. 1 -> DescOrNone]]
         /\ context' \in [Clients -> [sem : Nat, reply : Replies \cup {NoReply}]]
         /\ ret' \in [Clients -> [rc : ReturnCodes, value : Values]]
         /\ ClientIndicesNamed'
<1> USE DEF Finish, TypeOK
<1>1. pc' \in [Clients -> ClientPCs] /\ op' \in [Clients -> Requests \cup {NoRequest}]
  BY DEF ClientPCs
<1>2. idxs' \in [Clients -> [0 .. 1 -> DescOrNone]]
  BY DEF NoDescs, Pair, DescOrNone
<1>3. context' \in [Clients -> [sem : Nat, reply : Replies \cup {NoReply}]]
  BY DEF FreshContext
<1>4. ret' \in [Clients -> [rc : ReturnCodes, value : Values]]
  BY DEF Reply
<1>5. ClientIndicesNamed'
  BY DEF ClientIndicesNamed
<1> QED BY <1>1, <1>2, <1>3, <1>4, <1>5

LEMMA AnswersAreReplies ==
  ASSUME NEW x \in [sem : Nat, reply : Replies \cup {NoReply}]
  PROVE  \A a \in Answers(x) : a.rc \in ReturnCodes /\ a.value \in Values
BY DEF Answers, Replies, Reply, ReturnCodes

-----------------------------------------------------------------------------
LEMMA ClientPreservesIInv ==
  ASSUME IInv, NEW c \in Clients,
         Client(c) \/ \E q \in Requests : Begin(c, q)
  PROVE  IInv'
<1>0. TypeOK /\ ClientIndicesNamed /\ IstIndicesNamed
  BY DEF IInv
<1> USE <1>0, ValuesAssumption, ZeroIn DEF ClientOnly, GoTo, virtqVars
<1>1. ASSUME NEW q \in Requests, Begin(c, q) PROVE IInv'
  <2> USE <1>1 DEF Begin
  <2>1. TypeOK'
    BY DEF TypeOK, VirtqTypeOK, ClientPCs, FreshContext, Reply, ReturnCodes
  <2>2. ClientIndicesNamed'
    BY DEF ClientIndicesNamed, TypeOK, DescOrNone
  <2> QED BY <2>1, <2>2 DEF IInv, IstIndicesNamed
<1>2. ASSUME Alloc0(c) PROVE IInv'
  <2> USE <1>2 DEF Alloc0
  <2>1. CASE NoneLeft /\ Finish(c, "ENOENT", 0)
    BY <2>1, FinishTypes DEF IInv, TypeOK, VirtqTypeOK, IstIndicesNamed, NoneLeft, ReturnCodes
  <2>4. CASE NoSemaphore(c)
    BY <2>4, FinishTypes DEF IInv, TypeOK, VirtqTypeOK, IstIndicesNamed, NoSemaphore, ReturnCodes
  <2>2. ASSUME NEW d \in Desc, Takes(c, 0, d, "alloc1") PROVE IInv'
    <3> USE <2>2 DEF Takes
    <3>1. free_descs' \in Seq(Desc)
      BY FifoGetTypes
    <3>2. desc' \in DescTable
      BY DEF MapDesc, TypeOK, DescTable, Flag, Buffers
    <3>3. TypeOK'
      BY <3>1, <3>2 DEF TypeOK, VirtqTypeOK, ClientPCs, DescOrNone
    <3>4. ClientIndicesNamed'
      BY DEF ClientIndicesNamed, TypeOK, DescOrNone
    <3> QED BY <3>3, <3>4 DEF IInv, IstIndicesNamed
  <2>3. ASSUME NEW d \in Desc, TakesUnmapped(c, 0, d, "putback0") PROVE IInv'
    <3> USE <2>3 DEF TakesUnmapped
    <3>1. free_descs' \in Seq(Desc)
      BY FifoGetTypes
    <3>2. TypeOK'
      BY <3>1 DEF TypeOK, VirtqTypeOK, ClientPCs, DescOrNone
    <3>3. ClientIndicesNamed'
      BY DEF ClientIndicesNamed, TypeOK, DescOrNone
    <3> QED BY <3>2, <3>3 DEF IInv, IstIndicesNamed
  <2> QED BY <2>1, <2>2, <2>3, <2>4
<1>3. ASSUME PutBack0(c) PROVE IInv'
  <2> USE <1>3 DEF PutBack0
  <2>1. free_descs' \in Seq(Desc)
    BY FifoPutTypes DEF ClientIndicesNamed
  <2> QED
    BY <2>1, FinishTypes DEF IInv, TypeOK, VirtqTypeOK, IstIndicesNamed, ReturnCodes
<1>4. ASSUME Alloc1(c) PROVE IInv'
  <2> USE <1>4 DEF Alloc1
  <2>1. CASE /\ NoneLeft
             /\ ret' = [ret EXCEPT ![c] = Reply("ENOENT", 0)]
             /\ GoTo(c, "free0")
             /\ UNCHANGED <<op, idxs, context>>
    <3>1. TypeOK'
      BY <2>1 DEF TypeOK, VirtqTypeOK, NoneLeft, ReturnCodes, Reply, ClientPCs
    <3>2. ClientIndicesNamed'
      BY <2>1 DEF ClientIndicesNamed, TypeOK
    <3> QED BY <3>1, <3>2 DEF IInv, IstIndicesNamed
  <2>2. ASSUME NEW d \in Desc, Takes(c, 1, d, "put") PROVE IInv'
    <3> USE <2>2 DEF Takes
    <3>1. free_descs' \in Seq(Desc)
      BY FifoGetTypes
    <3>2. desc' \in DescTable
      BY DEF MapDesc, TypeOK, DescTable, Flag, Buffers
    <3>3. TypeOK'
      BY <3>1, <3>2 DEF TypeOK, VirtqTypeOK, ClientPCs, DescOrNone
    <3>4. ClientIndicesNamed'
      BY DEF ClientIndicesNamed, TypeOK, DescOrNone
    <3> QED BY <3>3, <3>4 DEF IInv, IstIndicesNamed
  <2>3. ASSUME NEW d \in Desc, TakesUnmapped(c, 1, d, "putback1") PROVE IInv'
    <3> USE <2>3 DEF TakesUnmapped
    <3>1. free_descs' \in Seq(Desc)
      BY FifoGetTypes
    <3>2. TypeOK'
      BY <3>1 DEF TypeOK, VirtqTypeOK, ClientPCs, DescOrNone
    <3>3. ClientIndicesNamed'
      BY DEF ClientIndicesNamed, TypeOK, DescOrNone
    <3> QED BY <3>2, <3>3 DEF IInv, IstIndicesNamed
  <2> QED BY <2>1, <2>2, <2>3
<1>5. ASSUME PutBack1(c) PROVE IInv'
  <2> USE <1>5 DEF PutBack1
  <2>1. free_descs' \in Seq(Desc)
    BY FifoPutTypes DEF ClientIndicesNamed
  <2>2. TypeOK'
    BY <2>1 DEF TypeOK, VirtqTypeOK, ClientPCs, DescOrNone, Reply, ReturnCodes
  <2>3. ClientIndicesNamed'
    BY DEF ClientIndicesNamed, TypeOK, DescOrNone
  <2> QED BY <2>2, <2>3 DEF IInv, IstIndicesNamed
<1>6. ASSUME Free0(c) PROVE IInv'
  <2> USE <1>6 DEF Free0
  <2>1. free_descs' \in Seq(Desc) /\ desc' \in DescTable
    BY FreeDescTypes DEF ClientIndicesNamed
  <2>2. ret[c].rc \in ReturnCodes
    BY DEF TypeOK
  <2> QED
    BY <2>1, <2>2, FinishTypes DEF IInv, TypeOK, VirtqTypeOK, IstIndicesNamed
<1>7. ASSUME Put(c) PROVE IInv'
  <2> USE <1>7 DEF Put
  <2>1. idxs[c][0] \in Desc /\ idxs[c][1] \in Desc
    BY DEF ClientIndicesNamed
  <2>2. desc' \in DescTable
    <3> DEFINE written == [desc EXCEPT ![idxs[c][0]].buf = op[c]]
               filled  == [written EXCEPT ![idxs[c][0]].context = c]
    <3>1. desc \in DescTable /\ op[c] \in Buffers
      BY DEF ClientIndicesNamed, TypeOK, Buffers
    <3>2. written \in DescTable
      BY <2>1, <3>1, WrittenTypes
    <3>3. filled \in DescTable
      <4> HIDE DEF written
      <4> QED BY <2>1, <3>2 DEF DescTable
    <3>4. desc' = Linked(filled, idxs[c][0], idxs[c][1])
      OBVIOUS
    <3> HIDE DEF filled
    <3> QED BY <2>1, <3>3, <3>4, LinkedTypes
  <2>3. avail' \in [idx : Idx, ring : [Desc -> Desc]]
    BY <2>1, SlotDesc DEF PutRing, TypeOK, VirtqTypeOK
  <2>4. TypeOK'
    BY <2>2, <2>3 DEF TypeOK, VirtqTypeOK, ClientPCs, Acquire
  <2>5. ClientIndicesNamed'
    BY DEF ClientIndicesNamed, TypeOK
  <2> QED BY <2>4, <2>5 DEF IInv, IstIndicesNamed
<1>8. ASSUME Publish(c) PROVE IInv'
  <2> USE <1>8 DEF Publish
  <2>1. avail' \in [idx : Idx, ring : [Desc -> Desc]]
    BY IncIdx DEF PutIdx, TypeOK, VirtqTypeOK
  <2>2. TypeOK'
    BY <2>1 DEF TypeOK, VirtqTypeOK, ClientPCs, Release
  <2>3. ClientIndicesNamed'
    BY DEF ClientIndicesNamed, TypeOK
  <2> QED BY <2>2, <2>3 DEF IInv, IstIndicesNamed
<1>9. ASSUME Notify(c) PROVE IInv'
  <2> USE <1>9 DEF Notify
  <2>1. TypeOK'
    BY DEF TypeOK, VirtqTypeOK, ClientPCs
  <2>2. ClientIndicesNamed'
    BY DEF ClientIndicesNamed, TypeOK
  <2> QED BY <2>1, <2>2 DEF IInv, IstIndicesNamed
<1>10. ASSUME Wait(c) PROVE IInv'
  <2>1. PICK a \in Answers(context[c]) : Finish(c, a.rc, a.value)
    BY <1>10 DEF Wait
  <2>2. a.rc \in ReturnCodes /\ a.value \in Values
    BY AnswersAreReplies DEF TypeOK
  <2> QED
    BY <1>10, <2>1, <2>2, FinishTypes DEF Wait, IInv, TypeOK, VirtqTypeOK, IstIndicesNamed
<1>11. ASSUME Interrupted(c) PROVE IInv'
  BY <1>11, FinishTypes
  DEF Interrupted, IInv, TypeOK, VirtqTypeOK, IstIndicesNamed, ReturnCodes
<1> QED
  BY <1>1, <1>2, <1>3, <1>4, <1>5, <1>6, <1>7, <1>8, <1>9, <1>10, <1>11 DEF Client

-----------------------------------------------------------------------------
LEMMA PairTypes ==
  ASSUME NEW d0 \in Desc, NEW d1 \in Desc
  PROVE  /\ Pair(d0, d1) \in [0 .. 1 -> DescOrNone]
         /\ Pair(d0, d1)[0] = d0 /\ Pair(d0, d1)[1] = d1
<1>1. Pair(d0, d1)[0] = d0 /\ Pair(d0, d1)[1] = d1
  BY DEF Pair
<1>2. \A n \in 0 .. 1 : (IF n = 0 THEN d0 ELSE d1) \in DescOrNone
  BY DEF DescOrNone
<1> QED BY <1>1, <1>2 DEF Pair

\* A completion is given to the callback with both of its indices named.
LEMMA GetChainPreservesIInv ==
  ASSUME IInv, NEW h \in Desc, GetChain(h), lock' \in {lock, Unlocked}
  PROVE  IInv'
<1>0. TypeOK /\ ClientIndicesNamed /\ IstIndicesNamed
  BY DEF IInv
<1> USE <1>0 DEF GetChain, IstOnly, clientVars
<1>1. ClientIndicesNamed'
  BY DEF ClientIndicesNamed
<1>2. CASE UsedEmpty \/ TooLong(h)
  <2>1. ist' = [ist EXCEPT !.pc = "unmask", !.id = NoDesc]
    BY <1>2
  <2>2. TypeOK'
    BY <1>2, <2>1 DEF TypeOK, VirtqTypeOK, IstPCs, DescOrNone
  <2>3. IstIndicesNamed'
    BY <2>1 DEF IstIndicesNamed, TypeOK
  <2> QED BY <1>1, <2>2, <2>3 DEF IInv
<1>3. CASE ~(UsedEmpty \/ TooLong(h))
  <2>1. PICK n \in Second(h) :
          ist' = [ist EXCEPT !.pc = "post", !.id = NoDesc, !.idxs = Pair(h, n),
                             !.stale = @ \/ h # UsedHead]
    BY <1>3
  <2>2. n \in Desc
    BY <2>1 DEF Second, TypeOK, DescTable
  <2>3. /\ Pair(h, n) \in [0 .. 1 -> DescOrNone]
        /\ Pair(h, n)[0] \in Desc /\ Pair(h, n)[1] \in Desc
    BY <2>2, PairTypes
  <2>4. ist' \in [pc : IstPCs, id : DescOrNone, idxs : [0 .. 1 -> DescOrNone],
              stale : BOOLEAN]
    BY <2>1, <2>3 DEF TypeOK, IstPCs, DescOrNone
  <2>5. TypeOK'
    BY <1>3, <2>4, IncIdx DEF TypeOK, VirtqTypeOK
  <2>6. IstIndicesNamed'
    BY <2>1, <2>3 DEF IstIndicesNamed, TypeOK
  <2> QED BY <1>1, <2>5, <2>6 DEF IInv
<1> QED BY <1>2, <1>3

LEMMA IstPreservesIInv == ASSUME IInv, Ist PROVE IInv'
<1>0. TypeOK /\ ClientIndicesNamed /\ IstIndicesNamed
  BY DEF IInv
<1> USE <1>0 DEF IstOnly, IstGoTo, virtqVars, clientVars
<1>1. CASE IstAttach \/ IstUnmask \/ IstWake \/ IstAck
  <2> USE <1>1 DEF IstAttach, IstUnmask, IstWake, IstAck
  <2>1. TypeOK'
    BY ZenonT(60) DEF TypeOK, VirtqTypeOK, IstPCs
  <2>2. IstIndicesNamed'
    BY DEF IstIndicesNamed, TypeOK
  <2> QED BY <2>1, <2>2 DEF IInv, ClientIndicesNamed
<1>2. UsedHead \in Desc
  BY SlotDesc DEF UsedHead, TypeOK, VirtqTypeOK
<1>3. CASE IstDrain
  BY <1>2, <1>3, GetChainPreservesIInv DEF IstDrain
<1>4. CASE IstEarlyLoad
  <2> USE <1>4 DEF IstEarlyLoad
  <2>1. TypeOK'
    BY <1>2 DEF TypeOK, VirtqTypeOK, IstPCs, DescOrNone, Acquire
  <2>2. IstIndicesNamed'
    BY <1>2 DEF IstIndicesNamed, TypeOK
  <2> QED BY <2>1, <2>2 DEF IInv, ClientIndicesNamed
<1>5. CASE IstLateIdx
  BY <1>5, GetChainPreservesIInv DEF IstLateIdx, Release, IstIndicesNamed
<1>6. CASE IstPost
  <2> DEFINE x == desc[ist.idxs[0]].context
             b == desc[ist.idxs[1]].buf
             a == IF b \in Replies THEN b ELSE Reply("EOK", 0)
  <2>1. a \in Replies
    BY ValuesAssumption DEF Reply, Replies
  <2>2. x \in Clients \cup {NoContext}
    BY <1>6 DEF IstPost, IstIndicesNamed, TypeOK, DescTable
  <2>3. CASE x = NoContext
    <3>1. IstGoTo("crash") /\ UNCHANGED <<virtqVars, context, isr, clientVars, dev, reg, transport>>
      BY <1>6, <2>3 DEF IstPost
    <3> QED
      BY <3>1 DEF IInv, TypeOK, VirtqTypeOK, IstPCs, IstIndicesNamed, ClientIndicesNamed
  <2>4. CASE x # NoContext
    <3>1. /\ context' = [context EXCEPT ![x] = [sem |-> @.sem + 1, reply |-> a]]
          /\ IstGoTo("free0")
          /\ UNCHANGED <<virtqVars, isr, clientVars, dev, reg, transport>>
      BY <1>6, <2>4 DEF IstPost
    <3> HIDE DEF a, x
    <3>2. context' \in [Clients -> [sem : Nat, reply : Replies \cup {NoReply}]]
      BY <2>1, <2>2, <2>4, <3>1 DEF TypeOK
    <3>3. TypeOK'
      BY <3>1, <3>2 DEF TypeOK, VirtqTypeOK, IstPCs
    <3>4. IstIndicesNamed'
      BY <1>6, <3>1 DEF IstIndicesNamed, TypeOK, IstPost
    <3> QED BY <3>1, <3>3, <3>4 DEF IInv, ClientIndicesNamed
  <2> QED BY <2>3, <2>4
<1>7. CASE IstFree0
  <2> USE <1>7 DEF IstFree0
  <2>1. free_descs' \in Seq(Desc) /\ desc' \in DescTable
    BY FreeDescTypes DEF IstIndicesNamed
  <2>2. TypeOK'
    BY <2>1 DEF TypeOK, VirtqTypeOK, IstPCs, DescOrNone
  <2>3. IstIndicesNamed'
    BY DEF IstIndicesNamed, TypeOK
  <2> QED BY <2>2, <2>3 DEF IInv, ClientIndicesNamed
<1>8. CASE IstFree1
  <2> USE <1>8 DEF IstFree1
  <2>1. free_descs' \in Seq(Desc) /\ desc' \in DescTable
    BY FreeDescTypes DEF IstIndicesNamed
  <2>2. TypeOK'
    BY <2>1 DEF TypeOK, VirtqTypeOK, IstPCs, NoDescs, Pair, DescOrNone
  <2>3. IstIndicesNamed'
    BY DEF IstIndicesNamed, TypeOK
  <2> QED BY <2>2, <2>3 DEF IInv, ClientIndicesNamed
<1> QED BY <1>1, <1>3, <1>4, <1>5, <1>6, <1>7, <1>8 DEF Ist

LEMMA DevicePreservesIInv == ASSUME IInv, Device PROVE IInv'
<1>0. TypeOK /\ ClientIndicesNamed /\ IstIndicesNamed
  BY DEF IInv
<1> USE <1>0 DEF DevOnly, clientVars
<1>1. ClientIndicesNamed' /\ IstIndicesNamed'
  BY DEF Device, DevPop, DevIdle, DevRaise, DevComplete, ClientIndicesNamed, IstIndicesNamed
<1>2. CASE DevPop
  <2>1. avail.ring[Slot(dev.last)] \in Desc /\ Inc(dev.last) \in Idx
    BY SlotDesc, IncIdx DEF TypeOK, VirtqTypeOK
  <2>2. TypeOK'
    BY <1>2, <2>1 DEF DevPop, TypeOK, VirtqTypeOK
  <2> QED BY <1>1, <2>2 DEF IInv
<1>3. CASE DevIdle \/ DevRaise
  BY <1>1, <1>3 DEF DevIdle, DevRaise, IInv, TypeOK, VirtqTypeOK
<1>4. ASSUME NEW h \in Desc, DevComplete(h) PROVE IInv'
  <2>1. PICK reply \in Replies :
          /\ Execute(desc[h].buf, reply)
          /\ desc' = [desc EXCEPT ![desc[h].next].buf = reply]
    BY <1>4 DEF DevComplete
  <2>2. desc' \in DescTable
    <3>1. desc \in DescTable /\ desc[h].next \in Desc /\ reply \in Buffers
      BY DEF TypeOK, DescTable, Buffers
    <3> QED BY <2>1, <3>1, WrittenTypes
  <2>3. reg' \in [Regs -> Values]
    BY <1>4, <2>1, ValuesAssumption
    DEF DevComplete, Execute, TypeOK, Requests, Read, Write
  <2>4. used' \in [idx : Idx, ring : [Desc -> Desc]]
    BY <1>4, IncIdx, SlotDesc DEF DevComplete, TypeOK, VirtqTypeOK
  <2>5. TypeOK'
    BY <1>4, <2>2, <2>3, <2>4 DEF DevComplete, TypeOK, VirtqTypeOK
  <2> QED BY <1>1, <2>5 DEF IInv
<1> QED BY <1>2, <1>3, <1>4 DEF Device

\* No step of a caller, of the interrupt thread or of the device breaks it.
LEMMA NextPreservesIInv == ASSUME IInv, [Next]_vars PROVE IInv'
<1>1. CASE UNCHANGED vars
  BY <1>1 DEF IInv, TypeOK, VirtqTypeOK, ClientIndicesNamed, IstIndicesNamed,
              vars, virtqVars, clientVars
<1> QED
  BY <1>1, ClientPreservesIInv, IstPreservesIInv, DevicePreservesIInv DEF Next

\* The invariant holds throughout: no step of a caller, of the interrupt
\* thread or of the device, under any fault of AllFaults, leaves the bounds of
\* the table and of the rings or uses an index that names no descriptor.
THEOREM IInvHolds == Spec => []IInv
BY InitEstablishesIInv, NextPreservesIInv, PTL DEF Spec

\* Every variable keeps its type.
THEOREM TypeCorrect == Spec => []TypeOK
BY IInvHolds, PTL DEF IInv

-----------------------------------------------------------------------------
\* Entries in the available ring never wait for a device nobody will notify:
\* the caller notifies after its index update, and the device clears its
\* notification only when it has seen the ring empty.
THEOREM NoLostKickHolds == Spec => []NoLostKick
<1>1. Init => NoLostKick
  BY DEF Init, VirtqInit, NoLostKick
<1>2. TypeOK /\ NoLostKick /\ [Next]_vars => NoLostKick'
  <2> SUFFICES ASSUME TypeOK, NoLostKick, [Next]_vars PROVE NoLostKick'
    OBVIOUS
  <2>1. CASE UNCHANGED vars
    BY <2>1 DEF NoLostKick, vars, virtqVars, clientVars
  <2>2. ASSUME NEW c \in Clients, Publish(c) PROVE NoLostKick'
    BY <2>2 DEF Publish, GoTo, NoLostKick, TypeOK
  <2>3. ASSUME NEW c \in Clients, Notify(c) PROVE NoLostKick'
    BY <2>3 DEF Notify, NoLostKick, TypeOK
  <2>4. ASSUME NEW c \in Clients,
               \/ Alloc0(c) \/ PutBack0(c) \/ Alloc1(c) \/ PutBack1(c) \/ Free0(c)
               \/ Put(c) \/ Wait(c) \/ Interrupted(c) \/ \E q \in Requests : Begin(c, q)
        PROVE NoLostKick'
    <3>1. pc[c] # "notify" /\ avail'.idx = avail.idx /\ dev' = dev
      BY <2>4 DEF Alloc0, PutBack0, Alloc1, PutBack1, Free0, Put, Wait, Interrupted,
                  Begin, ClientOnly, PutRing, virtqVars, TypeOK, VirtqTypeOK
    <3>2. \A x \in Clients \ {c} : pc'[x] = pc[x]
      BY <2>4 DEF Alloc0, PutBack0, Alloc1, PutBack1, Free0, Put, Wait, Interrupted,
                  Begin, GoTo, Finish, NoSemaphore, Takes, TakesUnmapped, TypeOK
    <3> QED BY <3>1, <3>2 DEF NoLostKick
  <2>5. CASE Ist
    BY <2>5 DEF Ist, IstAttach, IstUnmask, IstWake, IstAck, IstDrain, IstEarlyLoad,
                IstLateIdx, GetChain, IstPost, IstFree0, IstFree1, IstOnly, virtqVars,
                clientVars, NoLostKick
  <2>6. CASE Device
    BY <2>6 DEF Device, DevPop, DevIdle, DevRaise, DevComplete, DevOnly, clientVars,
                NoLostKick, TypeOK
  <2> QED BY <2>1, <2>2, <2>3, <2>4, <2>5, <2>6 DEF Next, Client
<1> QED BY <1>1, <1>2, TypeCorrect, PTL DEF Spec
=============================================================================
