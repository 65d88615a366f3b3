---------------------------- MODULE FifoProofs ----------------------------
(* Proofs about Fifo for any threads, elements and capacity: its           *)
(* invariants, and that it implements BoundedFifo.                         *)
EXTENDS Fifo, SequenceTheorems, TLAPS

\* An index stays in the array when it is advanced: it goes up by one, or from
\* the last slot back to the first (fifo.c:114, fifo.c:142).
LEMMA Next1Wraps ==
  ASSUME NEW i \in Slots
  PROVE  /\ Next1(i) \in Slots
         /\ Next1(i) = Wrap(i + 1)
<1>1. CASE i + 1 < Capacity
  BY <1>1, CapacityAssumption DEF Next1, Slots, Wrap
<1>2. CASE i + 1 = Capacity
  BY <1>2, CapacityAssumption DEF Next1, Slots, Wrap
<1> QED BY <1>1, <1>2, CapacityAssumption DEF Slots

-----------------------------------------------------------------------------
(* The inductive invariant.  MutualExclusion needs nothing else; RingShape *)
(* needs it, so that no second call moves the fields, and StillRoom, so    *)
(* that an index update meets a ring with room or an element.              *)
IInv == TypeOK /\ MutualExclusion /\ RingShape /\ StillRoom

LEMMA InitEstablishesIInv == Init => IInv
<1> SUFFICES ASSUME Init PROVE IInv
  OBVIOUS
<1> USE CapacityAssumption, ThreadsAssumption DEF Init
<1>1. TypeOK
  BY DEF TypeOK, Slots, Inside
<1>2. MutualExclusion
  BY DEF MutualExclusion, Inside
<1>3. RingShape
  BY DEF RingShape, Wrap, Lagging
<1>4. StillRoom
  BY DEF StillRoom
<1> QED BY <1>1, <1>2, <1>3, <1>4 DEF IInv

\* Who is inside: at most the thread that makes the step.
LEMMA OnlyOneInside ==
  ASSUME MutualExclusion, NEW t \in Threads, pc[t] \in Inside,
         NEW u \in Threads, u # t
  PROVE  pc[u] \notin Inside
BY ThreadsAssumption DEF MutualExclusion

\* Outside the count update nobody lags; there, only the thread that is in it.
LEMMA LaggingIsOne ==
  ASSUME MutualExclusion, NEW t \in Threads, pc[t] \in Inside, NEW op
  PROVE  Lagging(op) <=> pc[t] = "recount" /\ call[t].op = op
BY OnlyOneInside DEF Lagging, Inside

LEMMA StepPreservesIInv == IInv /\ [Next]_vars => IInv'
<1> SUFFICES ASSUME IInv, [Next]_vars PROVE IInv'
  OBVIOUS
<1> USE CapacityAssumption, ThreadsAssumption
<1>0. TypeOK /\ MutualExclusion /\ RingShape /\ StillRoom
  BY DEF IInv
<1>1. CASE UNCHANGED vars
  BY <1>0, <1>1 DEF IInv, TypeOK, MutualExclusion, RingShape, StillRoom, Lagging,
                    Refused, fifo_full, fifo_empty, vars, ring
<1>2. ASSUME NEW t \in Threads, Start(t) PROVE IInv'
  <2> USE <1>0, <1>2 DEF Start, GoTo, ring
  <2>1. TypeOK'
    BY DEF TypeOK
  <2>2. MutualExclusion'
    BY DEF MutualExclusion, TypeOK, Inside
  <2>3. RingShape'
    <3>1. \A op : Lagging(op)' <=> Lagging(op)
      BY DEF Lagging, TypeOK
    <3> QED BY <3>1 DEF RingShape
  <2>4. StillRoom'
    BY DEF StillRoom, Refused, fifo_full, fifo_empty, TypeOK
  <2> QED BY <2>1, <2>2, <2>3, <2>4 DEF IInv
<1>3. ASSUME NEW t \in Threads, Lock(t) PROVE IInv'
  <2> USE <1>0, <1>3 DEF Lock, GoTo, ring
  <2>1. TypeOK'
    BY DEF TypeOK, Inside
  <2>2. MutualExclusion'
    BY DEF MutualExclusion, TypeOK, Inside
  <2>3. RingShape'
    <3>1. \A op : Lagging(op)' <=> Lagging(op)
      BY DEF Lagging, TypeOK
    <3> QED BY <3>1 DEF RingShape
  <2>4. StillRoom'
    BY DEF StillRoom, Refused, fifo_full, fifo_empty, TypeOK
  <2> QED BY <2>1, <2>2, <2>3, <2>4 DEF IInv
<1>4. ASSUME NEW t \in Threads, Check(t) PROVE IInv'
  <2> USE <1>0, <1>4 DEF Check, GoTo, ring
  <2>1. TypeOK'
    BY DEF TypeOK, Inside
  <2>2. MutualExclusion'
    BY DEF MutualExclusion, TypeOK, Inside
  <2>3. RingShape'
    <3>1. \A op : Lagging(op)' <=> Lagging(op)
      BY DEF Lagging, TypeOK
    <3> QED BY <3>1 DEF RingShape
  <2>4. StillRoom'
    BY DEF StillRoom, Refused, fifo_full, fifo_empty, TypeOK
  <2> QED BY <2>1, <2>2, <2>3, <2>4 DEF IInv
<1>5. ASSUME NEW t \in Threads, Copy(t) PROVE IInv'
  <2> USE <1>0, <1>5 DEF Copy, GoTo
  <2>1. TypeOK'
    BY DEF TypeOK, Inside
  <2>2. MutualExclusion'
    BY DEF MutualExclusion, TypeOK, Inside
  <2>3. RingShape'
    <3>1. \A op : Lagging(op)' <=> Lagging(op)
      BY DEF Lagging, TypeOK
    <3> QED BY <3>1 DEF RingShape
  <2>4. StillRoom'
    BY DEF StillRoom, Refused, fifo_full, fifo_empty, TypeOK
  <2> QED BY <2>1, <2>2, <2>3, <2>4 DEF IInv
<1>6. ASSUME NEW t \in Threads, Advance(t) PROVE IInv'
  <2> USE <1>0, <1>6 DEF Advance, GoTo
  <2>1. TypeOK'
    BY Next1Wraps DEF TypeOK, Inside
  <2>2. MutualExclusion'
    BY DEF MutualExclusion, TypeOK, Inside
  <2>3. RingShape'
    <3>1. pc[t] \in Inside /\ ~Lagging("put") /\ ~Lagging("get")
      BY LaggingIsOne DEF Inside
    <3>2. MutualExclusion' /\ pc'[t] = "recount" /\ call' = call
      BY <2>2 DEF TypeOK
    <3>3. \A op : Lagging(op)' <=> call[t].op = op
      BY <3>1, <3>2, OnlyOneInside DEF Lagging, TypeOK, Inside
    <3>4. tail = Wrap(head + count)
      BY <3>1 DEF RingShape
    <3>5. CASE call[t].op = "put"
      <4>1. count < Capacity
        BY <3>5 DEF StillRoom, Refused, fifo_full, TypeOK
      <4>2. tail' = Wrap(tail + 1) /\ head' = head /\ count' = count
        BY <3>5, Next1Wraps DEF TypeOK
      <4> QED BY <3>3, <3>4, <3>5, <4>1, <4>2 DEF RingShape, Wrap, TypeOK, Slots
    <3>6. CASE call[t].op = "get"
      <4>1. count > 0
        BY <3>6 DEF StillRoom, Refused, fifo_empty, TypeOK
      <4>2. head' = Wrap(head + 1) /\ tail' = tail /\ count' = count
        BY <3>6, Next1Wraps DEF TypeOK
      <4> QED BY <3>3, <3>4, <3>6, <4>1, <4>2 DEF RingShape, Wrap, TypeOK, Slots
    <3> QED BY <3>5, <3>6 DEF TypeOK
  <2>4. StillRoom'
    BY DEF StillRoom, Refused, fifo_full, fifo_empty, TypeOK
  <2> QED BY <2>1, <2>2, <2>3, <2>4 DEF IInv
<1>7. ASSUME NEW t \in Threads, Recount(t) PROVE IInv'
  <2> USE <1>0, <1>7 DEF Recount, GoTo
  <2>1. ~Refused(t)
    BY DEF StillRoom
  <2>2. TypeOK'
    BY <2>1 DEF TypeOK, Inside, Refused, fifo_full, fifo_empty
  <2>3. MutualExclusion'
    BY DEF MutualExclusion, TypeOK, Inside
  <2>4. RingShape'
    <3>1. pc[t] \in Inside /\ \A op : Lagging(op) <=> call[t].op = op
      BY LaggingIsOne DEF Inside
    <3>2. \A op : ~Lagging(op)'
      BY <3>1, OnlyOneInside DEF Lagging, TypeOK, Inside
    <3> QED BY <3>1, <3>2 DEF RingShape, TypeOK, Slots
  <2>5. StillRoom'
    BY OnlyOneInside DEF StillRoom, TypeOK, Inside
  <2> QED BY <2>2, <2>3, <2>4, <2>5 DEF IInv
<1>8. ASSUME NEW t \in Threads, Unlock(t) PROVE IInv'
  <2> USE <1>0, <1>8 DEF Unlock, GoTo, ring
  <2>1. TypeOK'
    BY DEF TypeOK
  <2>2. MutualExclusion'
    BY DEF MutualExclusion, TypeOK, Inside
  <2>3. RingShape'
    <3>1. \A op : Lagging(op)' <=> Lagging(op)
      BY DEF Lagging, TypeOK
    <3> QED BY <3>1 DEF RingShape
  <2>4. StillRoom'
    BY DEF StillRoom, Refused, fifo_full, fifo_empty, TypeOK
  <2> QED BY <2>1, <2>2, <2>3, <2>4 DEF IInv
<1> QED
  BY <1>1, <1>2, <1>3, <1>4, <1>5, <1>6, <1>7, <1>8 DEF Next, Step

\* The invariant holds throughout: the array is never indexed outside its
\* bounds, one call at a time is inside, the fields always agree.
THEOREM IInvHolds == Spec => []IInv
BY InitEstablishesIInv, StepPreservesIInv, PTL DEF Spec

\* No interleaving of fifo_put and fifo_get takes a field out of its range.
THEOREM TypeCorrect == Spec => []TypeOK
BY IInvHolds, PTL DEF IInv

\* The spin lock keeps the bodies of fifo_put and fifo_get apart.
THEOREM MutualExclusionHolds == Spec => []MutualExclusion
BY IInvHolds, PTL DEF IInv

\* The ring's tail is always its head plus its count, modulo the capacity.
THEOREM RingShapeHolds == Spec => []RingShape
BY IInvHolds, PTL DEF IInv

-----------------------------------------------------------------------------
(* The refinement.  First the ring as a sequence, for any n elements from  *)
(* any slot on.                                                            *)
Window(from, n, d) == [i \in 1 .. n |-> d[(from + i - 1) % Capacity]]

LEMMA WrapIsMod == \A m \in 0 .. 2 * Capacity - 1 : m % Capacity = Wrap(m)
<1> SUFFICES ASSUME NEW m \in 0 .. 2 * Capacity - 1 PROVE m % Capacity = Wrap(m)
  OBVIOUS
<1>1. CASE m < Capacity
  BY <1>1, CapacityAssumption DEF Wrap
<1>2. CASE m >= Capacity
  <2>1. (m - Capacity) % Capacity = m - Capacity
    BY <1>2, CapacityAssumption
  <2>2. m % Capacity = (m - Capacity) % Capacity
    BY <1>2, CapacityAssumption
  <2> QED BY <1>2, <2>1, <2>2, CapacityAssumption DEF Wrap
<1> QED BY <1>1, <1>2, CapacityAssumption

LEMMA WindowEntries ==
  ASSUME NEW from \in Slots, NEW n \in 0 .. Capacity, NEW d, NEW i \in 1 .. n
  PROVE  Window(from, n, d)[i] = d[Wrap(from + i - 1)]
<1>1. from + i - 1 \in 0 .. 2 * Capacity - 1
  BY CapacityAssumption DEF Slots
<1> QED BY <1>1, WrapIsMod DEF Window

LEMMA WindowIsSeq ==
  ASSUME NEW from \in Slots, NEW n \in 0 .. Capacity, NEW S, NEW d \in [Slots -> S]
  PROVE  Window(from, n, d) \in Seq(S) /\ Len(Window(from, n, d)) = n
<1>1. \A i \in 1 .. n : (from + i - 1) % Capacity \in Slots
  BY CapacityAssumption DEF Slots
<1>2. Window(from, n, d) \in [1 .. n -> S]
  BY <1>1 DEF Window
<1> QED BY <1>2, CapacityAssumption

\* A get takes the first element, ...
LEMMA WindowTail ==
  ASSUME NEW from \in Slots, NEW n \in 1 .. Capacity, NEW S, NEW d \in [Slots -> S]
  PROVE  /\ Window(from, n, d) # <<>> /\ Head(Window(from, n, d)) = d[from]
         /\ Tail(Window(from, n, d)) = Window(Next1(from), n - 1, d)
<1> DEFINE w == Window(from, n, d)
           v == Window(Next1(from), n - 1, d)
<1>1. Next1(from) \in Slots /\ Next1(from) = Wrap(from + 1)
  BY Next1Wraps
<1>2. w \in Seq(S) /\ Len(w) = n /\ v \in Seq(S) /\ Len(v) = n - 1
  BY <1>1, WindowIsSeq, CapacityAssumption
<1>3. w # <<>> /\ Tail(w) \in Seq(S) /\ Len(Tail(w)) = n - 1
  BY <1>2
<1>4. Head(w) = d[from]
  <2>1. Head(w) = w[1]
    BY <1>2, <1>3
  <2>2. w[1] = d[Wrap(from + 1 - 1)]
    BY WindowEntries, CapacityAssumption
  <2>3. Wrap(from + 1 - 1) = from
    BY CapacityAssumption DEF Wrap, Slots
  <2> QED BY <2>1, <2>2, <2>3
<1>5. ASSUME NEW i \in 1 .. n - 1 PROVE Tail(w)[i] = v[i]
  <2>1. Tail(w)[i] = w[i + 1]
    BY <1>2, <1>3
  <2>2. i + 1 \in 1 .. n /\ n - 1 \in 0 .. Capacity
    BY CapacityAssumption
  <2>3. w[i + 1] = d[Wrap(from + (i + 1) - 1)]
    BY <2>2, WindowEntries, CapacityAssumption
  <2>4. v[i] = d[Wrap(Wrap(from + 1) + i - 1)]
    BY <1>1, <2>2, WindowEntries
  <2>5. Wrap(Wrap(from + 1) + i - 1) = Wrap(from + (i + 1) - 1)
    BY CapacityAssumption DEF Wrap, Slots
  <2> QED BY <2>1, <2>3, <2>4, <2>5
<1> HIDE DEF w, v
<1>6. Tail(w) = v
  BY <1>2, <1>3, <1>5, SeqEqual
<1> QED BY <1>3, <1>4, <1>6 DEF w, v

\* ... and a put adds the one behind the last.
LEMMA WindowAppend ==
  ASSUME NEW from \in Slots, NEW n \in 0 .. Capacity - 1, NEW S, NEW d \in [Slots -> S]
  PROVE  Window(from, n + 1, d) = Append(Window(from, n, d), d[Wrap(from + n)])
<1> DEFINE w == Window(from, n, d)
           v == Window(from, n + 1, d)
           e == d[Wrap(from + n)]
<1>1. n \in 0 .. Capacity /\ n + 1 \in 0 .. Capacity /\ Wrap(from + n) \in Slots
  BY CapacityAssumption DEF Wrap, Slots
<1>2. w \in Seq(S) /\ Len(w) = n /\ v \in Seq(S) /\ Len(v) = n + 1 /\ e \in S
  BY <1>1, WindowIsSeq, CapacityAssumption
<1>3. Append(w, e) \in Seq(S) /\ Len(Append(w, e)) = n + 1
  BY <1>2
<1>4. ASSUME NEW i \in 1 .. n + 1 PROVE v[i] = Append(w, e)[i]
  <2>1. v[i] = d[Wrap(from + i - 1)]
    BY <1>1, WindowEntries
  <2>2. CASE i = n + 1
    <3>1. Append(w, e)[i] = e
      BY <1>2, <2>2
    <3>2. from + i - 1 = from + n
      BY <2>2 DEF Slots
    <3> QED BY <2>1, <3>1, <3>2
  <2>3. CASE i # n + 1
    <3>1. i \in 1 .. n
      BY <2>3
    <3>2. Append(w, e)[i] = w[i]
      BY <1>2, <3>1
    <3> QED BY <1>1, <2>1, <3>1, <3>2, WindowEntries
  <2> QED BY <2>2, <2>3
<1> HIDE DEF w, v, e
<1>5. v = Append(w, e)
  BY <1>2, <1>3, <1>4, SeqEqual
<1> QED BY <1>5 DEF w, v, e

\* What is written behind the last element is not seen.
LEMMA WindowOutside ==
  ASSUME NEW from \in Slots, NEW n \in 0 .. Capacity - 1, NEW d, NEW e,
         DOMAIN d = Slots
  PROVE  Window(from, n, [d EXCEPT ![Wrap(from + n)] = e]) = Window(from, n, d)
<1>1. ASSUME NEW i \in 1 .. n
      PROVE  (from + i - 1) % Capacity \in Slots \ {Wrap(from + n)}
  <2>1. from + i - 1 \in 0 .. 2 * Capacity - 1
    BY CapacityAssumption DEF Slots
  <2>2. (from + i - 1) % Capacity = Wrap(from + i - 1)
    BY <2>1, WrapIsMod
  <2>3. Wrap(from + i - 1) \in Slots /\ Wrap(from + i - 1) # Wrap(from + n)
    BY CapacityAssumption DEF Wrap, Slots
  <2> QED BY <2>2, <2>3
<1> QED BY <1>1 DEF Window

-----------------------------------------------------------------------------
(* The elements in hand: a put that has copied its element finds it where  *)
(* the tail was until it is counted.                                       *)
InPlace ==
  \A t \in Threads : call[t].op = "put" =>
    /\ pc[t] = "advance" => data[tail] = call[t].elem
    /\ pc[t] = "recount" => data[Wrap(head + count)] = call[t].elem

\* The thread that is inside decides what Taken, First and the tail are.
LEMMA InsideKnown ==
  ASSUME IInv, NEW t \in Threads, pc[t] \in Inside
  PROVE  /\ Taken = IF pc[t] \in {"advance", "recount"} /\ call[t].op = "get" THEN 1 ELSE 0
         /\ First = IF pc[t] = "advance" /\ call[t].op = "get" THEN Next1(head) ELSE head
         /\ pc[t] # "recount" => tail = Wrap(head + count)
         /\ pc[t] = "recount" /\ call[t].op = "put" => tail = Wrap(head + count + 1)
<1>1. \A op : Lagging(op) <=> pc[t] = "recount" /\ call[t].op = op
  BY LaggingIsOne DEF IInv
<1>2. Taken = IF pc[t] \in {"advance", "recount"} /\ call[t].op = "get" THEN 1 ELSE 0
  BY OnlyOneInside DEF Taken, IInv, Inside
<1>3. head \in Slots /\ Wrap(head + 0) = head /\ Next1(head) = Wrap(head + 1)
  BY Next1Wraps, CapacityAssumption DEF IInv, TypeOK, Wrap, Slots
<1>4. First = IF pc[t] = "advance" /\ call[t].op = "get" THEN Next1(head) ELSE head
  BY <1>1, <1>2, <1>3 DEF First
<1> QED BY <1>1, <1>2, <1>4 DEF IInv, RingShape

\* While nobody is inside, nothing is on its way.
LEMMA NobodyInside ==
  ASSUME IInv, lock = Unlocked
  PROVE  Taken = 0 /\ First = head /\ \A t \in Threads : pc[t] \notin Inside
<1>1. \A t \in Threads : pc[t] \notin Inside
  BY ThreadsAssumption DEF IInv, MutualExclusion
<1>2. Taken = 0 /\ ~Lagging("get")
  BY <1>1 DEF Taken, Lagging, Inside
<1>3. Wrap(head + 0) = head
  BY CapacityAssumption DEF IInv, TypeOK, Wrap, Slots
<1> QED BY <1>1, <1>2, <1>3 DEF First

LEMMA StepKeepsInPlace ==
  ASSUME IInv, InPlace, Next PROVE InPlace'
<1> USE DEF IInv, TypeOK
<1>1. ASSUME NEW t \in Threads, Start(t) \/ Lock(t) \/ Check(t) \/ Unlock(t) PROVE InPlace'
  BY <1>1 DEF InPlace, Start, Lock, Check, Unlock, GoTo, ring
<1>2. ASSUME NEW t \in Threads, Copy(t) PROVE InPlace'
  <2>1. pc[t] \in Inside /\ pc[t] = "copy"
    BY <1>2 DEF Copy, Inside
  <2>2. \A u \in Threads : u # t => pc'[u] \notin {"advance", "recount"}
    BY <1>2, <2>1, OnlyOneInside DEF Copy, GoTo, Inside
  <2>3. call[t].op = "put" => data'[tail'] = call'[t].elem
    BY <1>2 DEF Copy
  <2>4. pc'[t] = "advance" /\ call'[t].op = call[t].op
    BY <1>2 DEF Copy, GoTo
  <2> QED BY <2>2, <2>3, <2>4 DEF InPlace
<1>3. ASSUME NEW t \in Threads, Advance(t) PROVE InPlace'
  <2>1. pc[t] \in Inside /\ pc[t] = "advance"
    BY <1>3 DEF Advance, Inside
  <2>2. \A u \in Threads : u # t => pc'[u] \notin {"advance", "recount"}
    BY <1>3, <2>1, OnlyOneInside DEF Advance, GoTo, Inside
  <2>3. tail = Wrap(head + count)
    BY <2>1, InsideKnown
  <2>4. pc'[t] = "recount" /\ UNCHANGED <<data, call, count>>
        /\ (call[t].op = "put" => head' = head)
    BY <1>3 DEF Advance, GoTo
  <2> QED BY <2>1, <2>2, <2>3, <2>4 DEF InPlace
<1>4. ASSUME NEW t \in Threads, Recount(t) PROVE InPlace'
  <2>1. pc[t] \in Inside /\ pc'[t] = "unlock"
    BY <1>4 DEF Recount, GoTo, Inside
  <2>2. \A u \in Threads : u # t => pc'[u] \notin {"advance", "recount"}
    BY <1>4, <2>1, OnlyOneInside DEF Recount, GoTo, Inside
  <2> QED BY <2>1, <2>2 DEF InPlace
<1> QED BY <1>1, <1>2, <1>3, <1>4 DEF Next, Step

-----------------------------------------------------------------------------
(* Every step is one of the queue's, or none.                              *)
Calls == [t \in Threads |-> [state |-> CallState(t), op |-> call[t].op,
                             elem |-> call[t].elem, rc |-> call[t].rc]]

LEMMA ContentsAreWindow == Contents = Window(First, count - Taken, data)
BY DEF Contents, Window

\* A step of one thread is seen in its call alone.
LEMMA OneCallMoves ==
  ASSUME TypeOK, NEW t \in Threads, NEW l, GoTo(t, l), DOMAIN call' = Threads,
         \A u \in Threads \ {t} : call'[u] = call[u]
  PROVE  /\ pc'[t] = l /\ \A u \in Threads \ {t} : pc'[u] = pc[u]
         /\ Calls' = [Calls EXCEPT ![t] =
                        [state |-> CallState(t)', op |-> call'[t].op,
                         elem |-> call'[t].elem, rc |-> call'[t].rc]]
<1>1. pc'[t] = l /\ \A u \in Threads \ {t} : pc'[u] = pc[u]
  BY DEF GoTo, TypeOK
<1>2. \A u \in Threads \ {t} : CallState(u)' = CallState(u) /\ call'[u] = call[u]
  BY <1>1 DEF CallState
<1> QED BY <1>1, <1>2 DEF Calls

\* What Taken and First are after a step of the thread that is inside.
LEMMA AfterStep ==
  ASSUME IInv, NEW t \in Threads, pc[t] \in Inside, NEW l, GoTo(t, l),
         \A u \in Threads \ {t} : call'[u] = call[u], head' \in Slots
  PROVE  /\ Taken' = IF l \in {"advance", "recount"} /\ call'[t].op = "get" THEN 1 ELSE 0
         /\ First' = IF l = "advance" /\ call'[t].op = "get" THEN Next1(head') ELSE head'
<1>1. pc'[t] = l /\ \A u \in Threads \ {t} : pc'[u] = pc[u] /\ pc'[u] \notin Inside
  BY OnlyOneInside DEF GoTo, IInv, TypeOK
<1>2. Taken' = IF l \in {"advance", "recount"} /\ call'[t].op = "get" THEN 1 ELSE 0
  BY <1>1 DEF Taken, Inside
<1>3. Lagging("get")' <=> l = "recount" /\ call'[t].op = "get"
  BY <1>1 DEF Lagging, Inside
<1>4. \A h \in Slots : Wrap(h + 0) = h /\ Next1(h) = Wrap(h + 1)
  BY Next1Wraps, CapacityAssumption DEF Wrap, Slots
<1> QED BY <1>2, <1>3, <1>4 DEF First

\* A step of a thread that holds no lock moves nothing.
LEMMA OutsideStep ==
  ASSUME IInv, NEW t \in Threads, Start(t) \/ Lock(t)
  PROVE  Contents' = Contents
<1>1. /\ UNCHANGED ring /\ DOMAIN pc' = Threads
      /\ pc[t] \notin {"advance", "recount"} /\ pc'[t] \notin {"advance", "recount"}
      /\ \A u \in Threads \ {t} : pc'[u] = pc[u] /\ call'[u] = call[u]
  BY DEF Start, Lock, GoTo, IInv, TypeOK
<1>2. Taken' = Taken /\ Lagging("get")' = Lagging("get")
  BY <1>1 DEF Taken, Lagging
<1> QED BY <1>1, <1>2 DEF Contents, First, ring

LEMMA StepIsQueueStep ==
  ASSUME IInv, InPlace, NEW t \in Threads, Step(t)
  PROVE  [Queue!FifoNext]_Queue!fifoVars
<1> USE DEF Queue!fifoVars
<1>0. TypeOK
  BY DEF IInv
<1>1. SUFFICES \/ Queue!FifoNext
               \/ Contents' = Contents /\ Calls' = Calls
  BY DEF Calls
<1>2. CASE Start(t)
  <2>1. Contents' = Contents
    BY <1>2, OutsideStep
  <2>2. /\ pc[t] = "idle" /\ GoTo(t, "lock") /\ DOMAIN call' = Threads
        /\ \A u \in Threads \ {t} : call'[u] = call[u]
        /\ \/ \E e \in Elems : call'[t] = [op |-> "put", elem |-> e, rc |-> "EOK"]
           \/ call'[t] = [op |-> "get", elem |-> NoElem, rc |-> "EOK"]
    BY <1>0, <1>2 DEF Start, TypeOK
  <2>3. CallState(t) = "idle" /\ CallState(t)' = "pending"
    BY <1>0, <2>2, OneCallMoves DEF CallState
  <2>4. Calls[t].state = "idle"
    BY <2>3 DEF Calls
  <2>5. \/ \E e \in Elems : Calls' = [Calls EXCEPT ![t] = Queue!Call("pending", "put", e, "EOK")]
        \/ Calls' = [Calls EXCEPT ![t] = Queue!Call("pending", "get", NoElem, "EOK")]
    BY <1>0, <2>2, <2>3, OneCallMoves DEF Queue!Call
  <2>6. Queue!Start(t)
    BY <2>1, <2>4, <2>5 DEF Queue!Start, Calls
  <2> QED BY <2>6 DEF Queue!FifoNext
<1>3. CASE Lock(t)
  <2>1. Contents' = Contents
    BY <1>3, OutsideStep
  <2>2. pc[t] = "lock" /\ GoTo(t, "check") /\ call' = call
    BY <1>3 DEF Lock
  <2>3. \A u \in Threads : CallState(u)' = CallState(u)
    BY <1>0, <2>2 DEF CallState, GoTo, TypeOK
  <2> QED BY <2>1, <2>2, <2>3 DEF Calls
<1>4. CASE Check(t)
  <2>1. /\ pc[t] = "check" /\ pc[t] \in Inside /\ UNCHANGED ring
        /\ DOMAIN call' = Threads /\ \A u \in Threads \ {t} : call'[u] = call[u]
    BY <1>0, <1>4 DEF Check, TypeOK, Inside
  <2>2. /\ Taken = 0 /\ First = head /\ head \in Slots
        /\ count \in 0 .. Capacity /\ data \in [Slots -> Elems \cup {NoElem}]
    BY <1>0, <2>1, InsideKnown DEF TypeOK
  <2>3. Contents = Window(head, count, data) /\ Len(Contents) = count
        /\ Contents \in Seq(Elems \cup {NoElem})
    BY <2>2, ContentsAreWindow, WindowIsSeq
  <2>4. CASE ~Refused(t)
    <3>1. GoTo(t, "copy") /\ call' = call
      BY <1>4, <2>4 DEF Check
    <3>2. Taken' = 0 /\ First' = head
      BY <2>1, <2>2, <3>1, AfterStep DEF ring
    <3>3. Contents' = Contents
      BY <2>1, <2>2, <3>2 DEF Contents, ring
    <3>4. \A u \in Threads : CallState(u)' = CallState(u)
      BY <1>0, <2>1, <3>1 DEF CallState, GoTo, TypeOK
    <3> QED BY <3>1, <3>3, <3>4 DEF Calls
  <2>5. CASE Refused(t)
    <3>1. /\ GoTo(t, "unlock")
          /\ call' = [call EXCEPT ![t].rc = IF call[t].op = "put" THEN "ENOMEM" ELSE "ENOENT"]
      BY <1>4, <2>5 DEF Check
    <3>2. Taken' = 0 /\ First' = head
      BY <2>1, <2>2, <3>1, AfterStep DEF ring
    <3>3. Contents' = Contents
      BY <2>1, <2>2, <3>2 DEF Contents, ring
    <3>4. CallState(t) = "pending" /\ CallState(t)' = "done"
      BY <1>0, <2>1, <3>1, OneCallMoves DEF CallState
    <3>5. Calls' = [Calls EXCEPT ![t].state = "done",
                                 ![t].rc = IF call[t].op = "put" THEN "ENOMEM" ELSE "ENOENT"]
      <4>1. /\ call'[t].op = call[t].op /\ call'[t].elem = call[t].elem
            /\ call'[t].rc = IF call[t].op = "put" THEN "ENOMEM" ELSE "ENOENT"
        BY <1>0, <3>1 DEF TypeOK
      <4>2. Calls' = [Calls EXCEPT ![t] =
                        [state |-> "done", op |-> call[t].op, elem |-> call[t].elem,
                         rc |-> IF call[t].op = "put" THEN "ENOMEM" ELSE "ENOENT"]]
        BY <1>0, <2>1, <3>1, <3>4, <4>1, OneCallMoves
      <4> QED BY <4>2 DEF Calls
    <3>6. Calls[t].state = "pending" /\ Calls[t].op = call[t].op /\ call[t].op \in {"put", "get"}
      BY <1>0, <3>4 DEF Calls, TypeOK
    <3>7. CASE call[t].op = "put"
      <4>1. ~(Len(Contents) < Capacity)
        BY <2>3, <2>5, <3>7, CapacityAssumption DEF Refused, fifo_full
      <4>2. Queue!Put(t)
        BY <3>3, <3>5, <3>6, <3>7, <4>1 DEF Queue!Put, Calls
      <4> QED BY <4>2 DEF Queue!FifoNext
    <3>8. CASE call[t].op = "get"
      <4>1. Contents = <<>>
        BY <2>3, <2>5, <3>8 DEF Refused, fifo_empty
      <4>2. Queue!Get(t)
        BY <3>3, <3>5, <3>6, <3>8, <4>1 DEF Queue!Get, Calls
      <4> QED BY <4>2 DEF Queue!FifoNext
    <3> QED BY <3>6, <3>7, <3>8
  <2> QED BY <2>4, <2>5
<1>5. CASE Copy(t)
  <2>1. /\ pc[t] = "copy" /\ pc[t] \in Inside /\ UNCHANGED <<head, tail, count>>
        /\ GoTo(t, "advance") /\ ~Refused(t)
        /\ DOMAIN call' = Threads /\ \A u \in Threads \ {t} : call'[u] = call[u]
    BY <1>0, <1>5 DEF Copy, TypeOK, Inside, IInv, StillRoom
  <2>2. /\ Taken = 0 /\ First = head /\ head \in Slots /\ tail = Wrap(head + count)
        /\ count \in 0 .. Capacity /\ data \in [Slots -> Elems \cup {NoElem}]
    BY <1>0, <2>1, InsideKnown DEF TypeOK
  <2>3. Contents = Window(head, count, data)
    BY <2>2, ContentsAreWindow
  <2>4. CASE call[t].op = "put"
    <3>1. data' = [data EXCEPT ![tail] = call[t].elem] /\ call' = call /\ count \in 0 .. Capacity - 1
      BY <1>5, <2>1, <2>2, <2>4, CapacityAssumption DEF Copy, Refused, fifo_full
    <3>2. Taken' = 0 /\ First' = head
      BY <2>1, <2>2, <2>4, <3>1, AfterStep
    <3>3. Contents' = Window(head, count, data')
      BY <2>1, <2>2, <3>2 DEF Contents, Window
    <3>4. Contents' = Contents
      BY <2>2, <2>3, <3>1, <3>3, WindowOutside
    <3>5. \A u \in Threads : CallState(u)' = CallState(u)
      BY <1>0, <2>1, <2>4, <3>1 DEF CallState, GoTo, TypeOK
    <3> QED BY <3>1, <3>4, <3>5 DEF Calls
  <2>5. CASE call[t].op = "get"
    <3>1. call' = [call EXCEPT ![t].elem = data[head]] /\ data' = data /\ count \in 1 .. Capacity
      BY <1>5, <2>1, <2>2, <2>5, CapacityAssumption DEF Copy, Refused, fifo_empty
    <3>2. call'[t].op = "get"
      BY <1>0, <2>5, <3>1 DEF TypeOK
    <3>3. Taken' = 1 /\ First' = Next1(head)
      BY <2>1, <2>2, <3>2, AfterStep
    <3>4. Contents' = Window(Next1(head), count - 1, data)
      BY <2>1, <3>1, <3>3 DEF Contents, Window
    <3>5. Contents # <<>> /\ Head(Contents) = data[head] /\ Contents' = Tail(Contents)
      BY <2>2, <2>3, <3>1, <3>4, WindowTail
    <3>6. CallState(t) = "pending" /\ CallState(t)' = "done"
      BY <1>0, <2>1, <2>5, <3>2, OneCallMoves DEF CallState
    <3>7. Calls' = [Calls EXCEPT ![t].state = "done", ![t].elem = data[head]]
      <4>1. /\ call'[t].op = call[t].op /\ call'[t].elem = data[head]
            /\ call'[t].rc = call[t].rc
        BY <1>0, <3>1 DEF TypeOK
      <4>2. Calls' = [Calls EXCEPT ![t] =
                        [state |-> "done", op |-> call[t].op, elem |-> data[head],
                         rc |-> call[t].rc]]
        BY <1>0, <2>1, <3>1, <3>6, <4>1, OneCallMoves
      <4> QED BY <4>2 DEF Calls
    <3>8. Calls[t].state = "pending" /\ Calls[t].op = "get"
      BY <2>5, <3>6 DEF Calls
    <3>9. Queue!Get(t)
      BY <3>5, <3>7, <3>8 DEF Queue!Get, Calls
    <3> QED BY <3>9 DEF Queue!FifoNext
  <2> QED BY <1>0, <2>4, <2>5 DEF TypeOK
<1>6. CASE Advance(t)
  <2>1. /\ pc[t] = "advance" /\ pc[t] \in Inside /\ UNCHANGED <<count, data, call>>
        /\ GoTo(t, "recount")
        /\ head' = (IF call[t].op = "put" THEN head ELSE Next1(head))
    BY <1>6 DEF Advance, Inside
  <2>2. /\ Taken = (IF call[t].op = "get" THEN 1 ELSE 0)
        /\ First = (IF call[t].op = "get" THEN Next1(head) ELSE head)
        /\ head \in Slots /\ call[t].op \in {"put", "get"}
    BY <1>0, <2>1, InsideKnown DEF TypeOK
  <2>3. head' = First /\ head' \in Slots
    BY <2>1, <2>2, Next1Wraps
  <2>4. Taken' = Taken /\ First' = First
    BY <2>1, <2>2, <2>3, AfterStep
  <2>5. \A u \in Threads : CallState(u)' = CallState(u)
    BY <1>0, <2>1 DEF CallState, GoTo, TypeOK
  <2> QED BY <2>1, <2>4, <2>5 DEF Contents, Calls
<1>7. CASE Recount(t)
  <2>1. /\ pc[t] = "recount" /\ pc[t] \in Inside /\ UNCHANGED <<head, tail, data, call>>
        /\ GoTo(t, "unlock") /\ ~Refused(t)
        /\ count' = IF call[t].op = "put" THEN count + 1 ELSE count - 1
    BY <1>7 DEF Recount, Inside, IInv, StillRoom
  <2>2. /\ Taken = (IF call[t].op = "get" THEN 1 ELSE 0) /\ First = head
        /\ head \in Slots /\ call[t].op \in {"put", "get"}
        /\ count \in 0 .. Capacity /\ data \in [Slots -> Elems \cup {NoElem}]
    BY <1>0, <2>1, InsideKnown DEF TypeOK
  <2>3. Taken' = 0 /\ First' = head
    BY <2>1, <2>2, AfterStep
  <2>4. CASE call[t].op = "get"
    <3>1. count' - Taken' = count - Taken
      BY <2>1, <2>2, <2>3, <2>4
    <3>2. Contents' = Contents
      BY <2>1, <2>2, <2>3, <3>1 DEF Contents
    <3>3. \A u \in Threads : CallState(u)' = CallState(u)
      BY <1>0, <2>1, <2>4 DEF CallState, GoTo, TypeOK
    <3> QED BY <2>1, <3>2, <3>3 DEF Calls
  <2>5. CASE call[t].op = "put"
    <3>1. count \in 0 .. Capacity - 1 /\ count' = count + 1
      BY <2>1, <2>2, <2>5, CapacityAssumption DEF Refused, fifo_full
    <3>2. Contents = Window(head, count, data) /\ Contents' = Window(head, count + 1, data)
      BY <2>1, <2>2, <2>3, <2>5, <3>1 DEF Contents, Window
    <3>3. Len(Contents) = count
      BY <2>2, <3>2, WindowIsSeq
    <3>4. data[Wrap(head + count)] = call[t].elem
      BY <2>1, <2>5 DEF InPlace
    <3>5. Contents' = Append(Contents, call[t].elem)
      BY <2>2, <3>1, <3>2, <3>4, WindowAppend
    <3>6. CallState(t) = "pending" /\ CallState(t)' = "done"
      BY <1>0, <2>1, <2>5, OneCallMoves DEF CallState, TypeOK
    <3>7. Calls' = [Calls EXCEPT ![t].state = "done"]
      BY <1>0, <2>1, <3>6, OneCallMoves DEF Calls, TypeOK
    <3>8. Calls[t].state = "pending" /\ Calls[t].op = "put" /\ Calls[t].elem = call[t].elem
      BY <2>5, <3>6 DEF Calls
    <3>9. Len(Contents) < Capacity
      BY <3>1, <3>3, CapacityAssumption
    <3>10. Queue!Put(t)
      BY <3>5, <3>7, <3>8, <3>9 DEF Queue!Put, Calls
    <3> QED BY <3>10 DEF Queue!FifoNext
  <2> QED BY <2>2, <2>4, <2>5
<1>8. CASE Unlock(t)
  <2>1. /\ pc[t] = "unlock" /\ pc[t] \in Inside /\ UNCHANGED <<ring, call>> /\ GoTo(t, "idle")
    BY <1>8 DEF Unlock, Inside
  <2>2. Taken = 0 /\ First = head /\ head \in Slots
    BY <1>0, <2>1, InsideKnown DEF TypeOK
  <2>3. Taken' = 0 /\ First' = head
    BY <2>1, <2>2, AfterStep DEF ring
  <2>4. Contents' = Contents
    BY <2>1, <2>2, <2>3 DEF Contents, ring
  <2>5. CallState(t) = "done" /\ CallState(t)' = "idle"
    BY <1>0, <2>1, OneCallMoves DEF CallState, TypeOK
  <2>6. Calls' = [Calls EXCEPT ![t].state = "idle"] /\ Calls[t].state = "done"
    BY <1>0, <2>1, <2>5, OneCallMoves DEF Calls, TypeOK
  <2>7. Queue!Finish(t)
    BY <2>4, <2>6 DEF Queue!Finish, Calls
  <2> QED BY <2>7 DEF Queue!FifoNext
<1> QED BY <1>2, <1>3, <1>4, <1>5, <1>6, <1>7, <1>8 DEF Step

\* Concurrent calls of fifo_put and fifo_get are single steps on a bounded queue,
\* which is what the descriptor free list of virtq.c is built on.
THEOREM BoundedFifoImplemented == Spec => ImplementsBoundedFifo
<1>1. Init => InPlace /\ Queue!FifoInit
  <2> SUFFICES ASSUME Init PROVE InPlace /\ Queue!FifoInit
    OBVIOUS
  <2>1. InPlace
    BY DEF Init, InPlace
  <2>2. Taken = 0 /\ count = 0
    BY DEF Init, Taken
  <2>3. Contents = <<>>
    BY <2>2 DEF Contents
  <2>4. Calls = [t \in Threads |-> Queue!Call("idle", "get", NoElem, "EOK")]
    BY DEF Init, Calls, CallState, Queue!Call
  <2> QED BY <2>1, <2>3, <2>4 DEF Queue!FifoInit, Calls
<1>2. IInv /\ InPlace /\ [Next]_vars => InPlace'
  <2>1. ASSUME InPlace, UNCHANGED vars PROVE InPlace'
    BY <2>1 DEF InPlace, vars, ring
  <2> QED BY <2>1, StepKeepsInPlace
<1>3. IInv /\ InPlace /\ [Next]_vars => [Queue!FifoNext]_Queue!fifoVars
  <2>1. ASSUME UNCHANGED vars PROVE UNCHANGED Queue!fifoVars
    BY <2>1 DEF vars, ring, Queue!fifoVars, Contents, First, Taken, Lagging, CallState
  <2> QED BY <2>1, StepIsQueueStep DEF Next
<1> QED BY <1>1, <1>2, <1>3, IInvHolds, PTL DEF Spec, ImplementsBoundedFifo, Queue!FifoSpec
=============================================================================
