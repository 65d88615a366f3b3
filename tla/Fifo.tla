------------------------------- MODULE Fifo -------------------------------
(***************************************************************************)
(* The FIFO of src/utils/fifo/fifo.c: an array used as a ring, with head,  *)
(* tail and count fields, under a spin lock.  A thread's call is followed  *)
(* statement by statement, so what keeps two calls apart is the lock and   *)
(* nothing else.                                                           *)
(***************************************************************************)
EXTENDS Integers, Sequences, FiniteSets

CONSTANTS
  Threads,
  Elems,
  Capacity,   \* fifo->capacity
  NoElem      \* an element that has not been written

\* fifo_create takes any capacity.  Its caller virtq_create passes the queue size,
\* which virtio_create_queue has checked not to be 0.
ASSUME CapacityAssumption == Capacity \in Nat \ {0}

Unlocked == "unlocked"
ASSUME ThreadsAssumption == Unlocked \notin Threads

VARIABLES
  head, tail, count, data,
  lock,       \* fifo->lock: its holder, or Unlocked
  pc,         \* per thread, where it is in fifo_put or fifo_get
  call        \* per thread, its call: [op, elem, rc]

ring == <<head, tail, count, data>>
vars == <<ring, lock, pc, call>>

Slots == 0 .. Capacity - 1

Init ==
  /\ head = 0 /\ tail = 0 /\ count = 0
  /\ data = [s \in Slots |-> NoElem]
  /\ lock = Unlocked
  /\ pc = [t \in Threads |-> "idle"]
  /\ call = [t \in Threads |-> [op |-> "get", elem |-> NoElem, rc |-> "EOK"]]

GoTo(t, label) == pc' = [pc EXCEPT ![t] = label]

\* Mutated form: the index does not wrap.
Next1_nowrap(index) == index + 1

Next1(index) == (index + 1) % Capacity

Start(t) ==
  /\ pc[t] = "idle"
  /\ \/ \E e \in Elems :
          call' = [call EXCEPT ![t] = [op |-> "put", elem |-> e, rc |-> "EOK"]]
     \/ call' = [call EXCEPT ![t] = [op |-> "get", elem |-> NoElem, rc |-> "EOK"]]
  /\ GoTo(t, "lock")
  /\ UNCHANGED <<ring, lock>>

\* Mutated form: the holder is not waited for.
Lock_nowait(t) ==
  /\ pc[t] = "lock"
  /\ lock' = t
  /\ GoTo(t, "check")
  /\ UNCHANGED <<ring, call>>

Lock(t) ==
  /\ pc[t] = "lock"
  /\ lock = Unlocked
  /\ lock' = t
  /\ GoTo(t, "check")
  /\ UNCHANGED <<ring, call>>

\* Mutated form: off by one.
fifo_full_offbyone == count > Capacity

fifo_full  == count = Capacity
fifo_empty == count = 0

\* fifo_full and fifo_empty are read, and a call that cannot go on gives up.
Refused(t) == IF call[t].op = "put" THEN fifo_full ELSE fifo_empty

Check(t) ==
  /\ pc[t] = "check"
  /\ IF Refused(t)
     THEN /\ call' = [call EXCEPT ![t].rc =
                        IF call[t].op = "put" THEN "ENOMEM" ELSE "ENOENT"]
          /\ GoTo(t, "unlock")
     ELSE GoTo(t, "copy") /\ UNCHANGED call
  /\ UNCHANGED <<ring, lock>>

\* memcpy, into the ring or out of it.
Copy(t) ==
  /\ pc[t] = "copy"
  /\ IF call[t].op = "put"
     THEN data' = [data EXCEPT ![tail] = call[t].elem] /\ UNCHANGED call
     ELSE call' = [call EXCEPT ![t].elem = data[head]] /\ UNCHANGED data
  /\ GoTo(t, "advance")
  /\ UNCHANGED <<head, tail, count, lock>>

\* Mutated form: a get moves the tail.
Advance_swapped(t) ==
  /\ pc[t] = "advance"
  /\ tail' = Next1(tail) /\ UNCHANGED head
  /\ GoTo(t, "recount")
  /\ UNCHANGED <<count, data, lock, call>>

Advance(t) ==
  /\ pc[t] = "advance"
  /\ IF call[t].op = "put"
     THEN tail' = Next1(tail) /\ UNCHANGED head
     ELSE head' = Next1(head) /\ UNCHANGED tail
  /\ GoTo(t, "recount")
  /\ UNCHANGED <<count, data, lock, call>>

Recount(t) ==
  /\ pc[t] = "recount"
  /\ count' = IF call[t].op = "put" THEN count + 1 ELSE count - 1
  /\ GoTo(t, "unlock")
  /\ UNCHANGED <<head, tail, data, lock, call>>

Unlock(t) ==
  /\ pc[t] = "unlock"
  /\ lock' = Unlocked
  /\ GoTo(t, "idle")
  /\ UNCHANGED <<ring, call>>

Step(t) ==
  Start(t) \/ Lock(t) \/ Check(t) \/ Copy(t) \/ Advance(t) \/ Recount(t) \/ Unlock(t)

Next == \E t \in Threads : Step(t)

Spec == Init /\ [][Next]_vars

-----------------------------------------------------------------------------
Inside == {"check", "copy", "advance", "recount", "unlock"}

\* Every variable has its type; in particular neither index leaves the array
\* and the count stays between 0 and the capacity (fifo.c:94-148).
TypeOK ==
  /\ head \in Slots /\ tail \in Slots /\ count \in 0 .. Capacity
  /\ data \in [Slots -> Elems \cup {NoElem}]
  /\ lock \in Threads \cup {Unlocked}
  /\ pc \in [Threads -> {"idle", "lock"} \cup Inside]
  /\ call \in [Threads -> [op : {"put", "get"}, elem : Elems \cup {NoElem},
                           rc : {"EOK", "ENOMEM", "ENOENT"}]]

\* One thread at a time is between the lock and the unlock of fifo_put and
\* fifo_get, and it is the one the lock names.
MutualExclusion ==
  \A t \in Threads : pc[t] \in Inside <=> lock = t

Wrap(i) == IF i < Capacity THEN i ELSE i - Capacity

\* The thread between its index update and its count update, if any.
Lagging(op) == \E t \in Threads : pc[t] = "recount" /\ call[t].op = op

\* The three fields agree: tail is head + count modulo the capacity, counting
\* the element an unfinished call has moved an index for but not counted yet.
RingShape ==
  tail = Wrap(IF Lagging("put") THEN head + count + 1
              ELSE IF Lagging("get") THEN head + count - 1
              ELSE head + count)

\* A call that has found room, or an element, still finds it until it has
\* written the count: nothing changes between fifo_full and the copy.
StillRoom ==
  \A t \in Threads : pc[t] \in {"copy", "advance", "recount"} => ~Refused(t)

-----------------------------------------------------------------------------
(* The FIFO implements BoundedFifo: a put takes effect when it writes its  *)
(* count, a get when it reads its element, a refusal when it is found.     *)
Taken == IF \E t \in Threads : pc[t] \in {"advance", "recount"} /\ call[t].op = "get"
         THEN 1 ELSE 0
First == IF Lagging("get") THEN head ELSE Wrap(head + Taken)

Contents == [i \in 1 .. count - Taken |-> data[(First + i - 1) % Capacity]]

CallState(t) ==
  CASE pc[t] = "idle" -> "idle"
    [] pc[t] = "unlock" -> "done"
    [] pc[t] \in {"advance", "recount"} /\ call[t].op = "get" -> "done"
    [] OTHER -> "pending"

Queue == INSTANCE BoundedFifo
           WITH queue <- Contents,
                call <- [t \in Threads |->
                           [state |-> CallState(t), op |-> call[t].op,
                            elem |-> call[t].elem, rc |-> call[t].rc]]

\* Whatever the interleaving, concurrent puts and gets behave like single
\* steps on a queue: the contract on which virtq.c's free list relies.
ImplementsBoundedFifo == Queue!FifoSpec
=============================================================================
