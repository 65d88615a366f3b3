---------------------------- MODULE BoundedFifo ----------------------------
(***************************************************************************)
(* What src/utils/fifo/fifo.h promises: a bounded first-in first-out queue *)
(* whose put and get are thread-safe.  A call takes effect in one step     *)
(* between its start and its return; a full queue refuses a put with       *)
(* ENOMEM, an empty one a get with ENOENT.                                 *)
(***************************************************************************)
EXTENDS Integers, Sequences

CONSTANTS Threads, Elems, Capacity, NoElem

VARIABLES queue, call

fifoVars == <<queue, call>>

Call(state, operation, elem, rc) ==
  [state |-> state, op |-> operation, elem |-> elem, rc |-> rc]

FifoInit ==
  /\ queue = <<>>
  /\ call = [t \in Threads |-> Call("idle", "get", NoElem, "EOK")]

Start(t) ==
  /\ call[t].state = "idle"
  /\ \/ \E e \in Elems : call' = [call EXCEPT ![t] = Call("pending", "put", e, "EOK")]
     \/ call' = [call EXCEPT ![t] = Call("pending", "get", NoElem, "EOK")]
  /\ UNCHANGED queue

Put(t) ==
  /\ call[t].state = "pending" /\ call[t].op = "put"
  /\ IF Len(queue) < Capacity
     THEN /\ queue' = Append(queue, call[t].elem)
          /\ call' = [call EXCEPT ![t].state = "done"]
     ELSE /\ call' = [call EXCEPT ![t].state = "done", ![t].rc = "ENOMEM"]
          /\ UNCHANGED queue

Get(t) ==
  /\ call[t].state = "pending" /\ call[t].op = "get"
  /\ IF queue # <<>>
     THEN /\ queue' = Tail(queue)
          /\ call' = [call EXCEPT ![t].state = "done", ![t].elem = Head(queue)]
     ELSE /\ call' = [call EXCEPT ![t].state = "done", ![t].rc = "ENOENT"]
          /\ UNCHANGED queue

Finish(t) ==
  /\ call[t].state = "done"
  /\ call' = [call EXCEPT ![t].state = "idle"]
  /\ UNCHANGED queue

FifoNext == \E t \in Threads : Start(t) \/ Put(t) \/ Get(t) \/ Finish(t)

FifoSpec == FifoInit /\ [][FifoNext]_fifoVars
=============================================================================
