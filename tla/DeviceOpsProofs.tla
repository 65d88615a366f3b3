-------------------------- MODULE DeviceOpsProofs --------------------------
(* Proofs about DeviceOps for any threads, queues, sizes and status bits.  *)
EXTENDS DeviceOps, TLAPS

-----------------------------------------------------------------------------
(* The inductive invariant: the holder of the lock is the one between lock *)
(* and unlock, a thread that resets the device or creates a queue is the   *)
(* only one in a call, and what a thread selected, or read, stays so until *)
(* it is done with it.                                                     *)

LockHeld == \A t \in Threads : pc[t] \in InLock <=> lock = t

CreatorAlone ==
  /\ \A t \in Threads : pc[t] \in {"create"} \cup InAddr \cup InReset => creator = t
  /\ \A t \in Threads : creator = t =>
       /\ pc[t] # "idle" /\ call[t].op # "add_device_status"
       /\ \A u \in Threads \ {t} : pc[u] = "idle"

Selected ==
  \A t \in Threads :
    pc[t] \in {"access", "store", "unlock", "create"} \cup InAddr =>
      \/ call[t].op = "add_device_status"
      \/ queue_select = call[t].queue

StillRead ==
  \A t \in Threads : pc[t] = "store" =>
    /\ TwoAccesses(t)
    /\ call[t].op = "add_device_status" => read[t] = status
    /\ call[t].op = "notify_queue" => read[t] = {call[t].queue}

IInv ==
  TypeOK /\ LockHeld /\ CreatorAlone /\ Selected /\ StillRead /\ RingsOfOwnQueue

\* At the start nobody has the lock or a call, and no queue has rings.
LEMMA InitEstablishesIInv == Init => IInv
<1> SUFFICES ASSUME Init PROVE IInv
  OBVIOUS
<1> USE OpsAssumption, RegistersAssumption
<1>1. TypeOK
  BY DEF Init, TypeOK, FreshQueue, QueueRegisters, NoRings, Parts, InLock, InAddr, InReset, Labels
<1>2. LockHeld /\ CreatorAlone /\ Selected /\ StillRead
  BY DEF Init, LockHeld, CreatorAlone, Selected, StillRead, InLock, InAddr, InReset, Labels
<1>3. RingsOfOwnQueue
  BY DEF Init, RingsOfOwnQueue, NoRings, Parts
<1> QED BY <1>1, <1>2, <1>3 DEF IInv

\* A call names one of the queues; the values it stores are of their types.
LEMMA CallTypes ==
  ASSUME NEW c \in Calls
  PROVE  /\ c.queue \in Queues
         /\ c.op = "set_queue_size" => c.arg \in Sizes
         /\ c.op = "add_device_status" => c.arg \in Bits
         /\ c # NoCall
BY OpsAssumption DEF Calls

\* A store leaves registers of their types.
LEMMA WrittenTypes ==
  ASSUME NEW c \in Calls, NEW r \in QueueRegisters
  PROVE  Written(r, c) \in QueueRegisters
BY CallTypes DEF Written, QueueRegisters

\* The first call of virtio_create_queue.
LEMMA FirstCall ==
  ASSUME NEW q \in Queues
  PROVE  /\ Call("max_queue_size", q, 0) \in Calls
         /\ Call("max_queue_size", q, 0).op = "max_queue_size"
BY DEF Call, Calls

-----------------------------------------------------------------------------
(* A call: lock, select, access, unlock.                                   *)

LEMMA BeginKeepsIInv ==
  ASSUME IInv, NEW t \in Threads, Begin(t) PROVE IInv'
<1> USE DEF IInv, Begin, Invoke, GoTo, threadVars, deviceVars
<1>1. PICK c \in Calls : c.op \in mix /\ Invoke(t, c)
  OBVIOUS
<1>2. TypeOK'
  BY <1>1, CallTypes DEF TypeOK, InLock, InAddr, InReset, Labels
<1>3. LockHeld' /\ CreatorAlone'
  BY <1>1, OpsAssumption DEF TypeOK, LockHeld, CreatorAlone, InLock, InAddr, InReset, Labels
<1>4. Selected' /\ StillRead'
  BY <1>1 DEF TypeOK, Selected, StillRead, TwoAccesses, InAddr
<1>5. RingsOfOwnQueue'
  BY DEF RingsOfOwnQueue
<1> QED BY <1>2, <1>3, <1>4, <1>5

\* Nobody holds the lock, so nobody is between lock and unlock.
LEMMA LockKeepsIInv ==
  ASSUME IInv, NEW t \in Threads, Lock(t) PROVE IInv'
<1> USE DEF IInv, Lock, GoTo, threadVars, deviceVars
<1>1. TypeOK'
  BY DEF TypeOK, InLock, InAddr, InReset, Labels
<1>2. LockHeld' /\ CreatorAlone'
  BY OpsAssumption DEF TypeOK, LockHeld, CreatorAlone, InLock, InAddr, InReset, Labels
<1>3. Selected' /\ StillRead'
  BY DEF TypeOK, Selected, StillRead, TwoAccesses, InAddr
<1>4. RingsOfOwnQueue'
  BY DEF RingsOfOwnQueue
<1> QED BY <1>1, <1>2, <1>3, <1>4

\* The selector changes under the lock: no other thread relies on it.
LEMMA SelectKeepsIInv ==
  ASSUME IInv, NEW t \in Threads, Select(t) PROVE IInv'
<1> USE DEF IInv, Select, GoTo, threadVars, deviceVars
<1>0. call[t] \in Calls /\ call[t].queue \in Queues
  BY CallTypes DEF TypeOK
<1>1. TypeOK'
  BY <1>0 DEF TypeOK, InLock, InAddr, InReset, Labels
<1>2. LockHeld' /\ CreatorAlone'
  BY OpsAssumption DEF TypeOK, LockHeld, CreatorAlone, InLock, InAddr, InReset, Labels
<1>3. \A u \in Threads \ {t} : pc[u] \notin InLock \cup {"create"} \cup InAddr
  BY OpsAssumption DEF LockHeld, CreatorAlone, InLock, InAddr, InReset, Labels
<1>4. Selected' /\ StillRead'
  BY <1>3 DEF TypeOK, Selected, StillRead, TwoAccesses, InAddr, InLock
<1>5. RingsOfOwnQueue'
  BY DEF RingsOfOwnQueue
<1> QED BY <1>1, <1>2, <1>4, <1>5

\* The first of two accesses: the queue is the selected one, and its own.
LEMMA FirstKeepsIInv ==
  ASSUME IInv, NEW t \in Threads, First(t) PROVE IInv'
<1> USE DEF IInv, First, GoTo, threadVars, deviceVars
<1>1. read[t]' \in (SUBSET Bits) \cup (SUBSET Queues)
  <2>1. CASE call[t].op = "add_device_status"
    BY <2>1 DEF TypeOK
  <2>2. CASE call[t].op = "notify_queue"
    BY <2>2 DEF TypeOK
  <2>3. CASE call[t].op = "enable_queue"
    BY <2>3 DEF TypeOK
  <2> QED BY <2>1, <2>2, <2>3 DEF TwoAccesses
<1>2. TypeOK'
  BY <1>1 DEF TypeOK, InLock, InAddr, InReset, Labels
<1>3. LockHeld' /\ CreatorAlone'
  BY OpsAssumption DEF TypeOK, LockHeld, CreatorAlone, InLock, InAddr, InReset, Labels
<1>4. Selected'
  BY DEF TypeOK, Selected, InAddr
<1>5. StillRead'
  BY DEF TypeOK, StillRead, Selected, TwoAccesses
<1>6. RingsOfOwnQueue'
  BY DEF RingsOfOwnQueue
<1> QED BY <1>2, <1>3, <1>4, <1>5, <1>6

\* The queue a store reaches is the one the call names.
LEMMA StoreReachesOwnQueue ==
  ASSUME IInv, NEW t \in Threads, Last(t)
  PROVE  /\ call[t] \in Calls
         /\ IF call[t].op = "add_device_status"
            THEN status' = status \cup {call[t].arg} /\ queue' = queue
            ELSE /\ queue' = [queue EXCEPT ![call[t].queue] = Written(@, call[t])]
                 /\ status' = status
<1>1. call[t] \in Calls
  BY DEF IInv, Last, TypeOK
<1>2. pc[t] \in {"access", "store"} /\ Stored(t)
  BY DEF Last
<1>3. CASE call[t].op = "add_device_status"
  <2>1. pc[t] = "store"
    BY <1>3 DEF Last, TwoAccesses
  <2> QED BY <1>1, <1>2, <1>3, <2>1 DEF Stored, IInv, StillRead
<1>4. CASE call[t].op = "notify_queue"
  <2>1. CASE transport = "pci"
    <3>1. pc[t] = "store"
      BY <1>4, <2>1 DEF Last, TwoAccesses
    <3> QED BY <1>1, <1>2, <1>4, <2>1, <3>1 DEF Stored, IInv, StillRead
  <2> QED BY <1>1, <1>2, <1>4, <2>1 DEF Stored
<1>5. CASE call[t].op \notin {"add_device_status", "notify_queue"}
  <2>1. queue_select = call[t].queue
    BY <1>2, <1>5 DEF IInv, Selected
  <2> QED BY <1>1, <1>2, <1>5, <2>1 DEF Stored
<1> QED BY <1>3, <1>4, <1>5

\* What a call returns is a number.
LEMMA LoadedTypes ==
  ASSUME NEW c \in Calls, NEW r \in QueueRegisters
  PROVE  Loaded(r, c, transport) \in Nat
BY RegistersAssumption DEF Loaded, QueueRegisters

\* Nobody else has read the status, or a doorbell, it may change.
LEMMA LastKeepsIInv ==
  ASSUME IInv, NEW t \in Threads, Last(t) PROVE IInv'
<1> USE DEF IInv
<1>1. /\ call[t] \in Calls /\ call[t].queue \in Queues
      /\ queue' \in [Queues -> QueueRegisters]
      /\ status' \in SUBSET Bits
  <2>1. call[t] \in Calls /\ call[t].queue \in Queues
    BY StoreReachesOwnQueue, CallTypes
  <2>2. CASE call[t].op = "add_device_status"
    BY <2>1, <2>2, StoreReachesOwnQueue, CallTypes DEF TypeOK
  <2>3. CASE call[t].op # "add_device_status"
    <3>1. queue[call[t].queue] \in QueueRegisters
      BY <2>1 DEF TypeOK
    <3>2. Written(queue[call[t].queue], call[t]) \in QueueRegisters
      BY <2>1, <3>1, WrittenTypes
    <3> QED BY <2>1, <2>3, <3>2, StoreReachesOwnQueue DEF TypeOK
  <2> QED BY <2>2, <2>3
<1>2. Loaded(queue[queue_select], call[t], transport) \in Nat
  BY <1>1, LoadedTypes DEF TypeOK
<1>3. TypeOK'
  BY <1>1, <1>2 DEF Last, GoTo, TypeOK, InLock, InAddr, InReset, Labels
<1>4. LockHeld' /\ CreatorAlone'
  BY OpsAssumption DEF Last, GoTo, TypeOK, LockHeld, CreatorAlone, InLock, InAddr, InReset, Labels
<1>5. Selected'
  BY DEF Last, GoTo, TypeOK, Selected, InAddr
<1>6. \A u \in Threads \ {t} : pc[u] \notin InLock
  BY OpsAssumption DEF Last, LockHeld, InLock
<1>7. StillRead'
  BY <1>6 DEF Last, GoTo, TypeOK, StillRead, TwoAccesses, InLock
<1>8. RingsOfOwnQueue'
  BY DEF Last, RingsOfOwnQueue
<1> QED BY <1>3, <1>4, <1>5, <1>7, <1>8

\* The lock is given up by its holder, who goes back to virtio_create_queue only
\* if it is the thread that creates a queue.
LEMMA UnlockKeepsIInv ==
  ASSUME IInv, NEW t \in Threads, Unlock(t) PROVE IInv'
<1> USE DEF IInv, Unlock, GoTo, threadVars, deviceVars
<1>1. /\ call[t] # NoCall /\ lock = t
      /\ \A u \in Threads \ {t} : pc[u] \notin InLock
  BY OpsAssumption DEF TypeOK, LockHeld, InLock
<1>2. CASE creator = t
  <2>1. TypeOK'
    BY <1>1, <1>2 DEF TypeOK, InLock, InAddr, InReset, Labels
  <2>2. LockHeld'
    BY <1>1, <1>2, OpsAssumption DEF TypeOK, LockHeld, InLock
  <2>3. CreatorAlone'
    BY <1>2 DEF TypeOK, CreatorAlone, InAddr, InReset
  <2>4. Selected' /\ StillRead'
    BY <1>2 DEF TypeOK, Selected, StillRead, TwoAccesses, InAddr
  <2> QED BY <2>1, <2>2, <2>3, <2>4 DEF RingsOfOwnQueue
<1>3. CASE creator # t
  <2>1. pc' = [pc EXCEPT ![t] = "idle"] /\ call' = [call EXCEPT ![t] = NoCall]
    BY <1>3
  <2>2. \A u \in Threads : pc[u]' = "idle" <=> call[u]' = NoCall
    BY <2>1 DEF TypeOK
  <2>3. TypeOK'
    <3>1. /\ pc' \in [Threads -> Labels]
          /\ call' \in [Threads -> Calls \cup {NoCall}]
          /\ result' \in [Threads -> Nat]
        BY <1>3, <2>1 DEF TypeOK, Labels
    <3> QED BY <2>2, <3>1 DEF TypeOK
  <2>4. LockHeld'
    BY <1>1, <1>3, OpsAssumption DEF TypeOK, LockHeld, InLock
  <2>5. CreatorAlone'
    BY <1>3 DEF TypeOK, CreatorAlone, InAddr, InReset
  <2>6. Selected' /\ StillRead'
    <3>1. \A u \in Threads : \/ pc'[u] = "idle"
                             \/ pc'[u] = pc[u] /\ call'[u] = call[u] /\ read'[u] = read[u]
      BY <1>3, <2>1 DEF TypeOK
    <3>2. queue_select' = queue_select /\ status' = status
      BY DEF deviceVars
    <3>3. Selected'
      BY <3>1, <3>2 DEF Selected, InAddr
    <3> QED BY <3>1, <3>2, <3>3 DEF StillRead, TwoAccesses
  <2> QED BY <2>3, <2>4, <2>5, <2>6 DEF RingsOfOwnQueue
<1> QED BY <1>2, <1>3

-----------------------------------------------------------------------------
(* virtio_create_queue and virtio_reset_device.                            *)

\* Creation starts only when nothing else is going on.
LEMMA BeginCreateKeepsIInv ==
  ASSUME IInv, NEW t \in Threads, NEW q \in Queues, BeginCreate(t, q) PROVE IInv'
<1> USE DEF IInv, BeginCreate, Invoke, GoTo, threadVars, deviceVars
<1> DEFINE c == Call("max_queue_size", q, 0)
<1>1. c \in Calls /\ c.op = "max_queue_size" /\ c # NoCall
  BY FirstCall, CallTypes
<1> HIDE DEF c
<1>2. call' = [call EXCEPT ![t] = c]
  BY DEF c
<1>3. TypeOK'
  BY <1>1, <1>2 DEF TypeOK, InLock, InAddr, InReset, Labels
<1>4. LockHeld'
  BY OpsAssumption DEF TypeOK, LockHeld, InLock
<1>5. CreatorAlone'
  BY <1>1, <1>2, OpsAssumption DEF TypeOK, CreatorAlone, InAddr, InReset, Alone
<1>6. Selected' /\ StillRead'
  BY <1>2 DEF TypeOK, Selected, StillRead, TwoAccesses, InAddr
<1> QED BY <1>3, <1>4, <1>5, <1>6 DEF RingsOfOwnQueue

\* None of the calls of virtio_create_queue is for the status.
LEMMA CreateNextKeepsIInv ==
  ASSUME IInv, NEW t \in Threads, CreateNext(t) PROVE IInv'
<1> USE DEF IInv, CreateNext, Invoke, GoTo, threadVars, deviceVars
<1>1. PICK c \in Calls : /\ c.op \in Following(call[t].op, result[t])
                         /\ Invoke(t, c)
  OBVIOUS
<1>2. c.op # "add_device_status" /\ c # NoCall
  BY <1>1, CallTypes DEF Following
<1>3. TypeOK'
  BY <1>1, <1>2 DEF TypeOK, InLock, InAddr, InReset, Labels
<1>4. LockHeld'
  BY <1>1, OpsAssumption DEF TypeOK, LockHeld, InLock
<1>5. CreatorAlone'
  BY <1>1, <1>2 DEF TypeOK, CreatorAlone, InAddr, InReset
<1>6. Selected' /\ StillRead'
  BY <1>1 DEF TypeOK, Selected, StillRead, TwoAccesses, InAddr
<1> QED BY <1>3, <1>4, <1>5, <1>6 DEF RingsOfOwnQueue

\* A thread that is done resetting or creating leaves nothing behind.
LEMMA LeaveKeeps ==
  ASSUME IInv, NEW t \in Threads, pc[t] \in {"create"} \cup InAddr \cup InReset, Leave(t),
         UNCHANGED <<transport, mix, lock, read, queue_select, status, queue, msix>>,
         rings' \in [Queues -> [Parts -> SUBSET Queues]]
  PROVE  TypeOK' /\ LockHeld' /\ CreatorAlone' /\ Selected' /\ StillRead'
<1> USE DEF IInv, Leave, GoTo
<1>1. TypeOK'
  BY DEF TypeOK, InLock, InAddr, InReset, Labels
<1>2. LockHeld'
  BY OpsAssumption DEF TypeOK, LockHeld, InLock, InAddr, InReset, Labels
<1>3. CreatorAlone'
  BY OpsAssumption DEF TypeOK, CreatorAlone, InAddr, InReset
<1>4. Selected' /\ StillRead'
  BY DEF TypeOK, Selected, StillRead, TwoAccesses, InAddr
<1> QED BY <1>1, <1>2, <1>3, <1>4

\* The device is reset only when nothing else is going on, so that nobody's status
\* or selection is overtaken.
LEMMA BeginResetKeepsIInv ==
  ASSUME IInv, NEW t \in Threads, BeginReset(t) PROVE IInv'
<1> USE DEF IInv, BeginReset, GoTo, threadVars, deviceVars
<1>1. PICK c \in Calls : c.op = "reset_device" /\ call' = [call EXCEPT ![t] = c]
  OBVIOUS
<1>2. TypeOK'
  BY <1>1, CallTypes DEF TypeOK, InReset, Labels
<1>3. LockHeld'
  BY OpsAssumption DEF TypeOK, LockHeld, InLock
<1>4. CreatorAlone'
  BY <1>1, OpsAssumption DEF TypeOK, CreatorAlone, InAddr, InReset, Alone
<1>5. Selected' /\ StillRead'
  BY DEF TypeOK, Selected, StillRead, TwoAccesses, InAddr
<1> QED BY <1>2, <1>3, <1>4, <1>5 DEF RingsOfOwnQueue

LEMMA ResetDeviceKeepsIInv ==
  ASSUME IInv, NEW t \in Threads, ResetDevice(t) PROVE IInv'
<1> USE DEF IInv, ResetDevice, GoTo
<1>1. \A u \in Threads \ {t} : pc[u] = "idle"
  BY DEF CreatorAlone, InReset
<1>2. TypeOK'
  <2>1. FreshQueue \in QueueRegisters /\ NoRings \in [Parts -> SUBSET Queues]
    BY RegistersAssumption DEF FreshQueue, QueueRegisters, NoRings
  <2> QED BY <2>1 DEF TypeOK, InReset, Labels
<1>3. LockHeld'
  BY OpsAssumption DEF TypeOK, LockHeld, InLock
<1>4. CreatorAlone'
  BY DEF TypeOK, CreatorAlone, InAddr, InReset
<1>5. Selected' /\ StillRead'
  BY <1>1 DEF TypeOK, Selected, StillRead, TwoAccesses, InAddr
<1>6. RingsOfOwnQueue'
  BY DEF RingsOfOwnQueue, NoRings
<1> QED BY <1>2, <1>3, <1>4, <1>5, <1>6

LEMMA ResetReturnsKeepsIInv ==
  ASSUME IInv, NEW t \in Threads, ResetReturns(t) PROVE IInv'
<1>1. pc[t] \in InReset /\ rings' = rings /\ rings \in [Queues -> [Parts -> SUBSET Queues]]
  BY DEF IInv, ResetReturns, TypeOK, deviceVars, InReset
<1>2. TypeOK' /\ LockHeld' /\ CreatorAlone' /\ Selected' /\ StillRead'
  BY <1>1, LeaveKeeps DEF ResetReturns, deviceVars
<1> QED BY <1>1, <1>2 DEF IInv, RingsOfOwnQueue

LEMMA CreateFailsKeepsIInv ==
  ASSUME IInv, NEW t \in Threads, CreateFails(t) PROVE IInv'
<1>1. rings' = rings /\ rings \in [Queues -> [Parts -> SUBSET Queues]]
  BY DEF IInv, CreateFails, TypeOK, deviceVars
<1>2. TypeOK' /\ LockHeld' /\ CreatorAlone' /\ Selected' /\ StillRead'
  BY <1>1, LeaveKeeps DEF CreateFails, deviceVars
<1> QED BY <1>1, <1>2 DEF IInv, RingsOfOwnQueue

\* The queue whose address is stored is the one the rings are for.
LEMMA SetQueueAddrKeepsIInv ==
  ASSUME IInv, NEW t \in Threads, SetQueueAddr(t) PROVE IInv'
<1> USE DEF IInv
<1>1. PICK p \in Parts : SetAddr(p, t)
  BY DEF SetQueueAddr, Parts
<1>2. /\ pc[t] \in {"create"} \cup InAddr
      /\ call[t] \in Calls /\ call[t].queue \in Queues
      /\ queue_select = call[t].queue
  <2>1. pc[t] \in {"create"} \cup InAddr
    BY DEF SetQueueAddr, InAddr
  <2>2. creator = t /\ call[t].op # "add_device_status"
    BY <2>1 DEF CreatorAlone
  <2> QED BY <2>1, <2>2, CallTypes DEF TypeOK, Selected, InAddr
<1>3. /\ rings' \in [Queues -> [Parts -> SUBSET Queues]]
      /\ RingsOfOwnQueue'
  BY <1>1, <1>2 DEF SetAddr, TypeOK, RingsOfOwnQueue
<1>4. CASE Leave(t)
  BY <1>2, <1>3, <1>4, LeaveKeeps DEF SetQueueAddr
<1>5. CASE ~Leave(t)
  <2> USE <1>5 DEF SetQueueAddr, GoTo
  <2>1. TypeOK'
    BY <1>3 DEF TypeOK, InLock, InAddr, InReset, Labels
  <2>2. LockHeld'
    BY OpsAssumption DEF TypeOK, LockHeld, InLock, InAddr, InReset, Labels
  <2>3. CreatorAlone'
    BY DEF TypeOK, CreatorAlone, InAddr, InReset
  <2>4. Selected' /\ StillRead'
    BY DEF TypeOK, Selected, StillRead, TwoAccesses, InAddr
  <2> QED BY <1>3, <2>1, <2>2, <2>3, <2>4
<1> QED BY <1>4, <1>5

-----------------------------------------------------------------------------
(* The device.                                                             *)

LEMMA TakeKickKeepsIInv ==
  ASSUME IInv, NEW q \in Queues, TakeKick(q) PROVE IInv'
<1> USE DEF IInv, TakeKick, threadVars
<1>1. TypeOK'
  BY DEF TypeOK, QueueRegisters
<1>2. LockHeld' /\ CreatorAlone' /\ Selected' /\ StillRead' /\ RingsOfOwnQueue'
  BY DEF LockHeld, CreatorAlone, Selected, StillRead, TwoAccesses, RingsOfOwnQueue
<1> QED BY <1>1, <1>2

LEMMA FinishQueueResetKeepsIInv ==
  ASSUME IInv, NEW q \in Queues, FinishQueueReset(q) PROVE IInv'
<1> USE DEF IInv, FinishQueueReset, threadVars
<1>1. TypeOK'
  BY RegistersAssumption DEF TypeOK, QueueRegisters, FreshQueue, NoRings
<1>2. LockHeld' /\ CreatorAlone' /\ Selected' /\ StillRead'
  BY DEF LockHeld, CreatorAlone, Selected, StillRead, TwoAccesses
<1>3. RingsOfOwnQueue'
  BY DEF TypeOK, RingsOfOwnQueue, NoRings
<1> QED BY <1>1, <1>2, <1>3

-----------------------------------------------------------------------------
(* Every step.                                                             *)

LEMMA NextKeepsIInv == IInv /\ [Next]_vars => IInv'
<1> SUFFICES ASSUME IInv, [Next]_vars PROVE IInv'
  OBVIOUS
<1>1. CASE UNCHANGED vars
  BY <1>1 DEF vars, threadVars, deviceVars, IInv, TypeOK, LockHeld, CreatorAlone,
     Selected, StillRead, TwoAccesses, RingsOfOwnQueue
<1>2. ASSUME NEW t \in Threads, Thread(t) PROVE IInv'
  BY <1>2, BeginKeepsIInv, LockKeepsIInv, SelectKeepsIInv, FirstKeepsIInv,
     LastKeepsIInv, UnlockKeepsIInv, BeginCreateKeepsIInv, CreateNextKeepsIInv,
     CreateFailsKeepsIInv, SetQueueAddrKeepsIInv, BeginResetKeepsIInv, ResetDeviceKeepsIInv,
     ResetReturnsKeepsIInv DEF Thread
<1>3. ASSUME NEW q \in Queues, TakeKick(q) \/ FinishQueueReset(q) PROVE IInv'
  BY <1>3, TakeKickKeepsIInv, FinishQueueResetKeepsIInv
<1> QED BY <1>1, <1>2, <1>3 DEF Next

\* The inductive invariant holds in every reachable state.
THEOREM InductiveInvariant == Spec => []IInv
<1> QED BY InitEstablishesIInv, NextKeepsIInv, PTL DEF Spec

\* Every variable keeps its type, and a thread has a call unless it is idle
\* (TypeOK), for any threads, queues, sizes and mixes of operations.
THEOREM TypeCorrect == Spec => []TypeOK
<1>1. IInv => TypeOK
  BY DEF IInv
<1> QED BY <1>1, InductiveInvariant, PTL

\* Every access to a queue's registers finds that queue selected
\* (SelectsOwnQueue): virtio.c's lock covers selection and access, and the
\* unlocked stores of virtio_set_queue_addr come with no other call about.
THEOREM SelectsOwnQueueHolds == Spec => []SelectsOwnQueue
<1>1. IInv => SelectsOwnQueue
  BY DEF IInv, SelectsOwnQueue, Selected, StillRead, InAddr, CreatorAlone
<1> QED BY <1>1, InductiveInvariant, PTL

\* The addresses of a virtqueue are only ever stored in its own queue's
\* registers (RingsOfOwnQueue).
THEOREM RingsOfOwnQueueHolds == Spec => []RingsOfOwnQueue
<1>1. IInv => RingsOfOwnQueue
  BY DEF IInv
<1> QED BY <1>1, InductiveInvariant, PTL

-----------------------------------------------------------------------------
(* The operations implement DeviceCalls: locking, selecting and the first  *)
(* of two accesses are stutters, the last access is the effect.            *)

\* An idle device with fresh queues is one in the abstraction too.
LEMMA InitRefines == Init => DeviceCall!CallsInit
BY OpsAssumption DEF Init, DeviceCall!CallsInit, CallState, DeviceCall!Idle, FreshQueue, DeviceCall!FreshQueue

CallStates == [t \in Threads |-> CallState(t)]

\* The reset, and nothing else, is made without the lock.
ResetUnlocked ==
  \A t \in Threads : pc[t] # "idle" => (pc[t] \in InReset <=> call[t].op = "reset_device")

LEMMA NextKeepsResetUnlocked == TypeOK /\ ResetUnlocked /\ [Next]_vars => ResetUnlocked'
<1> SUFFICES ASSUME TypeOK, ResetUnlocked, [Next]_vars PROVE ResetUnlocked'
  OBVIOUS
<1> USE DEF ResetUnlocked, InReset, GoTo
<1>1. CASE UNCHANGED vars
  BY <1>1 DEF vars, threadVars
<1>2. ASSUME NEW t \in Threads, Thread(t) PROVE ResetUnlocked'
  <2>1. ASSUME NEW c \in Calls, c.op # "reset_device", Invoke(t, c) PROVE ResetUnlocked'
    BY <2>1 DEF TypeOK, Invoke
  <2>2. CASE Begin(t)
    BY <2>1, <2>2 DEF Begin
  <2>3. ASSUME NEW q \in Queues, BeginCreate(t, q) PROVE ResetUnlocked'
    BY <2>1, <2>3, FirstCall DEF BeginCreate
  <2>4. CASE CreateNext(t)
    BY <2>1, <2>4 DEF CreateNext, Following
  <2>5. CASE Lock(t) \/ Select(t) \/ First(t) \/ Last(t)
    BY <2>5 DEF Lock, Select, First, Last, TypeOK
  <2>6. CASE Unlock(t)
    BY <2>6 DEF Unlock, TypeOK
  <2>7. CASE CreateFails(t) \/ SetQueueAddr(t) \/ ResetReturns(t)
    BY <2>7 DEF CreateFails, SetQueueAddr, ResetReturns, Leave, TypeOK
  <2>8. CASE BeginReset(t) \/ ResetDevice(t)
    BY <2>8 DEF BeginReset, ResetDevice, TypeOK
  <2> QED BY <1>2, <2>2, <2>3, <2>4, <2>5, <2>6, <2>7, <2>8 DEF Thread
<1>3. ASSUME NEW q \in Queues, TakeKick(q) \/ FinishQueueReset(q) PROVE ResetUnlocked'
  BY <1>3 DEF TakeKick, FinishQueueReset, threadVars
<1> QED BY <1>1, <1>2, <1>3 DEF Next

\* The abstraction's own copies of the register operators are these.
LEMMA SameRegisters ==
  /\ DeviceCall!Calls = Calls /\ DeviceCall!FreshQueue = FreshQueue
  /\ \A r, c : DeviceCall!Written(r, c) = Written(r, c)
  /\ \A r, c, tr : DeviceCall!Loaded(r, c, tr) = Loaded(r, c, tr)
BY DEF Calls, DeviceCall!Calls, FreshQueue, DeviceCall!FreshQueue, Written,
   DeviceCall!Written, Loaded, DeviceCall!Loaded

\* A step of one thread changes the state of its own call only.
LEMMA OneThread ==
  ASSUME NEW t \in Threads, NEW l, pc \in [Threads -> Labels], pc' = [pc EXCEPT ![t] = l],
         \A u \in Threads \ {t} : call'[u] = call[u] /\ result'[u] = result[u]
  PROVE  CallStates' = [CallStates EXCEPT ![t] = CallState(t)']
<1>1. \A u \in Threads \ {t} : CallState(u)' = CallState(u)
  BY DEF CallState
<1> QED BY <1>1 DEF CallStates

\* A call that starts is pending, for the queue it names.
LEMMA InvokeRefines ==
  ASSUME TypeOK, NEW t \in Threads, NEW c \in Calls, Invoke(t, c),
         pc[t] \in {"idle", "create"}, UNCHANGED <<transport, status, queue>>
  PROVE  DeviceCall!Invoke(t)
<1>1. /\ pc' = [pc EXCEPT ![t] = "lock"] /\ call' = [call EXCEPT ![t] = c]
      /\ \A u \in Threads \ {t} : call'[u] = call[u] /\ result'[u] = result[u]
  BY DEF Invoke, GoTo, TypeOK
<1>2. CallState(t) = [at |-> "idle"]
  BY DEF CallState
<1>3. CallState(t)' = [at |-> "pending", call |-> c]
  BY <1>1 DEF CallState, TypeOK, InAddr
<1>4. CallStates' = [CallStates EXCEPT ![t] = [at |-> "pending", call |-> c]]
  BY <1>1, <1>3, OneThread DEF TypeOK
<1> QED BY <1>2, <1>4, SameRegisters DEF DeviceCall!Invoke, DeviceCall!Idle, CallStates

\* Locking, selecting, a first access and what virtio_create_queue does between
\* its calls show nowhere in the abstraction.
LEMMA StutterRefines ==
  ASSUME TypeOK, NEW t \in Threads, NEW l, pc' = [pc EXCEPT ![t] = l],
         \A u \in Threads \ {t} : call'[u] = call[u] /\ result'[u] = result[u],
         UNCHANGED <<transport, status, queue>>,
         \/ pc[t] \in {"lock", "select", "access"} /\ l \in {"select", "access", "store"}
            /\ call' = call
         \/ pc[t] \in {"create"} \cup InAddr /\ l \in {"idle"} \cup InAddr
  PROVE  UNCHANGED DeviceCall!vars
<1>1. CallState(t)' = CallState(t)
  BY DEF CallState, TypeOK, InAddr
<1>2. CallStates' = CallStates
  BY <1>1, OneThread DEF CallStates, TypeOK
<1> QED BY <1>2 DEF DeviceCall!vars, CallStates

\* The last access is the effect of the call.
LEMMA LastRefines ==
  ASSUME IInv, ResetUnlocked, NEW t \in Threads, Last(t) PROVE DeviceCall!Effect(t)
<1> DEFINE r == Loaded(queue[call[t].queue], call[t], transport)
<1>1. pc[t] \in {"access", "store"} /\ pc' = [pc EXCEPT ![t] = "unlock"]
      /\ call' = call /\ transport' = transport
      /\ result' = [result EXCEPT ![t] = Loaded(queue[queue_select], call[t], transport)]
  BY DEF Last, GoTo
<1>2. Loaded(queue[queue_select], call[t], transport) = r
  <2>1. CASE call[t].op = "add_device_status"
    BY <2>1 DEF Loaded
  <2>2. CASE call[t].op # "add_device_status"
    BY <2>2, <1>1 DEF IInv, Selected
  <2> QED BY <2>1, <2>2
<1>3. CallState(t) = [at |-> "pending", call |-> call[t]]
  BY <1>1 DEF CallState, InAddr
<1>4. CallState(t)' = [at |-> "done", result |-> r]
  BY <1>1, <1>2 DEF CallState, InAddr, IInv, TypeOK
<1>5. CallStates' = [CallStates EXCEPT ![t] = [at |-> "done", result |-> r]]
  BY <1>1, <1>4, OneThread DEF IInv, TypeOK
<1>0. call[t].op # "reset_device"
  BY <1>1 DEF ResetUnlocked, InReset
<1>6. /\ queue' = [queue EXCEPT ![call[t].queue] = Written(@, call[t])]
      /\ status' = IF call[t].op = "add_device_status"
                   THEN status \cup {call[t].arg} ELSE status
  <2>1. CASE call[t].op = "add_device_status"
    <3>1. Written(queue[call[t].queue], call[t]) = queue[call[t].queue]
      BY <2>1 DEF Written
    <3>2. queue = [queue EXCEPT ![call[t].queue] = queue[call[t].queue]]
      BY DEF IInv, TypeOK
    <3> QED BY <2>1, <3>1, <3>2, StoreReachesOwnQueue
  <2>2. CASE call[t].op # "add_device_status"
    BY <2>2, StoreReachesOwnQueue
  <2> QED BY <2>1, <2>2
<1> HIDE DEF r
<1>7. r = DeviceCall!Loaded(queue[call[t].queue], call[t], transport)
  BY SameRegisters DEF r
<1>8. DeviceCall!Written(queue[call[t].queue], call[t]) = Written(queue[call[t].queue], call[t])
  BY SameRegisters
<1>9. /\ CallStates[t].at = "pending" /\ CallStates[t].call = call[t]
      /\ call[t].queue \in Queues /\ queue \in [Queues -> QueueRegisters]
  BY <1>3, StoreReachesOwnQueue, CallTypes DEF CallStates, IInv, TypeOK
<1> QED BY <1>0, <1>1, <1>5, <1>6, <1>7, <1>8, <1>9 DEF DeviceCall!Effect, CallStates

\* The reset is a call that takes effect with its store.
LEMMA ResetRefines ==
  ASSUME IInv, ResetUnlocked, NEW t \in Threads
  PROVE  /\ BeginReset(t) => DeviceCall!Invoke(t)
         /\ ResetDevice(t) => DeviceCall!Effect(t)
         /\ ResetReturns(t) => DeviceCall!Return(t)
<1>0. TypeOK
  BY DEF IInv
<1>1. ASSUME BeginReset(t) PROVE DeviceCall!Invoke(t)
  <2>1. PICK c \in Calls : call' = [call EXCEPT ![t] = c]
    BY <1>1 DEF BeginReset
  <2>2. /\ pc[t] = "idle" /\ pc' = [pc EXCEPT ![t] = "reset"]
        /\ \A u \in Threads \ {t} : call'[u] = call[u] /\ result'[u] = result[u]
        /\ UNCHANGED <<transport, status, queue>>
    BY <1>0, <1>1, <2>1 DEF BeginReset, GoTo, deviceVars, TypeOK
  <2>3. CallState(t) = [at |-> "idle"] /\ CallState(t)' = [at |-> "pending", call |-> c]
    BY <1>0, <2>1, <2>2 DEF CallState, InAddr, TypeOK
  <2>4. CallStates' = [CallStates EXCEPT ![t] = [at |-> "pending", call |-> c]]
    BY <1>0, <2>2, <2>3, OneThread DEF TypeOK
  <2> QED BY <2>2, <2>3, <2>4, SameRegisters DEF DeviceCall!Invoke, DeviceCall!Idle, CallStates
<1>2. ASSUME ResetDevice(t) PROVE DeviceCall!Effect(t)
  <2> DEFINE c == call[t]
  <2>1. /\ pc[t] = "reset" /\ pc' = [pc EXCEPT ![t] = "poll"]
        /\ call' = call /\ transport' = transport /\ result' = [result EXCEPT ![t] = 0]
        /\ status' = {} /\ queue' = [q \in Queues |-> FreshQueue]
    BY <1>2 DEF ResetDevice, GoTo
  <2>2. c \in Calls /\ c.op = "reset_device"
    BY <1>0, <2>1 DEF ResetUnlocked, InReset, TypeOK
  <2>3. /\ CallState(t) = [at |-> "pending", call |-> c]
        /\ CallState(t)' = [at |-> "done", result |-> 0]
    BY <2>1, <2>2 DEF CallState, InAddr, IInv, TypeOK
  <2>4. CallStates' = [CallStates EXCEPT ![t] = [at |-> "done", result |-> 0]]
    BY <1>0, <2>1, <2>3, OneThread DEF TypeOK
  <2>5. CallStates[t].at = "pending" /\ CallStates[t].call = c
    BY <2>3 DEF CallStates
  <2>6. DeviceCall!Loaded(queue[c.queue], c, transport) = 0
    BY <2>2, SameRegisters DEF Loaded
  <2> QED BY <2>1, <2>2, <2>4, <2>5, <2>6, SameRegisters DEF DeviceCall!Effect, CallStates
<1>3. ASSUME ResetReturns(t) PROVE DeviceCall!Return(t)
  <2>1. /\ pc[t] = "poll" /\ pc' = [pc EXCEPT ![t] = "idle"]
        /\ \A u \in Threads \ {t} : call'[u] = call[u] /\ result'[u] = result[u]
        /\ UNCHANGED <<transport, status, queue>>
    BY <1>0, <1>3 DEF ResetReturns, Leave, GoTo, TypeOK, deviceVars
  <2>2. CallState(t).at = "done" /\ CallState(t)' = [at |-> "idle"]
    BY <1>0, <2>1 DEF CallState, InAddr, TypeOK
  <2>3. CallStates' = [CallStates EXCEPT ![t] = [at |-> "idle"]]
    BY <1>0, <2>1, <2>2, OneThread DEF TypeOK
  <2> QED BY <2>1, <2>2, <2>3 DEF DeviceCall!Return, DeviceCall!Idle, CallStates
<1> QED BY <1>1, <1>2, <1>3

\* The unlocked call returns.
LEMMA UnlockRefines ==
  ASSUME IInv, NEW t \in Threads, Unlock(t) PROVE DeviceCall!Return(t)
<1>1. /\ pc[t] = "unlock" /\ \E l \in {"create", "idle"} : pc' = [pc EXCEPT ![t] = l]
      /\ \A u \in Threads \ {t} : call'[u] = call[u] /\ result'[u] = result[u]
      /\ UNCHANGED <<transport, status, queue>>
  BY DEF Unlock, GoTo, IInv, TypeOK, deviceVars
<1>2. CallState(t).at = "done"
  BY <1>1 DEF CallState, InAddr
<1>3. CallState(t)' = [at |-> "idle"]
  BY <1>1 DEF CallState, IInv, TypeOK
<1>4. CallStates' = [CallStates EXCEPT ![t] = [at |-> "idle"]]
  BY <1>1, <1>3, OneThread DEF IInv, TypeOK
<1> QED BY <1>1, <1>2, <1>4 DEF DeviceCall!Return, DeviceCall!Idle, CallStates

\* Every step of a thread is one of the abstraction, or shows nowhere in it.
LEMMA ThreadRefines ==
  ASSUME IInv, ResetUnlocked, NEW t \in Threads, Thread(t)
  PROVE  DeviceCall!CallsNext \/ UNCHANGED DeviceCall!vars
<1> USE DEF threadVars, deviceVars
<1>0. TypeOK
  BY DEF IInv
<1>1. CASE Begin(t)
  <2>1. PICK c \in Calls : Invoke(t, c)
    BY <1>1 DEF Begin
  <2> QED BY <1>0, <1>1, <2>1, InvokeRefines DEF Begin, DeviceCall!CallsNext
<1>2. ASSUME NEW q \in Queues, BeginCreate(t, q) PROVE DeviceCall!CallsNext
  BY <1>0, <1>2, FirstCall, InvokeRefines DEF BeginCreate, DeviceCall!CallsNext
<1>3. CASE CreateNext(t)
  <2>1. PICK c \in Calls : Invoke(t, c)
    BY <1>3 DEF CreateNext
  <2> QED BY <1>0, <1>3, <2>1, InvokeRefines DEF CreateNext, DeviceCall!CallsNext
<1>4. CASE Lock(t) \/ Select(t) \/ First(t)
  <2>1. PICK l \in {"select", "access", "store"} : pc' = [pc EXCEPT ![t] = l]
    BY <1>4 DEF Lock, Select, First, GoTo
  <2> QED BY <1>0, <1>4, <2>1, StutterRefines DEF Lock, Select, First
<1>5. CASE CreateFails(t)
  <2>1. pc' = [pc EXCEPT ![t] = "idle"] /\ pc[t] = "create"
        /\ \A u \in Threads \ {t} : call'[u] = call[u] /\ result'[u] = result[u]
    BY <1>0, <1>5 DEF CreateFails, Leave, GoTo, TypeOK
  <2> QED BY <1>0, <1>5, <2>1, StutterRefines DEF CreateFails
<1>6. CASE SetQueueAddr(t)
  <2>1. PICK l \in {"idle"} \cup InAddr : pc' = [pc EXCEPT ![t] = l]
    BY <1>6 DEF SetQueueAddr, Leave, GoTo, InAddr
  <2>2. /\ pc[t] \in {"create"} \cup InAddr
        /\ \A u \in Threads \ {t} : call'[u] = call[u] /\ result'[u] = result[u]
    BY <1>0, <1>6 DEF SetQueueAddr, Leave, InAddr, TypeOK
  <2> QED BY <1>0, <1>6, <2>1, <2>2, StutterRefines DEF SetQueueAddr
<1>7. CASE Last(t)
  BY <1>7, LastRefines DEF DeviceCall!CallsNext
<1>8. CASE Unlock(t)
  BY <1>8, UnlockRefines DEF DeviceCall!CallsNext
<1>9. CASE BeginReset(t) \/ ResetDevice(t) \/ ResetReturns(t)
  BY <1>9, ResetRefines DEF DeviceCall!CallsNext
<1> QED BY <1>1, <1>2, <1>3, <1>4, <1>5, <1>6, <1>7, <1>8, <1>9 DEF Thread

\* The device does in both what it does.
LEMMA DeviceRefines ==
  ASSUME IInv, NEW q \in Queues, TakeKick(q) \/ FinishQueueReset(q)
  PROVE  DeviceCall!Device(q)
<1>1. CallStates' = CallStates /\ transport' = transport /\ status' = status
  BY DEF TakeKick, FinishQueueReset, threadVars, CallStates, CallState
<1> QED BY <1>1, SameRegisters DEF TakeKick, FinishQueueReset, DeviceCall!Device, CallStates

\* virtio.c's operations are atomic on the queue they name: any behaviour of
\* any threads is one of DeviceCalls (ImplementsDeviceCalls).
THEOREM DeviceCallsImplemented == Spec => ImplementsDeviceCalls
<1>1. IInv /\ ResetUnlocked /\ [Next]_vars => [DeviceCall!CallsNext]_(DeviceCall!vars)
  <2> SUFFICES ASSUME IInv, ResetUnlocked, [Next]_vars
               PROVE  DeviceCall!CallsNext \/ UNCHANGED DeviceCall!vars
    OBVIOUS
  <2>1. CASE UNCHANGED vars
    <3>1. CallStates' = CallStates
      BY <2>1 DEF vars, threadVars, CallStates, CallState
    <3> QED BY <2>1, <3>1 DEF vars, deviceVars, DeviceCall!vars, CallStates
  <2>2. ASSUME NEW t \in Threads, Thread(t)
        PROVE  DeviceCall!CallsNext \/ UNCHANGED DeviceCall!vars
    BY <2>2, ThreadRefines
  <2>3. ASSUME NEW q \in Queues, TakeKick(q) \/ FinishQueueReset(q)
        PROVE  DeviceCall!CallsNext
    BY <2>3, DeviceRefines DEF DeviceCall!CallsNext
  <2> QED BY <2>1, <2>2, <2>3 DEF Next
<1>2. Init => ResetUnlocked
  BY DEF Init, ResetUnlocked
<1>3. IInv /\ ResetUnlocked /\ [Next]_vars => ResetUnlocked'
  BY NextKeepsResetUnlocked DEF IInv
<1> QED BY <1>1, <1>2, <1>3, InitRefines, InductiveInvariant, PTL
     DEF Spec, ImplementsDeviceCalls, DeviceCall!CallsSpec
=============================================================================
