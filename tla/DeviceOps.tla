----------------------------- MODULE DeviceOps -----------------------------
(***************************************************************************)
(* The device operations of src/src/virtio/virtio.c on the registers of    *)
(* the MMIO (virtio_mmio.c) and the PCI transport (virtio_pci.c), called   *)
(* by several threads.  A device has one set of queue registers and a      *)
(* selector that says which queue they are of: an operation takes the spin *)
(* lock, writes the selector, makes its accesses and gives the lock up.    *)
(*                                                                         *)
(* One action is one access to the device or one step on the lock.         *)
(* virtio_set_queue_addr takes no lock and writes no selector: it relies   *)
(* on the call before it in virtio_create_queue, and on being alone.  So   *)
(* does virtio_reset_device, whose store clears the status without the     *)
(* lock.                                                                   *)
(***************************************************************************)
EXTENDS DeviceRegisters

CONSTANTS
  Threads,
  Transports, \* subset of {"mmio", "pci"}
  Mixes,      \* which operations a behaviour makes: a bound on the state space
  NoCall,     \* no call in progress
  Nobody      \* no thread: the lock is free, nobody has the device to itself

ASSUME OpsAssumption ==
  /\ Transports \subseteq {"mmio", "pci"}
  /\ Nobody \notin Threads /\ NoCall \notin Calls

VARIABLES
  transport, mix,
  lock,          \* dev->lock: its holder
  pc,            \* per thread, where it is
  call,          \* per thread, its call
  read,          \* per thread, what it loads before it stores: current_status, or
                 \* the queue whose doorbell queue_notify_off leads to
  result,        \* per thread, what its last call loaded
  creator,       \* the thread inside virtio_create_queue or virtio_reset_device
  queue_select,  \* the selector
  status,        \* the device status
  queue,         \* per queue, its registers,
  msix,          \* ... whether it has its MSI-X vector,
  rings          \* ... and whose rings it has been given

threadVars == <<lock, pc, call, read, result, creator>>
deviceVars == <<queue_select, status, queue, msix, rings>>
vars == <<transport, mix, threadVars, deviceVars>>

Parts == {"desc", "driver", "device"}
NoRings == [p \in Parts |-> {}]

Init ==
  /\ transport \in Transports /\ mix \in Mixes
  /\ lock = Nobody /\ creator = Nobody
  /\ pc = [t \in Threads |-> "idle"]
  /\ call = [t \in Threads |-> NoCall]
  /\ read = [t \in Threads |-> {}]
  /\ result = [t \in Threads |-> 0]
  /\ queue_select \in Queues
  /\ status = {}
  /\ queue = [q \in Queues |-> FreshQueue]
  /\ msix = [q \in Queues |-> FALSE]
  /\ rings = [q \in Queues |-> NoRings]

GoTo(t, label) == pc' = [pc EXCEPT ![t] = label]

-----------------------------------------------------------------------------
(* A call: lock, select, access, unlock.                                   *)

Invoke(t, c) ==
  /\ GoTo(t, "lock")
  /\ call' = [call EXCEPT ![t] = c]
  /\ result' = [result EXCEPT ![t] = 0]

Begin(t) ==
  /\ pc[t] = "idle" /\ creator = Nobody
  /\ \E c \in Calls : c.op \in mix \ {"reset_device"} /\ Invoke(t, c)
  /\ UNCHANGED <<transport, mix, lock, read, creator, deviceVars>>

\* Mutated form: the operation goes ahead without the lock.
Lock_nowait(t) ==
  /\ pc[t] = "lock"
  /\ lock' = t
  /\ GoTo(t, IF call[t].op = "add_device_status" THEN "access" ELSE "select")
  /\ UNCHANGED <<transport, mix, call, read, result, creator, deviceVars>>

Lock(t) ==
  /\ pc[t] = "lock" /\ lock = Nobody
  /\ lock' = t
  /\ GoTo(t, IF call[t].op = "add_device_status" THEN "access" ELSE "select")
  /\ UNCHANGED <<transport, mix, call, read, result, creator, deviceVars>>

\* Mutated form: the queue that happens to be selected is taken.
Select_skipped(t) ==
  /\ pc[t] = "select"
  /\ GoTo(t, "access")
  /\ UNCHANGED <<transport, mix, lock, call, read, result, creator, deviceVars>>

Select(t) ==
  /\ pc[t] = "select"
  /\ queue_select' = call[t].queue
  /\ GoTo(t, "access")
  /\ UNCHANGED <<transport, mix, lock, call, read, result, creator,
                 status, queue, msix, rings>>

\* The accesses that need a second one: virtio_add_device_status loads the
\* status, the PCI notification queue_notify_off, and the PCI enable operation
\* stores the MSI-X vector first.
TwoAccesses(t) ==
  \/ call[t].op = "add_device_status"
  \/ transport = "pci" /\ call[t].op \in {"notify_queue", "enable_queue"}

First(t) ==
  /\ pc[t] = "access" /\ TwoAccesses(t)
  /\ read' = [read EXCEPT ![t] = CASE call[t].op = "add_device_status" -> status
                                   [] call[t].op = "notify_queue" -> {queue_select}
                                   [] call[t].op = "enable_queue" -> {}]
  /\ msix' = IF call[t].op = "enable_queue"
             THEN [msix EXCEPT ![queue_select] = TRUE] ELSE msix
  /\ GoTo(t, "store")
  /\ UNCHANGED <<transport, mix, lock, call, result, creator,
                 queue_select, status, queue, rings>>

\* The status is the one loaded with the bit added.  The other stores reach the
\* queue the selector names, except a notification: MMIO writes the index,
\* PCI to the doorbell.
Stored(t) ==
  IF call[t].op = "add_device_status"
  THEN status' = read[t] \cup {call[t].arg} /\ UNCHANGED queue
  ELSE /\ \E q \in IF call[t].op # "notify_queue" THEN {queue_select}
                   ELSE IF transport = "pci" THEN read[t] ELSE {call[t].queue} :
            queue' = [queue EXCEPT ![q] = Written(@, call[t])]
       /\ UNCHANGED status

Last(t) ==
  /\ \/ pc[t] = "access" /\ ~TwoAccesses(t)
     \/ pc[t] = "store"
  /\ Stored(t)
  /\ result' = [result EXCEPT ![t] = Loaded(queue[queue_select], call[t], transport)]
  /\ read' = [read EXCEPT ![t] = {}]
  /\ GoTo(t, "unlock")
  /\ UNCHANGED <<transport, mix, lock, call, creator, queue_select, msix, rings>>

\* The call returns, to its caller or to virtio_create_queue.
Unlock(t) ==
  /\ pc[t] = "unlock"
  /\ lock' = Nobody
  /\ IF creator = t
     THEN GoTo(t, "create") /\ UNCHANGED <<call, result>>
     ELSE /\ GoTo(t, "idle")
          /\ call' = [call EXCEPT ![t] = NoCall]
          /\ result' = [result EXCEPT ![t] = 0]
  /\ UNCHANGED <<transport, mix, read, creator, deviceVars>>

-----------------------------------------------------------------------------
(* virtio_reset_device and virtio_create_queue, before anybody else has    *)
(* the device.                                                             *)

\* Mutated form: the device can be used before it is set up.
Alone_published == creator = Nobody

\* virtio_gpio_init hands its device out when it is done with it: nothing else
\* calls an operation while the device is reset or a queue is created.
Alone == creator = Nobody /\ \A t \in Threads : pc[t] = "idle"

BeginReset(t) ==
  /\ pc[t] = "idle"
  /\ Alone
  /\ creator' = t
  /\ \E c \in Calls :
       /\ c.op = "reset_device" /\ c.op \in mix
       /\ call' = [call EXCEPT ![t] = c]
  /\ GoTo(t, "reset")
  /\ UNCHANGED <<transport, mix, lock, read, result, deviceVars>>

\* A zero is stored in the status.  The device has reset at once: how one that
\* takes its time is waited for is in DeviceSetup.
ResetDevice(t) ==
  /\ pc[t] = "reset"
  /\ status' = {}
  /\ queue' = [q \in Queues |-> FreshQueue]
  /\ msix' = [q \in Queues |-> FALSE]
  /\ rings' = [q \in Queues |-> NoRings]
  /\ result' = [result EXCEPT ![t] = 0]
  /\ GoTo(t, "poll")
  /\ UNCHANGED <<transport, mix, lock, call, read, creator, queue_select>>

BeginCreate(t, q) ==
  /\ pc[t] = "idle" /\ "create" \in mix
  /\ Alone
  /\ creator' = t
  /\ Invoke(t, Call("max_queue_size", q, 0))
  /\ UNCHANGED <<transport, mix, lock, read, deviceVars>>

\* The order of its calls.  Whether the reset is polled before the first answer
\* depends on a variable nobody has written.
Following(op, rc) ==
  CASE op = "max_queue_size"  -> {"set_queue_reset"}
    [] op = "set_queue_reset" -> {"get_queue_reset", "set_queue_size"}
    [] op = "get_queue_reset" -> IF rc = 1 THEN {"get_queue_reset"} ELSE {"set_queue_size"}
    [] OTHER                  -> {}

CreateNext(t) ==
  /\ pc[t] = "create"
  /\ \E c \in Calls : /\ c.queue = call[t].queue
                      /\ c.op \in Following(call[t].op, result[t])
                      /\ Invoke(t, c)
  /\ UNCHANGED <<transport, mix, lock, read, creator, deviceVars>>

\* Mutated form: the call is not forgotten.
Leave_call(t) ==
  /\ creator' = Nobody
  /\ GoTo(t, "idle")
  /\ result' = [result EXCEPT ![t] = 0]
  /\ UNCHANGED call

Leave(t) ==
  /\ creator' = Nobody
  /\ GoTo(t, "idle")
  /\ call' = [call EXCEPT ![t] = NoCall]
  /\ result' = [result EXCEPT ![t] = 0]

ResetReturns(t) ==
  /\ pc[t] = "poll"
  /\ Leave(t)
  /\ UNCHANGED <<transport, mix, lock, read, deviceVars>>

\* There is no queue of this index or no memory for it, or the reset timed out.
CreateFails(t) ==
  /\ pc[t] = "create"
  /\ \/ call[t].op = "max_queue_size"
     \/ call[t].op = "get_queue_reset" /\ result[t] = 1
  /\ Leave(t)
  /\ UNCHANGED <<transport, mix, lock, read, deviceVars>>

\* The three addresses, stored without lock or selection.
SetAddr(p, t) ==
  rings' = [rings EXCEPT ![queue_select][p] = {call[t].queue}]

SetQueueAddr(t) ==
  /\ \/ /\ pc[t] = "create" /\ call[t].op = "set_queue_size"
        /\ SetAddr("desc", t) /\ GoTo(t, "driver")
        /\ UNCHANGED <<call, result, creator>>
     \/ /\ pc[t] = "driver"
        /\ SetAddr("driver", t) /\ GoTo(t, "device")
        /\ UNCHANGED <<call, result, creator>>
     \/ /\ pc[t] = "device"
        /\ SetAddr("device", t) /\ Leave(t)
  /\ UNCHANGED <<transport, mix, lock, read, queue_select, status, queue, msix>>

-----------------------------------------------------------------------------
(* The device.                                                             *)

TakeKick(q) ==
  /\ queue[q].kicked
  /\ queue' = [queue EXCEPT ![q].kicked = FALSE]
  /\ UNCHANGED <<transport, mix, threadVars, queue_select, status, msix, rings>>

FinishQueueReset(q) ==
  /\ queue[q].resetting
  /\ queue' = [queue EXCEPT ![q] = FreshQueue]
  /\ msix' = [msix EXCEPT ![q] = FALSE]
  /\ rings' = [rings EXCEPT ![q] = NoRings]
  /\ UNCHANGED <<transport, mix, threadVars, queue_select, status>>

Thread(t) ==
  \/ Begin(t) \/ Lock(t) \/ Select(t) \/ First(t) \/ Last(t) \/ Unlock(t)
  \/ \E q \in Queues : BeginCreate(t, q)
  \/ CreateNext(t) \/ CreateFails(t) \/ SetQueueAddr(t)
  \/ BeginReset(t) \/ ResetDevice(t) \/ ResetReturns(t)

Next ==
  \/ \E t \in Threads : Thread(t)
  \/ \E q \in Queues : TakeKick(q) \/ FinishQueueReset(q)

Spec == Init /\ [][Next]_vars

-----------------------------------------------------------------------------
(* Properties.                                                             *)

InLock == {"select", "access", "store", "unlock"}
InAddr == {"driver", "device"}
InReset == {"reset", "poll"}
Labels == {"idle", "lock", "create"} \cup InLock \cup InAddr \cup InReset

\* Every variable has its type; what is loaded for a later store is a status, or
\* the doorbell of one queue, and a thread has a call unless it is idle.
TypeOK ==
  /\ transport \in Transports /\ mix \in Mixes
  /\ lock \in Threads \cup {Nobody} /\ creator \in Threads \cup {Nobody}
  /\ pc \in [Threads -> Labels]
  /\ call \in [Threads -> Calls \cup {NoCall}]
  /\ read \in [Threads -> (SUBSET Bits) \cup (SUBSET Queues)]
  /\ result \in [Threads -> Nat]
  /\ queue_select \in Queues
  /\ status \in SUBSET Bits
  /\ queue \in [Queues -> QueueRegisters]
  /\ msix \in [Queues -> BOOLEAN]
  /\ rings \in [Queues -> [Parts -> SUBSET Queues]]
  /\ \A t \in Threads : pc[t] = "idle" <=> call[t] = NoCall

\* A thread that accesses queue registers, or leads a notification to its
\* doorbell, finds its own queue selected: no other operation comes between the
\* selection and the access (the lock of virtio.c), nor between the calls of
\* virtio_create_queue and its unlocked stores of the addresses.
SelectsOwnQueue ==
  \A t \in Threads :
    /\ pc[t] \in {"access", "store"} /\ call[t].op # "add_device_status"
         => queue_select = call[t].queue
    /\ pc[t] = "store" /\ call[t].op = "notify_queue" => read[t] = {call[t].queue}
    /\ pc[t] \in InAddr => queue_select = call[t].queue

\* A queue is only ever given the rings of its own virtqueue, although the
\* addresses are stored in whatever queue is selected.
RingsOfOwnQueue == \A q \in Queues, p \in Parts : rings[q][p] \subseteq {q}

CallState(t) ==
  CASE pc[t] \in {"idle", "create"} \cup InAddr -> [at |-> "idle"]
    [] pc[t] \in {"unlock", "poll"} -> [at |-> "done", result |-> result[t]]
    [] OTHER -> [at |-> "pending", call |-> call[t]]

DeviceCall == INSTANCE DeviceCalls WITH state <- [t \in Threads |-> CallState(t)]

\* Every call that takes the lock, and the reset, takes effect at once on the queue
\* it names or on the status, and a status bit is added to those there are: no
\* update is lost, none reaches another queue, and no bit read before the reset is
\* written back after it.  Only the reset does without the lock, and is right because
\* nobody else has the device yet (virtio_reset_device, virtio_gpio_init).
ImplementsDeviceCalls == DeviceCall!CallsSpec
=============================================================================
