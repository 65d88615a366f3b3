-------------------------- MODULE DeviceRegisters --------------------------
(***************************************************************************)
(* The per-queue registers of a virtio device as the operations of         *)
(* src/src/virtio/virtio.h use them, and what an operation does to the     *)
(* registers of the queue it reaches.                                      *)
(***************************************************************************)
EXTENDS Integers

CONSTANTS
  Queues,   \* indices of the virtqueues
  Bits,     \* device status bits
  MaxSize,  \* the maximum size of a queue
  Sizes     \* sizes callers ask for

ASSUME RegistersAssumption == MaxSize \in Nat /\ Sizes \subseteq Nat /\ Bits \subseteq Nat

Call(op, queue, arg) == [op |-> op, queue |-> queue, arg |-> arg]

\* The calls of virtio.c that store to the registers modelled here or load from
\* them: those that take the lock, and the reset.  A call for the status or the
\* whole device is for no queue: the one it names is not looked at.
Calls ==
  [op : {"notify_queue", "max_queue_size", "set_queue_reset", "get_queue_reset",
         "reset_device"},
   queue : Queues, arg : {0}]
  \cup [op : {"enable_queue"}, queue : Queues, arg : {0, 1}]
  \cup [op : {"set_queue_size"}, queue : Queues, arg : Sizes]
  \cup [op : {"add_device_status"}, queue : Queues, arg : Bits]

QueueRegisters ==
  [size : Sizes \cup {MaxSize}, enabled : BOOLEAN, resetting : BOOLEAN, kicked : BOOLEAN]

FreshQueue ==
  [size |-> MaxSize, enabled |-> FALSE, resetting |-> FALSE, kicked |-> FALSE]

\* The registers of a queue after the store of operation c has reached it.
Written(r, c) ==
  CASE c.op = "notify_queue"    -> [r EXCEPT !.kicked = TRUE]
    [] c.op = "enable_queue"    -> [r EXCEPT !.enabled = c.arg = 1]
    [] c.op = "set_queue_size"  -> [r EXCEPT !.size = c.arg]
    [] c.op = "set_queue_reset" -> [r EXCEPT !.resetting = TRUE]
    [] OTHER                    -> r

\* What a load of operation c finds there.  PCI has one register for the size
\* of a queue and for its maximum.
Loaded(r, c, transport) ==
  CASE c.op = "get_queue_reset" -> IF r.resetting THEN 1 ELSE 0
    [] c.op = "max_queue_size"  -> IF transport = "pci" THEN r.size ELSE MaxSize
    [] OTHER                    -> 0
=============================================================================
