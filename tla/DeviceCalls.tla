---------------------------- MODULE DeviceCalls ----------------------------
(***************************************************************************)
(* What virtio.h promises of its device operations, whatever registers it  *)
(* takes: a call is for the queue it names, takes effect on that queue's   *)
(* registers, or on the status, in one step between its start and its      *)
(* return, and returns what it found there.  A reset clears everything.    *)
(***************************************************************************)
EXTENDS DeviceRegisters

CONSTANT Threads

VARIABLES
  transport,
  state,    \* per thread: idle, or in a call, which has or has not taken effect
  status,   \* the device status bits
  queue     \* per queue, its registers

vars == <<transport, state, status, queue>>

Idle == [at |-> "idle"]

CallsInit ==
  /\ transport \in {"mmio", "pci"}
  /\ state = [t \in Threads |-> Idle]
  /\ status = {}
  /\ queue = [q \in Queues |-> FreshQueue]

Invoke(t) ==
  /\ state[t] = Idle
  /\ \E c \in Calls : state' = [state EXCEPT ![t] = [at |-> "pending", call |-> c]]
  /\ UNCHANGED <<transport, status, queue>>

Effect(t) ==
  /\ state[t].at = "pending"
  /\ LET c == state[t].call IN
       /\ queue' = IF c.op = "reset_device" THEN [q \in Queues |-> FreshQueue]
                   ELSE [queue EXCEPT ![c.queue] = Written(@, c)]
       /\ status' = CASE c.op = "add_device_status" -> status \cup {c.arg}
                      [] c.op = "reset_device"      -> {}
                      [] OTHER                      -> status
       /\ state' = [state EXCEPT ![t] =
            [at |-> "done", result |-> Loaded(queue[c.queue], c, transport)]]
  /\ UNCHANGED transport

Return(t) ==
  /\ state[t].at = "done"
  /\ state' = [state EXCEPT ![t] = Idle]
  /\ UNCHANGED <<transport, status, queue>>

\* The device takes a notification, or finishes the reset of a queue.
Device(q) ==
  /\ \/ queue' = [queue EXCEPT ![q].kicked = FALSE]
     \/ queue[q].resetting /\ queue' = [queue EXCEPT ![q] = FreshQueue]
  /\ UNCHANGED <<transport, state, status>>

CallsNext ==
  \/ \E t \in Threads : Invoke(t) \/ Effect(t) \/ Return(t)
  \/ \E q \in Queues : Device(q)

CallsSpec == CallsInit /\ [][CallsNext]_vars
=============================================================================
