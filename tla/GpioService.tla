---------------------------- MODULE GpioService ----------------------------
(***************************************************************************)
(* What the GPIO interface promises its callers (src/src/gpio/gpio.h): a   *)
(* set of device registers - the value and the direction of each line -    *)
(* that concurrent calls read and write.  A call that reports EOK took     *)
(* effect on the device exactly once, between its start and its return,    *)
(* and a read returns what the register held then.  A call the device      *)
(* refuses returns EIO; a call that fails in the driver has no effect.     *)
(***************************************************************************)
EXTENDS GpioMessages

CONSTANTS Clients, LocalErrors

VARIABLES reg,   \* the registers of the device
          call   \* per client, the progress of its call

serviceVars == <<reg, call>>

Pending(q)  == [state |-> "pending", request |-> q]
Done(rc, v) == [state |-> "done", rc |-> rc, value |-> v]
Idle(rc, v) == [state |-> "idle", rc |-> rc, value |-> v]

ServiceInit ==
  /\ reg \in [Regs -> Values]
  /\ call = [c \in Clients |-> Idle("EOK", 0)]

Invoke(c, q) ==
  /\ call[c].state = "idle"
  /\ call' = [call EXCEPT ![c] = Pending(q)]
  /\ UNCHANGED reg

\* The device carries the request out ...
Perform(c) ==
  /\ call[c].state = "pending"
  /\ LET q == call[c].request IN
       IF q.type = "READ"
       THEN /\ call' = [call EXCEPT ![c] = Done("EOK", reg[q.reg])]
            /\ UNCHANGED reg
       ELSE /\ call' = [call EXCEPT ![c] = Done("EOK", 0)]
            /\ reg' = [reg EXCEPT ![q.reg] = q.value]

\* ... or refuses it.
Refuse(c) ==
  /\ call[c].state = "pending"
  /\ call' = [call EXCEPT ![c] = Done("EIO", 0)]
  /\ UNCHANGED reg

Return(c) ==
  /\ call[c].state = "done"
  /\ call' = [call EXCEPT ![c] = Idle(call[c].rc, call[c].value)]
  /\ UNCHANGED reg

\* The driver gives up before the device has seen the request.
Fail(c) ==
  /\ call[c].state = "pending"
  /\ \E e \in LocalErrors : call' = [call EXCEPT ![c] = Idle(e, 0)]
  /\ UNCHANGED reg

ServiceNext ==
  \E c \in Clients :
    \/ \E q \in Requests : Invoke(c, q)
    \/ Perform(c)
    \/ Refuse(c)
    \/ Return(c)
    \/ Fail(c)

ServiceSpec == ServiceInit /\ [][ServiceNext]_serviceVars
=============================================================================
