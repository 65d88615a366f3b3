--------------------------- MODULE GpioMessages ---------------------------
(***************************************************************************)
(* The messages of the GPIO request queue (struct virtio_gpio_request and  *)
(* struct virtio_gpio_response of src/src/gpio/gpio.c).  A register is the *)
(* value or the direction of one line, so GET_VALUE and GET_DIRECTION are  *)
(* READs, SET_VALUE and SET_DIRECTION are WRITEs.                          *)
(***************************************************************************)
EXTENDS Integers

CONSTANTS Regs, Values

ASSUME ValuesAssumption == 0 \in Values

Read(r)     == [type |-> "READ", reg |-> r, value |-> 0]
Write(r, v) == [type |-> "WRITE", reg |-> r, value |-> v]
Requests    == [type : {"READ"}, reg : Regs, value : {0}]
                 \cup [type : {"WRITE"}, reg : Regs, value : Values]

\* Status OK becomes EOK in the caller, anything else EIO.
Replies == [rc : {"EOK", "EIO"}, value : Values]
Reply(rc, v) == [rc |-> rc, value |-> v]
=============================================================================
