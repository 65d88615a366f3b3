------------------------------ MODULE Resmgr ------------------------------
(***************************************************************************)
(* The resource manager (src/src/gpio/resmgr.c): one file per GPIO line    *)
(* and one for the chip, served by one thread that takes a message, calls  *)
(* the driver and replies before it takes the next.  The driver is         *)
(* GpioService, which GpioDriver implements.                               *)
(*                                                                         *)
(* A line's file holds one byte, the chip's none.  Opening, closing,       *)
(* seeking and the checks of access rights are iofunc's defaults.          *)
(***************************************************************************)
EXTENDS Integers

CONSTANTS
  Lines,    \* the GPIO lines, without the chip
  Chip,     \* the chip's file; its index is no line's
  Opens,    \* open control blocks
  Counts,   \* numbers of bytes a message asks for, or brings
  Seeks,    \* offsets clients seek to
  SizeMod,  \* 2^w for the width of size_t
  Handler,  \* the dispatch thread
  NoFile    \* the open control block is not in use

ASSUME ResmgrAssumption ==
  /\ SizeMod \in Nat \ {0}
  /\ Counts \subseteq 0 .. SizeMod - 1 /\ Seeks \subseteq 0 .. SizeMod - 1
  /\ Chip \notin Lines /\ NoFile \notin Lines \cup {Chip}

Files  == Lines \cup {Chip}
Size(f) == IF f = Chip THEN 0 ELSE 1

Value(f)     == <<f, "value">>
Direction(f) == <<f, "direction">>

VARIABLES
  pc,      \* "attach", "ready", "call" or "ended"
  ids,     \* the files resmgr_attach has attached
  ocb,     \* per open control block: [file, offset]
  value,   \* per file, attr->value
  msg,     \* the message in hand: [op, ocb, nbytes]
  reply,   \* the last reply: [rc, nbytes, data]
  reg,     \* the registers of the device
  call,    \* the handler's call of the driver
  held     \* history: what the register asked for has held since the call

Driver == INSTANCE GpioService
            WITH Clients <- {Handler}, LocalErrors <- {"ENOENT", "ENOMEM"},
                 Regs <- Files \X {"value", "direction"}, Values <- 0 .. 2

vars == <<pc, ids, ocb, value, msg, reply, reg, call, held>>

\* value += '0'
Digit(v) == <<"0", "1", "2">>[v + 1]

Closed  == [file |-> NoFile, offset |-> 0]
NoData  == "none"
NoMsg   == [op |-> "none", ocb |-> NoFile, nbytes |-> 0]

Init ==
  /\ Driver!ServiceInit
  /\ \A f \in Files : reg[Value(f)] \in {0, 1}
  /\ reg[Value(Chip)] = 0 /\ reg[Direction(Chip)] = 0
  /\ pc = "attach" /\ ids = {}
  /\ ocb = [o \in Opens |-> Closed]
  /\ value = [f \in Files |-> "NUL"]
  /\ msg = NoMsg /\ reply = [rc |-> "EOK", nbytes |-> 0, data |-> NoData]
  /\ held = {}

-----------------------------------------------------------------------------
(* Starting up: the chip's file, then the lines'.                          *)

Attach(f) ==
  /\ pc = "attach"
  /\ f \notin ids /\ (f # Chip => Chip \in ids)
  /\ ids' = ids \cup {f}
  /\ pc' = IF ids' = Files THEN "ready" ELSE "attach"
  /\ UNCHANGED <<ocb, value, msg, reply, reg, call, held>>

\* An allocation or an attachment fails, or dispatch_block does: everything
\* goes when the dispatch structure does, or with the process.
Give_up ==
  /\ pc \in {"attach", "ready"}
  /\ pc' = "ended" /\ ids' = {}
  /\ ocb' = [o \in Opens |-> Closed]
  /\ UNCHANGED <<value, msg, reply, reg, call, held>>

-----------------------------------------------------------------------------
(* Messages.                                                               *)

Reply(rc, n, data) == reply' = [rc |-> rc, nbytes |-> n, data |-> data]

\* The handler answers without asking the device.
Answer(rc, n) ==
  /\ Reply(rc, n, NoData)
  /\ UNCHANGED <<pc, msg, reg, call, held>>

\* The handler calls the driver.
Ask(op, o, n, request) ==
  /\ msg' = [op |-> op, ocb |-> o, nbytes |-> n]
  /\ pc' = "call"
  /\ Driver!Invoke(Handler, request)
  /\ held' = {reg[request.reg]}
  /\ UNCHANGED reply

Open(o, f) ==
  /\ pc = "ready" /\ ocb[o] = Closed
  /\ ocb' = [ocb EXCEPT ![o].file = f]
  /\ UNCHANGED <<pc, ids, value, msg, reply, reg, call, held>>

Close(o) ==
  /\ pc = "ready" /\ ocb[o].file \in ids
  /\ ocb' = [ocb EXCEPT ![o] = Closed]
  /\ UNCHANGED <<pc, ids, value, msg, reply, reg, call, held>>

Lseek(o, offset) ==
  /\ pc = "ready" /\ ocb[o].file \in ids
  /\ ocb' = [ocb EXCEPT ![o].offset = offset]
  /\ UNCHANGED <<pc, ids, value, msg, reply, reg, call, held>>

\* Mutated form: the offset is not taken from the size.
Left_whole(o) == Size(ocb[o].file)

\* nleft = nbytes - offset, in size_t.
Left(o) == (Size(ocb[o].file) - ocb[o].offset) % SizeMod

\* The chip's index, -1, names no line of the device.
resmgr_read(o, n) ==
  LET nbytes == IF n < Left(o) THEN n ELSE Left(o) IN
  /\ pc = "ready" /\ ocb[o].file \in ids
  /\ \/ Answer("EBADF", 0)
     \/ nbytes = 0 /\ Answer("EOK", 0)
     \/ nbytes > 0 /\ Ask("read", o, nbytes, Driver!Read(Value(ocb[o].file)))
  /\ UNCHANGED <<ids, ocb, value>>

\* EBADF stands for what the verification, or the copy of the message, fails
\* with.  Any byte but '0' is a 1.
resmgr_write(o, n) ==
  /\ pc = "ready" /\ ocb[o].file \in ids
  /\ \/ Answer("EBADF", 0)
     \/ n # 1 /\ Answer("EINVAL", 0)
     \/ n = 1 /\ \E v \in {0, 1} :
                   Ask("write", o, n, Driver!Write(Value(ocb[o].file), v))
  /\ UNCHANGED <<ids, ocb, value>>

\* Line information asks for the line's direction; everything else is
\* answered at once.
resmgr_devctl(o) ==
  /\ pc = "ready" /\ ocb[o].file \in ids
  /\ \/ Answer("EOK", 0)
     \/ \E rc \in {"ENOENT", "ENOTSUP", "ENOSYS"} : Answer(rc, 0)
     \/ \E l \in Lines : Ask("lineinfo", o, 0, Driver!Read(Direction(l)))
  /\ UNCHANGED <<ids, ocb, value>>

\* Mutated form: the direction is passed on as it is.
Flag_raw(direction) == Digit(direction)

Flag(direction) == IF direction = 0 THEN "INPUT" ELSE "OUTPUT"

Hand_back == pc' = "ready" /\ msg' = NoMsg /\ held' = {}

\* The driver's call is over.  Of a refused one the code is passed on; the driver
\* has copied the value of the response, 0, all the same.
Refused ==
  /\ pc = "call" /\ call[Handler].state = "done" /\ call[Handler].rc # "EOK"
  /\ Driver!Return(Handler)
  /\ value' = IF msg.op = "read" THEN [value EXCEPT ![ocb[msg.ocb].file] = "NUL"] ELSE value
  /\ Reply(call[Handler].rc, 0, NoData)
  /\ Hand_back
  /\ UNCHANGED <<ids, ocb>>

\* Mutated form: the handler waits for the answer to a request that failed.
NotSent_waits ==
  /\ pc = "call"
  /\ Driver!Fail(Handler)
  /\ UNCHANGED <<pc, ids, ocb, value, msg, reply, held>>

\* A call that failed in the driver passes its code on too.
NotSent ==
  /\ pc = "call"
  /\ Driver!Fail(Handler)
  /\ Reply(call'[Handler].rc, 0, NoData)
  /\ Hand_back
  /\ UNCHANGED <<ids, ocb, value>>

\* Mutated form: the byte sent is the one the previous read left.
Answered_stale ==
  LET o == msg.ocb
      v == call[Handler].value IN
  /\ pc = "call" /\ call[Handler].state = "done" /\ call[Handler].rc = "EOK"
  /\ Driver!Return(Handler)
  /\ IF msg.op = "read"
     THEN /\ value' = [value EXCEPT ![ocb[o].file] = Digit(v)]
          /\ ocb' = [ocb EXCEPT ![o].offset = (@ + msg.nbytes) % SizeMod]
          /\ Reply("EOK", msg.nbytes, value[ocb[o].file])
     ELSE /\ UNCHANGED <<value, ocb>>
          /\ Reply("EOK", msg.nbytes, NoData)
  /\ Hand_back
  /\ UNCHANGED ids

\* Of a good one, a read sends nbytes from attr->value on: the digit first.
Answered ==
  LET o == msg.ocb
      v == call[Handler].value IN
  /\ pc = "call" /\ call[Handler].state = "done" /\ call[Handler].rc = "EOK"
  /\ Driver!Return(Handler)
  /\ IF msg.op = "read"
     THEN /\ value' = [value EXCEPT ![ocb[o].file] = Digit(v)]
          /\ ocb' = [ocb EXCEPT ![o].offset = (@ + msg.nbytes) % SizeMod]
          /\ Reply("EOK", msg.nbytes, value'[ocb[o].file])
     ELSE /\ UNCHANGED <<value, ocb>>
          /\ Reply("EOK", msg.nbytes, IF msg.op = "write" THEN NoData ELSE Flag(v))
  /\ Hand_back
  /\ UNCHANGED ids

-----------------------------------------------------------------------------
(* The device, and what drives its input lines.                            *)

Asked == call[Handler].request.reg

Device ==
  /\ \/ call[Handler].state = "pending" /\ Asked[1] # Chip /\ Driver!Perform(Handler)
     \/ Driver!Refuse(Handler)
  /\ held' = IF pc = "call" THEN held \cup {reg'[Asked]} ELSE held
  /\ UNCHANGED <<pc, ids, ocb, value, msg, reply>>

Input(l) ==
  /\ reg' = [reg EXCEPT ![Value(l)] = 1 - @]
  /\ held' = IF call[Handler].state = "pending" THEN held \cup {reg'[Asked]} ELSE held
  /\ UNCHANGED <<pc, ids, ocb, value, msg, reply, call>>

-----------------------------------------------------------------------------
Return == Refused \/ NotSent \/ Answered

Next ==
  \/ \E f \in Files : Attach(f)
  \/ Give_up
  \/ \E o \in Opens :
       \/ \E f \in Files : Open(o, f)
       \/ Close(o) \/ \E offset \in Seeks : Lseek(o, offset)
       \/ \E n \in Counts : resmgr_read(o, n) \/ resmgr_write(o, n)
       \/ resmgr_devctl(o)
  \/ Return
  \/ Device
  \/ \E l \in Lines : Input(l)

Spec == Init /\ [][Next]_vars

\* The dispatch thread runs and the device answers; CallReturns of GpioDriver
\* is what justifies the second.
FairSpec == Spec /\ WF_vars(Return) /\ WF_vars(Device)

-----------------------------------------------------------------------------
(* Properties.                                                             *)

ReplyCodes == {"EOK", "EBADF", "EINVAL", "ENOENT", "ENOTSUP", "ENOSYS", "EIO", "ENOMEM"}

CallStates ==
  [state : {"pending"}, request : Driver!Requests]
    \cup [state : {"done", "idle"}, rc : {"EOK", "EIO", "ENOENT", "ENOMEM"}, value : 0 .. 2]

\* Every variable has its type: what is sent is a digit or a flag, every file is
\* attached before the first message, and only attached files are open.
TypeOK ==
  /\ pc \in {"attach", "ready", "call", "ended"}
  /\ ids \subseteq Files /\ (pc \in {"ready", "call"} => ids = Files)
  /\ ocb \in [Opens -> [file : Files \cup {NoFile}, offset : 0 .. SizeMod - 1]]
  /\ \A o \in Opens : ocb[o] = Closed \/ ocb[o].file \in ids
  /\ value \in [Files -> {"NUL", "0", "1"}]
  /\ msg \in [op : {"none", "read", "write", "lineinfo"},
              ocb : Opens \cup {NoFile}, nbytes : 0 .. SizeMod - 1]
  /\ reply \in [rc : ReplyCodes, nbytes : 0 .. SizeMod - 1,
                data : {NoData, "0", "1", "INPUT", "OUTPUT"}]
  /\ reg \in [Files \X {"value", "direction"} -> 0 .. 2]
  /\ call \in [{Handler} -> CallStates]
  /\ held \subseteq 0 .. 2

ReadReply == /\ pc = "call" /\ msg.op = "read"
             /\ pc' = "ready" /\ reply'.rc = "EOK"

\* What a read returns is what the line held at some moment between the
\* message and the reply, and not what an earlier message left in attr->value,
\* which all that have the file open share (resmgr_read).
ReadsLineValue ==
  [][ReadReply => reply'.data \in {Digit(v) : v \in held}]_vars

\* From an offset inside the file or at its end - past it, nleft wraps around - a
\* read sends no more than the rest of the file and moves the offset by what it
\* sends, so that a reader gets its byte once and then the end of the file;
\* nothing is ever read from the chip's file (resmgr_read).
ReadsWithinFile ==
  [][LET o == msg.ocb IN
       ReadReply /\ ocb[o].offset <= Size(ocb[o].file) =>
         /\ ocb[o].offset + reply'.nbytes <= Size(ocb[o].file)
         /\ ocb'[o].offset = ocb[o].offset + reply'.nbytes]_vars

\* The one dispatch thread comes back to take the next message: as long as the
\* driver's calls return, no message keeps it for ever (resmgr_run).
EveryMessageAnswered == pc = "call" ~> pc = "ready"
=============================================================================
