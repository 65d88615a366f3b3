---------------------------- MODULE GpioDriver ----------------------------
(***************************************************************************)
(* The request path of the virtio GPIO driver: threads that call           *)
(* virtio_gpio_{get,set}_{value,direction} (src/src/gpio/gpio.c), the      *)
(* interrupt service thread virtio_ist (src/src/virtio/virtio.c), the      *)
(* interrupt handling of both transports (virtio_mmio.c, virtio_pci.c) and *)
(* the device on the other side of the virtqueue.                          *)
(*                                                                         *)
(* Every action is a run of code with one step that another thread or the *)
(* device can observe - on the free list, on a ring index, on a semaphore, *)
(* on the interrupt line - together with the steps around it on data no    *)
(* one else can reach at that point: a descriptor the thread has taken off *)
(* the free list, a ring entry its index does not cover yet.               *)
(***************************************************************************)
EXTENDS Virtq, GpioMessages

CONSTANTS
  Clients,    \* threads that call the driver; the resource manager has one
  Faults,     \* what may go wrong in the environment, a subset of AllFaults
  Transports, \* the transports considered, a subset of {"mmio", "pci"}
  NoRequest,  \* no request, no reply, no descriptor
  NoReply,
  NoDesc

AllFaults == {"sem",       \* sem_init fails
              "mmap",      \* mmap64 or mem_offset64 fails
              "spurious",  \* InterruptWait returns without an interrupt
              "signal",    \* sem_wait returns early
              "attach",    \* InterruptAttachThread fails
              "reorder"}   \* the CPU performs a later load first

ASSUME ConstantsAssumption ==
  /\ Faults \subseteq AllFaults
  /\ Transports \subseteq {"mmio", "pci"}

\* The marks for "nothing there" are none of the things they stand in for, and
\* no thread is called as what else holds a lock or a descriptor.
ASSUME MarksAssumption ==
  /\ NoDesc \notin Desc
  /\ NoContext \notin Clients
  /\ {"free", "flight", "ist", Unlocked} \cap Clients = {}
  /\ Unmapped # Zeroed
  /\ {Unmapped, Zeroed} \cap (Requests \cup Replies) = {}
  /\ NoReply \notin Replies

VARIABLES
  pc,         \* per client, where it is in virtio_gpio_request and its caller
  op,         \* per client, the request it is making
  idxs,       \* per client, the descriptors it has allocated
  context,    \* per client, its struct virtio_gpio_context: [sem, reply]
  ret,        \* per client, what its last call returned
  ist,        \* the interrupt service thread; stale: history, it has taken an
              \* entry the index it read does not cover
  dev,        \* the device: its view of the rings
  isr,        \* an interrupt is pending
  reg,        \* the registers of the device
  transport   \* "mmio" or "pci"

clientVars == <<pc, op, idxs, ret>>
vars == <<virtqVars, clientVars, context, ist, dev, isr, reg, transport>>

\* uint16_t idxs[2]
Pair(d0, d1) == [n \in 0 .. 1 |-> IF n = 0 THEN d0 ELSE d1]
NoDescs   == Pair(NoDesc, NoDesc)
IstIdle   == [pc |-> "attach", id |-> NoDesc, idxs |-> NoDescs, stale |-> FALSE]
FreshContext == [sem |-> 0, reply |-> NoReply]

Init ==
  /\ VirtqInit
  /\ pc = [c \in Clients |-> "idle"]
  /\ op = [c \in Clients |-> NoRequest]
  /\ idxs = [c \in Clients |-> NoDescs]
  /\ context = [c \in Clients |-> FreshContext]
  /\ ret = [c \in Clients |-> Reply("EOK", 0)]
  /\ ist = IstIdle
  /\ dev = [last |-> 0, kick |-> FALSE, held |-> {}, pc |-> "ready"]
  /\ isr = FALSE
  /\ reg \in [Regs -> Values]
  /\ transport \in Transports

-----------------------------------------------------------------------------
(* A calling thread.                                                       *)

GoTo(c, label) == pc' = [pc EXCEPT ![c] = label]

\* The call returns and its context leaves the stack.
Finish(c, rc, v) ==
  /\ pc'  = [pc EXCEPT ![c] = "idle"]
  /\ op'  = [op EXCEPT ![c] = NoRequest]
  /\ idxs' = [idxs EXCEPT ![c] = NoDescs]
  /\ ret' = [ret EXCEPT ![c] = Reply(rc, v)]
  /\ context' = [context EXCEPT ![c] = FreshContext]

\* Only the calling thread's own variables and those named may change.
ClientOnly == UNCHANGED <<ist, dev, isr, reg, transport>>

Begin(c, q) ==
  /\ pc[c] = "idle"
  /\ GoTo(c, "alloc0")
  /\ op' = [op EXCEPT ![c] = q]
  /\ ret' = [ret EXCEPT ![c] = Reply("EOK", 0)]
  /\ context' = [context EXCEPT ![c] = FreshContext]
  /\ UNCHANGED <<virtqVars, idxs>> /\ ClientOnly

\* virtq_alloc_desc gives c its n-th descriptor, mapped ...
Takes(c, n, d, next) ==
  /\ fifo_get(d)
  /\ MapDesc(d, n = 1)
  /\ idxs' = [idxs EXCEPT ![c][n] = d]
  /\ GoTo(c, next)
  /\ UNCHANGED <<op, ret, context>>

\* ... or takes it off the list and cannot map it ...
TakesUnmapped(c, n, d, next) ==
  /\ "mmap" \in Faults
  /\ fifo_get(d)
  /\ idxs' = [idxs EXCEPT ![c][n] = d]
  /\ GoTo(c, next)
  /\ UNCHANGED <<desc, op, ret, context>>

\* ... or finds the list empty.
NoneLeft == free_descs = <<>> /\ UNCHANGED <<free_descs, desc>>

\* virtio_gpio_context_init fails: the call returns what sem_init does, with
\* nothing taken.
NoSemaphore(c) ==
  /\ "sem" \in Faults
  /\ Finish(c, "-1", 0)
  /\ UNCHANGED <<free_descs, desc>>

\* The request descriptor, once the semaphore is there.
Alloc0(c) ==
  /\ pc[c] = "alloc0"
  /\ \/ \E d \in Desc : \/ Takes(c, 0, d, "alloc1")
                        \/ TakesUnmapped(c, 0, d, "putback0")
     \/ NoneLeft /\ Finish(c, "ENOENT", 0)
     \/ NoSemaphore(c)
  /\ UNCHANGED <<avail, used, last_seen_used, lock>> /\ ClientOnly

PutBack0(c) ==
  /\ pc[c] = "putback0"
  /\ fifo_put(idxs[c][0])
  /\ Finish(c, "ENOMEM", 0)
  /\ UNCHANGED <<desc, avail, used, last_seen_used, lock>> /\ ClientOnly

\* The response descriptor.  Failing here gives up the first one too.
Alloc1(c) ==
  /\ pc[c] = "alloc1"
  /\ \/ \E d \in Desc : \/ Takes(c, 1, d, "put")
                        \/ TakesUnmapped(c, 1, d, "putback1")
     \/ /\ NoneLeft
        /\ ret' = [ret EXCEPT ![c] = Reply("ENOENT", 0)]
        /\ GoTo(c, "free0")
        /\ UNCHANGED <<op, idxs, context>>
  /\ UNCHANGED <<avail, used, last_seen_used, lock>> /\ ClientOnly

\* Mutated form: the call fails without giving up the first descriptor.
PutBack1_leak(c) ==
  /\ pc[c] = "putback1"
  /\ fifo_put(idxs[c][1])
  /\ Finish(c, "ENOMEM", 0)
  /\ UNCHANGED <<desc, avail, used, last_seen_used, lock>> /\ ClientOnly

PutBack1(c) ==
  /\ pc[c] = "putback1"
  /\ fifo_put(idxs[c][1])
  /\ ret' = [ret EXCEPT ![c] = Reply("ENOMEM", 0)]
  /\ idxs' = [idxs EXCEPT ![c][1] = NoDesc]
  /\ GoTo(c, "free0")
  /\ UNCHANGED <<desc, avail, used, last_seen_used, lock, op, context>>
  /\ ClientOnly

Free0(c) ==
  /\ pc[c] = "free0"
  /\ virtq_free_desc(idxs[c][0])
  /\ Finish(c, ret[c].rc, 0)
  /\ UNCHANGED <<avail, used, last_seen_used, lock>> /\ ClientOnly

\* The request is written, the context attached, the chain linked, and its
\* head entered in the ring under the lock ...
Put(c) ==
  LET h == idxs[c][0] IN
  /\ pc[c] = "put"
  /\ desc' = Linked([desc EXCEPT ![h].buf = op[c], ![h].context = c],
                    h, idxs[c][1])
  /\ Acquire(c)
  /\ PutRing(h)
  /\ GoTo(c, "publish")
  /\ UNCHANGED <<free_descs, used, last_seen_used>>
  /\ UNCHANGED <<op, idxs, ret, context>> /\ ClientOnly

\* Mutated form: virtio_gpio_request waits without notifying.
Publish_quiet(c) ==
  /\ pc[c] = "publish"
  /\ PutIdx
  /\ Release
  /\ GoTo(c, "wait")
  /\ UNCHANGED <<free_descs, desc, used, last_seen_used>>
  /\ UNCHANGED <<op, idxs, ret, context>> /\ ClientOnly

\* ... where the index then publishes it.
Publish(c) ==
  /\ pc[c] = "publish"
  /\ PutIdx
  /\ Release
  /\ GoTo(c, "notify")
  /\ UNCHANGED <<free_descs, desc, used, last_seen_used>>
  /\ UNCHANGED <<op, idxs, ret, context>> /\ ClientOnly

Notify(c) ==
  /\ pc[c] = "notify"
  /\ dev' = [dev EXCEPT !.kick = TRUE]
  /\ GoTo(c, "wait")
  /\ UNCHANGED <<virtqVars, op, idxs, ret, context, ist, isr, reg, transport>>

\* What a caller finds in its context: status starts as OK, value as garbage.
Answers(x) == IF x.reply = NoReply THEN {Reply("EOK", v) : v \in Values}
                                   ELSE {x.reply}

\* Mutated forms: the semaphore is not waited for; the status is ignored.
Wait_early(c) ==
  /\ pc[c] = "wait"
  /\ \E a \in Answers(context[c]) : Finish(c, a.rc, a.value)
  /\ UNCHANGED virtqVars /\ ClientOnly

Wait_ignores_status(c) ==
  /\ pc[c] = "wait"
  /\ context[c].sem > 0
  /\ \E a \in Answers(context[c]) : Finish(c, "EOK", a.value)
  /\ UNCHANGED virtqVars /\ ClientOnly

Wait(c) ==
  /\ pc[c] = "wait"
  /\ context[c].sem > 0
  /\ \E a \in Answers(context[c]) : Finish(c, a.rc, a.value)
  /\ UNCHANGED virtqVars /\ ClientOnly

\* Mutated form: a call cut short frees the chain the device still has.
Interrupted_frees(c) ==
  /\ "signal" \in Faults
  /\ pc[c] = "wait"
  /\ Finish(c, "EINTR", 0)
  /\ virtq_free_desc(idxs[c][0])
  /\ UNCHANGED <<avail, used, last_seen_used, lock>> /\ ClientOnly

\* sem_wait returns -1, which is neither EINTR nor EOK: the call is over.
Interrupted(c) ==
  /\ "signal" \in Faults
  /\ pc[c] = "wait"
  /\ Finish(c, "EINTR", 0)
  /\ UNCHANGED virtqVars /\ ClientOnly

Client(c) ==
  \/ Alloc0(c) \/ PutBack0(c) \/ Alloc1(c) \/ PutBack1(c) \/ Free0(c)
  \/ Put(c) \/ Publish(c) \/ Notify(c) \/ Wait(c) \/ Interrupted(c)

-----------------------------------------------------------------------------
(* The interrupt service thread.                                           *)

IstGoTo(label) == ist' = [ist EXCEPT !.pc = label]
IstOnly == UNCHANGED <<clientVars, dev, reg, transport>>

IstAttach ==
  /\ ist.pc = "attach"
  /\ \/ IstGoTo("unmask")
     \/ "attach" \in Faults /\ IstGoTo("ended")
  /\ UNCHANGED <<virtqVars, context, isr>> /\ IstOnly

\* Mutated form: the acknowledgement comes after the ring has been drained.
IstUnmask_clears ==
  /\ ist.pc = "unmask"
  /\ isr' = FALSE
  /\ IstGoTo("wait")
  /\ UNCHANGED <<virtqVars, context>> /\ IstOnly

IstUnmask ==
  /\ ist.pc = "unmask"
  /\ IstGoTo("wait")
  /\ UNCHANGED <<virtqVars, context, isr>> /\ IstOnly

\* InterruptWait returns; from here to the next IstUnmask the interrupt is
\* masked.  A message-signalled interrupt is consumed by its delivery, the
\* level of an MMIO interrupt stays until it is acknowledged.
IstWake ==
  /\ ist.pc = "wait"
  /\ isr \/ "spurious" \in Faults
  /\ IF transport = "mmio" THEN IstGoTo("ack") /\ UNCHANGED isr
                           ELSE IstGoTo("drain") /\ isr' = FALSE
  /\ UNCHANGED <<virtqVars, context>> /\ IstOnly

\* Mutated form: the acknowledgement is forgotten.
IstAck_forgotten ==
  /\ ist.pc = "ack"
  /\ IstGoTo("drain")
  /\ UNCHANGED <<virtqVars, context, isr>> /\ IstOnly

\* The status register is read and, if it is set, acknowledged.
IstAck ==
  /\ ist.pc = "ack"
  /\ isr' = FALSE
  /\ IstGoTo("drain")
  /\ UNCHANGED <<virtqVars, context>> /\ IstOnly

\* Mutated form: last_seen_used is not advanced.
GetChain_again(h) ==
  /\ IF UsedEmpty \/ TooLong(h)
     THEN ist' = [ist EXCEPT !.pc = "unmask", !.id = NoDesc]
     ELSE \E n \in Second(h) :
            ist' = [ist EXCEPT !.pc = "post", !.id = NoDesc, !.idxs = Pair(h, n),
                               !.stale = @ \/ h # UsedHead]
  /\ UNCHANGED <<free_descs, desc, avail, used, last_seen_used, context, isr>>
  /\ IstOnly

\* virtq_get_desc_chain given the head it read from the ring.
GetChain(h) ==
  /\ IF UsedEmpty \/ TooLong(h)
     THEN /\ ist' = [ist EXCEPT !.pc = "unmask", !.id = NoDesc]
          /\ UNCHANGED last_seen_used
     ELSE /\ \E n \in Second(h) :
               ist' = [ist EXCEPT !.pc = "post", !.id = NoDesc, !.idxs = Pair(h, n),
                                  !.stale = @ \/ h # UsedHead]
          /\ last_seen_used' = Inc(last_seen_used)
  /\ UNCHANGED <<free_descs, desc, avail, used, context, isr>> /\ IstOnly

\* The loads in program order: nothing the driver can do, and nothing the
\* device does to an entry it has published, comes between them.
IstDrain ==
  /\ ist.pc = "drain"
  /\ lock = Unlocked
  /\ GetChain(UsedHead)
  /\ UNCHANGED lock

\* No barrier separates the load of used->idx from that of the ring entry: a
\* weakly ordered CPU may perform the second one first ...
IstEarlyLoad ==
  /\ "reorder" \in Faults
  /\ ist.pc = "drain"
  /\ Acquire("ist")
  /\ ist' = [ist EXCEPT !.pc = "idx", !.id = UsedHead]
  /\ UNCHANGED <<free_descs, desc, avail, used, last_seen_used, context, isr>>
  /\ IstOnly

\* ... and the first one when the device has gone on.
IstLateIdx ==
  /\ ist.pc = "idx"
  /\ GetChain(ist.id)
  /\ Release

\* Mutated form: the callback is given the request as the response.
IstPost_request ==
  /\ ist.pc = "post"
  /\ LET x == desc[ist.idxs[0]].context
         b == desc[ist.idxs[0]].buf
         a == IF b \in Replies THEN b ELSE Reply("EOK", 0) IN
       IF x = NoContext
       THEN IstGoTo("crash") /\ UNCHANGED context
       ELSE /\ context' = [context EXCEPT ![x] = [sem |-> @.sem + 1, reply |-> a]]
            /\ IstGoTo("free0")
  /\ UNCHANGED <<virtqVars, isr>> /\ IstOnly

\* The callback copies the response into the caller's context and wakes it.
IstPost ==
  /\ ist.pc = "post"
  /\ LET x == desc[ist.idxs[0]].context
         b == desc[ist.idxs[1]].buf
         a == IF b \in Replies THEN b ELSE Reply("EOK", 0) IN
       IF x = NoContext
       THEN IstGoTo("crash") /\ UNCHANGED context
       ELSE /\ context' = [context EXCEPT ![x] = [sem |-> @.sem + 1, reply |-> a]]
            /\ IstGoTo("free0")
  /\ UNCHANGED <<virtqVars, isr>> /\ IstOnly

IstFree0 ==
  /\ ist.pc = "free0"
  /\ virtq_free_desc(ist.idxs[0])
  /\ ist' = [ist EXCEPT !.pc = "free1", !.idxs[0] = NoDesc]
  /\ UNCHANGED <<avail, used, last_seen_used, lock, context, isr>> /\ IstOnly

\* Mutated forms: the response descriptor is not freed; the ring is looked at
\* once per interrupt.
IstFree1_leak ==
  /\ ist.pc = "free1"
  /\ ist' = [ist EXCEPT !.pc = "drain", !.idxs = NoDescs]
  /\ UNCHANGED <<virtqVars, context, isr>> /\ IstOnly

IstFree1_once ==
  /\ ist.pc = "free1"
  /\ virtq_free_desc(ist.idxs[1])
  /\ ist' = [ist EXCEPT !.pc = "unmask", !.idxs = NoDescs]
  /\ UNCHANGED <<avail, used, last_seen_used, lock, context, isr>> /\ IstOnly

IstFree1 ==
  /\ ist.pc = "free1"
  /\ virtq_free_desc(ist.idxs[1])
  /\ ist' = [ist EXCEPT !.pc = "drain", !.idxs = NoDescs]
  /\ UNCHANGED <<avail, used, last_seen_used, lock, context, isr>> /\ IstOnly

Ist ==
  \/ IstAttach \/ IstUnmask \/ IstWake \/ IstAck
  \/ IstDrain \/ IstEarlyLoad \/ IstLateIdx
  \/ IstPost \/ IstFree0 \/ IstFree1

-----------------------------------------------------------------------------
(* The device, which takes chains in order and completes them in any.      *)

DevOnly == UNCHANGED <<free_descs, avail, last_seen_used, lock,
                       clientVars, context, ist, transport>>

DevPop ==
  /\ dev.kick /\ avail.idx # dev.last
  /\ dev' = [dev EXCEPT !.held = @ \cup {avail.ring[Slot(dev.last)]},
                        !.last = Inc(@)]
  /\ UNCHANGED <<desc, used, isr, reg>> /\ DevOnly

DevIdle ==
  /\ dev.kick /\ avail.idx = dev.last
  /\ dev' = [dev EXCEPT !.kick = FALSE]
  /\ UNCHANGED <<desc, used, isr, reg>> /\ DevOnly

\* A request is carried out or refused, its response written, and the chain
\* published in the used ring ...
Execute(q, reply) ==
  \/ q.type = "READ"  /\ reply = Reply("EOK", reg[q.reg]) /\ UNCHANGED reg
  \/ q.type = "WRITE" /\ reply = Reply("EOK", 0)
                      /\ reg' = [reg EXCEPT ![q.reg] = q.value]
  \/ reply = Reply("EIO", 0) /\ UNCHANGED reg

DevComplete(h) ==
  /\ dev.pc = "ready" /\ h \in dev.held
  /\ desc[h].buf \in Requests
  /\ \E reply \in Replies :
       /\ Execute(desc[h].buf, reply)
       /\ desc' = [desc EXCEPT ![desc[h].next].buf = reply]
  /\ used' = [idx |-> Inc(used.idx), ring |-> [used.ring EXCEPT ![Slot(used.idx)] = h]]
  /\ dev' = [dev EXCEPT !.held = @ \ {h}, !.pc = "raise"]
  /\ UNCHANGED isr /\ DevOnly

\* ... and an interrupt announces.
DevRaise ==
  /\ dev.pc = "raise"
  /\ isr' = TRUE
  /\ dev' = [dev EXCEPT !.pc = "ready"]
  /\ UNCHANGED <<desc, used, reg>> /\ DevOnly

Device ==
  \/ DevPop \/ DevIdle \/ DevRaise
  \/ \E h \in Desc : DevComplete(h)

-----------------------------------------------------------------------------
Next ==
  \/ \E c \in Clients : Client(c) \/ \E q \in Requests : Begin(c, q)
  \/ Ist
  \/ Device

Spec == Init /\ [][Next]_vars

\* Threads that can run do, and the device goes on working.  The scheduler
\* never stops a thread for ever, and no call is obliged to start.
Fairness ==
  /\ \A c \in Clients : WF_vars(Client(c))
  /\ WF_vars(Ist)
  /\ WF_vars(Device)

FairSpec == Spec /\ Fairness

-----------------------------------------------------------------------------
(* Types.                                                                  *)

ClientPCs == {"idle", "alloc0", "putback0", "alloc1", "putback1", "free0",
              "put", "publish", "notify", "wait"}
IstPCs == {"attach", "ended", "unmask", "wait", "ack", "drain", "idx",
           "post", "free0", "free1", "crash"}

Buffers == {Unmapped, Zeroed} \cup Requests \cup Replies
ReturnCodes == {"EOK", "EIO", "ENOENT", "ENOMEM", "EINTR", "-1"}
DescOrNone == Desc \cup {NoDesc}
DescTable == [Desc -> [flags : SUBSET Flag, next : Desc, buf : Buffers,
                       context : Clients \cup {NoContext}]]

\* Every variable has its type: the fields of the virtqueue stay inside the
\* 16-bit, table and ring bounds virtq.c declares for them.
TypeOK ==
  /\ VirtqTypeOK
  /\ desc \in DescTable
  /\ lock \in Clients \cup {"ist", Unlocked}
  /\ pc \in [Clients -> ClientPCs]
  /\ op \in [Clients -> Requests \cup {NoRequest}]
  /\ idxs \in [Clients -> [0 .. 1 -> DescOrNone]]
  /\ context \in [Clients -> [sem : Nat, reply : Replies \cup {NoReply}]]
  /\ ret \in [Clients -> [rc : ReturnCodes, value : Values]]
  /\ ist \in [pc : IstPCs, id : DescOrNone, idxs : [0 .. 1 -> DescOrNone],
              stale : BOOLEAN]
  /\ dev \in [last : Idx, kick : BOOLEAN, held : SUBSET Desc,
              pc : {"ready", "raise"}]
  /\ isr \in BOOLEAN
  /\ reg \in [Regs -> Values]
  /\ transport \in Transports

-----------------------------------------------------------------------------
(* Safety.                                                                 *)

AvailHeads == {avail.ring[s] : s \in Window(dev.last, avail.idx)}
UsedHeads  == {used.ring[s] : s \in Window(last_seen_used, used.idx)}

\* Chains the driver has published and not taken back, by their heads.
InFlight == AvailHeads \cup dev.held \cup UsedHeads
Returning == IF ist.pc = "post" THEN {ist.idxs[0]} ELSE {}

\* Callers whose request has been published and not answered.
Waiting == {c \in Clients : /\ pc[c] \in {"notify", "wait"}
                            /\ context[c].sem = 0}

\* Who holds which descriptors: the free list, the thread that allocated them
\* until it publishes them, the rings and the device, and the interrupt thread
\* from the used ring until it frees them.
Some(f) == {f[n] : n \in DOMAIN f} \ {NoDesc}
Holders == Clients \cup {"free", "flight", "ist"}
HeldBy(o) ==
  CASE o = "free"   -> Some(free_descs)
    [] o = "flight" -> InFlight \cup {desc[h].next : h \in InFlight}
    [] o = "ist"    -> Some(ist.idxs)
    [] o \in Clients -> IF pc[o] \in {"notify", "wait"} THEN {} ELSE Some(idxs[o])

\* A descriptor is never lost and never in two hands, whichever step of an
\* allocation fails and however calls and completions interleave
\* (virtq_alloc_desc, virtq_free_desc, virtio_gpio_request's error path) - as
\* long as the loads of virtq_get_desc_chain have not been reordered around a
\* completion (DeliversCompletedChain).
DescriptorsConserved ==
  ~ist.stale =>
    /\ \A d \in Desc : \E o \in Holders : d \in HeldBy(o)
    /\ \A o1, o2 \in Holders : o1 # o2 => HeldBy(o1) \cap HeldBy(o2) = {}
    /\ Cardinality(Some(free_descs)) = Len(free_descs)

\* A chain is in one place at a time - the available ring, the device or the
\* used ring: no entry is overwritten, skipped or handed out twice, also when
\* an index wraps or an entry is added while another is taken.  A stale entry
\* is handed out twice, and nothing is promised after it.
ChainsInFlightOnce ==
  ~ist.stale =>
    Cardinality(InFlight) = Dist(dev.last, avail.idx)
                          + Cardinality(dev.held)
                          + Dist(last_seen_used, used.idx)

\* The chains on their way belong one to one to the callers that wait: the
\* context a completion will be reported to is on the stack of a thread that
\* still waits for this very chain, and no caller waits for a chain that is
\* gone (the contexts of gpio.c are local variables, and virtq_callback
\* follows a bare pointer to them).
ContextOutlivesRequest ==
  /\ \A h \in InFlight \cup Returning :
       /\ desc[h].context \in Waiting
       /\ idxs[desc[h].context] = Pair(h, desc[h].next)
  /\ \A c \in Waiting : idxs[c][0] \in InFlight \cup Returning

\* While a chain is in flight the driver leaves it as it was published, and
\* the callback is given a response the device has written.
GetsCompletedChain ==
  /\ \A h \in InFlight \cup Returning :
       /\ desc[h].flags = {"NEXT"} /\ desc[desc[h].next].flags = {"WRITE"}
       /\ desc[h].buf \in Requests
       /\ desc[desc[h].next].buf \in
            IF h \in UsedHeads \cup Returning THEN Replies ELSE {Zeroed}
  /\ ist.pc = "post" => ist.idxs[1] = desc[ist.idxs[0]].next

\* The interrupt thread never sleeps, or goes to sleep, on a used ring with
\* entries in it unless an interrupt is pending or about to be raised: the
\* acknowledgement comes before the drain, and what arrives after the last
\* look at the ring raises the line again.  An index load performed after that
\* of the entry does not lose one either (a stale entry may: it can leave a
\* chain without an end, over which virtq_get_desc_chain never gets).
NoLostInterrupt ==
  ~ist.stale /\ ist.pc \in {"unmask", "wait"} /\ ~UsedEmpty
    => isr \/ dev.pc = "raise"

\* The device never rests on an available ring with entries in it unless a
\* notification is on its way: each caller notifies after its index update.
NoLostKick ==
  avail.idx # dev.last =>
    dev.kick \/ \E c \in Clients : pc[c] = "notify"

\* A free list for two more descriptors than the callers can use never runs
\* empty under them, although the interrupt thread wakes a caller before it
\* frees the caller's descriptors.
NoSpuriousExhaustion ==
  Num >= 2 * Cardinality(Clients) + 2 =>
    \A c \in Clients : pc[c] \in {"alloc0", "alloc1"} => free_descs # <<>>

-----------------------------------------------------------------------------
(* The driver implements the service of gpio.h.                            *)

\* The answer to c's request, once the device has written it.
Answered(c) ==
  IF pc[c] \notin {"notify", "wait"} THEN {}
  ELSE IF context[c].reply # NoReply THEN {context[c].reply}
  ELSE {desc[idxs[c][1]].buf} \cap Replies

ServiceCall(c) ==
  IF pc[c] = "idle"
  THEN [state |-> "idle", rc |-> ret[c].rc, value |-> ret[c].value]
  ELSE IF Answered(c) = {}
       THEN [state |-> "pending", request |-> op[c]]
       ELSE LET a == CHOOSE x \in Answered(c) : TRUE
            IN [state |-> "done", rc |-> a.rc, value |-> a.value]

Service == INSTANCE GpioService
             WITH call <- [c \in Clients |-> ServiceCall(c)],
                  LocalErrors <- {"ENOENT", "ENOMEM", "-1"}

\* Each call takes effect on the device once between its start and its
\* return, and returns the device's own answer to it; a call that fails in
\* the driver has no effect.
ImplementsGpioService == Service!ServiceSpec

-----------------------------------------------------------------------------
(* Liveness and what the comments say.                                     *)

\* Every call returns: no interleaving of the notification, the interrupt,
\* its acknowledgement and the draining of the ring leaves a caller waiting.
CallReturns == \A c \in Clients : pc[c] # "idle" ~> pc[c] = "idle"

\* virtio.h:398-399, virtio_create_queue: the queue is "configured for interrupt
\* delivery".  An interrupt that is raised makes the driver look at the ring.
InterruptsAreServed == isr ~> ist.pc = "drain"

\* An interrupt does not stay asserted for ever on a driver with nothing to do.
LineGoesQuiet == []<>~isr \/ []<>(\E c \in Clients : pc[c] # "idle")

\* gpio.c:136, virtio_gpio_context_wait: "Wait for GPIO operation completion".
WaitsForCompletion ==
  [][\A c \in Clients :
       pc[c] = "wait" /\ pc'[c] # "wait" => context[c].sem > 0]_vars

\* virtq.h:214-215, virtq_get_desc_chain: "Gets a completed descriptor chain".
DeliversCompletedChain == ist.pc = "post" => desc[ist.idxs[1]].buf \in Replies
=============================================================================
