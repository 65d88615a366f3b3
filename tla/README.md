# A verification project for qnx-virtio

`qnx-virtio` is a user-space virtio GPIO driver for QNX: one process that finds
a virtio GPIO device (MMIO or PCI), brings it up, shares a virtqueue with it,
and offers every GPIO line as a file to other processes. This directory holds a
TLA+ model of the driver, the instances TLC checks and the theorems TLAPS
proves. Paths below are relative to the repository's tree as it lies under
`src/`, so `src/virtio/virtq.c` is `src/src/virtio/virtq.c` in `PROJECT.json`
and in the modules' comments.

Run `tlc -config X.cfg M` for the runs `PROJECT.json` lists and `tlapm M.tla`
for the modules whose names end in `Proofs`.

## 1. The system

| Part | State | Operations | Talks to |
|---|---|---|---|
| **FIFO** (`utils/fifo/fifo.c`) | `head`, `tail`, `count`, elements, a lock | `fifo_create`, `fifo_put`, `fifo_get` | called by the virtqueue from two threads |
| **Virtqueue** (`src/virtio/virtq.c`) | descriptor table and extras, free list, available and used ring, `last_seen_used`, a spinlock | create and destroy, allocate and free a descriptor, put and get a chain | the FIFO; the device, through shared memory |
| **GPIO request path** (`src/gpio/gpio.c`) | a context (semaphore, response) on the stack of each call | `virtio_gpio_{get,set}_{value,direction}`, `virtio_gpio_request`, `virtq_callback`, `virtio_gpio_callback` | virtqueue, notification, the interrupt thread |
| **Interrupt service thread** (`virtio_ist` in `src/virtio/virtio.c`, the `*_virtq_callback` of the transports) | attached or not, masked or not | wait, acknowledge, drain, unmask | the transport, then `virtq_callback` |
| **Device operations** (`src/virtio/virtio.c`) | `struct virtio_device` | reset, status bits, create, reset and enable a queue, notify, read configuration | the transport's operations table |
| **MMIO and PCI transport** (`src/virtio_mmio`, `src/virtio_pci`) | mapped registers; the PCI device's handle, capabilities, BARs, MSI-X | discovery; one function per device operation | the device's registers, the PCI server |
| **Set-up** (`virtio_gpio_init`) | what has been allocated so far, the device's status | the sequence of the specification, and its error path | all of the above |
| **Resource manager** (`src/gpio/resmgr.c`) | one attribute (with a value byte) per line and one for the chip, offsets per open | open, read, write, devctl, one dispatch loop | QNX message passing; the four GPIO calls |
| **Options, main, logging** | - | parse, call, print | - |

How they interact. A client's message reaches the one dispatch thread
(`resmgr.c:320-326`), which calls `gpio.c`. That takes two descriptors off the
free list, writes the request, publishes the chain in the available ring,
notifies the device and sleeps on a semaphore in its own stack frame. The device
completes chains in whatever order it likes, writes the used ring and raises an
interrupt. The interrupt thread acknowledges it (MMIO: a level; PCI: an MSI-X
message), drains the used ring, copies each response into the context the chain
points to, posts its semaphore, frees the two descriptors and unmasks.
`gpio.c` itself does not rely on there being one caller: the virtqueue and the
FIFO have locks, so the models allow several.

What is hard, and what makes each part correct:

* **FIFO**: puts and gets from two threads; correct when it is a bounded queue
  whose operations are atomic.
* **Virtqueue**: order of stores and loads against the device, wrap-around of
  16-bit indices, concurrent puts; correct when each descriptor has one holder,
  each chain is in one place, and no chain is read before it is complete.
* **Request path**: a bare pointer into a stack frame travels to another thread
  through shared memory; correct when each completion meets the waiting call it
  belongs to, and each call returns the device's own answer.
* **Interrupt thread**: acknowledging, draining and unmasking race with new
  completions; correct when no completion is slept upon and no interrupt spins.
* **Device operations**: one set of registers shows the queue a selector names, and
  a status bit is read, changed and written back; correct when each operation takes
  effect at once, on the queue it names, whoever else calls.
* **Discovery**: a dozen calls that each may fail, after each of which something
  else has to be given back; correct when the PCI device is held exactly as long as
  it is used and can announce what it completes.
* **Set-up**: every step can fail, the device may be slow or still running from
  before; correct when the order of the specification is kept, waits are as long
  as configured, nothing in use is freed, and it always returns.
* **Resource manager**: replies come out of a buffer all opens share, offsets
  are unsigned; correct when a read returns what the line held and then the end
  of the file, and no message keeps the thread for ever.

`PROJECT.json` lists each hazard at its line, with the properties that cover it.

## 2. The modules

```
BoundedFifo  <--implements--  Fifo                FifoProofs
                               | (fifo_get, fifo_put are single steps)
GpioMessages                 Virtq                VirtqProofs
     |                         |                        |
GpioService  <--implements-- GpioDriver           GpioDriverProofs
     |                                                  |
  Resmgr                                          GpioOwnershipProofs
  ResmgrProofs                                          |
                                                  GpioServiceProofs
VirtqLayout
     |
  Discovery                  DeviceRegisters
     |                         |           |
  DeviceSetup                DeviceOps --implements--> DeviceCalls
  DeviceSetupProofs          DeviceOpsProofs
```

Each `...Proofs` module extends the module it is about; those of the driver build on
one another. `DeviceSetupProofs` is about `VirtqLayout` and `Discovery` as well.

`MCFifo`, `MCGpioDriver`, `MCDeviceSetup`, `MCDeviceOps` and `MCResmgr` are the
instances for TLC.

### Fifo, BoundedFifo

`Fifo` is `fifo.c` statement by statement for a set of threads: `Lock` waits for
the mutex, `Check` refuses a full (or, for a get, an empty) ring, `Copy` moves
the element, `Advance` moves the tail or the head, `Recount` changes `count`,
`Unlock` returns. `BoundedFifo` is what a user believes: a sequence, of which a
put appends and a get takes the first, or is refused. `ImplementsBoundedFifo`
maps the one to the other: a call takes effect at one step, `Recount`.
This is what allows `Virtq` to use `fifo_get` and `fifo_put` as single steps.

### Virtq, GpioMessages, GpioDriver, GpioService

`Virtq` has the fields of `struct virtq` and the operations on them as the steps
someone else can observe; `GpioDriver` composes them with the calling threads,
the interrupt thread and the device. Labels of `pc` name the next observable
step of a caller (`alloc0`, `alloc1`, `put`, `publish`, `notify`, `wait`, and
`putback0`, `putback1`, `free0` on the error path), those of `ist.pc` the next
one of the interrupt thread (`unmask`, `wait`, `ack`, `drain`, `post`, `free0`,
`free1`).

What one action stands for: one step on shared data together with the steps
around it that touch only what nobody else can reach then. A descriptor that has
left the free list belongs to the thread that took it, so `mmap64` and filling
it in go with the `fifo_get`; filling in the chain and the ring entry go with
taking the queue lock, since the entry is invisible until `avail->idx` covers
it; `virtq_get_desc_chain` is one step when the loads happen in program order,
because no store of the driver comes between them and the device never touches
an entry it has published. The device writes a response, the used entry and
`used->idx` in one step, because the driver may look at the first two only once
the third has changed. It raises the interrupt in a later one.

Two places have no such excuse and are split. There is no barrier between the
load of `used->idx` and that of the ring entry (`virtq.c:542-547`), so with
`"reorder"` the entry is loaded first (`IstEarlyLoad`) and the index later
(`IstLateIdx`). And `sem_wait` interrupted by a signal ends the call
(`Interrupted`, with `"signal"`). The context is then a dead stack frame; a
completion that arrives later still writes there, which the model shows as
writing the context of the same client, whatever that client is doing.

A call begins with its semaphore: when `sem_init` fails (`NoSemaphore`, with `"sem"`)
it returns before it has taken anything.

`GpioService` is the promise of `gpio.h`: registers, and concurrent calls each
of which takes effect once between its start and its return, or is refused with
EIO by the device, or fails in the driver without effect.
`ImplementsGpioService` maps a waiting caller to `pending` until the response is
in its chain, and to `done` from then on.

### VirtqLayout

The sizes and offsets of `virtq.c:32-80,146-211` as functions of the number of
entries and the page size: how many bytes a table or ring takes, and whether (`Fits`)
that of a queue of one size lies inside the memory mapped for a queue of another. A
modern queue has a mapping for each part, a legacy queue one for all, sized by
`virtq_legacy_mem_size`, which takes the page size as a `uint16_t`: with pages of
65536 bytes its alignment is 0, the length it computes is 0, and no legacy queue can
be made.

### Discovery

The first third of `virtio_gpio_init`: allocating the two structures, then
`virtio_mmio_init` or `virtio_pci_init`, one action per call that can fail, each
failure going where the `goto` goes (`DetachPci`, `FreePriv`, `DestroyVdev`, then
`FreeVdev` in the caller). `heap` says of each object whether it is live, freed or
freed twice. A PCI device is a list of vendor capabilities, each for a structure
in a BAR, the BARs it has, and whether it has MSI-X: the last capability of a
structure is the one kept, as `virtio_pci_find_caps` overwrites; `MapBars` maps any
subset, as nobody looks at what `mmap64` returns; `IrqCalls` are the five calls that
make MSI-X work, in their order. Of a device it is assumed that each structure the
driver uses has a capability in a BAR with a size (`IsPciDevice`), and that its
MSI-X table is not empty.

### DeviceSetup

`virtio_gpio_init` from there to its last line, one action per register
access another party can see, against a device that is fresh or was left running
by an earlier instance and that resets at once or in its own time. The virtqueue
is allocated part by part (`VirtqCreate` and what `VirtqCreateFails` leaves: on the
error path `pvq->num` is still 0, so complete modern rings are not unmapped and a
legacy one in part).
Both reset loops are there with their `delay`, which a signal may cut short and
which then goes on with what is left. `queue_reset` is tested before anything
has written it (`virtio.c:213,225`); its value is a free choice, as it is on the
stack. `late` records that the driver went on although a reset was under way:
after that nothing is promised, and `SetUpInOrder` says so. The transports
differ in where the maximum queue size comes from (PCI reads back the register
the driver writes), in what a legacy device lacks, in when the queue starts, and
in which words of the configuration they read and where they put them: `Field` maps
words to fields of `virtio_gpio_device`, because the PCI loop leaves
its destination (`virtio_pci.c:464`): its second word lands in `priv`, stays there,
and is read by nobody. PCI enables a queue by storing its vector (`SetQueueVector`)
and then the enable bit (`EnableQueue`). A register in a BAR that was not mapped ends
the process (`Crash`), and so does the assertion that the page frame of a legacy queue
has 32 bits (`virtio_mmio.c:545`; the build does not define NDEBUG). The qsize option is a 32-bit number that is passed on as 16
bits (`Given`).

The queue index is 0 and nobody else has the device, so the selector and the lock
are left to `DeviceOps`.

### DeviceRegisters, DeviceOps, DeviceCalls

`DeviceOps` is `virtio.c` and both transports' tables of operations for several
threads and queues: one action is one access to a register or one step on the spin
lock. PCI notifies by loading the queue's doorbell and then storing to it, and
enables by storing the vector first; a status bit is a load and a store.
`virtio_create_queue` runs its calls one after the other and then stores three
addresses with neither lock nor selection (`virtio.h:303`); `Alone` is why that is
right: `virtio_gpio_init` has handed the device to nobody yet. The same goes for
`virtio_reset_device`, whose store clears the status without the lock (`BeginReset`,
`ResetDevice`, `ResetReturns`): beside `virtio_add_device_status` it could fall between
the load and the store, and the old bits would come back. `DeviceCalls` is the
promise: each call takes effect in one step on the registers of the queue it names,
or, for the reset, on all.
`DeviceRegisters` is what both share: the calls, the registers of a queue, and what
a call stores and loads there.

The two models of the same operations ask different questions. `DeviceOps` has
concurrency and several queues, and leaves time-outs, memory and failures out;
`DeviceSetup` has those, and one thread.

### Resmgr

The dispatch loop over `GpioService` as the driver, so that it stands on exactly
what `GpioDriver` is shown to implement. The handler runs in one step up to its
call of the driver (`Ask`) or its answer (`Answer`), and in one step from the
return of the call to the reply (`Answered`, `Refused`, `NotSent`); in between
the device works and input lines change. `held` records what the register asked
for has held since the call. Offsets are unsigned (`SizeMod` is 2^w), so `Left`
wraps past the end of the file as `size_t` does. Opening, closing and seeking
are iofunc's defaults; EBADF stands for whatever their checks refuse.

## 3. The runs

| Run | Instance | Shows |
|---|---|---|
| `fifo_refines` | 3 threads, 2 elements, capacity 3 | mutual exclusion, agreement of the fields, `Fifo` implements `BoundedFifo` |
| `driver_safety` | 2 clients, `Num` 4, `IdxMod` 4, both transports, failing `sem_init` and `mmap64`, spurious wake-ups | types; `DescriptorsConserved`, `ChainsInFlightOnce`, `ContextOutlivesRequest`, `GetsCompletedChain`, `NoLostInterrupt`, `NoLostKick` |
| `driver_refines` | 2 clients, 2 values, MMIO, failing `sem_init` | `ImplementsGpioService`: two reads and writes of one register in progress together, carried out and completed in any order, each with its own answer |
| `driver_live` | 1 client, both transports, 2 values, weak fairness | `CallReturns`, `InterruptsAreServed`, `LineGoesQuiet`, `NoSpuriousExhaustion` and the refinement |
| `driver_faults` | 1 client, MMIO; interrupted waits, an interrupt that does not attach, loads reordered | the bookkeeping survives each of them, alone and together; the thread does not sleep on a used ring with entries |
| `setup_safe` | time-outs 5 and 3, interval 2, eight options, maxima 0, 4, 256 and 1024, MMIO, legacy MMIO and three PCI devices, fresh or running, quick or slow | `SetUpInOrder`, `NothingFreedInUse`, `DeviceStaysInRings`, `PciHeldWhileUsed`, `CompletionsAnnounced`, `ConfigurationRead`, `WaitsLongEnough`, `InitReturns` |
| `ops_safe` | 2 threads, 2 queues, both transports, ten mixes of operations with every two of the locked ones in one, the reset and queue creation | `SelectsOwnQueue`, `RingsOfOwnQueue`, and `DeviceOps` implements `DeviceCalls` |
| `resmgr_safe` | a line and the chip, 2 opens, messages of 0 to 2 bytes, seeks inside and past the file | `ReadsLineValue`, `ReadsWithinFile`, `EveryMessageAnswered` |
| `doc_wait`, `doc_completed`, `doc_reset`, `doc_config` | 1 client with the fault in question; a slow device; a PCI device | violations: see section 6 |

### Bounds, and why they are enough

* `Num` 4: two callers hold two descriptors each, so the free list runs empty
  and the rings fill half; with one client it never does, which is
  `NoSpuriousExhaustion`. The deployed sizes (64, or the device's maximum) only
  make exhaustion rarer.
* `IdxMod` 8 for 2^16: twice the ring, so that a slot is named by two index
  values and wrap-around happens after eight requests. `driver_safety`, the
  run in which indices wrap with two callers, has 4, the smallest the assumption
  allows. The theorems of section 4 are about every width.
* Two clients: every property about calls relates at most two of them. The
  deployed process has one.
* Views (`MCGpioDriver`): all leave out ring entries outside the windows, results
  of calls that are over, and the names of descriptors, which no code compares: a
  descriptor is named by the place where it occurs first. `ControlState` keeps the
  rings' indices; `DataState` and `FaultState` keep the distances between them and
  read the rings from where their consumers stand, since turning the rings by
  some slots changes no step. `DataState` keeps what requests and replies say until
  they are spent: a request once it has been carried out and a reply once it is in the
  caller's context are not read again. No step and no checked formula depends on what is
  left out as long as loads are in order; `driver_faults`, where a stale entry may
  be read, keeps the used ring whole. Liveness runs have no view. Symmetry in
  clients, and in threads and elements, is used in safety runs only.
* `driver_refines`: one register that two callers read and write with two values, so
  that an answer given to the wrong call, a write that is lost or done twice and a read
  of an old value all show. MMIO only: the transports differ in how an interrupt is
  acknowledged, which `driver_safety` and `driver_live` explore on both, and the theorem
  is about both.
* `driver_faults`: MMIO only, as the transports differ in how an interrupt is
  acknowledged and none of these faults touches that; failing `mmap64` is in
  `driver_safety`. `NotStale` ends a behaviour at the first completion taken for
  another, after which the driver's state is whatever the stale entry makes it; the
  state where that happens is still checked.
* Set-up: time-outs that are not multiples of the interval, and an interval a
  signal can cut in two. The two time-outs differ although the code has 500 ms for
  both, and both intervals are the same as in the code (10 ms, `virtio.h:44-53`): the
  loop for the queue sleeps the device's interval and counts down its own. The
  options are the default, sizes below, at and above a maximum, 511 and 512 (on either
  side of what a legacy queue of 4096-byte pages has room for), and two values above
  2^16, which arrive as 2 and as the default. A maximum of 0 is a device without
  the queue.
* PCI devices: one as the emulator's (all structures in one BAR, another BAR unused),
  one that offers the common structure twice, one without MSI-X.
* Device operations: two threads and two queues show any two operations disturbing
  each other. A behaviour keeps to one mix of operations; every two of the seven
  that take the lock are in one, queue creation is in one with notifications, which are
  what may run once there is a queue, and the reset is in one with the status bits and
  in one with queue creation.
* Resource manager: one byte per file, so counts up to 2 and offsets up to
  `SizeMod - 1` = 3 have every comparison go either way and the sum wrap.

### Fairness

`driver_live` assumes weak fairness of each client's steps
within a call, of the interrupt thread and of the device: threads that can run
are scheduled (they are in one process, at one priority, and the locks are held
for bounded sections), and a virtio device works on what it has been notified
of. No client is obliged to start a call. Liveness is checked for one client,
the deployed case: with two, weak fairness of a spinlock would not be enough.
`setup_safe` assumes that the thread runs and that signals do not cut *every*
delay short (strong fairness of a delay that ends); nothing is assumed of the
device, and still the function returns. `resmgr_safe` assumes that the thread
runs and that the driver's call is answered, which is `CallReturns`.

Deadlock is checked in `fifo_refines`, `ops_safe`, `driver_safety`,
`driver_refines`, `driver_live` and `driver_faults`. It is off where the system
may stop: the set-up ends, and the resource manager may give up.

## 4. What is proved

TLAPS proves the following for every value of the constants, from the named
assumptions on them; a hypothesis a theorem needs beyond those is stated in the
theorem and named here. TLC has checked each inductive invariant on small instances.

### The FIFO

`FifoProofs`, from `CapacityAssumption` (the capacity is positive:
`fifo_create` takes any, and its one caller passes a queue size that
`virtio_create_queue` has checked not to be 0) and `ThreadsAssumption` (the mark of a free lock is no
thread):

* `TypeCorrect`: indices stay in the array, `count` in its range;
* `MutualExclusionHolds`;
* `RingShapeHolds`: the tail is the head plus the count, at every statement, with
  the allowance for the one thread between two of its updates;
* `BoundedFifoImplemented`: the refinement, initial states and every step.

The invariant is `TypeOK /\ MutualExclusion /\ RingShape /\ StillRoom`. Mutual
exclusion needs nothing else. The shape of the ring needs it, so that the fields
are not moved by a second call between two updates of the first; and it needs
`StillRoom`: what `Check` found (room for a put, an element for a get) still holds
when the fields are written, three statements later. The refinement adds `InPlace`
(what a put copies is in its slot, what a get returns is what was first) and the
lemmas on `Window`, the part of a circular array between two indices: it is a
sequence, a store outside it does not change it, a longer one appends, a later
one is the tail.

### The request path, the virtqueue and the interrupt thread

From `NumAssumption` (the queue size divides the range of the indices),
`ConstantsAssumption`, `MarksAssumption` (the marks for "nothing" are none of the
things they stand in for) and `ValuesAssumption`, for any number of clients, any
queue size and index width, any transports and, unless said otherwise, any faults.

`VirtqProofs` has the lemmas the rest cites: distances of wrapping indices, which
entries lie between two of them (`Between`), that a ring keeps its entries when one
is added or taken (`RingKept`), and what the free list lists.

`GpioDriverProofs`, reordered loads included:

* `TypeCorrect`: no step takes an index out of the descriptor table, a ring or
  its 16 bits;
* `NoLostKickHolds`: the device never rests on an available ring with entries
  unless a notification is on its way.

Types alone are not inductive: a client's descriptors may be `NoDesc`, and
`desc[idxs[c][0]]` then has no type. The invariant adds `ClientIndicesNamed` and
`IstIndicesNamed`: at each label that reads a stored index, that index has been
set. `NoLostKick` is inductive beside `TypeOK`: only `Publish` can break it and
moves its client to `notify`; `Notify` leaves the flag set, and `DevIdle` clears
it only when the ring is empty.

`GpioOwnershipProofs`:

* `DescriptorsConservedHolds` and `ChainsInFlightOnceHolds`: a descriptor is on the
  free list, with one thread or in one chain, and each chain is in one place;
* `NoLostInterruptHolds`;
* `GetsCompletedChainHolds`, unless loads are reordered.

None of these is inductive, nor are they together: counting descriptors does not
say which one the next `fifo_get` returns. The invariant, `Ownership`, has a function
`own` from descriptors to holders that agrees with the free list, the rings and
the device, what the interrupt thread has in hand and each caller (`Owned`): that it
is a function is what makes holders disjoint. Beside it: the rings and the
device share the chains in flight and each ring has no more entries than slots
(`RingsShared`); chains are linked as `virtq_put_desc_chain` leaves them and their
responses are written exactly when they are in the used ring (`FlightChains`); what
a caller's descriptors contain at each label (`ClientChain`), and likewise for the
callback (`IstChain`); nothing else is linked (`HeadsKnown`). Each step that moves a
descriptor is shown with the new owner written into `own`. With reordered loads the
invariant holds up to the first stale entry (`OInv`), which is what the
properties promise. `NoLostInterrupt` needs two facts from it: the chain at the head
of the ring ends, so the drain goes past it; and the ring is found empty only
after the acknowledgement.

`GpioServiceProofs`, unless a signal ends a wait or loads are reordered:

* `ContextOutlivesRequestHolds`: a chain on its way carries the context of a caller
  that is still in the call;
* `NoSpuriousExhaustionHolds`, for a finite set of clients;
* `ServiceImplemented`: the driver with its device implements `GpioService`.

The invariant adds to `Ownership` that callers and chains match (`CallersWait`: the
two are in one-to-one correspondence and the chain has the caller's request) and
that a context is fresh until the callback has filled it (`ContextsMatch`). A
signal breaks the first, which is `doc_wait`; a stale entry breaks it as well,
which is `doc_completed`: the two hypotheses are the two findings.
`NoSpuriousExhaustion` counts: the interrupt thread owns at most two
descriptors, each other caller two, and a caller about to allocate its first or
second at most one. In the refinement the device's `Complete` and the driver's
local failures are the steps in which a call takes effect or fails; all others
stutter, and the proof shows for each that no `ServiceCall` changes.

### The resource manager

`ResmgrProofs`, from `ResmgrAssumption`, for any lines, any number of opens and
any width of `size_t`:

* `TypeCorrect`: what a reply sends is a digit, a flag or nothing;
* `ReadsLineValueHolds`: a read answers with a value the line had during its call
  of the driver, never with what an earlier message left in the shared buffer;
* `ReadsWithinFileHolds`: a read that starts within the file sends no more than
  what is left of it and moves the offset by what it sends.

The two are action properties, and the step that answers needs to know what the
step that asked has put down. So the invariant is `TypeOK /\ Levels /\ InHand`:
while a handler waits, the driver's call is the one its message stands for, on
the register of the file it has open, the count it was given is no more than
what is left, and a value that has come back is among `held`; `Levels` says that
what registers hold is a level or a direction. `LeftWithin` is the arithmetic: the
subtraction modulo `SizeMod` is the subtraction as long as the offset is within
the file.

### The device operations

`DeviceOpsProofs`, from `RegistersAssumption` and `OpsAssumption`, for any number of
threads and queues:

* `TypeCorrect`;
* `SelectsOwnQueueHolds`: each access finds its own queue selected;
* `RingsOfOwnQueueHolds`: a queue is only given the rings of its own virtqueue;
* `DeviceCallsImplemented`: the refinement, initial states and every step.

The invariant adds to the two properties that the lock's holder is the one thread
between lock and unlock (`LockHeld`), that a thread that resets the device or creates
a queue is the only one in a call (`CreatorAlone`), that what a thread selected is still selected, from
its selection to the end of its call and through `virtio_create_queue`'s stores
(`Selected`), and that what it loaded for a later store has not changed (`StillRead`),
which is what makes the two accesses of a status bit one step. The refinement adds
that the calls made without the lock are the resets (`ResetUnlocked`).

### The set-up

`DeviceSetupProofs`, from `PageAssumption`, `DiscoveryAssumption` and
`SetupAssumption`, for any devices, options, time-outs and speed of the device:

* `PartsFit`: for every two sizes and every page size each part of the smaller queue
  lies inside the memory mapped for the larger, if any is, except the used ring of a
  legacy queue when it is larger than a page;
* `PciHeldWhileUsedHolds`;
* `NothingFreedInUseHolds`: the interrupt thread and the device use allocated memory
  only, and nothing but the device structure is freed twice, whichever call fails;
* `TypeCorrect`: in particular what is left of a time-out or a delay stays
  between zero and its start;
* `SetUpInOrderHolds`, `CompletionsAnnouncedHolds`, `ConfigurationReadHolds`;
* `DeviceStaysInRingsHolds`: as long as no reset was given up, a device that uses the
  queue never has a size whose rings leave the memory mapped for the driver's. The
  property names two exceptions (an option beyond the device's maximum, a legacy used
  ring larger than a page), and the theorem supposes that pages are 4096 bytes where
  the transport is legacy: the unit of a legacy queue address is that (`FrameSize`),
  the driver tells the device the size of the system's pages, and with another one it
  would not find its queue;
* `WaitsLongEnoughHolds`, if the queue's poll interval is no longer than the
  device's: the loop for the queue sleeps the one and counts down the other
  (`virtio.c:225-232`), so it is right because the two are equal.

All are about the end of a path of many labels, so the invariants say for
groups of labels what holds there. `IInv`: where the PCI handle exists and the device
is attached. `MInv`: which objects are live and which have not been made yet.
`TInv`: types, and what discovery knows of the PCI device, with the MSI-X calls made
so far (`IrqBefore`). `SInv`: what the driver has found out or written
(`Progress`: page size, configuration, mapped structures) and, as long as no reset
was given up, that the device is where the driver takes it to be (`InTime`): its
status is the one the label implies (`InStep`), a device with this driver's rings
has been through the states before (`InOrder`), and one whose reset is waited for
has begun it (`ResetStarted`). That the second half is lost when a reset is given up
is `doc_reset`. `Waited` relates the time slept to the time counted off.

## 5. What is only model-checked

Every safety property and every refinement a run checks is also a theorem. What TLC
alone shows:

* liveness, and everything under fairness: `CallReturns`, `InterruptsAreServed`,
  `LineGoesQuiet`, `InitReturns` and `EveryMessageAnswered`. The provers installed
  have no ENABLED, and no liveness rule;
* that the documented properties of section 6 are violated.

No property covers, because the code promises nothing there: an interrupt thread that
never attaches (the bookkeeping is checked with it, in `driver_faults`, but nothing is
ever completed); what is left of a queue whose reset was skipped or given up; a queue
size written beyond the device's maximum; the second destruction of the device
structure; the length with which `virtq_create` unmaps on its error paths; reads at
offsets past the end of a file. Each is in the model, each is listed under `hazards`
with a note, and those that are errors are in section 6.

The theorems say nothing about a driver after the first stale entry or about calls
that outlive a signal: nothing holds there that the code could promise. They assume
what the models do: the grain of atomic steps that section 2 argues for, and a
device that keeps to the specification.

## 6. Where the code and its documentation part

Four runs end in a counterexample, which is what the code does:

* `doc_wait`: `sem_wait` returns -1 and not EINTR, so an interrupted wait is not
  retried; the call ends with its chain in flight (`gpio.c:147`).
* `doc_completed`: without a barrier between the two loads, a CPU may hand the
  callback a chain that is not complete (`virtq.c:547`).
* `doc_reset`: the time-out of the device reset is dropped; a reset that ends late
  takes a device away that was reported ready (`gpio.c:465`).
* `doc_config`: the PCI configuration read counts bytes and indexes words, so the
  size of the names is never read, and a word from beyond the configuration is
  written over `priv` (`virtio_pci.c:464`).

Met on the way and listed under `findings` without a run of their own:
`virtio_create_queue` reports success when its interrupt thread could not be created
or could not attach (`virtio.c:349`); a BAR that could not be mapped is used
(`virtio_pci.c:594`); the used ring of a legacy queue of 512 or more entries ends
beyond its memory (`virtq.c:79`); `virtio_set_queue_addr` takes no lock; the free
list that is empty is reported as ENOENT and not ENOMEM; the size of the queue
that is registered is the option's and not the queue's; `queue_reset` is read
before it is written; a device that is not found is destroyed twice; no features
are negotiated; an input line is reported as an output. A read at an offset past
the end of a line's file, which the model of the resource manager follows, gets
as many bytes as were asked for (`resmgr.c:107`).

## 7. What is not modelled

* Reading and writing features (`*_read_device_features`, `*_write_driver_features`):
  nobody calls them, so no behaviour of the program has such a step. This is why
  both transports are listed as partly modelled.
* Register offsets and the contents of PCI capabilities beyond their BAR. The
  alignment of a legacy device's used ring, which the driver never writes
  (QUEUE_ALIGN), is taken to be the page size, and the page size it was told to
  survive a reset.
* The mapping of the register window on MMIO's error paths, and of the BARs on PCI's,
  which are not given back: the process ends there.
* `virtio_gpio_num_gpios` and `_names_size` return fields of the configuration.
  GET_LINE_NAMES and SET_IRQ_TYPE are never sent.
* The parsing of the command line, logging, the header taken from Linux, the images
  and the Python harness: no state that
  interacts. The images are where the deployed configurations come from: PCI with
  default options on x86_64, MMIO with a queue of 64 on aarch64.
* Wording and layout of what devctl returns.
* A second queue, a second device, and tearing down: the code has no path to them
  (`virtq_destroy` has no caller, the process ends with its device running, which
  is why `DeviceSetup` starts from a running one as well).

## 8. Plan

Done, in this order: the FIFO (the free list's atomicity is what the rest stands
on), the request path with both threads and the device, its abstract service, the
set-up, the resource manager, the discovery of the device with the layout of the
rings and the configuration, the device operations under concurrency; proofs of
every safety property the runs check and of the three refinements (the FIFO, the
request path, the device operations).

Next:

1. What of `GpioService` is left when signals end waits: each call still takes
   effect at most once, but its answer may go to a later call of the same client.
   A weaker service would say so, and the refinement could drop a hypothesis.
2. The size of the legacy mapping as a theorem about the largest size that fits,
   instead of an exception in `PartsFit`.
3. Tear-down of the interrupt thread and of a call that was interrupted, and the
   feature operations, if the code gains callers for them.
