---------------------------- MODULE DeviceSetup ----------------------------
(***************************************************************************)
(* Bringing the device up: virtio_gpio_init (src/src/gpio/gpio.c), from    *)
(* where Discovery ends, with the device operations it calls               *)
(* (src/src/virtio/virtio.c), the creation of the virtqueue                *)
(* (src/src/virtio/virtq.c) and the set-up operations of the two           *)
(* transports, against a device that takes its time.  One thread runs it   *)
(* from the first line to the last; the device's steps come between its    *)
(* register accesses.                                                      *)
(*                                                                         *)
(* The queue index is always 0 and the spinlock of the device is free, so  *)
(* virtio_select_queue and the lock are left out (they are in DeviceOps),  *)
(* and the transport operations cannot fail once dev->priv is set.         *)
(***************************************************************************)
EXTENDS Discovery

CONSTANTS
  Timeout,     \* per reset loop, how long it waits
  Interval,    \* per reset loop, its poll interval
  Options,     \* values of the qsize option; 0 asks for the device's maximum
  MaxSizes,    \* maximum queue sizes a device may have; 0 is no queue
  Slow,        \* resets that may take time: a subset of Loops
  NoSize       \* no virtqueue yet

Loops == {"device", "queue"}
Bits  == {"ACKNOWLEDGE", "DRIVER", "FEATURES_OK", "DRIVER_OK"}

U16 == 0 .. Max16

ASSUME SetupAssumption ==
  /\ Timeout \in [Loops -> Nat] /\ Interval \in [Loops -> Nat \ {0}]
  /\ Options \subseteq Nat /\ MaxSizes \subseteq U16
  /\ Slow \subseteq Loops
  /\ NoSize \notin Nat

VARIABLES
  size,       \* the size virtio_gpio_init is given
  num,        \* vq->num
  loop,       \* the reset loop it is in, or was in last
  remaining,  \* remaining_timeout_ms
  waiting,    \* remaining_poll_interval_ms
  current,    \* current_status of virtio_add_device_status, once it has been read
  gpio,       \* the fields of virtio_gpio_device
  ist,        \* virtio_ist runs
  dev,        \* the device
  elapsed,    \* history: the time this loop has slept, up to its time-out
  late        \* history: the driver went on with a reset still under way

timer == <<loop, remaining, waiting, elapsed>>
setupVars == <<size, num, timer, current, gpio, ist, dev, late>>
vars == <<pc, rc, heap, foundVars, setupVars>>

Legacy == transport = "legacy"

Fields == {"dev", "ngpio", "names_size", "requestq", "priv"}

\* The device after a reset.
FreshDevice(max) ==
  [status |-> {}, resetting |-> FALSE, queue_resetting |-> FALSE,
   qsize |-> max, qaddr |-> "none", enabled |-> FALSE, vector |-> FALSE, max |-> max]

\* The device as an earlier instance of the driver left it.
RunningDevice(max, s) ==
  [FreshDevice(max) EXCEPT !.status = Bits, !.qsize = s, !.qaddr = "old",
                           !.enabled = TRUE, !.vector = transport = "pci"]

\* The option is parsed as 32 bits, and passed on as 16.
Given(option) == option % (Max16 + 1)

Init ==
  /\ DiscoveryInit
  /\ size \in {Given(option) : option \in Options}
  /\ num = NoSize
  /\ loop = "device" /\ remaining = 0 /\ waiting = 0 /\ elapsed = 0
  /\ current = {} /\ ist = FALSE /\ late = FALSE
  /\ gpio = [f \in Fields |-> "zero"]
  /\ \E max \in MaxSizes :
       \/ dev = FreshDevice(max)
       \/ max > 0 /\ dev = RunningDevice(max, max)

-----------------------------------------------------------------------------
(* Waiting for a reset: ask, sleep an interval, ask again.                 *)

StartLoop(which) ==
  loop' = which /\ remaining' = Timeout[which] /\ elapsed' = 0

\* Both loops sleep the device's poll interval.
Sleep == pc' = "sleep" /\ waiting' = Interval["device"]

GoOn(next, pending) == pc' = next /\ late' = (late \/ pending)

\* Mutated form: the remaining time is not kept from going below zero.
CountDown_wraps(t, interval) == (t - interval) % 8

\* remaining_timeout_ms -= min(remaining_timeout_ms, interval)
CountDown(t, interval) == t - (IF t < interval THEN t ELSE interval)

Slept(t) == IF elapsed + t < Timeout[loop] THEN elapsed + t ELSE Timeout[loop]

\* Mutated form: a delay cut short counts as a whole interval.
Delay_once(left) ==
  /\ pc = "sleep" /\ left \in 0 .. waiting
  /\ elapsed' = Slept(waiting - left)
  /\ waiting' = 0
  /\ remaining' = CountDown(remaining, Interval[loop])
  /\ pc' = "poll"
  /\ UNCHANGED <<rc, heap, foundVars, size, num, loop, current, gpio, ist, dev, late>>

\* delay(waiting) returns what is left when a signal cuts it short.
Delay(left) ==
  /\ pc = "sleep" /\ left \in 0 .. waiting
  /\ elapsed' = Slept(waiting - left)
  /\ waiting' = left
  /\ IF left > 0 THEN UNCHANGED <<pc, remaining>>
     ELSE /\ remaining' = CountDown(remaining, Interval[loop])
          /\ pc' = "poll"
  /\ UNCHANGED <<rc, heap, foundVars, size, num, loop, current, gpio, ist, dev, late>>

\* The accesses to the common structure of a PCI device whose BAR could not be
\* mapped, and to its configuration, kill the driver; so does the assertion that
\* the page frame number of a legacy queue has 32 bits.
HasRegisters     == transport = "pci" => Reachable("common")
HasConfiguration == transport = "pci" => Reachable("device")

Crash ==
  /\ \/ pc = "reset_device" /\ ~HasRegisters
     \/ pc = "read_config" /\ ~HasConfiguration
     \/ pc = "set_queue_addr" /\ Legacy
  /\ pc' = "crashed"
  /\ UNCHANGED <<rc, heap, foundVars, setupVars>>

\* A device that has nothing to reset, or is quick, has reset at once.
ResetDevice ==
  /\ pc = "reset_device" /\ HasRegisters
  /\ \/ dev' = FreshDevice(dev.max)
     \/ /\ "device" \in Slow /\ dev.status # {}
        /\ dev' = [dev EXCEPT !.resetting = TRUE]
  /\ StartLoop("device")
  /\ pc' = "poll"
  /\ UNCHANGED <<rc, heap, foundVars, size, num, waiting, current, gpio, ist, late>>

\* The status is zero or the time is up: virtio_gpio_init drops the result and
\* goes on in either case.
PollDevice ==
  /\ pc = "poll" /\ loop = "device"
  /\ IF dev.status # {} /\ remaining > 0
     THEN Sleep /\ UNCHANGED <<late, loop, remaining, elapsed>>
     ELSE GoOn("ACKNOWLEDGE", dev.resetting) /\ UNCHANGED timer
  /\ UNCHANGED <<rc, heap, foundVars, size, num, current, gpio, ist, dev>>

\* while (queue_reset != 0 && remaining_timeout_ms > 0)
TestQueueReset(queue_reset, left, pending) ==
  \/ queue_reset /\ left > 0 /\ Sleep /\ UNCHANGED <<rc, late>>
  \/ /\ queue_reset /\ left = 0
     /\ Fail("ETIMEDOUT", "free_vdev") /\ UNCHANGED <<waiting, late>>
  \/ ~queue_reset /\ GoOn("set_queue_size", pending) /\ UNCHANGED <<rc, waiting>>

\* A queue that has been reset.
QueueReset(d) == [d EXCEPT !.queue_resetting = FALSE, !.qsize = d.max,
                           !.qaddr = "none", !.enabled = FALSE, !.vector = FALSE]

\* The device need not know the reset of a queue, and a legacy one does not.
\* The driver's queue_reset is tested before anything has written it.
SetQueueReset ==
  /\ pc = "set_queue_reset"
  /\ \/ UNCHANGED dev
     \/ ~Legacy /\ dev' = QueueReset(dev)
     \/ /\ ~Legacy /\ "queue" \in Slow
        /\ dev' = [dev EXCEPT !.queue_resetting = TRUE]
  /\ StartLoop("queue")
  /\ \E queue_reset \in BOOLEAN :
       TestQueueReset(queue_reset, Timeout["queue"], dev'.queue_resetting)
  /\ UNCHANGED <<heap, foundVars, size, num, current, gpio, ist>>

PollQueue ==
  /\ pc = "poll" /\ loop = "queue"
  /\ TestQueueReset(dev.queue_resetting, remaining, FALSE)
  /\ UNCHANGED <<heap, foundVars, size, num, loop, remaining, elapsed, current, gpio, ist, dev>>

-----------------------------------------------------------------------------
(* The status bits: virtio_add_device_status reads, then writes.           *)

After(bit) == CASE bit = "ACKNOWLEDGE" -> "DRIVER"
                [] bit = "DRIVER"      -> "read_config"
                [] bit = "FEATURES_OK" -> "max_queue_size"
                [] bit = "DRIVER_OK"   -> "hand_over"

GetStatus(bit) ==
  /\ pc = bit /\ current = {}
  /\ current' = {dev.status}
  /\ UNCHANGED <<pc, rc, heap, foundVars, size, num, timer, gpio, ist, dev, late>>

\* Mutated form: the new bit replaces the others.
SetStatus_replaces(bit) ==
  /\ pc = bit
  /\ \E status \in current : dev' = [dev EXCEPT !.status = {bit}]
  /\ current' = {}
  /\ pc' = After(bit)
  /\ UNCHANGED <<rc, heap, foundVars, size, num, timer, gpio, ist, late>>

SetStatus(bit) ==
  /\ pc = bit
  /\ \E status \in current : dev' = [dev EXCEPT !.status = status \cup {bit}]
  /\ current' = {}
  /\ pc' = After(bit)
  /\ UNCHANGED <<rc, heap, foundVars, size, num, timer, gpio, ist, late>>

-----------------------------------------------------------------------------
(* The configuration, read into virtio_gpio_device.                        *)

\* The fields that hold the 32-bit words from config on.
Field == <<"ngpio", "names_size", "requestq", "requestq", "priv", "priv">>

\* Mutated form: the last word is not read.
mmio_words_short == {0}

mmio_words == {0, 1}

\* The PCI loop counts bytes and uses them as the indices of words.
pci_words == {0, 4}

\* Word i of the device's configuration goes to word i from config on.
ReadConfig ==
  /\ pc = "read_config" /\ HasConfiguration
  /\ LET words == IF transport = "pci" THEN pci_words ELSE mmio_words IN
       gpio' = [f \in Fields |->
                  IF \E i \in words : Field[i + 1] = f THEN "config" ELSE gpio[f]]
  /\ pc' = "FEATURES_OK"
  /\ UNCHANGED <<rc, heap, foundVars, size, num, timer, current, ist, dev, late>>

-----------------------------------------------------------------------------
(* virtio_create_queue.                                                    *)

\* MMIO has a register for the maximum; PCI's queue_size says it until the
\* driver writes another size.
mmio_max_queue_size == dev.max
pci_queue_size      == dev.qsize
MaxQueueSize == IF transport = "pci" THEN pci_queue_size ELSE mmio_max_queue_size

\* queue_size = size == 0 ? queue_size : min(size, queue_size)
QueueSize == IF size = 0 THEN MaxQueueSize
             ELSE IF size < MaxQueueSize THEN size ELSE MaxQueueSize

ChooseSize ==
  /\ pc = "max_queue_size"
  /\ num' = QueueSize
  /\ IF QueueSize = 0 THEN Fail("ENODEV", "free_vdev")
                      ELSE pc' = "virtq_create" /\ UNCHANGED rc
  /\ UNCHANGED <<heap, foundVars, size, timer, current, gpio, ist, dev, late>>

Rings == IF Legacy THEN {"desc"} ELSE {"desc", "avail", "used"}
VirtqParts == IF Legacy THEN <<"vq", "desc", "extras", "free_descs">>
              ELSE <<"vq", "desc", "avail", "used", "extras", "free_descs">>
PartsBefore(n) == {VirtqParts[k] : k \in 1 .. n - 1}

\* vq->num is still 0 when complete rings are unmapped: munmap refuses the
\* length 0 of a modern ring, and gives two pages of a legacy one back.
Unmapped == IF ~Legacy THEN "live"
            ELSE IF LegacyBytes(0) < LegacyBytes(num) THEN "part freed" ELSE "freed"

\* Getting the n-th part, or the lock that comes last, fails.
VirtqCreateFails(n) ==
  /\ heap' = [o \in Objects |->
                IF o \notin PartsBefore(n) THEN heap[o]
                ELSE IF o \in Rings /\ Rings \subseteq PartsBefore(n) THEN Unmapped
                ELSE "freed"]
  /\ Fail("ENOMEM", "free_vdev")

\* mmap64 maps no memory of length 0.
VirtqMade ==
  /\ Legacy => LegacyBytes(num) > 0
  /\ Made({VirtqParts[k] : k \in DOMAIN VirtqParts})
  /\ gpio' = [gpio EXCEPT !["requestq"] = "vq"]
  /\ pc' = "set_queue_reset" /\ UNCHANGED rc

\* Mutated form: the interrupt thread starts as soon as there is a queue.
VirtqCreate_starts_ist ==
  /\ pc = "virtq_create"
  /\ \/ VirtqMade /\ ist' = TRUE
     \/ \E n \in 1 .. Len(VirtqParts) + 1 : VirtqCreateFails(n) /\ UNCHANGED <<gpio, ist>>
  /\ UNCHANGED <<foundVars, size, num, timer, current, dev, late>>

VirtqCreate ==
  /\ pc = "virtq_create"
  /\ \/ VirtqMade
     \/ \E n \in 1 .. Len(VirtqParts) + 1 : VirtqCreateFails(n) /\ UNCHANGED gpio
  /\ UNCHANGED <<foundVars, size, num, timer, current, ist, dev, late>>

\* Mutated form: the device is left with its maximum.
SetQueueSize_maximum ==
  /\ pc = "set_queue_size"
  /\ pc' = "set_queue_addr"
  /\ UNCHANGED <<rc, heap, foundVars, size, num, timer, current, gpio, ist, dev, late>>

\* What is written is the option, not the size of the ring.  A device takes
\* what it is given, or ignores a size it cannot have.
SetQueueSize ==
  /\ pc = "set_queue_size"
  /\ \/ dev' = [dev EXCEPT !.qsize = size]
     \/ size \notin 1 .. dev.max /\ UNCHANGED dev
  /\ pc' = "set_queue_addr"
  /\ UNCHANGED <<rc, heap, foundVars, size, num, timer, current, gpio, ist, late>>

\* The page frame is the address shifted by 12 bits.
FrameSize == 4096

\* A legacy device starts using the queue when it has its page frame.
mmio_set_queue_addr ==
  dev' = [dev EXCEPT !.qaddr = "vq", !.enabled = @ \/ Legacy]
pci_set_queue_addr == dev' = [dev EXCEPT !.qaddr = "vq"]

SetQueueAddr ==
  /\ pc = "set_queue_addr"
  /\ IF transport = "pci" THEN pci_set_queue_addr ELSE mmio_set_queue_addr
  /\ pc' = "pthread_create"
  /\ UNCHANGED <<rc, heap, foundVars, size, num, timer, current, gpio, ist, late>>

\* Neither calloc's result nor pthread_create's is looked at.
CreateThread ==
  /\ pc = "pthread_create"
  /\ \/ /\ ist' \in BOOLEAN
        /\ pc' = IF transport = "pci" THEN "queue_vector" ELSE "enable_queue"
     \/ ist' = FALSE /\ pc' = "crashed"
  /\ UNCHANGED <<rc, heap, foundVars, size, num, timer, current, gpio, dev, late>>

\* Mutated form: the queue is given no vector.
SetQueueVector_skipped ==
  /\ pc = "queue_vector"
  /\ pc' = "enable_queue"
  /\ UNCHANGED <<rc, heap, foundVars, size, num, timer, current, gpio, ist, dev, late>>

\* PCI's enable operation stores the queue's vector, ...
SetQueueVector ==
  /\ pc = "queue_vector"
  /\ dev' = [dev EXCEPT !.vector = TRUE]
  /\ pc' = "enable_queue"
  /\ UNCHANGED <<rc, heap, foundVars, size, num, timer, current, gpio, ist, late>>

\* ... and then enables it.  A legacy device has no such register.
EnableQueue ==
  /\ pc = "enable_queue"
  /\ dev' = [dev EXCEPT !.enabled = @ \/ ~Legacy]
  /\ pc' = "DRIVER_OK"
  /\ UNCHANGED <<rc, heap, foundVars, size, num, timer, current, gpio, ist, late>>

\* virtio_gpio_init gives the device to its caller.
HandOver ==
  /\ pc = "hand_over"
  /\ gpio' = [gpio EXCEPT !["dev"] = "vdev"]
  /\ pc' = "returned"
  /\ UNCHANGED <<rc, heap, foundVars, size, num, timer, current, ist, dev, late>>

-----------------------------------------------------------------------------
(* The device.                                                             *)

FinishReset ==
  /\ dev.resetting
  /\ dev' = FreshDevice(dev.max)
  /\ UNCHANGED <<pc, rc, heap, foundVars, size, num, timer, current, gpio, ist, late>>

FinishQueueReset ==
  /\ dev.queue_resetting
  /\ dev' = QueueReset(dev)
  /\ UNCHANGED <<pc, rc, heap, foundVars, size, num, timer, current, gpio, ist, late>>

-----------------------------------------------------------------------------
Driver ==
  \/ Discover /\ UNCHANGED setupVars
  \/ Crash \/ ResetDevice \/ PollDevice \/ \E left \in 0 .. waiting : Delay(left)
  \/ \E bit \in Bits : GetStatus(bit) \/ SetStatus(bit)
  \/ ReadConfig \/ ChooseSize \/ VirtqCreate \/ SetQueueReset \/ PollQueue \/ SetQueueSize
  \/ SetQueueAddr \/ CreateThread \/ SetQueueVector \/ EnableQueue \/ HandOver

Next == Driver \/ FinishReset \/ FinishQueueReset

Spec == Init /\ [][Next]_vars

\* The thread runs, and signals do not cut every delay short.  Nothing is
\* asked of the device.
FairSpec == Spec /\ WF_vars(Driver) /\ SF_vars(Delay(0))

-----------------------------------------------------------------------------
(* Properties.                                                             *)

Labels == Searching \cup Bits \cup
  {"free_vdev", "returned", "crashed", "reset_device", "poll", "sleep",
   "read_config", "max_queue_size", "virtq_create", "set_queue_reset",
   "set_queue_size", "set_queue_addr", "pthread_create", "queue_vector",
   "enable_queue", "hand_over"}

\* Every variable has its type; what is left of a time-out and of a delay is
\* never below zero nor above where it started.
TypeOK ==
  /\ pc \in Labels /\ DiscoveryTypeOK
  /\ size \in U16 /\ num \in Nat \cup {NoSize}
  /\ gpio \in [Fields -> {"zero", "config", "vq", "vdev"}]
  /\ loop \in Loops /\ remaining \in 0 .. Timeout[loop]
  /\ waiting \in 0 .. Interval["device"] /\ elapsed \in 0 .. Timeout[loop]
  /\ current \in {{}} \cup {{s} : s \in SUBSET Bits}
  /\ ist \in BOOLEAN /\ late \in BOOLEAN
  /\ dev \in [status : SUBSET Bits, resetting : BOOLEAN,
             queue_resetting : BOOLEAN, qsize : Nat,
             qaddr : {"none", "old", "vq"}, enabled : BOOLEAN,
             vector : BOOLEAN, max : Nat]

\* When every reset is over before the driver goes on, a device that sees
\* DRIVER_OK has been taken through the states before it and has this driver's
\* rings, enabled and of the size the driver believes (virtio_gpio_init sets
\* the bit last, after virtio_enable_queue), and by the time the driver maps
\* rings the device has let go of those of an earlier instance.
SetUpInOrder ==
  ~late =>
    /\ "DRIVER_OK" \in dev.status /\ dev.qaddr # "old" =>
         /\ dev.status = Bits
         /\ dev.enabled /\ dev.qaddr = "vq"
         /\ size \in 1 .. dev.max => dev.qsize = num
    /\ heap["desc"] # "none" => dev.qaddr # "old"

\* The interrupt thread and the device only ever use memory that is allocated,
\* whichever step of virtio_gpio_init fails (virtio_create_queue starts the
\* thread after everything that can fail); and but for the device structure,
\* which a failing transport frees and its caller frees again, nothing is freed
\* twice.
NothingFreedInUse ==
  /\ ist \/ (pc = "returned" /\ rc = "EOK") =>
       \A o \in Rings \cup {"gpio", "vdev", "priv", "vq", "extras", "free_descs"} :
         heap[o] = "live"
  /\ dev.qaddr = "vq" => \A part \in Rings : heap[part] = "live"
  /\ \A o \in Objects \ {"vdev"} : heap[o] # "freed twice"

\* A device that may use the queue finds its rings, of the size it was given, inside
\* the memory that was mapped for those of the driver's size (virtq_create,
\* virtio_set_queue_size, virtio_mmio_set_queue_addr), and a legacy device looks for
\* them where they are: at the page frame times the page size it was told, which has
\* to be the frame the driver counts in.  Left out are an option beyond the device's
\* maximum, which the device may take for its size, and a legacy queue whose used
\* ring does not fit into the page an available ring of its size takes.
DeviceStaysInRings ==
  ~late /\ dev.enabled /\ dev.qaddr = "vq" /\ size <= dev.max =>
    /\ \A part \in Parts :
         \/ Fits(part, dev.qsize, num, Legacy)
         \/ Legacy /\ part = "used" /\ UsedBytes(num) > Page
    /\ Legacy => page = FrameSize

\* The PCI device is attached for as long as its handle exists and the device
\* may be used, and whatever call of virtio_pci_init fails lets it go before the
\* handle is freed.
PciHeldWhileUsed ==
  /\ pci.attached => heap["priv"] = "live"
  /\ transport = "pci" /\ dev.qaddr = "vq" => pci.attached

\* A PCI device that works announces what it completes: the queue has its vector
\* before it is enabled, and by then MSI-X is enabled with its entry programmed
\* and unmasked, and the interrupt is known (virtio_pci_init and
\* virtio_pci_enable_queue).  MSI-X is enabled with an entry that says where to
\* write, and the entry is unmasked last.
CompletionsAnnounced ==
  /\ ~late /\ transport = "pci" /\ dev.enabled /\ dev.qaddr = "vq" =>
       /\ dev.vector
       /\ {"set_irq_entry", "cap_enable", "read_irq", "unmask_irq_entry"} \subseteq pci.irq
       /\ Reachable("common")
  /\ "cap_enable" \in pci.irq => "set_irq_entry" \in pci.irq
  /\ "unmask_irq_entry" \in pci.irq => "cap_enable" \in pci.irq

\* virtio_gpio_init returns a device with its fields filled in: the lines and, over
\* MMIO, the size of the names, and the pointers set after the configuration was
\* read.  Over PCI the reading also fills priv, past its field
\* (virtio_pci_read_device_config), which nothing reads; MMIO leaves priv alone.
ConfigurationRead ==
  pc = "returned" /\ rc = "EOK" =>
    /\ gpio["ngpio"] = "config" /\ gpio["dev"] = "vdev" /\ gpio["requestq"] = "vq"
    /\ transport # "pci" => gpio["names_size"] = "config" /\ gpio["priv"] = "zero"

\* Neither loop gives its reset up before it has slept for its time-out, however
\* its delays are cut short and whether or not the interval divides it
\* (virtio_reset_device and virtio_reset_queue).
WaitsLongEnough ==
  [][/\ pc = "poll" /\ pc' = "ACKNOWLEDGE" /\ dev.status # {}
       => elapsed >= Timeout["device"]
     /\ rc' # rc /\ rc' = "ETIMEDOUT" /\ pc = "poll"
       => elapsed >= Timeout["queue"]]_vars

\* virtio_gpio_init returns, whatever the device does: no loop of it depends on
\* an answer.  (It may die on an allocation or a mapping nobody checked.)
InitReturns == <>(pc \in {"returned", "crashed"})

-----------------------------------------------------------------------------
(* What the documentation says, and what the code does not do.             *)

\* gpio.h:118: virtio_gpio_init resets the device, sets its virtqueue up and
\* then sets DRIVER_OK, "preparing the device for operation".
ReturnsReadyDevice ==
  pc = "returned" /\ rc = "EOK" =>
    dev.status = Bits /\ dev.enabled /\ dev.qaddr = "vq"

\* gpio.h:51: virtio_gpio_names_size "queries the size of the buffer needed to
\* store GPIO pin names", which virtio_gpio_init reads with the configuration.
NamesSizeRead ==
  pc = "returned" /\ rc = "EOK" => gpio["names_size"] = "config"
=============================================================================
