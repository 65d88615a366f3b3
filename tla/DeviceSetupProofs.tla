------------------------- MODULE DeviceSetupProofs -------------------------
(***************************************************************************)
(* Proofs about DeviceSetup and Discovery for any devices, options, sizes, *)
(* time-outs and device speed, whatever call fails: where the parts of a   *)
(* virtqueue lie, that the PCI device is held and memory kept for as long  *)
(* as they are used, the types, the order in which driver and device go    *)
(* through the set-up, and how long a reset is waited for.                 *)
(***************************************************************************)
EXTENDS DeviceSetup, FiniteSetTheorems, TLAPS

-----------------------------------------------------------------------------
(* Where the parts of a virtqueue lie, for every size and page size.       *)

\* Rounding up to pages makes nothing smaller, and keeps the order.
LEMMA AlignedRoundsUp ==
  ASSUME NEW m \in Nat PROVE Aligned(m, Page) \in Nat /\ m <= Aligned(m, Page)
<1> DEFINE q == (m + Page - 1) \div Page
<1>1. q \in Nat /\ m + Page - 1 < Page * (q + 1)
  BY PageAssumption
<1>2. Page * (q + 1) = q * Page + Page
  BY <1>1, PageAssumption
<1> QED BY <1>1, <1>2, PageAssumption DEF Aligned

LEMMA AlignedKeepsOrder ==
  ASSUME NEW k \in Nat, NEW m \in Nat, k <= m PROVE Aligned(k, Page) <= Aligned(m, Page)
<1> DEFINE p == (k + Page - 1) \div Page
           q == (m + Page - 1) \div Page
<1>1. p \in Nat /\ q \in Nat /\ p <= q
  <2>1. /\ p \in Int /\ q \in Int /\ p >= 0 /\ q >= 0
        /\ Page * p <= k + Page - 1 /\ m + Page - 1 < Page * (q + 1)
    BY PageAssumption
  <2>2. Page * p < Page * (q + 1)
    BY <2>1, PageAssumption
  <2> HIDE DEF p, q
  <2>3. p < q + 1
    <3> SUFFICES ASSUME p >= q + 1 PROVE FALSE
      BY <2>1
    <3>1. Page * p >= Page * (q + 1)
      BY <2>1, PageAssumption
    <3> QED BY <2>1, <2>2, <3>1, PageAssumption
  <2> QED BY <2>1, <2>3
<1> HIDE DEF p, q
<1>2. p * Page <= q * Page
  BY <1>1, PageAssumption
<1> QED BY <1>2, PageAssumption DEF Aligned, p, q

LEMMA AlignedAtLeastPage ==
  ASSUME NEW m \in Nat, m > 0 PROVE Aligned(m, Page) >= Page
<1> DEFINE q == (m + Page - 1) \div Page
<1>1. q \in Nat /\ q >= 1
  BY PageAssumption
<1>2. q * Page >= Page
  BY <1>1, PageAssumption
<1> QED BY <1>2, PageAssumption DEF Aligned

\* A page that does not fit into 16 bits leaves no alignment, and nothing to map.
LEMMA LegacyAlignment ==
  ASSUME NEW n \in Nat, LegacyBytes(n) > 0 PROVE Alignment = Page
<1>1. CASE Page <= Max16
  BY <1>1, PageAssumption DEF Alignment, Max16
<1>2. CASE Page % (Max16 + 1) = 0
  BY <1>2 DEF Alignment, LegacyBytes, Aligned
<1> QED BY <1>1, <1>2, PageAssumption

\* The device's rings end within the memory of the driver's when the device's are
\* of no greater size: every part of a modern queue does, and every part of a
\* legacy queue that could be mapped at all, except a used ring that does not fit
\* into one page: its room is that of an available ring (virtq_legacy_mem_size).
THEOREM PartsFit ==
  ASSUME NEW m \in Nat, NEW n \in 0 .. m, NEW part \in Parts, NEW legacy \in BOOLEAN,
         legacy => LegacyBytes(m) > 0,
         legacy /\ part = "used" => UsedBytes(m) <= Page
  PROVE  Fits(part, n, m, legacy)
<1> DEFINE head(k) == DescBytes(k) + AvailBytes(k)
<1>1. \A k \in Nat : /\ DescBytes(k) \in Nat /\ AvailBytes(k) \in Nat /\ UsedBytes(k) \in Nat
                     /\ head(k) \in Nat /\ AvailBytes(k) > 0
  BY DEF DescBytes, AvailBytes, UsedBytes
<1>2. /\ n \in Nat /\ DescBytes(n) <= DescBytes(m) /\ AvailBytes(n) <= AvailBytes(m)
      /\ UsedBytes(n) <= UsedBytes(m)
  BY DEF DescBytes, AvailBytes, UsedBytes
<1>3. head(n) <= head(m)
  BY <1>1, <1>2
<1>4. CASE ~legacy
  <2>1. Bytes(part, n) \in Nat /\ Bytes(part, m) \in Nat /\ Bytes(part, n) <= Bytes(part, m)
    BY <1>1, <1>2 DEF Bytes, Parts
  <2> QED BY <1>4, <2>1, AlignedRoundsUp DEF Fits, Mapped
<1>5. CASE legacy
  <2>1. /\ Aligned(head(m), Page) \in Nat /\ head(m) <= Aligned(head(m), Page)
        /\ Aligned(AvailBytes(m), Page) \in Nat /\ Page <= Aligned(AvailBytes(m), Page)
        /\ Aligned(head(n), Page) \in Nat /\ Aligned(head(n), Page) <= Aligned(head(m), Page)
    BY <1>1, <1>2, <1>3, AlignedRoundsUp, AlignedAtLeastPage, AlignedKeepsOrder
  <2>2. LegacyBytes(m) = Aligned(head(m), Page) + Aligned(AvailBytes(m), Page)
    BY <1>5, LegacyAlignment DEF LegacyBytes
  <2>3. LegacyBytes(m) \in Nat /\ LegacyBytes(m) <= Mapped(LegacyBytes(m))
        /\ Mapped(LegacyBytes(m)) \in Nat
    BY <2>1, <2>2, AlignedRoundsUp DEF Mapped
  <2>4. head(n) = DescBytes(n) + AvailBytes(n)
    OBVIOUS
  <2> HIDE DEF head
  <2>5. head(m) <= Mapped(LegacyBytes(m)) /\ head(m) \in Nat /\ head(n) \in Nat
    BY <1>1, <1>2, <2>1, <2>2, <2>3, PageAssumption
  <2>6. CASE part = "desc"
    <3>1. LegacyOffset(part, n) = 0 /\ Bytes(part, n) = DescBytes(n)
      BY <2>6 DEF LegacyOffset, Bytes
    <3> QED BY <1>1, <1>2, <1>3, <1>5, <2>3, <2>4, <2>5, <3>1 DEF Fits
  <2>7. CASE part = "avail"
    <3>1. LegacyOffset(part, n) = DescBytes(n) /\ Bytes(part, n) = AvailBytes(n)
      BY <2>7 DEF LegacyOffset, Bytes
    <3> QED BY <1>1, <1>2, <1>3, <1>5, <2>3, <2>4, <2>5, <3>1 DEF Fits
  <2>8. CASE part = "used"
    <3>1. LegacyOffset(part, n) = Aligned(head(n), Page) /\ Bytes(part, n) = UsedBytes(n)
      BY <2>8 DEF LegacyOffset, Bytes, head
    <3>2. UsedBytes(n) <= Page /\ UsedBytes(n) \in Nat
      BY <1>1, <1>2, <1>5, <2>8, PageAssumption
    <3>3. Aligned(head(n), Page) + UsedBytes(n) <= LegacyBytes(m)
      BY <2>1, <2>2, <3>2, PageAssumption
    <3> QED BY <1>5, <2>1, <2>3, <3>1, <3>2, <3>3 DEF Fits
  <2> QED BY <2>6, <2>7, <2>8 DEF Parts
<1> QED BY <1>4, <1>5

-----------------------------------------------------------------------------
(* The PCI device.                                                         *)

\* Where virtio_pci_init has the device attached, and may fail.
Attached == {"pci_caps", "pci_bars", "pci_msix", "detach_pci"}

\* Where a transport has its structure and no attached device.
Unattached == {"pci_find", "pci_attach", "mmio_map", "mmio_probe", "free_priv"}

Mmio == {"mmio_calloc", "mmio_map", "mmio_probe"}

\* Where virtio_gpio_init is done with the transport and has not failed.
SettingUp == Labels \ (Searching \cup {"free_vdev", "returned"})

\* The last conjunct says how far it goes: once the search is over only a failed
\* one leaves a PCI device that is not attached, and then the driver returns.
IInv ==
  /\ pc \in Labels
  /\ "attached" \in DOMAIN pci /\ "qaddr" \in DOMAIN dev /\ DOMAIN heap = Objects
  /\ pc \in Mmio => transport # "pci"
  /\ pc \in {"pci_calloc", "pci_find", "pci_attach"} => transport = "pci"
  /\ pc \in Unattached => heap["priv"] = "live"
  /\ pc \in Attached => pci.attached
  /\ pci.attached => /\ heap["priv"] = "live" /\ transport = "pci"
                     /\ pc \in Attached \/ pc \notin Searching
  /\ transport = "pci" /\ dev.qaddr = "vq" => pci.attached /\ pc \notin Searching
  /\ transport = "pci" /\ pc \in SettingUp => pci.attached

LEMMA InitEstablishes == Init => IInv
<1> SUFFICES ASSUME Init PROVE IInv
  OBVIOUS
<1>1. /\ pc = "start" /\ DOMAIN heap = Objects
      /\ "attached" \in DOMAIN pci /\ pci.attached = FALSE
  BY DEF Init, DiscoveryInit, NothingFound
<1>2. "qaddr" \in DOMAIN dev /\ dev.qaddr # "vq"
  <2>1. ASSUME NEW max PROVE /\ "qaddr" \in DOMAIN FreshDevice(max)
                             /\ FreshDevice(max).qaddr = "none"
    BY DEF FreshDevice
  <2>2. ASSUME NEW max PROVE /\ "qaddr" \in DOMAIN RunningDevice(max, max)
                             /\ RunningDevice(max, max).qaddr = "old"
    BY <2>1 DEF RunningDevice
  <2> QED BY <2>1, <2>2 DEF Init
<1> QED BY <1>1, <1>2 DEF IInv, Labels, Searching, Mmio, Unattached, Attached, SettingUp

\* The search: each step as far as it goes.
LEMMA DiscoverKeepsIInv ==
  ASSUME IInv, Discover, UNCHANGED setupVars PROVE IInv'
<1> USE DEF IInv, Labels, Searching, Mmio, Unattached, Attached, SettingUp, setupVars,
            foundVars, Fail
<1>1. CASE GpioCalloc
  BY <1>1 DEF GpioCalloc, Made, Objects
<1>2. CASE VirtioInit
  BY <1>2 DEF VirtioInit, Made, Objects
<1>3. CASE DetachPci
  BY <1>3 DEF DetachPci
<1>4. CASE FreePriv \/ DestroyVdev \/ FreeVdev
  BY <1>4 DEF FreePriv, DestroyVdev, FreeVdev, Free, Objects
<1>5. CASE MmioCalloc \/ PciCalloc
  BY <1>5 DEF MmioCalloc, PciCalloc, Made, Objects
<1>6. CASE MmioMap \/ PciFind
  BY <1>6 DEF MmioMap, PciFind
<1>7. CASE MmioProbe
  BY <1>7 DEF MmioProbe
<1>8. CASE PciAttach
  BY <1>8 DEF PciAttach
<1>9. CASE ReadCap
  BY <1>9 DEF ReadCap, PciFails
<1>10. CASE ReadMsixCap
  BY <1>10 DEF ReadMsixCap, PciFails
<1>11. CASE MapBars
  BY <1>11 DEF MapBars, PciFails
<1>12. CASE NoMsix
  BY <1>12 DEF NoMsix
<1>13. CASE SetUpMsix
  BY <1>13 DEF SetUpMsix, PciFails
<1> QED BY <1>1, <1>2, <1>3, <1>4, <1>5, <1>6, <1>7, <1>8, <1>9, <1>10, <1>11,
           <1>12, <1>13 DEF Discover

\* After the search nothing takes the device or its handle away.
LEMMA SettingUpKeepsIInv ==
  ASSUME IInv, pc \in SettingUp, UNCHANGED foundVars,
         pc' \in SettingUp \cup {"free_vdev", "returned"},
         "qaddr" \in DOMAIN dev', DOMAIN heap' = Objects, heap'["priv"] = heap["priv"]
  PROVE  IInv'
BY DEF IInv, Labels, Searching, Mmio, Unattached, Attached, SettingUp, foundVars

LEMMA DriverKeepsIInv ==
  ASSUME IInv, Driver PROVE IInv'
<1> USE DEF IInv, Labels, Searching, SettingUp, Bits
<1>1. CASE Discover /\ UNCHANGED setupVars
  BY <1>1, DiscoverKeepsIInv
<1>2. CASE Crash
  BY <1>2, SettingUpKeepsIInv DEF Crash, setupVars
<1>3. CASE ResetDevice
  BY <1>3, SettingUpKeepsIInv DEF ResetDevice, FreshDevice
<1>4. CASE PollDevice
  BY <1>4, SettingUpKeepsIInv DEF PollDevice, Sleep, GoOn
<1>5. CASE \E left \in 0 .. waiting : Delay(left)
  BY <1>5, SettingUpKeepsIInv DEF Delay
<1>6. CASE \E bit \in Bits : GetStatus(bit) \/ SetStatus(bit)
  BY <1>6, SettingUpKeepsIInv DEF GetStatus, SetStatus, After
<1>7. CASE ReadConfig \/ ChooseSize
  BY <1>7, SettingUpKeepsIInv DEF ReadConfig, ChooseSize, Fail
<1>8. CASE VirtqCreate
  <2>1. CASE VirtqMade
    <3>1. "priv" \notin {VirtqParts[k] : k \in DOMAIN VirtqParts}
      BY DEF VirtqParts
    <3>2. DOMAIN heap' = Objects /\ heap'["priv"] = heap["priv"]
      BY <2>1, <3>1 DEF VirtqMade, Made, Objects
    <3> QED BY <1>8, <2>1, <3>2, SettingUpKeepsIInv DEF VirtqCreate, VirtqMade
  <2>2. ASSUME NEW n \in 1 .. Len(VirtqParts) + 1, VirtqCreateFails(n) PROVE IInv'
    <3>1. "priv" \notin PartsBefore(n)
      BY DEF PartsBefore, VirtqParts
    <3>2. DOMAIN heap' = Objects /\ heap'["priv"] = heap["priv"]
      BY <2>2, <3>1 DEF VirtqCreateFails, Objects
    <3> QED BY <1>8, <2>2, <3>2, SettingUpKeepsIInv DEF VirtqCreate, VirtqCreateFails, Fail
  <2> QED BY <1>8, <2>1, <2>2 DEF VirtqCreate
<1>9. CASE SetQueueReset
  BY <1>9, SettingUpKeepsIInv DEF SetQueueReset, QueueReset, TestQueueReset, Sleep, Fail, GoOn
<1>10. CASE PollQueue
  BY <1>10, SettingUpKeepsIInv DEF PollQueue, TestQueueReset, Sleep, Fail, GoOn
<1>11. CASE SetQueueSize \/ SetQueueAddr
  BY <1>11, SettingUpKeepsIInv
     DEF SetQueueSize, SetQueueAddr, pci_set_queue_addr, mmio_set_queue_addr
<1>12. CASE CreateThread \/ SetQueueVector \/ EnableQueue \/ HandOver
  BY <1>12, SettingUpKeepsIInv DEF CreateThread, SetQueueVector, EnableQueue, HandOver
<1> QED BY <1>1, <1>2, <1>3, <1>4, <1>5, <1>6, <1>7, <1>8, <1>9, <1>10, <1>11, <1>12
        DEF Driver

\* A reset of the device takes the rings away from it.
LEMMA DeviceKeepsIInv ==
  ASSUME IInv, FinishReset \/ FinishQueueReset PROVE IInv'
<1>1. "qaddr" \in DOMAIN dev' /\ dev'.qaddr = "none"
  <2>1. CASE FinishReset
    BY <2>1 DEF FinishReset, FreshDevice
  <2>2. CASE FinishQueueReset
    BY <2>2 DEF IInv, FinishQueueReset, QueueReset
  <2> QED BY <2>1, <2>2
<1>2. UNCHANGED <<pc, heap, foundVars>>
  BY DEF FinishReset, FinishQueueReset
<1> QED BY <1>1, <1>2
        DEF IInv, Labels, Searching, Mmio, Unattached, Attached, SettingUp, foundVars

THEOREM InductiveInvariant == Spec => []IInv
<1>1. IInv /\ [Next]_vars => IInv'
  <2> SUFFICES ASSUME IInv, [Next]_vars PROVE IInv'
    OBVIOUS
  <2>1. CASE UNCHANGED vars
    BY <2>1 DEF vars, setupVars, foundVars, IInv, Labels, Searching, Mmio, Unattached,
                Attached, SettingUp
  <2> QED BY <2>1, DriverKeepsIInv, DeviceKeepsIInv DEF Next
<1> QED BY <1>1, InitEstablishes, PTL DEF Spec

\* The PCI device is attached for as long as its handle exists and the device
\* may be used (virtio_pci_init with its error path detach_pci).
THEOREM PciHeldWhileUsedHolds == Spec => []PciHeldWhileUsed
<1>1. IInv => PciHeldWhileUsed
  BY DEF IInv, PciHeldWhileUsed
<1> QED BY <1>1, InductiveInvariant, PTL

-----------------------------------------------------------------------------
(* Memory.                                                                 *)

\* What virtq_create makes.
Queue == {"vq", "extras", "free_descs"} \cup Rings

\* Where there is a virtqueue, where the device may have been given its rings,
\* and where the interrupt thread may run.  None of the last can fail.
HasThread  == {"queue_vector", "enable_queue", "DRIVER_OK", "hand_over"}
HasAddress == {"pthread_create"} \cup HasThread
HasQueue ==
  \/ pc \in {"set_queue_reset", "set_queue_size", "set_queue_addr"} \cup HasAddress
  \/ pc \in {"poll", "sleep"} /\ loop = "queue"

GivingUp == {"detach_pci", "free_priv", "destroy_vdev", "free_vdev"}

AllLive == \A o \in {"gpio", "vdev", "priv"} \cup Queue : heap[o] = "live"

MInv ==
  /\ pc \notin {"start", "returned"} => heap["gpio"] = "live"
  /\ pc \notin {"start", "virtio_init", "free_vdev", "returned"} => heap["vdev"] = "live"
  /\ pc \in SettingUp => heap["priv"] = "live"
  /\ HasQueue => \A o \in Queue : heap[o] = "live"
  /\ dev.qaddr = "vq" => AllLive /\ pc \in HasAddress \cup {"returned", "crashed"}
  /\ ist => AllLive /\ pc \in HasThread \cup {"returned"}
  /\ pc \in GivingUp => rc # "EOK"
  /\ pc = "returned" /\ rc = "EOK" => AllLive
  /\ \A o \in Objects \ {"vdev"} : heap[o] # "freed twice"

LEMMA QueueParts ==
  /\ Queue = {VirtqParts[k] : k \in DOMAIN VirtqParts}
  /\ Queue \subseteq Objects \ {"gpio", "vdev", "priv"}
BY DEF Queue, Rings, VirtqParts, Objects

LEMMA InitEstablishesMInv == Init => MInv
<1> SUFFICES ASSUME Init PROVE MInv
  OBVIOUS
<1>1. ASSUME NEW max PROVE FreshDevice(max).qaddr = "none" /\ RunningDevice(max, max).qaddr = "old"
  <2>1. FreshDevice(max).qaddr = "none" /\ "qaddr" \in DOMAIN FreshDevice(max)
    BY DEF FreshDevice
  <2> QED BY <2>1 DEF RunningDevice
<1>2. dev.qaddr # "vq"
  BY <1>1 DEF Init
<1>3. pc = "start" /\ ist = FALSE /\ \A o \in Objects : heap[o] = "none"
  BY DEF Init, DiscoveryInit
<1> QED BY <1>2, <1>3 DEF MInv, HasQueue, HasAddress, HasThread, GivingUp, Objects,
                          SettingUp, Labels, Searching, Bits

LEMMA DiscoverKeepsMInv ==
  ASSUME IInv, MInv, Discover, UNCHANGED setupVars PROVE MInv'
<1> USE DEF MInv, setupVars, foundVars, Fail, HasQueue, HasAddress, HasThread, GivingUp,
            SettingUp, Labels, Searching, Bits, Objects
<1>1. CASE GpioCalloc
  BY <1>1 DEF GpioCalloc, Made
<1>2. CASE VirtioInit
  BY <1>2 DEF VirtioInit, Made
<1>3. CASE FreePriv
  <2>1. heap["priv"] = "live" /\ heap' = [heap EXCEPT !["priv"] = "freed"]
    BY <1>3 DEF FreePriv, Free, IInv, Unattached
  <2> QED BY <1>3, <2>1 DEF FreePriv, IInv
<1>4. CASE DestroyVdev \/ FreeVdev
  BY <1>4 DEF DestroyVdev, FreeVdev, Free, IInv
<1>5. CASE MmioCalloc \/ PciCalloc
  BY <1>5 DEF MmioCalloc, PciCalloc, Made
<1>6. CASE MmioMap \/ PciFind \/ MmioProbe \/ PciAttach
  BY <1>6 DEF MmioMap, PciFind, MmioProbe, PciAttach, IInv, Unattached
<1>7. CASE ReadCap \/ ReadMsixCap \/ MapBars \/ DetachPci
  BY <1>7 DEF ReadCap, ReadMsixCap, MapBars, DetachPci, PciFails
<1>8. CASE NoMsix \/ SetUpMsix
  BY <1>8 DEF NoMsix, SetUpMsix, PciFails, IInv, Attached
<1> QED BY <1>1, <1>2, <1>3, <1>4, <1>5, <1>6, <1>7, <1>8 DEF Discover

\* Most of the set-up leaves memory and the thread alone.
LEMMA SettingUpKeepsMInv ==
  ASSUME IInv, MInv, pc \in SettingUp, UNCHANGED <<heap, foundVars, ist>>,
         dev'.qaddr = "vq" => dev.qaddr = "vq",
         pc' \in SettingUp \cup {"free_vdev"},
         pc' = "free_vdev" => rc' # "EOK" /\ pc \notin HasAddress,
         HasQueue' => HasQueue,
         pc \in HasAddress => pc' \in HasAddress \cup {"crashed"},
         pc = "crashed" => pc' = "crashed",
         pc \in HasThread => pc' \in HasThread
  PROVE  MInv'
BY DEF MInv, AllLive, Queue, Rings, Legacy, foundVars, GivingUp, SettingUp, Labels,
       Searching, HasAddress, HasThread, Bits

LEMMA DriverKeepsMInv ==
  ASSUME IInv, MInv, Driver PROVE MInv'
<1> USE DEF HasQueue, HasAddress, HasThread, SettingUp, Labels, Searching, Bits
<1>1. CASE Discover /\ UNCHANGED setupVars
  BY <1>1, DiscoverKeepsMInv
<1>2. CASE Crash
  BY <1>2, SettingUpKeepsMInv DEF Crash, setupVars
<1>3. CASE ResetDevice
  <2>1. dev'.qaddr = "none" \/ dev'.qaddr = dev.qaddr
    BY <1>3 DEF ResetDevice, FreshDevice, IInv
  <2> QED BY <1>3, <2>1, SettingUpKeepsMInv DEF ResetDevice, StartLoop
<1>4. CASE PollDevice
  BY <1>4, SettingUpKeepsMInv DEF PollDevice, Sleep, GoOn, timer
<1>5. CASE \E left \in 0 .. waiting : Delay(left)
  BY <1>5, SettingUpKeepsMInv DEF Delay
<1>6. CASE \E bit \in Bits : GetStatus(bit)
  BY <1>6, SettingUpKeepsMInv DEF GetStatus, timer
<1>7. CASE \E bit \in Bits : SetStatus(bit)
  <2>1. dev'.qaddr = dev.qaddr
    BY <1>7 DEF SetStatus, IInv
  <2> QED BY <1>7, <2>1, SettingUpKeepsMInv DEF SetStatus, After, timer
<1>8. CASE ReadConfig \/ ChooseSize
  BY <1>8, SettingUpKeepsMInv DEF ReadConfig, ChooseSize, Fail, timer
<1>9. CASE VirtqCreate
  <2>1. pc = "virtq_create" /\ UNCHANGED <<foundVars, ist, dev>>
    BY <1>9 DEF VirtqCreate
  <2>2. CASE VirtqMade
    <3>1. heap' = [o \in Objects |-> IF o \in Queue THEN "live" ELSE heap[o]]
      BY <2>2, QueueParts DEF VirtqMade, Made
    <3>2. pc' = "set_queue_reset" /\ Queue' = Queue
      BY <2>1, <2>2 DEF VirtqMade, Queue, Rings, Legacy, foundVars
    <3> QED BY <2>1, <3>1, <3>2, QueueParts DEF MInv, AllLive, GivingUp, Objects
  <2>3. ASSUME NEW n \in 1 .. Len(VirtqParts) + 1, VirtqCreateFails(n) PROVE MInv'
    <3>1. PartsBefore(n) \subseteq Queue
      BY QueueParts DEF PartsBefore, VirtqParts
    <3>2. \A o \in Objects : heap'[o] = heap[o] \/ heap'[o] \in {"live", "freed", "part freed"}
      BY <2>3 DEF VirtqCreateFails, Unmapped
    <3>3. heap'["gpio"] = heap["gpio"]
      BY <2>3, <3>1, QueueParts DEF VirtqCreateFails, Objects
    <3>4. pc' = "free_vdev" /\ rc' # "EOK"
      BY <2>3 DEF VirtqCreateFails, Fail
    <3> QED BY <2>1, <3>2, <3>3, <3>4 DEF MInv, GivingUp, Objects
  <2> QED BY <1>9, <2>2, <2>3 DEF VirtqCreate
<1>10. CASE SetQueueReset
  <2>1. dev'.qaddr = "none" \/ dev'.qaddr = dev.qaddr
    BY <1>10 DEF SetQueueReset, QueueReset, IInv
  <2> QED BY <1>10, <2>1, SettingUpKeepsMInv
          DEF SetQueueReset, TestQueueReset, Sleep, Fail, GoOn
<1>11. CASE PollQueue
  BY <1>11, SettingUpKeepsMInv DEF PollQueue, TestQueueReset, Sleep, Fail, GoOn
<1>12. CASE SetQueueSize
  <2>1. dev'.qaddr = dev.qaddr
    BY <1>12 DEF SetQueueSize, IInv
  <2> QED BY <1>12, <2>1, SettingUpKeepsMInv DEF SetQueueSize, timer
<1>13. CASE SetQueueAddr
  BY <1>13 DEF SetQueueAddr, MInv, AllLive, Queue, Rings, Legacy, foundVars, GivingUp, timer
<1>14. CASE CreateThread
  BY <1>14 DEF CreateThread, MInv, AllLive, Queue, Rings, Legacy, foundVars, GivingUp, timer
<1>15. CASE SetQueueVector \/ EnableQueue
  <2>1. dev'.qaddr = dev.qaddr
    BY <1>15 DEF SetQueueVector, EnableQueue, IInv
  <2> QED BY <1>15, <2>1, SettingUpKeepsMInv DEF SetQueueVector, EnableQueue, timer
<1>16. CASE HandOver
  BY <1>16 DEF HandOver, MInv, AllLive, Queue, Rings, Legacy, foundVars, GivingUp, timer
<1> QED BY <1>1, <1>2, <1>3, <1>4, <1>5, <1>6, <1>7, <1>8, <1>9, <1>10, <1>11, <1>12,
           <1>13, <1>14, <1>15, <1>16 DEF Driver

LEMMA DeviceKeepsMInv ==
  ASSUME IInv, MInv, FinishReset \/ FinishQueueReset PROVE MInv'
<1>1. dev'.qaddr = "none"
  <2>1. CASE FinishReset
    BY <2>1 DEF FinishReset, FreshDevice
  <2>2. CASE FinishQueueReset
    BY <2>2 DEF IInv, FinishQueueReset, QueueReset
  <2> QED BY <2>1, <2>2
<1>2. UNCHANGED <<pc, rc, heap, foundVars, loop, ist>>
  BY DEF FinishReset, FinishQueueReset, timer
<1> QED BY <1>1, <1>2 DEF MInv, AllLive, HasQueue, Queue, Rings, Legacy, foundVars

LEMMA MemoryKept == IInv /\ MInv /\ [Next]_vars => MInv'
<1> SUFFICES ASSUME IInv, MInv, [Next]_vars PROVE MInv'
  OBVIOUS
<1>1. CASE UNCHANGED vars
  BY <1>1 DEF vars, setupVars, foundVars, timer, MInv, AllLive, HasQueue, Queue, Rings, Legacy
<1> QED BY <1>1, DriverKeepsMInv, DeviceKeepsMInv DEF Next

\* The interrupt thread and the device only use memory that is allocated, and
\* but for the device structure nothing is freed twice (the error paths of
\* virtio_gpio_init, virtio_pci_init, virtio_mmio_init and virtq_create).
THEOREM NothingFreedInUseHolds == Spec => []NothingFreedInUse
<1>1. MInv => NothingFreedInUse
  BY DEF MInv, AllLive, Queue, NothingFreedInUse
<1> QED BY <1>1, MemoryKept, InitEstablishesMInv, InductiveInvariant, PTL DEF Spec

-----------------------------------------------------------------------------
(* Types.                                                                  *)

IrqNames == {IrqCalls[j] : j \in DOMAIN IrqCalls}

\* The calls that set MSI-X up have been made in their order.
IrqBefore(k) == {IrqCalls[j] : j \in 1 .. k - 1}

BeforeMsix ==
  {"start", "virtio_init", "mmio_calloc", "mmio_map", "mmio_probe",
   "pci_calloc", "pci_find", "pci_attach", "pci_caps", "pci_bars"}

Devices == PciDevices \cup {[caps |-> <<>>, bars |-> {}, msix |-> FALSE]}

PciRecords ==
  [device : Devices, next : Nat, caps : [Structures -> Nat], msix : BOOLEAN,
   mapped : SUBSET Bars, irq : SUBSET IrqNames, attached : BOOLEAN]

PciKnown ==
  /\ pci \in PciRecords
  /\ \E k \in 1 .. 6 : /\ pci.irq = IrqBefore(k)
                       /\ pc \in BeforeMsix => k = 1
                       /\ pc = "pci_msix" => k < 6
                       /\ transport = "pci" /\ pc \in SettingUp => k = 6

TInv == TypeOK /\ PciKnown

LEMMA IrqOrder ==
  /\ IrqBefore(1) = {}
  /\ \A k \in 1 .. 5 : /\ IrqBefore(k + 1) = IrqBefore(k) \cup {IrqCalls[k]}
                       /\ IrqCalls[k] \notin IrqBefore(k)
                       /\ IrqCalls[k] \in IrqNames
  /\ \A k \in 1 .. 6 : \A i \in DOMAIN IrqCalls :
       IrqCalls[i] \in IrqBefore(k) <=> i < k
  /\ \A k \in 1 .. 6 : IrqBefore(k) \subseteq IrqNames
  /\ Len(IrqCalls) = 5 /\ DOMAIN IrqCalls = 1 .. 5
<1>1. Len(IrqCalls) = 5 /\ DOMAIN IrqCalls = 1 .. 5
  BY DEF IrqCalls
<1>2. \A i, j \in 1 .. 5 : IrqCalls[i] = IrqCalls[j] => i = j
  BY DEF IrqCalls
<1> HIDE DEF IrqCalls
<1>3. IrqBefore(1) = {}
  BY DEF IrqBefore
<1>4. \A k \in 1 .. 5 : /\ IrqBefore(k + 1) = IrqBefore(k) \cup {IrqCalls[k]}
                       /\ IrqCalls[k] \notin IrqBefore(k)
                       /\ IrqCalls[k] \in IrqNames
  <2> SUFFICES ASSUME NEW k \in 1 .. 5
               PROVE  /\ IrqBefore(k + 1) = IrqBefore(k) \cup {IrqCalls[k]}
                      /\ IrqCalls[k] \notin IrqBefore(k)
                      /\ IrqCalls[k] \in IrqNames
    OBVIOUS
  <2>1. 1 .. (k + 1) - 1 = (1 .. k - 1) \cup {k}
    OBVIOUS
  <2> QED BY <1>1, <1>2, <2>1 DEF IrqBefore, IrqNames
<1>5. \A k \in 1 .. 6 : \A i \in DOMAIN IrqCalls :
        IrqCalls[i] \in IrqBefore(k) <=> i < k
  BY <1>1, <1>2 DEF IrqBefore
<1>6. \A k \in 1 .. 6 : IrqBefore(k) \subseteq IrqNames
  BY <1>1 DEF IrqBefore, IrqNames
<1> QED BY <1>1, <1>3, <1>4, <1>5, <1>6

LEMMA IrqCount ==
  \A k \in 1 .. 6 : Cardinality(IrqBefore(k)) = k - 1
<1>1. IsFiniteSet(IrqBefore(1)) /\ Cardinality(IrqBefore(1)) = 0
  BY IrqOrder, FS_EmptySet
<1>2. ASSUME NEW k \in 1 .. 5, IsFiniteSet(IrqBefore(k)), Cardinality(IrqBefore(k)) = k - 1
      PROVE  IsFiniteSet(IrqBefore(k + 1)) /\ Cardinality(IrqBefore(k + 1)) = k
  <2>1. IrqCalls[k] \notin IrqBefore(k) /\ IrqBefore(k + 1) = IrqBefore(k) \cup {IrqCalls[k]}
    BY IrqOrder
  <2>2. /\ IsFiniteSet(IrqBefore(k) \cup {IrqCalls[k]})
        /\ Cardinality(IrqBefore(k) \cup {IrqCalls[k]}) =
             IF IrqCalls[k] \in IrqBefore(k) THEN Cardinality(IrqBefore(k))
             ELSE Cardinality(IrqBefore(k)) + 1
    BY <1>2, FS_AddElement, Zenon
  <2>3. Cardinality(IrqBefore(k + 1)) = Cardinality(IrqBefore(k)) + 1
    BY <2>1, <2>2
  <2>4. Cardinality(IrqBefore(k)) + 1 = k
    BY <1>2
  <2> QED BY <2>1, <2>2, <2>3, <2>4
<1>3. IsFiniteSet(IrqBefore(2)) /\ Cardinality(IrqBefore(2)) = 1
  BY <1>1, <1>2
<1>4. IsFiniteSet(IrqBefore(3)) /\ Cardinality(IrqBefore(3)) = 2
  BY <1>2, <1>3
<1>5. IsFiniteSet(IrqBefore(4)) /\ Cardinality(IrqBefore(4)) = 3
  BY <1>2, <1>4
<1>6. IsFiniteSet(IrqBefore(5)) /\ Cardinality(IrqBefore(5)) = 4
  BY <1>2, <1>5
<1>7. IsFiniteSet(IrqBefore(6)) /\ Cardinality(IrqBefore(6)) = 5
  BY <1>2, <1>6
<1> QED BY <1>1, <1>3, <1>4, <1>5, <1>6, <1>7

LEMMA DevicesKnown ==
  \A d \in Devices : /\ d.caps \in Seq([type : CapTypes, bar : Bars])
                     /\ d.bars \subseteq Bars /\ d.msix \in BOOLEAN
<1>1. ASSUME NEW d \in PciDevices
      PROVE  d \in [caps : Seq([type : CapTypes, bar : Bars]), bars : SUBSET Bars, msix : BOOLEAN]
  BY DiscoveryAssumption DEF IsPciDevice
<1>2. ASSUME NEW d, d = [caps |-> <<>>, bars |-> {}, msix |-> FALSE]
      PROVE  d.caps = <<>> /\ d.bars = {} /\ d.msix = FALSE
  BY <1>2
<1>3. <<>> \in Seq([type : CapTypes, bar : Bars])
  OBVIOUS
<1> QED BY <1>1, <1>2, <1>3 DEF Devices

LEMMA Sizes16 ==
  /\ \A n \in U16 : n \in Nat
  /\ \A n \in Nat : Given(n) \in U16
<1>1. Max16 \in Nat
  BY DEF Max16
<1> QED BY <1>1 DEF U16, Given

LEMMA SetupConstants ==
  /\ \A o \in Options : o \in Nat
  /\ \A m \in MaxSizes : m \in Nat
  /\ \A l \in Loops : Timeout[l] \in Nat /\ Interval[l] \in Nat /\ Interval[l] > 0
BY SetupAssumption, Sizes16

LEMMA InitEstablishesTInv == Init => TInv
<1> SUFFICES ASSUME Init PROVE TInv
  OBVIOUS
<1>1. size \in U16
  BY Sizes16, SetupConstants DEF Init
<1>2. \A max \in MaxSizes : max \in Nat
  BY SetupConstants
<1>3. pci \in PciRecords /\ pci.irq = {} /\ pci.next = 1 /\ pci.caps \in [Structures -> {0}]
      /\ pci.mapped = {}
  <2>1. PICK d \in Devices : pci = NothingFound(d)
    BY DEF Init, DiscoveryInit, Devices
  <2> QED BY <2>1 DEF NothingFound, PciRecords
<1>4. PciKnown
  BY <1>3, IrqOrder DEF PciKnown, Init, DiscoveryInit, SettingUp, Searching
<1>5. DiscoveryTypeOK
  <2>1. Len(pci.device.caps) \in Nat
    BY <1>3, DevicesKnown DEF PciRecords
  <2> QED BY <1>3, <2>1 DEF DiscoveryTypeOK, Init, DiscoveryInit, PciRecords
<1>6. dev \in [status : SUBSET Bits, resetting : BOOLEAN,
               queue_resetting : BOOLEAN, qsize : Nat,
               qaddr : {"none", "old", "vq"}, enabled : BOOLEAN,
               vector : BOOLEAN, max : Nat]
  <2> DEFINE Device == [status : SUBSET Bits, resetting : BOOLEAN, queue_resetting : BOOLEAN,
                        qsize : Nat, qaddr : {"none", "old", "vq"}, enabled : BOOLEAN,
                        vector : BOOLEAN, max : Nat]
  <2>1. ASSUME NEW max \in Nat PROVE FreshDevice(max) \in Device
    BY DEF FreshDevice
  <2>2. ASSUME NEW max \in Nat PROVE RunningDevice(max, max) \in Device
    <3>1. PICK vector \in BOOLEAN : vector = (transport = "pci")
      OBVIOUS
    <3>2. RunningDevice(max, max) =
            [FreshDevice(max) EXCEPT !.status = Bits, !.qsize = max, !.qaddr = "old",
                                     !.enabled = TRUE, !.vector = vector]
      BY <3>1, Zenon DEF RunningDevice
    <3> QED BY <2>1, <3>2
  <2>3. PICK max \in MaxSizes : dev = FreshDevice(max) \/ dev = RunningDevice(max, max)
    BY Zenon DEF Init
  <2>4. FreshDevice(max) \in Device /\ RunningDevice(max, max) \in Device
    BY <1>2, <2>1, <2>2, Zenon
  <2> HIDE DEF Device
  <2>5. dev \in Device
    BY <2>3, <2>4, Zenon
  <2> QED BY <2>5 DEF Device
<1>7. /\ pc \in Labels /\ num \in {NoSize} /\ loop \in Loops /\ current = {}
      /\ remaining = 0 /\ waiting = 0 /\ elapsed = 0 /\ ist = FALSE /\ late = FALSE
      /\ gpio \in [Fields -> {"zero"}]
  BY DEF Init, DiscoveryInit, Labels, Searching, Loops
<1>8. 0 \in 0 .. Timeout[loop] /\ 0 \in 0 .. Interval["device"]
  BY <1>7, SetupConstants DEF Loops
<1> QED BY <1>1, <1>4, <1>5, <1>6, <1>7, <1>8 DEF TInv, TypeOK

Codes  == {"EOK", "ENOMEM", "ENODEV", "EINVAL", "PCI_ERR", "ETIMEDOUT"}
States == {"none", "live", "freed", "freed twice", "part freed"}

LEMMA HeapTypes ==
  ASSUME heap \in [Objects -> States]
  PROVE  /\ \A made : Made(made) => heap' \in [Objects -> States]
         /\ \A o \in Objects : Free(o) => heap' \in [Objects -> States]
BY DEF Made, Free, States

\* What the search may not change, and what of the PCI device it may.
LEMMA SearchTypes ==
  ASSUME TInv, UNCHANGED <<setupVars, transport>>, pc' \in Labels,
         rc' \in {"EOK", "ENOMEM", "ENODEV", "EINVAL", "PCI_ERR", "ETIMEDOUT"},
         heap' \in [Objects -> {"none", "live", "freed", "freed twice", "part freed"}],
         page' \in {0, Page}, DiscoveryTypeOK', PciKnown'
  PROVE  TInv'
BY DEF TInv, TypeOK, setupVars, timer

LEMMA SamePciTypes ==
  ASSUME TInv, UNCHANGED <<transport, pci>>,
         rc' \in Codes, heap' \in [Objects -> States], page' \in {0, Page},
         pc' \in BeforeMsix => pc \in BeforeMsix,
         pc' = "pci_msix" => pc = "pci_msix",
         transport = "pci" /\ pc' \in SettingUp => pc \in SettingUp
  PROVE  DiscoveryTypeOK' /\ PciKnown'
BY DEF TInv, TypeOK, DiscoveryTypeOK, PciKnown, Codes, States

LEMMA NewPciTypes ==
  ASSUME TInv, UNCHANGED <<transport, page>>, rc' \in Codes, UNCHANGED heap,
         pci' \in PciRecords, pci'.device = pci.device,
         pci'.next \in 1 .. Len(pci.device.caps) + 1,
         pci'.caps \in [Structures -> 0 .. Len(pci.device.caps)],
         pci'.mapped \subseteq pci.device.bars,
         NEW k \in 1 .. 6, pci'.irq = IrqBefore(k),
         pc' \in BeforeMsix => k = 1,
         pc' = "pci_msix" => k < 6,
         transport = "pci" /\ pc' \in SettingUp => k = 6
  PROVE  DiscoveryTypeOK' /\ PciKnown'
<1>1. pci'.msix \in BOOLEAN /\ pci'.attached \in BOOLEAN
  BY DEF PciRecords
<1>2. \A i \in DOMAIN IrqCalls : IrqCalls[i] \in pci'.irq =>
        \A j \in 1 .. i - 1 : IrqCalls[j] \in pci'.irq
  BY IrqOrder
<1> QED BY <1>1, <1>2 DEF TInv, TypeOK, DiscoveryTypeOK, PciKnown, Codes

LEMMA DiscoverKeepsTInv ==
  ASSUME IInv, TInv, Discover, UNCHANGED setupVars PROVE TInv'
<1>1. /\ rc \in Codes /\ heap \in [Objects -> States] /\ page \in {0, Page}
      /\ pci \in PciRecords /\ pci.next \in 1 .. Len(pci.device.caps) + 1
      /\ pci.caps \in [Structures -> 0 .. Len(pci.device.caps)]
      /\ pci.mapped \subseteq pci.device.bars
      /\ pci.device \in Devices /\ pci.device.caps \in Seq([type : CapTypes, bar : Bars])
      /\ pci.device.bars \subseteq Bars /\ pci.device.msix \in BOOLEAN
  BY DevicesKnown DEF TInv, TypeOK, DiscoveryTypeOK, PciKnown, PciRecords, Codes, States
<1>2. PICK k \in 1 .. 6 : /\ pci.irq = IrqBefore(k)
                          /\ pc \in BeforeMsix => k = 1
                          /\ pc = "pci_msix" => k < 6
                          /\ transport = "pci" /\ pc \in SettingUp => k = 6
  BY DEF TInv, PciKnown
<1>3. SUFFICES /\ pc' \in Labels /\ rc' \in Codes /\ heap' \in [Objects -> States]
               /\ page' \in {0, Page} /\ UNCHANGED transport
               /\ DiscoveryTypeOK' /\ PciKnown'
  BY SearchTypes DEF Codes, States
<1> USE DEF Fail, PciFails, foundVars, Codes
<1>4. CASE GpioCalloc \/ VirtioInit \/ FreePriv \/ DestroyVdev \/ FreeVdev
           \/ MmioCalloc \/ MmioMap \/ MmioProbe \/ PciCalloc \/ PciFind \/ NoMsix
  <2>1. heap' \in [Objects -> States]
    BY <1>1, <1>4, HeapTypes
    DEF GpioCalloc, VirtioInit, FreePriv, DestroyVdev, FreeVdev, MmioCalloc, MmioMap,
        MmioProbe, PciCalloc, PciFind, NoMsix, States, Objects
  <2>2. /\ UNCHANGED <<transport, pci>> /\ rc' \in Codes /\ page' \in {0, Page}
        /\ pc' \in Labels
        /\ pc' \in BeforeMsix => pc \in BeforeMsix
        /\ pc' = "pci_msix" => pc = "pci_msix"
    BY <1>1, <1>4
    DEF GpioCalloc, VirtioInit, FreePriv, DestroyVdev, FreeVdev, MmioCalloc, MmioMap,
        MmioProbe, PciCalloc, PciFind, NoMsix, Labels, Searching, BeforeMsix
  <2>3. transport = "pci" /\ pc' \in SettingUp => pc \in SettingUp
    BY <1>4 DEF GpioCalloc, VirtioInit, FreePriv, DestroyVdev, FreeVdev, MmioCalloc, MmioMap,
        MmioProbe, PciCalloc, PciFind, NoMsix, SettingUp, Labels, Searching, Bits, IInv, Mmio
  <2> QED BY <2>1, <2>2, <2>3, SamePciTypes
<1>5. CASE DetachPci \/ PciAttach
  <2>1. /\ pci' \in PciRecords /\ pci'.device = pci.device /\ pci'.next = pci.next
        /\ pci'.caps = pci.caps /\ pci'.mapped = pci.mapped /\ pci'.irq = pci.irq
    BY <1>1, <1>5 DEF DetachPci, PciAttach, PciRecords
  <2>2. /\ UNCHANGED <<transport, page, heap>> /\ rc' \in Codes /\ pc' \in Labels
        /\ pc' \in BeforeMsix => pc \in BeforeMsix
        /\ pc' # "pci_msix" /\ pc' \notin SettingUp
    BY <1>1, <1>5 DEF DetachPci, PciAttach, Labels, Searching, BeforeMsix, SettingUp
  <2> QED BY <1>1, <1>2, <2>1, <2>2, NewPciTypes
<1>6. CASE ReadCap
  <2>1. pci.next \in DOMAIN pci.device.caps /\ pc = "pci_caps" /\ DOMAIN pci.device.caps = 1 .. Len(pci.device.caps)
    BY <1>1, <1>6 DEF ReadCap
  <2>2. CASE PciFails /\ UNCHANGED pci
    BY <1>1, <1>6, <2>1, <2>2, SamePciTypes
    DEF ReadCap, Labels, Searching, BeforeMsix, SettingUp
  <2>3. CASE UNCHANGED <<pc, rc>>
    <3> DEFINE type == pci.device.caps[pci.next].type
               caps == [t \in Structures |-> IF t = type THEN pci.next ELSE pci.caps[t]]
    <3>1. pci' = [pci EXCEPT !.caps = caps, !.next = pci.next + 1]
      BY <1>6, <2>3 DEF ReadCap
    <3>2. /\ pci.next \in Nat /\ pci.next + 1 \in Nat
          /\ pci.next + 1 \in 1 .. Len(pci.device.caps) + 1
          /\ caps \in [Structures -> 0 .. Len(pci.device.caps)]
          /\ caps \in [Structures -> Nat]
      BY <1>1, <2>1
    <3> HIDE DEF caps
    <3>3. /\ pci' \in PciRecords /\ pci'.device = pci.device /\ pci'.mapped = pci.mapped
          /\ pci'.next = pci.next + 1 /\ pci'.irq = pci.irq /\ pci'.caps = caps
      BY <1>1, <3>1, <3>2 DEF PciRecords
    <3> QED BY <1>1, <1>2, <1>6, <2>1, <2>3, <3>2, <3>3, NewPciTypes
            DEF ReadCap, Labels, Searching
  <2> QED BY <1>6, <2>2, <2>3 DEF ReadCap
<1>7. CASE ReadMsixCap \/ MapBars
  <2>1. /\ pci' \in PciRecords /\ pci'.device = pci.device /\ pci'.next = pci.next
        /\ pci'.caps = pci.caps /\ pci'.mapped \subseteq pci.device.bars /\ pci'.irq = pci.irq
    BY <1>1, <1>7 DEF ReadMsixCap, MapBars, PciRecords
  <2>2. /\ UNCHANGED <<transport, page, heap>> /\ rc' \in Codes /\ pc' \in Labels
        /\ pc \in BeforeMsix /\ pc' \notin SettingUp
    BY <1>1, <1>7 DEF ReadMsixCap, MapBars, Labels, Searching, BeforeMsix, SettingUp
  <2> QED BY <1>1, <1>2, <2>1, <2>2, NewPciTypes
<1>8. CASE SetUpMsix
  <2>1. CASE PciFails /\ UNCHANGED pci
    BY <1>1, <1>8, <2>1, SamePciTypes
    DEF SetUpMsix, Labels, Searching, BeforeMsix, SettingUp
  <2>2. CASE ~(PciFails /\ UNCHANGED pci)
    <3>1. Cardinality(pci.irq) + 1 = k /\ k \in 1 .. 5
      BY <1>2, <1>8, IrqCount DEF SetUpMsix
    <3>2. /\ pci' = [pci EXCEPT !.irq = @ \cup {IrqCalls[k]}]
          /\ pc' = (IF k = 5 THEN "reset_device" ELSE "pci_msix")
          /\ UNCHANGED <<rc, heap, transport, page>>
      BY <1>8, <2>2, <3>1, IrqOrder DEF SetUpMsix
    <3>3. pci'.irq = IrqBefore(k + 1) /\ pci'.irq \subseteq IrqNames
      BY <1>1, <1>2, <3>1, <3>2, IrqOrder DEF PciRecords
    <3>4. /\ pci' \in PciRecords /\ pci'.device = pci.device /\ pci'.mapped = pci.mapped
          /\ pci'.next = pci.next /\ pci'.caps = pci.caps
      BY <1>1, <3>2, <3>3 DEF PciRecords
    <3>5. /\ k + 1 \in 1 .. 6 /\ pc' \notin BeforeMsix
          /\ pc' = "pci_msix" => k + 1 < 6
          /\ pc' \in SettingUp => k + 1 = 6
          /\ pc' \in Labels
      BY <3>1, <3>2 DEF Labels, BeforeMsix, SettingUp, Searching
    <3> QED BY <1>1, <3>2, <3>3, <3>4, <3>5, NewPciTypes
  <2> QED BY <2>1, <2>2
<1> QED BY <1>4, <1>5, <1>6, <1>7, <1>8 DEF Discover

DeviceTypes ==
  [status : SUBSET Bits, resetting : BOOLEAN, queue_resetting : BOOLEAN, qsize : Nat,
   qaddr : {"none", "old", "vq"}, enabled : BOOLEAN, vector : BOOLEAN, max : Nat]

TimerTypes ==
  /\ loop \in Loops /\ remaining \in 0 .. Timeout[loop]
  /\ waiting \in 0 .. Interval["device"] /\ elapsed \in 0 .. Timeout[loop]

\* The set-up leaves what the search found alone.
LEMMA SetUpTypes ==
  ASSUME TInv, UNCHANGED <<foundVars, size>>, pc \in SettingUp,
         pc' \in SettingUp \cup {"free_vdev", "returned"}, rc' \in Codes,
         heap' \in [Objects -> States], num' \in Nat \cup {NoSize},
         gpio' \in [Fields -> {"zero", "config", "vq", "vdev"}], TimerTypes',
         current' \in {{}} \cup {{s} : s \in SUBSET Bits},
         ist' \in BOOLEAN, late' \in BOOLEAN, dev' \in DeviceTypes
  PROVE  TInv'
<1>1. pc' \in Labels /\ pc' \notin BeforeMsix /\ pc' # "pci_msix" /\ UNCHANGED <<transport, page, pci>>
  BY DEF SettingUp, Labels, Searching, BeforeMsix, foundVars
<1>2. DiscoveryTypeOK' /\ PciKnown'
  BY <1>1, SamePciTypes DEF TInv, TypeOK, DiscoveryTypeOK
<1> QED BY <1>1, <1>2 DEF TInv, TypeOK, DiscoveryTypeOK, TimerTypes, DeviceTypes

LEMMA TimerKept == ASSUME TInv, UNCHANGED timer PROVE TimerTypes'
BY DEF TInv, TypeOK, TimerTypes, timer

LEMMA TimeCounts ==
  ASSUME TInv
  PROVE  /\ \A t \in 0 .. Timeout[loop], i \in Nat : CountDown(t, i) \in 0 .. Timeout[loop]
         /\ \A t \in Nat : Slept(t) \in 0 .. Timeout[loop]
         /\ Interval["device"] \in Nat /\ Interval[loop] \in Nat /\ Timeout[loop] \in Nat
<1>1. /\ Timeout[loop] \in Nat /\ elapsed \in Nat /\ Interval["device"] \in Nat
      /\ Interval[loop] \in Nat
  BY SetupConstants DEF TInv, TypeOK, Loops
<1>2. \A t \in 0 .. Timeout[loop], i \in Nat : CountDown(t, i) \in 0 .. Timeout[loop]
  BY <1>1 DEF CountDown
<1>3. \A t \in Nat : Slept(t) \in 0 .. Timeout[loop]
  BY <1>1 DEF Slept
<1> QED BY <1>1, <1>2, <1>3

LEMMA Fresh == \A max \in Nat : FreshDevice(max) \in DeviceTypes
BY DEF FreshDevice, DeviceTypes

LEMMA SetUpKeepsTInv ==
  ASSUME IInv, TInv, Driver, ~(Discover /\ UNCHANGED setupVars) PROVE TInv'
<1>1. /\ rc \in Codes /\ heap \in [Objects -> States] /\ num \in Nat \cup {NoSize}
      /\ gpio \in [Fields -> {"zero", "config", "vq", "vdev"}]
      /\ current \in {{}} \cup {{s} : s \in SUBSET Bits}
      /\ ist \in BOOLEAN /\ late \in BOOLEAN /\ dev \in DeviceTypes /\ size \in Nat
      /\ TimerTypes /\ dev.max \in Nat /\ dev.qsize \in Nat /\ dev.resetting \in BOOLEAN
      /\ dev.queue_resetting \in BOOLEAN
  BY Sizes16 DEF TInv, TypeOK, DiscoveryTypeOK, Codes, States, TimerTypes, DeviceTypes
<1>2. QueueSize \in Nat
  BY <1>1 DEF QueueSize, MaxQueueSize, pci_queue_size, mmio_max_queue_size
<1> USE DEF Labels, SettingUp, Searching, Bits
<1>3. CASE Crash
  BY <1>1, <1>3, SetUpTypes, TimerKept DEF Crash, setupVars
<1>4. CASE ResetDevice
  <2>1. dev' \in DeviceTypes
    <3>1. CASE dev' = FreshDevice(dev.max)
      BY <1>1, <3>1, Fresh
    <3>2. CASE dev' = [dev EXCEPT !.resetting = TRUE]
      BY <1>1, <3>2 DEF DeviceTypes
    <3> QED BY <1>4, <3>1, <3>2 DEF ResetDevice
  <2>2. TimerTypes'
    BY <1>1, <1>4, SetupConstants DEF ResetDevice, StartLoop, TimerTypes, Loops
  <2> QED BY <1>1, <1>4, <2>1, <2>2, SetUpTypes DEF ResetDevice, StartLoop
<1>5. CASE PollDevice
  <2>1. TimerTypes' /\ late' \in BOOLEAN
    BY <1>1, <1>5, SetupConstants DEF PollDevice, Sleep, GoOn, TimerTypes, timer, Loops
  <2> QED BY <1>1, <1>5, <2>1, SetUpTypes DEF PollDevice, Sleep, GoOn
<1>6. CASE \E left \in 0 .. waiting : Delay(left)
  <2>1. PICK left \in 0 .. waiting : Delay(left)
    BY <1>6
  <2>2. waiting \in Nat /\ left \in Nat /\ waiting - left \in Nat
        /\ left \in 0 .. Interval["device"]
    <3>1. waiting \in 0 .. Interval["device"] /\ Interval["device"] \in Nat
      BY <1>1, TimeCounts DEF TimerTypes
    <3> QED BY <3>1
  <2>3. Slept(waiting - left) \in 0 .. Timeout[loop]
        /\ CountDown(remaining, Interval[loop]) \in 0 .. Timeout[loop]
    BY <1>1, <2>2, TimeCounts DEF TimerTypes
  <2>4. /\ loop' = loop /\ waiting' = left /\ elapsed' = Slept(waiting - left)
        /\ remaining' = remaining \/ remaining' = CountDown(remaining, Interval[loop])
    BY <2>1 DEF Delay
  <2>5. TimerTypes'
    BY <1>1, <2>2, <2>3, <2>4 DEF TimerTypes
  <2> QED BY <1>1, <2>1, <2>5, SetUpTypes DEF Delay
<1>7. CASE \E bit \in Bits : GetStatus(bit)
  <2>1. current' \in {{}} \cup {{s} : s \in SUBSET Bits}
    BY <1>1, <1>7 DEF GetStatus, DeviceTypes
  <2> QED BY <1>1, <1>7, <2>1, SetUpTypes, TimerKept DEF GetStatus
<1>8. CASE \E bit \in Bits : SetStatus(bit)
  <2>1. PICK bit \in Bits : SetStatus(bit)
    BY <1>8
  <2>2. PICK status \in current : dev' = [dev EXCEPT !.status = status \cup {bit}]
    BY <2>1 DEF SetStatus
  <2>3. status \in SUBSET Bits
    BY <1>1, <2>2
  <2>4. dev' \in DeviceTypes
    BY <1>1, <2>1, <2>2, <2>3 DEF DeviceTypes
  <2> QED BY <1>1, <2>1, <2>4, SetUpTypes, TimerKept DEF SetStatus, After
<1>9. CASE ReadConfig
  <2>1. gpio' \in [Fields -> {"zero", "config", "vq", "vdev"}]
    <3>1. PICK read : gpio' = [f \in Fields |-> IF read[f] THEN "config" ELSE gpio[f]]
      <4> DEFINE words == IF transport = "pci" THEN pci_words ELSE mmio_words
                 read  == [f \in Fields |-> \E i \in words : Field[i + 1] = f]
      <4>1. gpio' = [f \in Fields |-> IF read[f] THEN "config" ELSE gpio[f]]
        BY <1>9, Zenon DEF ReadConfig
      <4> QED BY <4>1
    <3> QED BY <1>1, <3>1
  <2> QED BY <1>1, <1>9, <2>1, SetUpTypes, TimerKept DEF ReadConfig
<1>10. CASE ChooseSize
  BY <1>1, <1>2, <1>10, SetUpTypes, TimerKept DEF ChooseSize, Fail, Codes
<1>11. CASE VirtqCreate
  <2>1. CASE VirtqMade
    <3>1. heap' \in [Objects -> States] /\ gpio' \in [Fields -> {"zero", "config", "vq", "vdev"}]
      BY <1>1, <2>1, HeapTypes DEF VirtqMade
    <3> QED BY <1>1, <1>11, <2>1, <3>1, SetUpTypes, TimerKept DEF VirtqCreate, VirtqMade
  <2>2. ASSUME NEW n \in 1 .. Len(VirtqParts) + 1, VirtqCreateFails(n), UNCHANGED gpio
        PROVE TInv'
    <3>1. Unmapped \in States
      BY DEF Unmapped, States
    <3>2. heap' \in [Objects -> States]
      BY <1>1, <2>2, <3>1 DEF VirtqCreateFails, States
    <3> QED BY <1>1, <1>11, <2>2, <3>2, SetUpTypes, TimerKept
            DEF VirtqCreate, VirtqCreateFails, Fail, Codes
  <2> QED BY <1>11, <2>1, <2>2 DEF VirtqCreate
<1>12. CASE SetQueueReset
  <2>1. dev' \in DeviceTypes
    BY ZenonT(60), <1>1, <1>12 DEF SetQueueReset, QueueReset, DeviceTypes
  <2>2. TimerTypes' /\ late' \in BOOLEAN /\ rc' \in Codes
    BY <1>1, <1>12, <2>1, SetupConstants
    DEF SetQueueReset, StartLoop, TestQueueReset, Sleep, GoOn, Fail, TimerTypes, Codes, Loops,
        DeviceTypes
  <2> QED BY <1>1, <1>12, <2>1, <2>2, SetUpTypes
          DEF SetQueueReset, StartLoop, TestQueueReset, Sleep, GoOn, Fail
<1>13. CASE PollQueue
  <2>1. TimerTypes' /\ late' \in BOOLEAN /\ rc' \in Codes
    BY <1>1, <1>13, SetupConstants
    DEF PollQueue, TestQueueReset, Sleep, GoOn, Fail, TimerTypes, Codes, Loops
  <2> QED BY <1>1, <1>13, <2>1, SetUpTypes DEF PollQueue, TestQueueReset, Sleep, GoOn, Fail
<1>14. CASE SetQueueSize \/ SetQueueAddr \/ SetQueueVector \/ EnableQueue
  <2>1. dev' \in DeviceTypes
    <3>1. CASE SetQueueSize
      BY <1>1, <3>1 DEF SetQueueSize, DeviceTypes
    <3>2. CASE SetQueueAddr
      <4>1. PICK legacy \in BOOLEAN : legacy = Legacy
        BY DEF Legacy
      <4>2. dev' = [dev EXCEPT !.qaddr = "vq"] \/ dev' = [dev EXCEPT !.qaddr = "vq", !.enabled = @ \/ legacy]
        BY <3>2, <4>1, Zenon DEF SetQueueAddr, mmio_set_queue_addr, pci_set_queue_addr
      <4> QED BY ZenonT(60), <1>1, <4>2 DEF DeviceTypes
    <3>3. CASE EnableQueue
      <4>1. PICK legacy \in BOOLEAN : legacy = Legacy
        BY DEF Legacy
      <4>2. dev' = [dev EXCEPT !.enabled = @ \/ ~legacy]
        BY <3>3, <4>1, Zenon DEF EnableQueue
      <4> QED BY <1>1, <4>2 DEF DeviceTypes
    <3>4. CASE SetQueueVector
      BY <1>1, <3>4 DEF SetQueueVector, DeviceTypes
    <3> QED BY <1>14, <3>1, <3>2, <3>3, <3>4
  <2> QED BY <1>1, <1>14, <2>1, SetUpTypes, TimerKept
          DEF SetQueueSize, SetQueueAddr, SetQueueVector, EnableQueue
<1>15. CASE CreateThread \/ HandOver
  <2>1. gpio' \in [Fields -> {"zero", "config", "vq", "vdev"}] /\ ist' \in BOOLEAN
    BY <1>1, <1>15 DEF CreateThread, HandOver
  <2> QED BY <1>1, <1>15, <2>1, SetUpTypes, TimerKept DEF CreateThread, HandOver
<1> QED BY <1>3, <1>4, <1>5, <1>6, <1>7, <1>8, <1>9, <1>10, <1>11, <1>12, <1>13, <1>14, <1>15
        DEF Driver

LEMMA SameTypes ==
  ASSUME TInv,
         UNCHANGED <<pc, rc, heap, foundVars, size, num, timer, current, gpio, ist, late>>,
         dev' \in DeviceTypes
  PROVE  TInv'
<1>1. DiscoveryTypeOK' /\ PciKnown'
  BY SamePciTypes DEF TInv, TypeOK, DiscoveryTypeOK, foundVars, Codes, States
<1>2. TimerTypes'
  BY TimerKept
<1> QED BY <1>1, <1>2 DEF TInv, TypeOK, TimerTypes, DeviceTypes

LEMMA DeviceKeepsTInv ==
  ASSUME TInv, FinishReset \/ FinishQueueReset PROVE TInv'
<1>1. dev \in DeviceTypes /\ dev.max \in Nat
  BY DEF TInv, TypeOK, DeviceTypes
<1>2. dev' \in DeviceTypes
  <2>1. CASE FinishReset
    BY <1>1, <2>1, Fresh DEF FinishReset
  <2>2. CASE FinishQueueReset
    BY <1>1, <2>2 DEF FinishQueueReset, QueueReset, DeviceTypes
  <2> QED BY <2>1, <2>2
<1>3. UNCHANGED <<pc, rc, heap, foundVars, size, num, timer, current, gpio, ist, late>>
  BY DEF FinishReset, FinishQueueReset
<1> QED BY <1>2, <1>3, SameTypes

LEMMA TypesKept == IInv /\ TInv /\ [Next]_vars => TInv'
<1> SUFFICES ASSUME IInv, TInv, [Next]_vars PROVE TInv'
  OBVIOUS
<1>1. CASE UNCHANGED vars
  BY <1>1, SameTypes DEF vars, setupVars, TInv, TypeOK, DeviceTypes
<1> QED BY <1>1, DiscoverKeepsTInv, SetUpKeepsTInv, DeviceKeepsTInv DEF Next, Driver

\* Every variable keeps its type: what is left of a time-out and of a delay never
\* goes below zero nor above where it started (virtio_reset_device,
\* virtio_reset_queue), and the MSI-X calls of virtio_pci_init come in their order.
THEOREM TypeCorrect == Spec => []TypeOK
<1>1. TInv => TypeOK
  BY DEF TInv
<1> QED BY <1>1, TypesKept, InitEstablishesTInv, InductiveInvariant, PTL DEF Spec

-----------------------------------------------------------------------------
(* The order of the set-up.                                                *)

\* Where the driver has come to, from the last statement backwards.
AfterEnable   == {"DRIVER_OK", "hand_over"}
AfterVector   == {"enable_queue"} \cup AfterEnable
AfterSize     == {"set_queue_addr"} \cup HasAddress
HasNum        == HasQueue \/ pc = "virtq_create"
HasFeatures   == HasNum \/ pc = "max_queue_size"
HasConfig     == HasFeatures \/ pc = "FEATURES_OK"
AfterReset    == HasConfig \/ pc \in {"ACKNOWLEDGE", "DRIVER", "read_config"}
InDeviceReset == pc \in {"poll", "sleep"} /\ loop = "device"

\* What device and driver make of the option, as long as it is not beyond the
\* device's maximum.
SizeTaken == /\ size \in 1 .. dev.max => dev.qsize = size
             /\ size = 0 => dev.qsize <= dev.max
NumChosen == /\ size \in 1 .. dev.max => num = size
             /\ size = 0 => num = dev.max

StatusThen ==
  CASE pc = "ACKNOWLEDGE"                    -> {}
    [] pc = "DRIVER"                         -> {"ACKNOWLEDGE"}
    [] pc \in {"read_config", "FEATURES_OK"} -> {"ACKNOWLEDGE", "DRIVER"}
    [] pc = "hand_over"                      -> Bits
    [] OTHER                                 -> Bits \ {"DRIVER_OK"}

\* The device is as far as the driver is.
InStep ==
  AfterReset =>
    /\ ~dev.resetting
    /\ dev.queue_resetting => pc \in {"poll", "sleep"}
    /\ dev.status = StatusThen /\ current \subseteq {dev.status}
    /\ dev.qaddr = IF pc \in HasAddress THEN "vq" ELSE "none"
    /\ dev.enabled = (pc \in AfterEnable \/ (pc \in HasAddress /\ Legacy))
    /\ dev.vector = (pc \in AfterVector /\ transport = "pci")
    /\ IF pc \in AfterSize THEN SizeTaken ELSE dev.qsize = dev.max
    /\ HasNum => NumChosen

\* A device that may have this driver's rings, whether the driver has come to
\* its end or died.
InOrder ==
  /\ dev.qaddr = "vq" =>
       /\ "DRIVER_OK" \in dev.status => dev.status = Bits /\ dev.enabled
       /\ dev.enabled /\ transport = "pci" => dev.vector
       /\ SizeTaken /\ NumChosen
  /\ dev.qaddr = "none" => "DRIVER_OK" \notin dev.status
  /\ dev.qaddr # "vq" => ~dev.queue_resetting \/ "DRIVER_OK" \notin dev.status
  /\ dev.qaddr = "vq" => ~dev.queue_resetting /\ ~dev.resetting
  /\ heap["desc"] # "none" => dev.qaddr # "old"

\* The length of a legacy queue's mapping is not 0.
LegacyMapped == Legacy => LegacyBytes(num) > 0

\* What holds late or not.
Progress ==
  /\ pc \notin Bits => current = {}
  /\ heap["desc"] # "none" =>
       HasQueue \/ pc \in {"free_vdev", "returned", "crashed"}
  /\ pc = "reset_device" \/ InDeviceReset \/ AfterReset => (transport = "legacy" => page = Page)
  /\ transport = "pci" /\ (InDeviceReset \/ AfterReset) => Reachable("common")
  /\ dev.qaddr = "vq" => /\ transport = "legacy" => page = Page
                         /\ transport = "pci" => IrqBefore(6) \subseteq pci.irq /\ Reachable("common")
  /\ HasConfig => /\ gpio["ngpio"] = "config"
                  /\ transport # "pci" => gpio["names_size"] = "config"
  /\ transport # "pci" => gpio["priv"] = "zero"
  /\ pc = "queue_vector" => transport = "pci"
  /\ HasQueue => LegacyMapped
  /\ dev.qaddr = "vq" => LegacyMapped
  /\ HasQueue => gpio["requestq"] = "vq"
  /\ pc = "returned" /\ rc = "EOK" =>
       /\ gpio["ngpio"] = "config" /\ gpio["dev"] = "vdev" /\ gpio["requestq"] = "vq"
       /\ transport # "pci" => gpio["names_size"] = "config"

\* A reset the driver waits for is under way or over.
ResetStarted == InDeviceReset => dev.resetting \/ dev = FreshDevice(dev.max)

NotYetReset == pc \in Searching \cup {"reset_device"} => ~dev.resetting /\ ~dev.queue_resetting

InTime == ResetStarted /\ NotYetReset /\ InStep /\ InOrder

SInv == Progress /\ (~late => InTime)

\* What the other invariants say of the device and of where the driver is.
LEMMA DeviceFields ==
  ASSUME TInv, MInv
  PROVE  /\ dev.max \in Nat /\ dev.qsize \in Nat /\ dev.status \subseteq Bits
         /\ dev.qaddr \in {"none", "old", "vq"}
         /\ dev.qaddr = "vq" => pc \in HasAddress \cup {"returned", "crashed"}
         /\ DOMAIN dev = {"status", "resetting", "queue_resetting", "qsize", "qaddr",
                          "enabled", "vector", "max"}
         /\ dev \in DeviceTypes
BY DEF TInv, TypeOK, MInv, DeviceTypes

LEMMA FreshFields ==
  \A max : LET d == FreshDevice(max) IN
    /\ d.status = {} /\ ~d.resetting /\ ~d.queue_resetting /\ d.qsize = max
    /\ d.qaddr = "none" /\ ~d.enabled /\ ~d.vector /\ d.max = max
BY DEF FreshDevice

LEMMA InitialGpio == Init => gpio["priv"] = "zero"
BY DEF Init, Fields

LEMMA InitEstablishesSInv == Init => SInv
<1> SUFFICES ASSUME Init PROVE SInv
  OBVIOUS
<1>1. pc = "start" /\ heap["desc"] = "none" /\ current = {}
  BY DEF Init, DiscoveryInit, Objects
<1>2. /\ dev.qaddr # "vq" /\ ~dev.resetting /\ ~dev.queue_resetting
      /\ dev.qaddr = "none" => "DRIVER_OK" \notin dev.status
  <2>1. ASSUME NEW max
        PROVE  LET d == RunningDevice(max, max) IN
                 d.qaddr = "old" /\ ~d.resetting /\ ~d.queue_resetting
    BY DEF RunningDevice, FreshDevice
  <2> QED BY <2>1, FreshFields DEF Init
<1>3. ~InDeviceReset /\ ~AfterReset
  BY <1>1 DEF InDeviceReset, AfterReset, HasConfig, HasFeatures, HasNum, HasQueue, HasAddress,
              HasThread
<1>4. Progress
  BY <1>1, <1>2, <1>3, InitialGpio DEF Progress, AfterReset, HasConfig, HasFeatures, HasNum
<1>5. InTime
  BY <1>1, <1>2, <1>3 DEF InTime, ResetStarted, NotYetReset, InStep, InOrder
<1> QED BY <1>4, <1>5 DEF SInv

\* The search goes on until a failure or the reset, and leaves the rings alone.
LEMMA DiscoverPlaces ==
  ASSUME IInv, MInv, Discover
  PROVE  /\ pc \in Searching \cup {"free_vdev"} /\ UNCHANGED transport
         /\ pc' \in Searching \cup {"reset_device", "free_vdev", "returned"}
         /\ pc = "free_vdev" => pc' = "returned"
         /\ heap'["desc"] = heap["desc"]
         /\ pc' = "reset_device" => (transport = "legacy" => page' = Page)
         /\ pc' = "returned" => rc' # "EOK"
<1> USE DEF Searching, Fail, PciFails, foundVars, IInv, MInv, GivingUp, Objects
<1>1. CASE GpioCalloc \/ VirtioInit \/ FreePriv \/ DestroyVdev \/ FreeVdev
           \/ MmioCalloc \/ PciCalloc
  BY <1>1 DEF GpioCalloc, VirtioInit, FreePriv, DestroyVdev, FreeVdev, MmioCalloc, PciCalloc,
              Made, Free
<1>2. CASE MmioMap \/ MmioProbe \/ PciFind \/ PciAttach \/ NoMsix \/ DetachPci
  BY <1>2 DEF MmioMap, MmioProbe, PciFind, PciAttach, NoMsix, DetachPci
<1>3. CASE ReadCap \/ ReadMsixCap \/ MapBars
  BY <1>3 DEF ReadCap, ReadMsixCap, MapBars
<1>4. CASE SetUpMsix
  BY <1>4 DEF SetUpMsix, Attached
<1> QED BY <1>1, <1>2, <1>3, <1>4 DEF Discover

LEMMA DiscoverKeepsSInv ==
  ASSUME IInv, TInv, MInv, SInv, Discover, UNCHANGED setupVars PROVE SInv'
<1> USE DEF Searching
<1>1. /\ UNCHANGED <<size, num, loop, current, gpio, dev, late, transport>> /\ heap'["desc"] = heap["desc"]
      /\ pc \in Searching \cup {"free_vdev"}
      /\ pc' \in Searching \cup {"reset_device", "free_vdev", "returned"}
      /\ pc = "free_vdev" => pc' = "returned"
      /\ pc' = "reset_device" => (transport = "legacy" => page' = Page)
      /\ pc' = "returned" => rc' # "EOK"
  BY DiscoverPlaces DEF setupVars, timer
<1>2. dev.qaddr # "vq" /\ ~InDeviceReset' /\ ~AfterReset' /\ ~HasQueue /\ ~HasQueue' /\ ~HasConfig'
  BY <1>1, DeviceFields DEF InDeviceReset, AfterReset, HasConfig, HasFeatures, HasNum, HasQueue,
                            HasAddress, HasThread
<1>3. Progress'
  BY <1>1, <1>2 DEF SInv, Progress, Bits
<1>4. ASSUME ~late PROVE InTime'
  BY <1>1, <1>2, <1>4 DEF SInv, InTime, ResetStarted, NotYetReset, InStep, InOrder
<1> QED BY <1>1, <1>3, <1>4 DEF SInv

\* The driver moves on, or dies, and the device does not see it.
LEMMA SameDeviceKeepsSInv ==
  ASSUME TInv, MInv, SInv, UNCHANGED <<foundVars, heap, size, num, loop, gpio, dev, late>>,
         pc' \notin Searching \cup {"reset_device"},
         pc' \notin Bits => current' = {},
         ~late => current' \subseteq {dev.status} \/ ~AfterReset',
         heap["desc"] # "none" => HasQueue' \/ pc' \in {"free_vdev", "returned", "crashed"},
         InDeviceReset' => InDeviceReset,
         AfterReset' => AfterReset /\ StatusThen' = StatusThen,
         HasConfig' => HasConfig, HasQueue' => HasQueue, HasNum' => HasNum,
         ~late /\ dev.queue_resetting /\ AfterReset' => pc' \in {"poll", "sleep"},
         AfterReset' => /\ pc' \in HasAddress <=> pc \in HasAddress
                        /\ pc' \in AfterEnable <=> pc \in AfterEnable
                        /\ transport = "pci" => (pc' \in AfterVector <=> pc \in AfterVector)
                        /\ pc' \in AfterSize <=> pc \in AfterSize,
         pc' = "queue_vector" => transport = "pci",
         pc' = "returned" => rc' # "EOK"
  PROVE  SInv'
<1>1. /\ Reachable("common")' = Reachable("common") /\ Legacy' = Legacy
      /\ SizeTaken' = SizeTaken /\ NumChosen' = NumChosen /\ LegacyMapped' = LegacyMapped
  BY DEF Reachable, foundVars, Legacy, SizeTaken, NumChosen, LegacyMapped
<1>2. Progress'
  BY <1>1, DeviceFields DEF SInv, Progress, foundVars, NotYetReset
<1>3. ASSUME ~late PROVE InTime'
  <2>1. InOrder'
    BY <1>1, <1>3 DEF SInv, InTime, InOrder, foundVars
  <2>2. InStep'
    BY <1>1, <1>3 DEF SInv, InTime, InStep, foundVars
  <2>3. ResetStarted' /\ NotYetReset'
    BY <1>3 DEF SInv, InTime, ResetStarted, NotYetReset
  <2> QED BY <2>1, <2>2, <2>3 DEF InTime
<1> QED BY <1>2, <1>3 DEF SInv

\* The reset of the device, and the wait for it.
LEMMA ResetKeepsSInv ==
  ASSUME IInv, TInv, MInv, SInv, ResetDevice \/ PollDevice PROVE SInv'
<1> USE DEF AfterReset, HasConfig, HasFeatures, HasNum, HasQueue, HasAddress, HasThread,
            InDeviceReset, AfterEnable, AfterVector, AfterSize, SizeTaken,
            NumChosen, LegacyMapped, Legacy, Searching, Bits
<1>1. CASE ResetDevice
  <2>1. /\ pc = "reset_device" /\ pc' = "poll" /\ loop' = "device"
        /\ UNCHANGED <<rc, heap, transport, page, pci, size, num, current, gpio, ist, late>>
        /\ HasRegisters
        /\ dev' = FreshDevice(dev.max) \/ dev' = [dev EXCEPT !.resetting = TRUE]
    BY <1>1 DEF ResetDevice, StartLoop, foundVars
  <2>2. dev.qaddr # "vq"
    BY <2>1, DeviceFields
  <2>3. /\ dev'.max = dev.max
        /\ \/ dev' = FreshDevice(dev.max) /\ dev'.qaddr = "none" /\ dev'.status = {}
              /\ ~dev'.queue_resetting
           \/ /\ dev'.resetting /\ dev'.status = dev.status /\ dev'.qaddr = dev.qaddr
              /\ dev'.queue_resetting = dev.queue_resetting
    BY <2>1, DeviceFields, FreshFields
  <2>4. Progress'
    BY <2>1, <2>2, <2>3 DEF SInv, Progress, HasRegisters, Reachable
  <2>5. ASSUME ~late PROVE InTime'
    BY <2>1, <2>2, <2>3, <2>5
    DEF SInv, InTime, ResetStarted, NotYetReset, InStep, InOrder, Progress
  <2> QED BY <2>1, <2>4, <2>5 DEF SInv
<1>2. CASE PollDevice /\ pc' = "sleep"
  BY <1>2, SameDeviceKeepsSInv
  DEF PollDevice, Sleep, GoOn, timer, foundVars, StatusThen, SInv, Progress, InTime, InStep
<1>3. CASE PollDevice /\ pc' # "sleep"
  <2>1. /\ pc = "poll" /\ loop = "device" /\ pc' = "ACKNOWLEDGE" /\ late' = (late \/ dev.resetting)
        /\ UNCHANGED <<rc, heap, transport, page, pci, size, num, loop, current, gpio, ist, dev>>
    BY <1>3 DEF PollDevice, Sleep, GoOn, timer, foundVars
  <2>2. dev.qaddr # "vq" /\ current = {}
    BY <2>1, DeviceFields DEF SInv, Progress
  <2>3. Progress'
    BY <2>1, <2>2 DEF SInv, Progress, Reachable
  <2>4. ASSUME ~late' PROVE InTime'
    <3>1. dev = FreshDevice(dev.max) /\ ~late
      BY <2>1, <2>4 DEF SInv, InTime, ResetStarted
    <3>2. /\ dev.status = {} /\ ~dev.resetting /\ ~dev.queue_resetting /\ dev.qsize = dev.max
          /\ dev.qaddr = "none" /\ dev.enabled = FALSE /\ dev.vector = FALSE
      BY <3>1 DEF FreshDevice
    <3>3. InStep'
      BY <2>1, <2>2, <3>2 DEF InStep, StatusThen
    <3>4. InOrder'
      BY <2>1, <3>1, <3>2 DEF SInv, InTime, InOrder
    <3> QED BY <2>1, <3>3, <3>4 DEF InTime, ResetStarted, NotYetReset
  <2> QED BY <2>3, <2>4 DEF SInv
<1> QED BY <1>1, <1>2, <1>3

\* The steps that do not reach the device.
LEMMA QuietStepKeepsSInv ==
  ASSUME TInv, MInv, SInv,
         Crash \/ PollQueue \/ CreateThread \/ (\E left \in 0 .. waiting : Delay(left))
         \/ \E bit \in Bits : GetStatus(bit)
  PROVE  SInv'
<1> USE DEF AfterReset, HasConfig, HasFeatures, HasNum, HasQueue, HasAddress, HasThread,
            InDeviceReset, AfterEnable, AfterVector, AfterSize, SizeTaken,
            NumChosen, LegacyMapped, Legacy, Searching, Bits, StatusThen, SInv, Progress,
            InTime
<1>1. CASE Crash
  BY <1>1, SameDeviceKeepsSInv DEF Crash, setupVars, timer, foundVars
<1>2. CASE \E left \in 0 .. waiting : Delay(left)
  BY <1>2, SameDeviceKeepsSInv DEF Delay, foundVars
<1>3. CASE \E bit \in Bits : GetStatus(bit)
  <2>1. \/ pc = "ACKNOWLEDGE" \/ pc = "DRIVER" \/ pc = "FEATURES_OK" \/ pc = "DRIVER_OK"
    BY <1>3 DEF GetStatus
  <2>2. /\ UNCHANGED <<pc, rc, foundVars, heap, size, num, loop, gpio, dev, late>>
        /\ current' = {dev.status}
    BY <1>3 DEF GetStatus, timer
  <2>3. ~late => ~dev.queue_resetting
    BY <2>1 DEF InStep
  <2>4. Progress'
    BY <2>1, <2>2 DEF Reachable, foundVars
  <2>5. ASSUME ~late PROVE InStep' /\ InOrder' /\ ResetStarted' /\ NotYetReset'
    BY <2>1, <2>2, <2>5 DEF InStep, InOrder, ResetStarted, NotYetReset, Legacy, foundVars
  <2> QED BY <2>2, <2>4, <2>5
<1>4. CASE PollQueue
  <2>1. /\ pc = "poll" /\ loop = "queue" /\ UNCHANGED <<foundVars, heap, size, num, loop, gpio, dev, current>>
        /\ \/ pc' = "sleep" /\ UNCHANGED late
           \/ pc' = "free_vdev" /\ UNCHANGED late
           \/ pc' = "set_queue_size" /\ ~dev.queue_resetting /\ UNCHANGED late
    BY <1>4 DEF PollQueue, TestQueueReset, Sleep, GoOn, Fail, TInv, TypeOK
  <2> QED BY <2>1, SameDeviceKeepsSInv
<1>5. CASE CreateThread
  <2>1. /\ pc = "pthread_create" /\ pc' \in {"queue_vector", "enable_queue", "crashed"}
        /\ pc' = "enable_queue" => transport # "pci"
        /\ pc' = "queue_vector" => transport = "pci"
        /\ UNCHANGED <<foundVars, heap, size, num, loop, gpio, dev, late, current>>
    BY <1>5 DEF CreateThread, timer
  <2> QED BY <2>1, SameDeviceKeepsSInv DEF InStep
<1> QED BY <1>1, <1>2, <1>3, <1>4, <1>5

\* The steps that add a status bit.
LEMMA SetStatusKeepsSInv ==
  ASSUME TInv, MInv, SInv, NEW bit \in Bits, SetStatus(bit) PROVE SInv'
<1> USE DEF AfterReset, HasConfig, HasFeatures, HasNum, HasQueue, HasAddress, HasThread,
            InDeviceReset, AfterEnable, AfterVector, AfterSize, SizeTaken,
            NumChosen, LegacyMapped, Legacy, Searching, Bits, SInv, InTime
<1>1. PICK status \in current : dev' = [dev EXCEPT !.status = status \cup {bit}]
  BY DEF SetStatus
<1>2. /\ UNCHANGED <<rc, foundVars, heap, size, num, loop, gpio, late>>
      /\ pc = bit /\ current' = {} /\ pc' = After(bit)
  BY DEF SetStatus, timer
<1>3. /\ dev'.status = status \cup {bit} /\ dev'.qaddr = dev.qaddr /\ dev'.max = dev.max
      /\ dev'.qsize = dev.qsize /\ dev'.enabled = dev.enabled /\ dev'.vector = dev.vector
      /\ dev'.resetting = dev.resetting /\ dev'.queue_resetting = dev.queue_resetting
  BY <1>1, DeviceFields
<1>4. Progress'
  BY <1>2, <1>3, DeviceFields DEF Progress, After, Reachable, foundVars
<1>5. ASSUME ~late PROVE InTime'
  <2>1. InStep
    BY <1>5
  <2>2. status = StatusThen /\ AfterReset
    BY <1>2, <2>1 DEF InStep
  <2>3. dev'.status = StatusThen'
    BY <1>2, <1>3, <2>2 DEF StatusThen, After
  <2>4. InStep'
    BY <1>2, <1>3, <2>1, <2>3 DEF InStep, After, Legacy, foundVars
  <2>5. InOrder'
    <3>1. CASE bit = "DRIVER_OK"
      <4>1. dev'.status = Bits /\ dev'.enabled /\ dev'.qaddr = "vq"
        BY <1>2, <1>3, <2>1, <2>3, <3>1 DEF InStep, StatusThen, After
      <4> QED BY <1>2, <1>3, <1>5, <4>1 DEF InOrder, foundVars
    <3>2. CASE bit # "DRIVER_OK"
      <4>1. dev.qaddr = "none" /\ "DRIVER_OK" \notin dev'.status
        BY <1>2, <1>3, <2>1, <2>3, <3>2 DEF InStep, StatusThen, After
      <4> QED BY <1>2, <1>3, <1>5, <4>1 DEF InOrder, foundVars
    <3> QED BY <3>1, <3>2
  <2>6. ResetStarted' /\ NotYetReset'
    BY <1>2, <1>3 DEF ResetStarted, NotYetReset, After
  <2> QED BY <2>4, <2>5, <2>6
<1> QED BY <1>2, <1>4, <1>5

\* The configuration, the size and the memory of the queue.
LEMMA CreateKeepsSInv ==
  ASSUME TInv, MInv, SInv, ReadConfig \/ ChooseSize \/ VirtqCreate PROVE SInv'
<1> USE DEF AfterReset, HasConfig, HasFeatures, HasNum, HasQueue, HasAddress, HasThread,
            InDeviceReset, AfterEnable, AfterVector, AfterSize, SizeTaken,
            NumChosen, LegacyMapped, Legacy, Searching, Bits, SInv, InTime
<1>1. CASE ReadConfig
  <2>1. /\ UNCHANGED <<rc, foundVars, heap, size, num, loop, current, dev, late>>
        /\ pc = "read_config" /\ pc' = "FEATURES_OK"
    BY <1>1 DEF ReadConfig, timer
  <2>2. /\ gpio'["ngpio"] = "config"
        /\ transport # "pci" => gpio'["names_size"] = "config" /\ gpio'["priv"] = gpio["priv"]
    <3> DEFINE words == IF transport = "pci" THEN pci_words ELSE mmio_words
    <3>1. gpio' = [f \in Fields |->
                     IF \E i \in words : Field[i + 1] = f THEN "config" ELSE gpio[f]]
      BY <1>1, Zenon DEF ReadConfig
    <3>2. 0 \in words /\ (transport # "pci" => 1 \in words)
      BY DEF pci_words, mmio_words
    <3>3. Field[0 + 1] = "ngpio" /\ Field[1 + 1] = "names_size"
      BY DEF Field
    <3>4. {"ngpio", "names_size", "priv"} \subseteq Fields
      BY DEF Fields
    <3>5. transport # "pci" => ~\E i \in words : Field[i + 1] = "priv"
      BY DEF mmio_words, Field
    <3> HIDE DEF words
    <3> QED BY <3>1, <3>2, <3>3, <3>4, <3>5
  <2>3. Progress'
    BY <2>1, <2>2, DeviceFields DEF Progress, Reachable, foundVars
  <2>4. ASSUME ~late PROVE InTime'
    BY <2>1, <2>4
    DEF ResetStarted, NotYetReset, InStep, InOrder, StatusThen, Legacy, foundVars
  <2> QED BY <2>1, <2>3, <2>4
<1>2. CASE ChooseSize
  <2>1. /\ UNCHANGED <<foundVars, heap, size, loop, current, gpio, dev, late>>
        /\ pc = "max_queue_size" /\ pc' \in {"virtq_create", "free_vdev"} /\ num' = QueueSize
    BY <1>2 DEF ChooseSize, timer, Fail
  <2>2. Progress'
    BY <2>1, DeviceFields DEF Progress, Reachable, foundVars
  <2>3. ASSUME ~late PROVE InTime'
    <3>1. dev.qsize = dev.max /\ dev.qaddr = "none"
      BY <2>1, <2>3 DEF InStep
    <3>2. MaxQueueSize = dev.max /\ dev.max \in Nat /\ size \in Nat
      BY <3>1, Sizes16, DeviceFields
      DEF MaxQueueSize, pci_queue_size, mmio_max_queue_size, TInv, TypeOK
    <3>3. /\ size \in 1 .. dev.max => QueueSize = size
          /\ size = 0 => QueueSize = dev.max
      BY <3>2 DEF QueueSize
    <3>4. InStep'
      BY <2>1, <2>3, <3>3 DEF InStep, StatusThen, Legacy, foundVars
    <3>5. InOrder' /\ ResetStarted' /\ NotYetReset'
      BY <2>1, <2>3, <3>1 DEF InOrder, ResetStarted, NotYetReset
    <3> QED BY <3>4, <3>5
  <2> QED BY <2>1, <2>2, <2>3
<1>3. CASE VirtqCreate
  <2>1. /\ UNCHANGED <<foundVars, size, num, loop, current, dev, late>>
        /\ pc = "virtq_create"
    BY <1>3 DEF VirtqCreate, timer
  <2>2. \/ pc' = "set_queue_reset" /\ LegacyMapped /\ gpio' = [gpio EXCEPT !["requestq"] = "vq"]
        \/ pc' = "free_vdev" /\ UNCHANGED gpio
    BY <1>3 DEF VirtqCreate, VirtqMade, VirtqCreateFails, Fail
  <2>3. gpio' = gpio \/ /\ gpio'["requestq"] = "vq" /\ gpio'["ngpio"] = gpio["ngpio"]
                        /\ gpio'["names_size"] = gpio["names_size"]
                        /\ gpio'["priv"] = gpio["priv"]
    BY <2>2 DEF TInv, TypeOK, Fields
  <2>4. gpio'["requestq"] = "vq" \/ pc' = "free_vdev"
    BY <2>2 DEF TInv, TypeOK, Fields
  <2>5. Progress'
    BY <2>1, <2>2, <2>3, <2>4, DeviceFields DEF Progress, Reachable, foundVars
  <2>6. ASSUME ~late PROVE InTime'
    BY <2>1, <2>2, <2>6
    DEF ResetStarted, NotYetReset, InStep, InOrder, StatusThen, Legacy, foundVars
  <2> QED BY <2>1, <2>5, <2>6
<1> QED BY <1>1, <1>2, <1>3

\* The queue is reset, given its size and its address, enabled, and handed over.
LEMMA QueueKeepsSInv ==
  ASSUME IInv, TInv, MInv, SInv,
         SetQueueReset \/ SetQueueSize \/ SetQueueAddr \/ SetQueueVector \/ EnableQueue
         \/ HandOver
  PROVE  SInv'
<1> USE DEF AfterReset, HasConfig, HasFeatures, HasNum, HasQueue, HasAddress, HasThread,
            InDeviceReset, AfterEnable, AfterVector, AfterSize, SizeTaken,
            NumChosen, LegacyMapped, Legacy, Searching, Bits, SInv, InTime
<1>1. CASE SetQueueReset
  <2>1. /\ UNCHANGED <<foundVars, heap, size, num, current, gpio>>
        /\ pc = "set_queue_reset" /\ loop' = "queue"
        /\ \/ pc' = "sleep" /\ UNCHANGED late
           \/ pc' = "free_vdev" /\ UNCHANGED late
           \/ pc' = "set_queue_size" /\ late' = (late \/ dev'.queue_resetting)
    BY <1>1 DEF SetQueueReset, StartLoop, TestQueueReset, Sleep, GoOn, Fail
  <2>2. /\ dev'.status = dev.status /\ dev'.max = dev.max /\ dev'.resetting = dev.resetting
        /\ \/ dev' = dev
           \/ /\ dev'.qsize = dev.max /\ dev'.qaddr = "none" /\ ~dev'.enabled
              /\ dev'.enabled = FALSE /\ dev'.vector = FALSE /\ ~dev'.queue_resetting
           \/ /\ dev'.qsize = dev.qsize /\ dev'.qaddr = dev.qaddr
              /\ dev'.enabled = dev.enabled /\ dev'.vector = dev.vector
    BY <1>1, DeviceFields DEF SetQueueReset, QueueReset
  <2>3. dev.qaddr # "vq"
    BY <2>1, DeviceFields
  <2>4. Progress'
    BY <2>1, <2>2, <2>3 DEF Progress, Reachable, foundVars
  <2>5. ASSUME ~late' PROVE InTime'
    <3>1. ~late /\ InStep /\ InOrder
      <4>1. ~late
        BY <2>1, <2>5 DEF TInv, TypeOK
      <4> QED BY <4>1
    <3>2. /\ ~dev.resetting /\ ~dev.queue_resetting /\ dev.status = Bits \ {"DRIVER_OK"}
          /\ dev.qaddr = "none" /\ dev.enabled = FALSE /\ dev.vector = FALSE
          /\ dev.qsize = dev.max /\ NumChosen
          /\ current \subseteq {dev.status}
      BY <2>1, <3>1 DEF InStep, StatusThen
    <3>3. InStep'
      BY <2>1, <2>2, <2>5, <3>2 DEF InStep, StatusThen
    <3>4. InOrder'
      BY <2>1, <2>2, <3>1, <3>2 DEF InOrder
    <3> QED BY <2>1, <3>3, <3>4 DEF ResetStarted, NotYetReset
  <2> QED BY <2>4, <2>5
<1>2. CASE SetQueueSize
  <2>1. /\ UNCHANGED <<rc, foundVars, heap, size, num, loop, current, gpio, late>>
        /\ pc = "set_queue_size" /\ pc' = "set_queue_addr"
        /\ dev'.status = dev.status /\ dev'.max = dev.max /\ dev'.resetting = dev.resetting
        /\ dev'.queue_resetting = dev.queue_resetting /\ dev'.qaddr = dev.qaddr
        /\ dev'.enabled = dev.enabled /\ dev'.vector = dev.vector
        /\ dev'.qsize = size \/ (dev'.qsize = dev.qsize /\ size \notin 1 .. dev.max)
    BY <1>2, DeviceFields DEF SetQueueSize, timer
  <2>2. Progress'
    BY <2>1, DeviceFields DEF Progress, Reachable, foundVars
  <2>3. ASSUME ~late PROVE InTime'
    <3>1. InStep'
      BY <2>1, <2>3, DeviceFields DEF InStep, StatusThen, foundVars
    <3>2. InOrder'
      BY <2>1, <2>3, DeviceFields DEF InOrder
    <3> QED BY <2>1, <2>3, <3>1, <3>2 DEF ResetStarted, NotYetReset
  <2> QED BY <2>1, <2>2, <2>3
<1>3. CASE SetQueueAddr
  <2>1. /\ UNCHANGED <<rc, foundVars, heap, size, num, loop, current, gpio, late>>
        /\ pc = "set_queue_addr" /\ pc' = "pthread_create"
    BY <1>3 DEF SetQueueAddr, timer
  <2>2. /\ dev'.status = dev.status /\ dev'.max = dev.max /\ dev'.resetting = dev.resetting
        /\ dev'.queue_resetting = dev.queue_resetting /\ dev'.qaddr = "vq"
        /\ dev'.qsize = dev.qsize /\ dev'.vector = dev.vector
        /\ dev'.enabled = dev.enabled \/ dev'.enabled = (dev.enabled \/ Legacy)
        /\ Legacy => dev'.enabled = (dev.enabled \/ Legacy)
    <3>1. CASE transport = "pci"
      BY <1>3, <3>1, DeviceFields DEF SetQueueAddr, pci_set_queue_addr, Legacy
    <3>2. CASE transport # "pci"
      BY <1>3, <3>2, DeviceFields DEF SetQueueAddr, mmio_set_queue_addr
    <3> QED BY <3>1, <3>2
  <2>3. transport = "pci" => IrqBefore(6) \subseteq pci.irq
    BY <2>1 DEF TInv, PciKnown, SettingUp, Labels
  <2>4. Progress'
    BY <2>1, <2>2, <2>3 DEF Progress, Reachable, foundVars
  <2>5. ASSUME ~late PROVE InTime'
    <3>1. /\ ~dev.resetting /\ ~dev.queue_resetting /\ dev.status = Bits \ {"DRIVER_OK"}
          /\ dev.enabled = FALSE /\ dev.vector = FALSE /\ current \subseteq {dev.status}
          /\ SizeTaken /\ NumChosen
      BY <2>1, <2>5 DEF InStep, StatusThen
    <3>2. dev'.enabled = Legacy /\ Legacy' = Legacy /\ (Legacy => transport # "pci")
      BY <2>1, <2>2, <3>1 DEF Legacy, foundVars
    <3>3. InStep'
      BY <2>1, <2>2, <3>1, <3>2 DEF InStep, StatusThen
    <3>4. InOrder'
      BY <2>1, <2>2, <3>1, <3>2 DEF InOrder, foundVars
    <3> QED BY <2>1, <3>3, <3>4 DEF ResetStarted, NotYetReset
  <2> QED BY <2>1, <2>4, <2>5
<1>4. CASE SetQueueVector \/ EnableQueue
  <2>1. /\ UNCHANGED <<rc, foundVars, heap, size, num, loop, current, gpio, late>>
        /\ dev'.status = dev.status /\ dev'.max = dev.max /\ dev'.resetting = dev.resetting
        /\ dev'.queue_resetting = dev.queue_resetting /\ dev'.qaddr = dev.qaddr
        /\ dev'.qsize = dev.qsize
    BY <1>4, DeviceFields DEF SetQueueVector, EnableQueue, timer
  <2>2. \/ /\ pc = "queue_vector" /\ pc' = "enable_queue"
           /\ dev'.enabled = dev.enabled /\ dev'.vector = TRUE
        \/ /\ pc = "enable_queue" /\ pc' = "DRIVER_OK"
           /\ dev'.enabled = (dev.enabled \/ ~Legacy) /\ dev'.vector = dev.vector
    BY <1>4, DeviceFields DEF SetQueueVector, EnableQueue
  <2>3. Progress'
    BY <2>1, <2>2, DeviceFields DEF Progress, Reachable, foundVars, Legacy
  <2>4. ASSUME ~late PROVE InTime'
    <3>1. /\ ~dev.resetting /\ ~dev.queue_resetting /\ dev.status = Bits \ {"DRIVER_OK"}
          /\ dev.enabled = Legacy /\ current \subseteq {dev.status}
          /\ dev.vector = (pc = "enable_queue" /\ transport = "pci")
          /\ dev.qaddr = "vq" /\ SizeTaken /\ NumChosen
      BY <2>2, <2>4 DEF InStep, StatusThen, Legacy
    <3>2. /\ pc' = "DRIVER_OK" => dev'.enabled = TRUE
          /\ pc' = "enable_queue" => dev'.enabled = Legacy
          /\ dev'.vector = (transport = "pci")
      BY <2>1, <2>2, <2>4, <3>1 DEF Legacy, Progress
    <3>3. InStep'
      BY <2>1, <2>2, <3>1, <3>2 DEF InStep, StatusThen, foundVars, Legacy
    <3>4. InOrder'
      BY <2>1, <2>2, <3>1, <3>2 DEF InOrder, foundVars, Legacy
    <3> QED BY <2>1, <2>2, <3>3, <3>4 DEF ResetStarted, NotYetReset
  <2> QED BY <2>1, <2>3, <2>4
<1>5. CASE HandOver
  <2>1. /\ UNCHANGED <<rc, foundVars, heap, size, num, loop, current, dev, late>>
        /\ pc = "hand_over" /\ pc' = "returned"
    BY <1>5 DEF HandOver, timer
  <2>2. /\ gpio'["dev"] = "vdev" /\ gpio'["ngpio"] = gpio["ngpio"]
        /\ gpio'["requestq"] = gpio["requestq"] /\ gpio'["names_size"] = gpio["names_size"]
        /\ gpio'["priv"] = gpio["priv"]
    BY <1>5 DEF HandOver, TInv, TypeOK, Fields
  <2>3. Progress'
    BY <2>1, <2>2 DEF Progress, Reachable, foundVars
  <2>4. ASSUME ~late PROVE InTime'
    BY <2>1, <2>4 DEF InStep, InOrder, ResetStarted, NotYetReset, foundVars
  <2> QED BY <2>1, <2>3, <2>4
<1> QED BY <1>1, <1>2, <1>3, <1>4, <1>5

\* A reset the device finishes is one the driver waits for, or has given up.
LEMMA DeviceKeepsSInv ==
  ASSUME TInv, MInv, SInv, FinishReset \/ FinishQueueReset PROVE SInv'
<1> USE DEF SInv, InTime
<1>1. UNCHANGED <<pc, rc, heap, foundVars, size, num, loop, current, gpio, ist, late>>
  BY DEF FinishReset, FinishQueueReset, timer
<1>2. dev'.qaddr = "none" /\ dev'.max = dev.max
  BY ZenonT(60), DeviceFields, FreshFields DEF FinishReset, FinishQueueReset, QueueReset
<1>3. AfterReset' = AfterReset /\ InDeviceReset' = InDeviceReset /\ HasConfig' = HasConfig
      /\ HasQueue' = HasQueue /\ HasNum' = HasNum
      /\ LegacyMapped' = LegacyMapped
  BY <1>1 DEF AfterReset, HasConfig, HasFeatures, HasNum, HasQueue, InDeviceReset, LegacyMapped,
              Legacy, foundVars
<1>4. Progress'
  BY <1>1, <1>2, <1>3 DEF Progress, Reachable, foundVars
<1>5. CASE FinishReset
  <2>1. dev.resetting /\ dev' = FreshDevice(dev.max)
    BY <1>5 DEF FinishReset
  <2>2. ASSUME ~late PROVE InTime'
    <3>1. ~AfterReset /\ ~dev'.resetting /\ ~dev'.queue_resetting /\ dev'.status = {}
      BY <2>1, <2>2, FreshFields DEF InStep
    <3>2. ResetStarted' /\ NotYetReset'
      BY <1>2, <2>1, <3>1 DEF ResetStarted, NotYetReset
    <3>3. InStep' /\ InOrder'
      BY <1>2, <1>3, <3>1 DEF InStep, InOrder
    <3> QED BY <3>2, <3>3
  <2> QED BY <1>1, <1>4, <2>2
<1>6. CASE FinishQueueReset
  <2>1. dev.queue_resetting /\ dev' = QueueReset(dev)
    BY <1>6 DEF FinishQueueReset
  <2>2. /\ dev'.status = dev.status /\ dev'.resetting = dev.resetting
        /\ dev'.queue_resetting = FALSE /\ dev'.qsize = dev.max
        /\ dev'.enabled = FALSE /\ dev'.vector = FALSE
    BY <2>1, DeviceFields DEF QueueReset
  <2>3. ASSUME ~late PROVE InTime'
    <3>1. AfterReset => pc \in {"poll", "sleep"}
      BY <2>1, <2>3 DEF InStep
    <3>2. InStep'
      BY <1>1, <1>2, <1>3, <2>2, <2>3, <3>1
      DEF InStep, StatusThen, HasAddress, HasThread, AfterEnable, AfterVector, AfterSize,
          NumChosen
    <3>3. "DRIVER_OK" \notin dev.status
      BY <2>1, <2>3, DeviceFields DEF InOrder
    <3>4. InOrder'
      BY <1>2, <2>2, <3>3 DEF InOrder
    <3>5. ResetStarted' /\ NotYetReset'
      BY <1>1, <1>3, <2>1, <2>2, <2>3, FreshFields DEF ResetStarted, NotYetReset
    <3> QED BY <3>2, <3>4, <3>5
  <2> QED BY <1>1, <1>4, <2>3
<1> QED BY <1>5, <1>6

LEMMA UnchangedKeepsSInv == ASSUME SInv, UNCHANGED vars PROVE SInv'
<1>1. UNCHANGED <<pc, rc, heap, transport, page, pci, size, num, loop, current, gpio, dev, late>>
  BY DEF vars, setupVars, foundVars, timer
<1>2. AfterReset' = AfterReset /\ InDeviceReset' = InDeviceReset /\ HasConfig' = HasConfig
      /\ HasQueue' = HasQueue /\ HasNum' = HasNum /\ StatusThen' = StatusThen /\ Legacy' = Legacy
      /\ SizeTaken' = SizeTaken /\ NumChosen' = NumChosen /\ LegacyMapped' = LegacyMapped
  BY <1>1 DEF SizeTaken, NumChosen, LegacyMapped, AfterReset, HasConfig, HasFeatures, HasNum, HasQueue, InDeviceReset, StatusThen, Legacy
<1>3. Progress'
  BY <1>1, <1>2 DEF SInv, Progress, Reachable
<1>4. ASSUME ~late PROVE InTime'
  BY <1>1, <1>2, <1>4 DEF SInv, InTime, ResetStarted, NotYetReset, InStep, InOrder
<1> QED BY <1>1, <1>3, <1>4 DEF SInv

\* The driver and the device go through the set-up together.
THEOREM SetUpInvariant == Spec => [](IInv /\ TInv /\ MInv /\ SInv)
<1>1. IInv /\ TInv /\ MInv /\ SInv /\ [Next]_vars => SInv'
  <2> SUFFICES ASSUME IInv, TInv, MInv, SInv, [Next]_vars PROVE SInv'
    OBVIOUS
  <2> QED BY UnchangedKeepsSInv, DiscoverKeepsSInv, ResetKeepsSInv, QuietStepKeepsSInv,
             SetStatusKeepsSInv, CreateKeepsSInv, QueueKeepsSInv, DeviceKeepsSInv
          DEF Next, Driver
<1> QED BY <1>1, TypesKept, MemoryKept, InitEstablishesTInv, InitEstablishesMInv,
           InitEstablishesSInv, InductiveInvariant, PTL DEF Spec

\* A device that sees DRIVER_OK has been taken through the states before it and
\* has this driver's rings (virtio_gpio_init, virtio_create_queue), and has let
\* go of an earlier instance's before the driver maps rings.
THEOREM SetUpInOrderHolds == Spec => []SetUpInOrder
<1>1. TInv /\ MInv /\ SInv => SetUpInOrder
  <2> SUFFICES ASSUME TInv, MInv, SInv PROVE SetUpInOrder
    OBVIOUS
  <2> QED BY DeviceFields DEF SInv, InTime, InOrder, SetUpInOrder, SizeTaken, NumChosen
<1> QED BY <1>1, SetUpInvariant, PTL

\* A PCI device that works has its queue's vector and a programmed MSI-X entry
\* (virtio_pci_init and virtio_pci_enable_queue).
THEOREM CompletionsAnnouncedHolds == Spec => []CompletionsAnnounced
<1>1. {"set_irq_entry", "cap_enable", "read_irq", "unmask_irq_entry"} \subseteq IrqBefore(6)
  <2>1. IrqCalls[2] = "set_irq_entry" /\ IrqCalls[3] = "cap_enable" /\ IrqCalls[4] = "read_irq"
        /\ IrqCalls[5] = "unmask_irq_entry"
    BY DEF IrqCalls
  <2> HIDE DEF IrqCalls
  <2>2. \A j \in 1 .. 5 : IrqCalls[j] \in IrqBefore(6)
    BY DEF IrqBefore
  <2> QED BY <2>1, <2>2
<1>2. TInv => /\ "cap_enable" \in pci.irq => "set_irq_entry" \in pci.irq
              /\ "unmask_irq_entry" \in pci.irq => "cap_enable" \in pci.irq
  <2>1. /\ 2 \in DOMAIN IrqCalls /\ 3 \in DOMAIN IrqCalls /\ 5 \in DOMAIN IrqCalls
        /\ IrqCalls[2] = "set_irq_entry" /\ IrqCalls[3] = "cap_enable"
        /\ IrqCalls[5] = "unmask_irq_entry"
    BY DEF IrqCalls
  <2>2. TInv => \A i \in DOMAIN IrqCalls : IrqCalls[i] \in pci.irq =>
                  \A j \in 1 .. i - 1 : IrqCalls[j] \in pci.irq
    BY DEF TInv, TypeOK, DiscoveryTypeOK
  <2>3. 2 \in 1 .. 3 - 1 /\ 3 \in 1 .. 5 - 1
    OBVIOUS
  <2> QED BY <2>1, <2>2, <2>3, Zenon
<1>3. TInv /\ SInv => CompletionsAnnounced
  BY <1>1, <1>2 DEF SInv, InTime, InOrder, Progress, CompletionsAnnounced
<1> QED BY <1>3, SetUpInvariant, PTL

\* A device that is handed over has its fields filled in (virtio_gpio_init).
THEOREM ConfigurationReadHolds == Spec => []ConfigurationRead
<1>1. SInv => ConfigurationRead
  BY DEF SInv, Progress, ConfigurationRead
<1> QED BY <1>1, SetUpInvariant, PTL

\* A device of whatever size its driver gave it finds its rings inside the memory
\* mapped for the driver's (virtq_create, virtio_set_queue_size,
\* virtio_mmio_set_queue_addr), where the pages of the system are the frames a
\* legacy device's queue address counts in.
THEOREM DeviceStaysInRingsHolds ==
  ASSUME "legacy" \in Transports => Page = FrameSize
  PROVE  Spec => []DeviceStaysInRings
<1>1. TInv /\ MInv /\ SInv => DeviceStaysInRings
  <2> SUFFICES ASSUME TInv, MInv, SInv, ~late, dev.enabled, dev.qaddr = "vq",
                      size <= dev.max
               PROVE  /\ \A part \in Parts :
                           \/ Fits(part, dev.qsize, num, Legacy)
                           \/ Legacy /\ part = "used" /\ UsedBytes(num) > Page
                      /\ Legacy => page = FrameSize
    BY DEF DeviceStaysInRings
  <2>1. num \in Nat /\ dev.qsize \in 0 .. num
    <3>1. size \in Nat /\ dev.max \in Nat /\ dev.qsize \in Nat
      BY Sizes16, DeviceFields DEF TInv, TypeOK
    <3>2. SizeTaken /\ NumChosen
      BY DEF SInv, InTime, InOrder
    <3> QED BY <3>1, <3>2 DEF SizeTaken, NumChosen
  <2>2. Legacy \in BOOLEAN /\ (Legacy => LegacyBytes(num) > 0)
    BY DEF SInv, Progress, LegacyMapped, Legacy
  <2>3. Legacy => page = FrameSize
    BY DEF SInv, Progress, TInv, TypeOK, DiscoveryTypeOK, Legacy
  <2>4. ASSUME NEW part \in Parts, ~(Legacy /\ part = "used" /\ UsedBytes(num) > Page)
        PROVE  Fits(part, dev.qsize, num, Legacy)
    <3>1. Legacy /\ part = "used" => UsedBytes(num) <= Page
      BY <2>1, <2>4, PageAssumption DEF UsedBytes
    <3> QED BY <2>1, <2>2, <3>1, PartsFit
  <2> QED BY <2>3, <2>4
<1> QED BY <1>1, SetUpInvariant, PTL

-----------------------------------------------------------------------------
(* How long a reset is waited for.                                         *)

\* What has been counted off the time-out has been slept, or is still to be.
Waited ==
  /\ pc = "poll" => elapsed >= Timeout[loop] - remaining
  /\ pc = "sleep" => \/ elapsed >= Timeout[loop]
                     \/ elapsed + waiting >= Timeout[loop] - remaining + Interval[loop]

LEMMA StepKeepsWaited ==
  ASSUME Interval["queue"] <= Interval["device"], TInv, TInv', Waited, Next
  PROVE  Waited'
<1> USE DEF Waited
<1>1. /\ remaining \in Nat /\ waiting \in Nat /\ elapsed \in Nat /\ loop \in Loops
      /\ elapsed <= Timeout[loop] /\ remaining <= Timeout[loop]
      /\ \A l \in Loops : Timeout[l] \in Nat /\ Interval[l] \in Nat
      /\ Interval["device"] >= Interval[loop]
  BY SetupConstants DEF TInv, TypeOK, Loops
<1>2. CASE pc' \notin {"poll", "sleep"}
  BY <1>2
<1>3. CASE ResetDevice
  BY <1>1, <1>3 DEF ResetDevice, StartLoop, Loops
<1>4. CASE PollDevice /\ pc' = "sleep"
  BY <1>1, <1>4 DEF PollDevice, Sleep, GoOn
<1>5. CASE \E left \in 0 .. waiting : Delay(left)
  <2>1. PICK left \in 0 .. waiting : Delay(left)
    BY <1>5
  <2>2. /\ left \in Nat /\ waiting - left \in Nat /\ loop' = loop /\ waiting' = left /\ pc = "sleep"
        /\ elapsed' = IF elapsed + (waiting - left) < Timeout[loop]
                      THEN elapsed + (waiting - left) ELSE Timeout[loop]
    BY <1>1, <2>1 DEF Delay, Slept
  <2>3. CASE left > 0
    <3>1. pc' = pc /\ remaining' = remaining
      BY <2>1, <2>3 DEF Delay
    <3> QED BY <1>1, <2>2, <3>1
  <2>4. CASE left = 0
    <3>1. pc' = "poll" /\ remaining' = remaining - (IF remaining < Interval[loop] THEN remaining
                                                     ELSE Interval[loop])
      BY <2>1, <2>4 DEF Delay, CountDown
    <3> QED BY <1>1, <2>2, <2>4, <3>1
  <2> QED BY <2>2, <2>3, <2>4
<1>6. CASE SetQueueReset /\ pc' = "sleep"
  <2>1. /\ loop' = "queue" /\ remaining' = Timeout["queue"] /\ elapsed' = 0
        /\ waiting' = Interval["device"]
    BY <1>6 DEF SetQueueReset, StartLoop, TestQueueReset, Sleep, Fail, GoOn
  <2> QED BY <1>1, <1>6, <2>1 DEF Loops
<1>7. CASE PollQueue /\ pc' = "sleep"
  <2>1. waiting' = Interval["device"] /\ UNCHANGED <<loop, remaining, elapsed>> /\ pc = "poll"
    BY <1>7 DEF PollQueue, TestQueueReset, Sleep, Fail, GoOn
  <2>2. elapsed >= Timeout[loop] - remaining /\ Timeout[loop] \in Nat /\ Interval[loop] \in Nat
    BY <1>1, <2>1
  <2>3. elapsed + Interval["device"] >= Timeout[loop] - remaining + Interval[loop]
    BY <1>1, <2>2 DEF Loops
  <2> QED BY <1>7, <2>1, <2>3
<1>8. CASE FinishReset \/ FinishQueueReset \/ \E bit \in Bits : GetStatus(bit)
  BY <1>8 DEF FinishReset, FinishQueueReset, GetStatus, timer, Bits
<1>9. CASE Crash \/ (PollDevice /\ pc' # "sleep")
  BY <1>9 DEF Crash, PollDevice, Sleep, GoOn
<1>10. CASE (SetQueueReset \/ PollQueue) /\ pc' # "sleep"
  BY <1>10 DEF SetQueueReset, PollQueue, TestQueueReset, Sleep, Fail, GoOn
<1>11. CASE Discover
  <2>1. pc \in Searching \cup {"free_vdev"} /\ pc' \in Searching \cup {"reset_device", "free_vdev", "returned"}
    BY <1>11 DEF Discover, GpioCalloc, VirtioInit, DetachPci, FreePriv, DestroyVdev, FreeVdev,
                 MmioCalloc, MmioMap, MmioProbe, PciCalloc, PciFind, PciAttach, ReadCap,
                 ReadMsixCap, MapBars, NoMsix, SetUpMsix, Fail, PciFails, Searching
  <2> QED BY <2>1 DEF Searching
<1>12. CASE \E bit \in Bits : SetStatus(bit)
  BY <1>12 DEF SetStatus, After, Bits
<1>13. CASE ReadConfig \/ ChooseSize \/ VirtqCreate \/ SetQueueSize \/ SetQueueAddr
            \/ CreateThread \/ SetQueueVector \/ EnableQueue \/ HandOver
  BY <1>13 DEF ReadConfig, ChooseSize, VirtqCreate, VirtqMade, VirtqCreateFails, SetQueueSize,
               SetQueueAddr, CreateThread, SetQueueVector, EnableQueue, HandOver, Fail
<1> QED BY <1>3, <1>4, <1>5, <1>6, <1>7, <1>8, <1>9, <1>10, <1>11, <1>12, <1>13 DEF Next, Driver

\* Neither loop gives its reset up before it has slept for its time-out.  The
\* hypothesis is what makes this so: both loops sleep the interval of the
\* device's reset, and the queue's counts its own (virtio_reset_device,
\* virtio_reset_queue; virtio.h has 10 ms for both).
THEOREM WaitsLongEnoughHolds ==
  ASSUME Interval["queue"] <= Interval["device"]
  PROVE  Spec => WaitsLongEnough
<1>1. Init => Waited
  BY DEF Init, DiscoveryInit, Waited
<1>2. TInv /\ TInv' /\ Waited /\ [Next]_vars => Waited'
  <2>1. ASSUME TInv, Waited, UNCHANGED vars PROVE Waited'
    BY <2>1 DEF Waited, vars, setupVars, timer
  <2> QED BY <2>1, StepKeepsWaited
<1>3. TInv /\ Waited /\ [Next]_vars =>
        [/\ pc = "poll" /\ pc' = "ACKNOWLEDGE" /\ dev.status # {}
              => elapsed >= Timeout["device"]
         /\ rc' # rc /\ rc' = "ETIMEDOUT" /\ pc = "poll"
              => elapsed >= Timeout["queue"]]_vars
  <2> SUFFICES ASSUME TInv, Waited, Next, pc = "poll",
                      \/ pc' = "ACKNOWLEDGE" /\ dev.status # {}
                      \/ rc' # rc /\ rc' = "ETIMEDOUT"
               PROVE  /\ pc' = "ACKNOWLEDGE" /\ dev.status # {} => elapsed >= Timeout["device"]
                      /\ rc' # rc /\ rc' = "ETIMEDOUT" => elapsed >= Timeout["queue"]
    OBVIOUS
  <2>1. PollDevice \/ PollQueue
    <3>1. ~Discover
      BY DEF Discover, GpioCalloc, VirtioInit, DetachPci, FreePriv, DestroyVdev, FreeVdev,
             MmioCalloc, MmioMap, MmioProbe, PciCalloc, PciFind, PciAttach, ReadCap,
             ReadMsixCap, MapBars, NoMsix, SetUpMsix
    <3>2. ~FinishReset /\ ~FinishQueueReset
      BY DEF FinishReset, FinishQueueReset
    <3>3. ~\E bit \in Bits : GetStatus(bit) \/ SetStatus(bit)
      BY DEF GetStatus, SetStatus, Bits
    <3> QED BY <3>1, <3>2, <3>3
            DEF Next, Driver, Crash, ResetDevice, Delay, ReadConfig, ChooseSize, VirtqCreate,
                SetQueueReset, SetQueueSize, SetQueueAddr, CreateThread, SetQueueVector,
                EnableQueue, HandOver
  <2>2. /\ remaining \in Nat /\ elapsed \in Nat /\ Timeout["device"] \in Nat
        /\ Timeout["queue"] \in Nat
    BY SetupConstants DEF TInv, TypeOK, Loops
  <2>3. remaining = 0
    BY <2>1, <2>2 DEF PollDevice, PollQueue, TestQueueReset, Sleep, GoOn, Fail
  <2>4. elapsed >= Timeout[loop]
    BY <2>2, <2>3, SetupConstants DEF Waited, TInv, TypeOK
  <2> QED BY <2>1, <2>4 DEF PollDevice, PollQueue, TestQueueReset, Sleep, GoOn, Fail
<1>4. IInv /\ TInv /\ [Next]_vars => TInv'
  BY TypesKept
<1> QED BY <1>1, <1>2, <1>3, <1>4, InitEstablishesTInv, InductiveInvariant, PTL
        DEF Spec, WaitsLongEnough
=============================================================================
