----------------------------- MODULE Discovery -----------------------------
(***************************************************************************)
(* Finding the device: virtio_mmio_init (src/src/virtio_mmio/              *)
(* virtio_mmio.c) and virtio_pci_init (src/src/virtio_pci/virtio_pci.c),   *)
(* with the parts of virtio_gpio_init and virtio_init around them.  Every  *)
(* call that can fail may fail.  DeviceSetup goes on where this ends.      *)
(***************************************************************************)
EXTENDS FiniteSets, Sequences, VirtqLayout

CONSTANTS
  Transports,  \* subset of {"legacy", "mmio", "pci"}; legacy is MMIO too
  PciDevices   \* PCI devices there may be: see IsPciDevice

\* The structures whose capabilities the driver uses, and the others it reads.
Structures == {"common", "notify", "device"}
CapTypes   == Structures \cup {"isr", "pci", "other"}
Bars       == 0 .. 5

\* A device has each structure, in a BAR that has a size.
IsPciDevice(d) ==
  /\ d \in [caps : Seq([type : CapTypes, bar : Bars]), bars : SUBSET Bars,
            msix : BOOLEAN]
  /\ \A s \in Structures : \E i \in DOMAIN d.caps : d.caps[i].type = s
  /\ \A i \in DOMAIN d.caps : d.caps[i].bar \in d.bars

ASSUME DiscoveryAssumption ==
  /\ Transports \subseteq {"legacy", "mmio", "pci"}
  /\ \A d \in PciDevices : IsPciDevice(d)

VARIABLES
  pc,         \* where virtio_gpio_init is
  rc,         \* what it returns
  heap,       \* what has been allocated or mapped, and freed
  transport,
  page,       \* the guest page size a legacy device has been told
  pci         \* the PCI device, and what virtio_pci_device knows of it

foundVars == <<transport, page, pci>>
discoveryVars == <<pc, rc, heap, foundVars>>

Objects == {"gpio", "vdev", "priv", "vq", "desc", "avail", "used",
            "extras", "free_descs"}

\* What each structure's pointer is made from: 0, or the last capability read.
NothingFound(d) ==
  [device |-> d, next |-> 1, caps |-> [s \in Structures |-> 0],
   msix |-> FALSE, mapped |-> {}, irq |-> {}, attached |-> FALSE]

DiscoveryInit ==
  /\ pc = "start" /\ rc = "EOK"
  /\ heap = [o \in Objects |-> "none"]
  /\ transport \in Transports
  /\ page = 0
  /\ pci \in {NothingFound(d) : d \in
       IF transport = "pci" THEN PciDevices
       ELSE {[caps |-> <<>>, bars |-> {}, msix |-> FALSE]}}

-----------------------------------------------------------------------------
(* Memory, and giving up.                                                  *)

Made(made) == heap' = [o \in Objects |-> IF o \in made THEN "live" ELSE heap[o]]

\* free of something that may have been freed before.
Free(o) == heap' = [heap EXCEPT ![o] = IF @ = "live" THEN "freed" ELSE "freed twice"]

Fail(code, next) == rc' = code /\ pc' = next

\* virtio_gpio_init allocates its device; returning without a word is all it
\* does on failure here and in VirtioInit.
GpioCalloc ==
  /\ pc = "start"
  /\ \/ Made({"gpio"}) /\ pc' = "virtio_init" /\ UNCHANGED rc
     \/ Fail("ENOMEM", "returned") /\ UNCHANGED heap
  /\ UNCHANGED foundVars

\* A failing pthread_spin_init leaves vdev allocated.
VirtioInit ==
  /\ pc = "virtio_init"
  /\ \/ /\ Made({"vdev"}) /\ UNCHANGED rc
        /\ pc' = IF transport = "pci" THEN "pci_calloc" ELSE "mmio_calloc"
     \/ Made({"vdev"}) /\ Fail("ENOMEM", "returned")
     \/ Fail("ENOMEM", "returned") /\ UNCHANGED heap
  /\ UNCHANGED foundVars

DetachPci ==
  /\ pc = "detach_pci"
  /\ pci' = [pci EXCEPT !.attached = FALSE]
  /\ pc' = "free_priv"
  /\ UNCHANGED <<rc, heap, transport, page>>

\* Both transports free their own structure, ...
FreePriv ==
  /\ pc = "free_priv"
  /\ Free("priv") /\ pc' = "destroy_vdev"
  /\ UNCHANGED <<rc, foundVars>>

\* ... destroy the device they were given, ...
DestroyVdev ==
  /\ pc = "destroy_vdev"
  /\ Free("vdev") /\ pc' = "free_vdev"
  /\ UNCHANGED <<rc, foundVars>>

\* ... and virtio_gpio_init destroys it again.
FreeVdev ==
  /\ pc = "free_vdev"
  /\ Free("vdev") /\ pc' = "returned"
  /\ UNCHANGED <<rc, foundVars>>

-----------------------------------------------------------------------------
(* MMIO.                                                                   *)

MmioCalloc ==
  /\ pc = "mmio_calloc"
  /\ \/ Made({"priv"}) /\ pc' = "mmio_map" /\ UNCHANGED rc
     \/ Fail("ENOMEM", "destroy_vdev") /\ UNCHANGED heap
  /\ UNCHANGED foundVars

MmioMap ==
  /\ pc = "mmio_map"
  /\ \/ pc' = "mmio_probe" /\ UNCHANGED rc
     \/ Fail("ENOMEM", "free_priv")
  /\ UNCHANGED <<heap, foundVars>>

\* Mutated form: the device is not told the page size.
MmioProbe_no_page ==
  /\ pc = "mmio_probe"
  /\ pc' = "reset_device"
  /\ UNCHANGED <<rc, heap, foundVars>>

\* The magic value and the type are right, or they are not.  A legacy device is
\* told the page size.
MmioProbe ==
  /\ pc = "mmio_probe"
  /\ \/ /\ page' = IF transport = "legacy" THEN Page ELSE page
        /\ pc' = "reset_device" /\ UNCHANGED rc
     \/ Fail("ENODEV", "free_priv") /\ UNCHANGED page
  /\ UNCHANGED <<heap, transport, pci>>

-----------------------------------------------------------------------------
(* PCI.                                                                    *)

PciCalloc ==
  /\ pc = "pci_calloc"
  /\ \/ Made({"priv"}) /\ pc' = "pci_find" /\ UNCHANGED rc
     \/ Fail("ENOMEM", "destroy_vdev") /\ UNCHANGED heap
  /\ UNCHANGED foundVars

PciFind ==
  /\ pc = "pci_find"
  /\ \/ pc' = "pci_attach" /\ UNCHANGED rc
     \/ Fail("ENODEV", "free_priv")
  /\ UNCHANGED <<heap, foundVars>>

PciAttach ==
  /\ pc = "pci_attach"
  /\ \/ /\ pci' = [pci EXCEPT !.attached = TRUE]
        /\ pc' = "pci_caps" /\ UNCHANGED rc
     \/ Fail("PCI_ERR", "free_priv") /\ UNCHANGED pci
  /\ UNCHANGED <<heap, transport, page>>

\* Mutated form: the device stays attached.
PciFails_attached == Fail("PCI_ERR", "free_priv")

\* From here on a failing call detaches the device.
PciFails == Fail("PCI_ERR", "detach_pci")

\* A capability of a structure replaces an earlier one.
ReadCap ==
  /\ pc = "pci_caps" /\ pci.next \in DOMAIN pci.device.caps
  /\ \/ LET type == pci.device.caps[pci.next].type IN
          /\ pci' = [pci EXCEPT
               !.caps = [s \in Structures |-> IF s = type THEN pci.next ELSE @[s]],
               !.next = @ + 1]
          /\ UNCHANGED <<pc, rc>>
     \/ PciFails /\ UNCHANGED pci
  /\ UNCHANGED <<heap, transport, page>>

ReadMsixCap ==
  /\ pc = "pci_caps" /\ pci.next \notin DOMAIN pci.device.caps
  /\ \/ /\ pci' = [pci EXCEPT !.msix = pci.device.msix]
        /\ pc' = "pci_bars" /\ UNCHANGED rc
     \/ pci.device.msix /\ PciFails /\ UNCHANGED pci
  /\ UNCHANGED <<heap, transport, page>>

\* Nobody looks at what mmap64 returns.
MapBars ==
  /\ pc = "pci_bars"
  /\ \/ /\ \E mapped \in SUBSET pci.device.bars : pci' = [pci EXCEPT !.mapped = mapped]
        /\ pc' = "pci_msix" /\ UNCHANGED rc
     \/ PciFails /\ UNCHANGED pci
  /\ UNCHANGED <<heap, transport, page>>

\* virtio_gpio_init asks for a vector; a table has at least one.
NoMsix ==
  /\ pc = "pci_msix" /\ ~pci.msix
  /\ Fail("EINVAL", "detach_pci")
  /\ UNCHANGED <<heap, foundVars>>

\* Mutated form: the entry stays masked.
IrqCalls_masked ==
  <<"set_nirq", "set_irq_entry", "cap_enable", "read_irq">>

IrqCalls ==
  <<"set_nirq", "set_irq_entry", "cap_enable", "read_irq", "unmask_irq_entry">>

SetUpMsix ==
  /\ pc = "pci_msix" /\ pci.msix
  /\ LET k == Cardinality(pci.irq) + 1 IN
       \/ /\ pci' = [pci EXCEPT !.irq = @ \cup {IrqCalls[k]}]
          /\ pc' = IF k = Len(IrqCalls) THEN "reset_device" ELSE pc
          /\ UNCHANGED rc
       \/ PciFails /\ UNCHANGED pci
  /\ UNCHANGED <<heap, transport, page>>

-----------------------------------------------------------------------------
Discover ==
  \/ GpioCalloc \/ VirtioInit \/ DetachPci \/ FreePriv \/ DestroyVdev \/ FreeVdev
  \/ MmioCalloc \/ MmioMap \/ MmioProbe
  \/ PciCalloc \/ PciFind \/ PciAttach \/ ReadCap \/ ReadMsixCap \/ MapBars
  \/ NoMsix \/ SetUpMsix

\* The structure's BAR has been mapped: its registers can be accessed.
Reachable(s) ==
  /\ pci.caps[s] # 0
  /\ pci.device.caps[pci.caps[s]].bar \in pci.mapped

Searching == {"start", "virtio_init", "mmio_calloc", "mmio_map", "mmio_probe",
              "pci_calloc", "pci_find", "pci_attach", "pci_caps", "pci_bars", "pci_msix",
              "detach_pci", "free_priv", "destroy_vdev"}

DiscoveryTypeOK ==
  /\ rc \in {"EOK", "ENOMEM", "ENODEV", "EINVAL", "PCI_ERR", "ETIMEDOUT"}
  /\ heap \in [Objects -> {"none", "live", "freed", "freed twice", "part freed"}]
  /\ transport \in Transports /\ page \in {0, Page}
  /\ pci.caps \in [Structures -> 0 .. Len(pci.device.caps)]
  /\ pci.next \in 1 .. Len(pci.device.caps) + 1
  /\ pci.mapped \subseteq pci.device.bars
  /\ \A i \in DOMAIN IrqCalls : IrqCalls[i] \in pci.irq =>
       \A j \in 1 .. i - 1 : IrqCalls[j] \in pci.irq
  /\ pci.msix \in BOOLEAN /\ pci.attached \in BOOLEAN
=============================================================================
