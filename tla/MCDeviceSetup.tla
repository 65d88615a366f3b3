-------------------------- MODULE MCDeviceSetup --------------------------
(* Small instances of DeviceSetup for TLC: the time-out is not a multiple  *)
(* of the interval, and a delay can be cut short.                          *)
EXTENDS DeviceSetup

MCTimeout  == [l \in Loops |-> IF l = "device" THEN 5 ELSE 3]
MCInterval == [l \in Loops |-> 2]

\* 65538 is 2 and 65536 is 0 as a uint16_t; 511 and 512 are on either side of
\* what fits in a legacy queue.
MCOptions == {0, 8, 300, 511, 512, 1025, 65538, 65536}

Cap(type, bar) == [type |-> type, bar |-> bar]

\* A device as QEMU's, one that offers a structure in two places, and one
\* without MSI-X.
MCPciDevices ==
  LET qemu == <<Cap("common", 4), Cap("isr", 4), Cap("device", 4), Cap("notify", 4), Cap("pci", 4)>>
  IN {[caps |-> qemu, bars |-> {1, 4}, msix |-> TRUE],
      [caps |-> <<Cap("common", 0), Cap("common", 4), Cap("notify", 0), Cap("device", 0)>>,
       bars |-> {0, 4}, msix |-> TRUE],
      [caps |-> qemu, bars |-> {4}, msix |-> FALSE]}
=============================================================================
