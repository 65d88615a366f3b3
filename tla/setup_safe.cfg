SPECIFICATION FairSpec
CONSTANTS
  Page = 4096
  PciDevices <- MCPciDevices
  Timeout <- MCTimeout
  Interval <- MCInterval
  Options <- MCOptions
  MaxSizes = {0, 4, 256, 1024}
  Transports = {"legacy", "mmio", "pci"}
  Slow = {"device", "queue"}
  NoSize = NoSize
INVARIANT TypeOK
INVARIANT SetUpInOrder
INVARIANT NothingFreedInUse
INVARIANT DeviceStaysInRings
INVARIANT PciHeldWhileUsed
INVARIANT CompletionsAnnounced
INVARIANT ConfigurationRead
PROPERTY WaitsLongEnough
PROPERTY InitReturns
CHECK_DEADLOCK FALSE
