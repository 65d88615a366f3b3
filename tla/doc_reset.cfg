SPECIFICATION Spec
CONSTANTS
  Page = 4096
  PciDevices <- MCPciDevices
  Timeout <- MCTimeout
  Interval <- MCInterval
  Options = {2}
  MaxSizes = {4}
  Transports = {"legacy", "mmio", "pci"}
  Slow = {"device"}
  NoSize = NoSize
INVARIANT ReturnsReadyDevice
CHECK_DEADLOCK FALSE
