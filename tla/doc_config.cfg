SPECIFICATION Spec
CONSTANTS
  Page = 4096
  PciDevices <- MCPciDevices
  Timeout <- MCTimeout
  Interval <- MCInterval
  Options = {2}
  MaxSizes = {4}
  Transports = {"legacy", "mmio", "pci"}
  Slow = {}
  NoSize = NoSize
INVARIANT NamesSizeRead
CHECK_DEADLOCK FALSE
