SPECIFICATION Spec
CONSTANTS
  Num = 4
  IdxMod = 8
  NoContext = NoContext
  Unmapped = Unmapped
  Zeroed = Zeroed
  NoRequest = NoRequest
  NoDesc = NoDesc
  NoReply = NoReply
  value1 = value1
  c1 = c1
  c2 = c2
  Clients = {c1}
  Regs = {value1}
  Values = {0}
  Transports = {"mmio", "pci"}
  Faults = {"reorder"}
INVARIANT DeliversCompletedChain
CHECK_DEADLOCK FALSE
