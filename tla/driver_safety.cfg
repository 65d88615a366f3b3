SPECIFICATION Spec
CONSTANTS
  Num = 4
  IdxMod = 4
  NoContext = NoContext
  Unmapped = Unmapped
  Zeroed = Zeroed
  NoRequest = NoRequest
  NoDesc = NoDesc
  NoReply = NoReply
  value1 = value1
  c1 = c1
  c2 = c2
  Clients = {c1, c2}
  Regs = {value1}
  Values = {0}
  Transports = {"mmio", "pci"}
  Faults = {"mmap", "spurious", "sem"}
VIEW ControlState
SYMMETRY Symmetry
INVARIANT TypeOK
INVARIANT DescriptorsConserved
INVARIANT ChainsInFlightOnce
INVARIANT ContextOutlivesRequest
INVARIANT GetsCompletedChain
INVARIANT NoLostInterrupt
INVARIANT NoLostKick
