SPECIFICATION Spec
CONSTANTS
  q0 = q0
  q1 = q1
  t1 = t1
  t2 = t2
  Queues <- MCQueues
  Threads <- MCThreads
  Bits = {0, 2}
  MaxSize = 4
  Sizes = {2}
  Transports = {"mmio", "pci"}
  Mixes <- MCMixes
  NoCall = NoCall
  Nobody = Nobody
INVARIANT TypeOK
INVARIANT SelectsOwnQueue
INVARIANT RingsOfOwnQueue
PROPERTY ImplementsDeviceCalls
