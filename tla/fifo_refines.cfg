SPECIFICATION Spec
CONSTANTS
  Threads = {t1, t2, t3}
  Elems = {e1, e2}
  Capacity = 3
  NoElem = NoElem
SYMMETRY Symmetry
INVARIANT TypeOK
INVARIANT MutualExclusion
INVARIANT RingShape
PROPERTY ImplementsBoundedFifo
