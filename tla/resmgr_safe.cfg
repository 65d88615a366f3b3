SPECIFICATION FairSpec
CONSTANTS
  l1 = l1
  o1 = o1
  o2 = o2
  Lines = {l1}
  Chip = Chip
  Opens = {o1, o2}
  Counts = {0, 1, 2}
  Seeks = {0, 2}
  SizeMod = 4
  Handler = Handler
  NoFile = NoFile
INVARIANT TypeOK
PROPERTY ReadsLineValue
PROPERTY ReadsWithinFile
PROPERTY EveryMessageAnswered
CHECK_DEADLOCK FALSE
