SPECIFICATION Spec
CONSTANTS
  x = x
  y = y
  NaN = NaN
  Name = {a, b}
  LongName = {l}
  Char = {x, y}
  Text <- MCText
  Perm = {p, q}
  DefaultPerm = p
  MaxDirect = 2
  DispMax = 4
  InodeSize = 1
  Word = 65536
  SizeArg <- MCSizeArg
  BlockArg <- MCBlockArg
  CutArg <- MCCutArg
  MaxNumber = 3
  MaxLength = 3
INVARIANTS
  TypeOK
  CountsAgree
  PointersInRange
  NamesUnique
  EnoughBlocks
  MapCounts
PROPERTY
  ImplementsFileStore
CHECK_DEADLOCK FALSE
SYMMETRY Alike
