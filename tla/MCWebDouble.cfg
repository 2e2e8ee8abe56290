SPECIFICATION Spec
CONSTANTS
  x = x
  y = y
  NaN = NaN
  Name = {a, b}
  LongName = {l}
  Char = {x, y}
  Text <- MCPlain
  Perm = {p}
  DefaultPerm = p
  MaxDirect = 2
  DispMax = 4
  InodeSize = 1
  Word = 65536
  SizeArg = {12}
  BlockArg = {2}
  CutArg <- MCCutArg
  MaxNumber = 3
  MaxLength = 3
INVARIANT
  NoDoubleAllocation
CHECK_DEADLOCK FALSE
