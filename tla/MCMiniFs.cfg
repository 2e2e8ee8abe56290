SPECIFICATION Spec
CONSTANTS
  Name = {"", a, b}
  LongName = {}
  Clip <- MCNoClip
  Byte = {1, 2}
  Payload <- MCPayload
  Perm = {0, 6}
  DefaultPerm = 6
  BlockSize = 2
  MaxDirect = 2
  MaxInodes = 2
  DataStart = 1
  TotalBlocks = 4
  StatWrap = 1
INVARIANTS
  NamesUnique
  NoLeak
  FsckClean
PROPERTY
  ImplementsFileStore
SYMMETRY Alike
