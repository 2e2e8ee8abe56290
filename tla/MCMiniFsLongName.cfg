SPECIFICATION Spec
CONSTANTS
  Name = {"", "a"}
  LongName = {"long"}
  Clip <- MCClip
  Byte = {1}
  Payload <- MCPayloadPlain
  Perm = {0, 6}
  DefaultPerm = 6
  BlockSize = 2
  MaxDirect = 2
  MaxInodes = 2
  DataStart = 2
  TotalBlocks = 5
  StatWrap = 1
INVARIANT
  NamesUnique
