SPECIFICATION TwoSpec
CONSTANTS
  Name = {"", "a"}
  LongName = {}
  Clip <- MCNoClip
  Byte = {1}
  Payload <- MCPayload
  Perm = {0}
  DefaultPerm = 0
  BlockSize = 2
  MaxDirect = 1
  MaxInodes = 2
  DataStart = 2
  TotalBlocks = 4
  StatWrap = 1
INVARIANT NoSharedBlocks
