SPECIFICATION CrashSpec
CONSTANTS
  Name = {"", "a"}
  LongName = {}
  Clip <- MCNoClip
  Byte = {1, 2}
  Payload <- MCPayload
  Perm = {0, 6}
  DefaultPerm = 6
  BlockSize = 2
  MaxDirect = 2
  MaxInodes = 2
  DataStart = 2
  TotalBlocks = 4
  StatWrap = 1
  MaxCuts = 1
INVARIANT SpotCheck
