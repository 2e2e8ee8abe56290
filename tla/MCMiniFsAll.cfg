SPECIFICATION Spec
CONSTANTS
  Name = {"", "a"}
  LongName = {"long"}
  Clip <- MCClip
  Byte = {1}
  Payload <- MCPayloadEmpty
  Perm = {0}
  DefaultPerm = 0
  BlockSize = 2
  MaxDirect = 2
  MaxInodes = 2
  DataStart = 2
  TotalBlocks = 5
  StatWrap = 2
INVARIANTS
  TypeOK
  Durable
  NoSharedBlocks
  MetadataMarked
  CountsAgree
