SPECIFICATION PageSpec
CONSTANTS
  NaN = NaN
  NoName = NoName
  NoMark = NoMark
  Name <- MCName
  LongName = {}
  Char <- MCChar
  Text = {}
  Perm = {0}
  DefaultPerm = 0
  MaxDirect = 2
  DispMax = 4
  InodeSize = 1
  Word = 65536
  SizeArg = {12}
  BlockArg = {2}
  CutArg = {}
  MaxNumber = 2
  MaxLength = 3
  Gap = {" "}
  Mark <- MCMark
  ParseInt <- MCParseInt
  ParseMode <- MCParseMode
  Space = " "
  Quotes <- MCQuotes
  Line <- MCLine
  NewName <- MCNewName
  Typed <- MCTyped
  DialogSize = {6, 12}
  DialogBlock = {2}
  LeastSize = 4
  MaxTimers = 2
INVARIANTS
  PageTypeOK
  EditorSound
  NeverLockedOut
  TutorialInStep
PROPERTIES
  SaveStores
  ConfettiGoes
CHECK_DEADLOCK FALSE
