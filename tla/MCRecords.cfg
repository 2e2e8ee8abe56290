\* 3 samples, 2 log lines and 2 history lines are kept: every list overflows
\* and the ring wraps with 7 operations counted.
SPECIFICATION MCSpec
CONSTANTS
  Op = {create, read}
  Other = {help}
  PerfLine = perf
  NoLine = none
  ReadLine = read
  NoSample = zero
  Sample = {create, read}
  PerfCap = 3
  PerfHistory = 3
  LogCap = 2
  HistoryCap = 2
  MaxOps = 7
INVARIANTS
  TotalsInStep
  PanelsInStep
  WalkShows
  SameOperations
PROPERTIES
  ListsAreRecent
  RingIsRecent
