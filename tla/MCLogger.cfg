SPECIFICATION Spec
CONSTANTS
  MaxLogs = 2
  MaxMessages = 5
  MaxSpurious = 2
INVARIANTS
  TypeOK
  RingInStep
  FileInOrder
  NothingLeft
PROPERTIES
  ImplementsLogQueue
  CallsReturn
