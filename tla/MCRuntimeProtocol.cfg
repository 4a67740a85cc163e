SPECIFICATION FairSpec
CONSTANTS
  Size = {1, 2, 3}
  MaxCommandLine = 2
  MaxEventLine = 2
  LineLimit = 1
  OutRoom = 2
  ErrRoom = 1
  MaxEvents = 4
INVARIANTS TypeOK FailureIsTold
PROPERTIES ImplementsChannel ReaderKeepsUp
CHECK_DEADLOCK FALSE
