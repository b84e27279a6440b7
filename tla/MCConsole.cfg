CONSTANTS
  Programs <- McPrograms
  IirValues = {1, 193}
  Polls = 2
SPECIFICATION Spec
CHECK_DEADLOCK FALSE
INVARIANTS
  LineIsMessage
  StrayMissesDrivers
PROPERTY
  MessageSent
