CONSTANTS
  Bases = 2
  Polls = 2
  FunctionLists <- McFunctionLists
  DriveLists <- McDriveLists
SPECIFICATION Spec
CHECK_DEADLOCK FALSE
INVARIANTS
  TypeOK
  AnsweredByDriveZero
  DrivesKept
PROPERTY
  InitReturns
