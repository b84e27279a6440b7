CONSTANTS
  HDR = 32
  Base = 192
  HeapStartSize = 2
  HeapSize = 384
  PT = 67
  PTA = 99
  PTD = 131
  NullSize = 67
  RootEntry = 3
  Huge = 100000
  MallocSizes = {8, 40, 136}
  ReallocSizes = {32, 64, 128, 160}
SPECIFICATION LastCallSpec
INVARIANTS
  NullNeverHanded
  HeadersApart
PROPERTIES
  LastCallEnds
