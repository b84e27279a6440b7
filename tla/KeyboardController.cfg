CONSTANTS
  InitialConfigs = {{0, 5, 6}, {2, 4}}
  Scancodes = {{2, 5}, {1, 2, 3, 4}, {0, 2, 4, 6}}
SPECIFICATION Spec
INVARIANTS
  TypeOK
  ConfigAsReported
  DataHasPurpose
PROPERTIES
  A20Follows
  CallsReturn
