CONSTANTS
  FwCfgs <- McFwCfgs
  FirmwarePages <- McPages
  CmosSizes <- McCmosSizes
  MapEntries = 33
  Attempts = 2
  Months = {1, 19}
  Formats = {{1}}
  ExtraLines = {1, 8}
SPECIFICATION Spec
CHECK_DEADLOCK FALSE
INVARIANTS
  TypeOK
  StartupSafe
  FirmwareMapped
  MapSound
  TablesInBounds
  OpenLinesHandled
PROPERTIES
  BootEnds
  TickServed
