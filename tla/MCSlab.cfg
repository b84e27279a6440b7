CONSTANTS
  Regions <- MCRegions
  HeaderSize = 8
  U16 = 16
SPECIFICATION Spec
INVARIANTS
  TypeOK
  ObjectsInRegion
  BitmapMatchesHeld
PROPERTIES
  PoolSpec
