CONSTANTS
  Slots = 4
  Functions = 3
  ArraySize = 4
  U8 = 16
  Systems <- MCSystems
SPECIFICATION TreeSpec
INVARIANTS
  TypeOK
  InArray
  ListedInOrder
  FoundAsCounted
  TreeSound
PROPERTIES
  TreeEnds
