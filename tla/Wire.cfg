CONSTANTS
  Messages <- MCMessages
  Values <- ListValues
SPECIFICATION BothSpec
INVARIANTS
  TypeOK
  IndexInside
  WorkBounded
  ParseExact
  SctsInside
  SctCountExact
PROPERTIES
  Finishes
  SctFinishes
