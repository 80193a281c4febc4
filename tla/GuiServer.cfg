CONSTANTS
  Calls = {c1, c2}
  Bodies <- MCBodies
  Timeouts <- MCTimeouts
  Suites = 1
  Half = 64
SPECIFICATION Spec
INVARIANTS
  TypeOK
  OwnTimeout
  AnsweredInTime
  CutExplained
PROPERTIES
  EveryCallAnswered
