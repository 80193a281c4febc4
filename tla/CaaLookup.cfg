CONSTANTS
  Servers <- MCServers
  Fallback <- MCFallback
  Records <- MCRecords
  Lookups <- MCLookups
  MaxSpoiled = 2
SPECIFICATION Spec
INVARIANTS
  TypeOK
  ParentHasExcuse
  MissingHasExcuse
PROPERTIES
  WalkAdvances
  Implements
