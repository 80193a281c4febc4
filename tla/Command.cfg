CONSTANTS
  Scenarios <- MCScenarios
  Issuer <- MCIssuer
SPECIFICATION Spec
INVARIANTS
  TypeOK
  TargetsUnderstood
  GateSound
  ExitJustified
  AllOrNothing
  NothingHidden
  OwnCluster
