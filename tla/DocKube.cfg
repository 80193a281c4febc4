CONSTANTS
  Scenarios <- MCScenarios
  Issuer <- MCIssuer
SPECIFICATION Spec
INVARIANT ExpiredMeansTwo
