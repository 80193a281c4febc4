CONSTANTS
  aes13 = aes13
  gcm = gcm
  cbc = cbc
  rsa = rsa
  Suites <- MCSuites
  SuiteList <- MCSuiteList
  SuiteTraits <- MCSuiteTraits
  Names <- MCNames
  NoName = ""
  NoRoot = "none"
  Scenarios <- SafetyScenarios
  Contexts = {"background", "live"}
  MaxLost = 2
SPECIFICATION Spec
INVARIANTS
  TypeOK
  PositiveClaimsTrue
  NegativeClaimsExplained
  ProbesComplete
  CipherAuditExact
  ConnsBounded
  FailClosed
  VerifiedIdentity
  ErrorsExact
  CriticalExact
  NoPlaintextDowngrade
  PromiseKept
PROPERTIES
  NothingSentAfterContext
