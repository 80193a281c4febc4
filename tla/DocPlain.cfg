CONSTANTS
  aes13 = aes13
  gcm = gcm
  cbc = cbc
  rsa = rsa
  Suites <- MCSuites
  SuiteList <- MCSuiteList
  SuiteTraits <- MCSuiteTraits
  Names <- MCNames
  NoName = ""
  NoRoot = "none"
  Scenarios <- VerdictScenarios
  Contexts = {"background"}
  MaxLost = 0
SPECIFICATION Spec
INVARIANTS
  PlainHttpReported
