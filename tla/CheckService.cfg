CONSTANTS
  aes13 = aes13
  gcm = gcm
  cbc = cbc
  rsa = rsa
  Suites <- MCSuites
  SuiteList <- MCSuiteList
  SuiteTraits <- MCSuiteTraits
  Names <- MCNames
  NoName = ""
  NoRoot = "none"
  Scenarios <- ServiceScenarios
  Contexts = {"background", "live"}
  MaxLost = 1
SPECIFICATION Spec
PROPERTIES
  Implements
  AlwaysAdvances
