CONSTANTS
  Values <- CertificateValues
SPECIFICATION SctSpec
INVARIANT EmbeddedSctsObserved
