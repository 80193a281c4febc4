----------------------------- MODULE CheckDocs -----------------------------
(***************************************************************************)
(* What the documentation, the comments and the report's own words say of  *)
(* a check, stated as properties the code does not have.  Each is refuted  *)
(* by a run of its own; README.md tells the counterexamples.               *)
(***************************************************************************)
EXTENDS CheckProps

\* docs/USAGE.md:46: `warnings` holds the operational warnings.  A warning once
\* given should still be in the report; a DNS warning is replaced at the handshake.
WarningsKept == [][warnings \subseteq warnings']_vars

\* docs/CHECKER_PARITY.md:25: no safety is claimed for a check that could not be
\* performed.  A scan whose probes all timed out still passes weak_ciphers.
NoSafetyWithoutAnswer ==
  Has("weak_ciphers", "pass") =>
    \A p \in Scannable : CipherTrue(p[1], p[2]) => ~Weak(p[2])

\* docs/FEATURE_COVERAGE.md:28: BEAST is reported from TLS 1.0 CBC support.  The
\* inventory may hold an accepted TLS 1.0 CBC suite while beast passes.
BeastFromInventory ==
  Has("beast", "pass") =>
    ~\E x \in ciphers : x.supported /\ x.version = 10 /\ SuiteTraits[x.suite].cbc

\* docs/CHECKER_PARITY.md:46: plain HTTP is detected.  With --skip-http the
\* plain_http finding is missing and the grade is A+.
PlainHttpReported == Done /\ protocol = "HTTP" => Has("plain_http", "fail")
=============================================================================
