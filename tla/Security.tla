------------------------------ MODULE Security ------------------------------
(***************************************************************************)
(* AnalyzeSecurity (internal/checker/security.go): the findings drawn from *)
(* the evidence a check collected, and the score, grade and summary drawn  *)
(* from the findings.  Pure operators; Evidence is the part of Result that *)
(* AnalyzeSecurity reads:                                                  *)
(*   plainHTTP   Protocol is "HTTP" and HTTP.Plaintext                     *)
(*   attempted, connected           of TLS                                 *)
(*   verdict     Verification       leaf  the leaf, when there is one      *)
(*   warnings    as in Verify       headers  HTTP.SecurityHeaders          *)
(*   versions    set of [version, supported]                               *)
(*   ciphers     set of [version, suite, supported]                        *)
(*   dns         set of the record types found, or NotAsked                *)
(***************************************************************************)
EXTENDS TlsSuites, Verify

NotAsked == {"not_asked"}    \* DNS.Attempted is FALSE, or the target is an IP

Severities == {"critical", "high", "medium", "low", "info"}
Statuses   == {"pass", "fail", "warn", "info", "not_tested"}

\* nth, a <<word, number>> pair, tells apart the findings a loop adds under one id.
Nth(id, severity, status, nth) ==
  [id |-> id, severity |-> severity, status |-> status, nth |-> nth]

Finding(id, severity, status) == Nth(id, severity, status, <<"", 0>>)

Either(condition, yes, no) == {IF condition THEN yes ELSE no}

----------------------------------------------------------------------------
(* Findings. *)

TransportFindings(r) ==
  When(r.plainHTTP, Finding("plain_http", "high", "fail"))
    \cup When(r.attempted /\ ~r.connected, Finding("tls_handshake", "critical", "fail"))
    \cup When(r.connected, Finding("tls_compression", "info", "pass"))

TrustFindings(v) ==
  IF ~v.checked THEN {}
  ELSE Either(v.verified, Finding("certificate_trust", "info", "pass"),
                          Finding("certificate_trust", "critical", "fail"))
         \cup When(v.expired, Finding("certificate_expired", "critical", "fail"))
         \cup When(v.notYetValid, Finding("certificate_not_yet_valid", "high", "fail"))
         \cup When(v.selfSigned, Finding("self_signed_leaf", "high", "fail"))
         \cup When(v.hostnameChecked /\ ~v.hostnameVerified,
                   Finding("hostname_mismatch", "critical", "fail"))

\* int64(hours / 24): the division drops the fraction towards zero.
DaysRemaining(left) == IF left >= 0 THEN left \div 24 ELSE -((-left) \div 24)

LeafFindings(leaf) ==
  LET days == DaysRemaining(leaf.left)
  IN  When(days \in 0..14, Finding("expires_soon", "high", "warn"))
        \cup When(days \in 15..30, Finding("expires_soon", "medium", "warn"))
        \cup {Finding(f, "high", "fail") : f \in leaf.flaws \cap {"weak_signature", "weak_key"}}
        \cup {Finding(f, "medium", "warn") :
                f \in leaf.flaws \cap {"revocation_info", "certificate_transparency"}}

ChainFindings(warnings) ==
  {Nth("chain_installation", "medium", "warn", <<w.kind, w.at>>) :
     w \in {x \in warnings : x.kind \in ChainKinds}}

VersionSupported(r, v) == \E x \in r.versions : x.version = v /\ x.supported

\* A plausible bug: an endpoint without TLS 1.3 counts as one without modern TLS.
ProtocolFindingsBug(r) ==
  When(VersionSupported(r, 10), Finding("tls10", "high", "fail"))
    \cup When(VersionSupported(r, 11), Finding("tls11", "medium", "fail"))
    \cup When(r.versions # {} /\ ~VersionSupported(r, 13),
              Finding("modern_tls_missing", "critical", "fail"))

ProtocolFindings(r) ==
  When(VersionSupported(r, 10), Finding("tls10", "high", "fail"))
    \cup When(VersionSupported(r, 11), Finding("tls11", "medium", "fail"))
    \cup When(r.versions # {} /\ ~VersionSupported(r, 12) /\ ~VersionSupported(r, 13),
              Finding("modern_tls_missing", "critical", "fail"))
    \cup When(r.versions # {},
              Finding("tls13", "info", IF VersionSupported(r, 13) THEN "pass" ELSE "info"))

\* A plausible bug: refused suites are counted too.
AcceptedBug(r) == r.ciphers

Accepted(r) == {x \in r.ciphers : x.supported}

CipherFindings(r) ==
  IF r.ciphers = {} THEN {Finding("cipher_scan", "info", "not_tested")}
  ELSE Either(\E x \in Accepted(r) : Weak(x.suite),
              Finding("weak_ciphers", "high", "fail"), Finding("weak_ciphers", "info", "pass"))
         \cup When(\E x \in Accepted(r) :
                      Strength(x.version, x.suite) = "legacy" \/ SuiteTraits[x.suite].cbc,
                   Finding("legacy_ciphers", "medium", "warn"))
         \cup Either(\E x \in Accepted(r) : ~SuiteTraits[x.suite].fs,
                     Finding("forward_secrecy", "medium", "warn"),
                     Finding("forward_secrecy", "info", "pass"))

HeaderFindings(headers) ==
  {Nth("http_header", IF h.status = "fail" THEN "high" ELSE "medium", h.status, <<h.name, 0>>) :
     h \in {x \in headers : x.status \in {"fail", "warn"}}}

DNSFindings(dns) ==
  IF dns = NotAsked THEN {}
  ELSE Either("caa" \in dns, Finding("caa_present", "info", "pass"),
                             Finding("caa_missing", "info", "info"))
         \cup When(dns \cap {"a", "aaaa"} = {}, Finding("dns_address_missing", "high", "fail"))

Beast(r) == VersionSupported(r, 10)
              /\ \E x \in Accepted(r) : x.version = 10 /\ SuiteTraits[x.suite].cbc

VulnerabilityFindings(r) ==
  When(Beast(r), Finding("beast", "medium", "warn"))
    \cup When(~Beast(r) /\ r.versions # {}, Finding("beast", "info", "pass"))
    \cup When(\E x \in Accepted(r) : StaticRSA(x.suite), Finding("robot", "medium", "warn"))
    \cup When(r.ciphers # {} /\ ~\E x \in Accepted(r) : StaticRSA(x.suite),
              Finding("robot", "info", "pass"))
    \cup {Finding(id, "info", "not_tested") : id \in {"poodle", "heartbleed", "ticketbleed"}}

Findings(r) ==
  TransportFindings(r) \cup TrustFindings(r.verdict)
    \cup (IF r.connected THEN LeafFindings(r.leaf) ELSE {})
    \cup ChainFindings(r.warnings) \cup ProtocolFindings(r) \cup CipherFindings(r)
    \cup HeaderFindings(r.headers) \cup DNSFindings(r.dns) \cup VulnerabilityFindings(r)

----------------------------------------------------------------------------
(* Score, grade and summary. *)

Counted(findings, severity) ==
  {f \in findings : f.status \in {"fail", "warn"} /\ f.severity = severity}

Penalty(findings) ==
  40 * Cardinality(Counted(findings, "critical"))
    + 25 * Cardinality(Counted(findings, "high"))
    + 10 * Cardinality(Counted(findings, "medium"))
    + 5 * Cardinality(Counted(findings, "low"))

\* A plausible bug: the score is not stopped at 0.
ScoreFindingsBug(findings) == 100 - Penalty(findings)

ScoreFindings(findings) ==
  IF Penalty(findings) > 100 THEN 0 ELSE 100 - Penalty(findings)

CriticalFailure(findings) ==
  \E f \in findings : f.status = "fail" /\ f.severity = "critical"

\* A plausible bug: the grade is drawn from the score alone.
GradeScoreBug(score, findings) ==
  IF score >= 90 THEN "A" ELSE IF score >= 80 THEN "B" ELSE IF score >= 60 THEN "D" ELSE "F"

GradeScore(score, findings) ==
  IF CriticalFailure(findings) THEN "F"
  ELSE IF score >= 95 THEN "A+"
  ELSE IF score >= 90 THEN "A"
  ELSE IF score >= 80 THEN "B"
  ELSE IF score >= 70 THEN "C"
  ELSE IF score >= 60 THEN "D"
  ELSE "F"

SummaryForScore(score, findings) ==
  IF \E f \in findings : f.status = "fail" THEN "failures"
  ELSE IF \E f \in findings : f.status = "warn" THEN "warnings"
  ELSE IF score >= 90 THEN "no_major_issues"
  ELSE "completed"

AnalyzeSecurity(r) ==
  LET findings == Findings(r)
      score    == ScoreFindings(findings)
  IN  [findings |-> findings, score |-> score,
       grade    |-> GradeScore(score, findings),
       summary  |-> SummaryForScore(score, findings)]
=============================================================================
