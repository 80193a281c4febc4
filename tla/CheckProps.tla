----------------------------- MODULE CheckProps -----------------------------
(***************************************************************************)
(* What a run of Check must satisfy.                                       *)
(***************************************************************************)
EXTENDS Check, CheckResult

Done == pc = "done"

PCs == {"start", "rejected", "dns", "route", "tls", "versions", "ciphers",
        "close", "http", "head", "get", "settle", "report", "done"}

VersionResults == [version : Versions, supported : BOOLEAN]
CipherResults  == [version : ScanVersions, suite : Suites, supported : BOOLEAN]

\* Every field of the report and every loop position stays in its range.
TypeOK ==
  /\ [opt |-> opt, input |-> input, peer |-> peer] \in Scenarios
  /\ ctx \in {"background", "live", "done"}
  /\ pc \in PCs
  /\ dial \in {"idle", "dialed", "up", "failed"}
  /\ conns \in 0..2 /\ lost \in 0..MaxLost
  /\ ver \in Versions /\ idx \in 1..Len(SuiteList)
  /\ protocol \in {"", "HTTP", "TLS"}
  /\ tls \in [attempted : BOOLEAN, connected : BOOLEAN, version : Versions \cup {0}]
  /\ versions \subseteq VersionResults /\ ciphers \subseteq CipherResults
  /\ http \in [attempted : BOOLEAN, plaintext : BOOLEAN, reachable : BOOLEAN,
              checks : SUBSET HeaderChecks]
  /\ dns \in (SUBSET RecordTypes) \cup {NotAsked}
  /\ errors \subseteq {"tls", "http", "https"}
  /\ security.score \in 0..100

----------------------------------------------------------------------------
(* What the report says of the endpoint. *)

VersionTrue(v)   == Agree(peer.accepts, {v}, DefaultSuites)
CipherTrue(v, s) == Agree(peer.accepts, {v}, {s})

\* A version or suite the report calls supported is one the endpoint accepts,
\* whatever the network did while it was probed.
PositiveClaimsTrue ==
  /\ \A x \in versions : x.supported => VersionTrue(x.version)
  /\ \A x \in ciphers : x.supported => CipherTrue(x.version, x.suite)
  /\ tls.connected => \E s \in DefaultSuites : <<tls.version, s>> \in peer.accepts

\* A probe answers "not supported" against the truth only when an answer was
\* lost, the context ended, or the endpoint is slower than the cap of that scan.
NegativeClaimsExplained ==
  /\ \A x \in versions : ~x.supported /\ VersionTrue(x.version) =>
       lost > 0 \/ ctx = "done" \/ peer.delay >= ProbeTimeout(NormalizeTimeout(opt.timeout), VersionCap)
  /\ \A x \in ciphers : ~x.supported /\ CipherTrue(x.version, x.suite) =>
       lost > 0 \/ ctx = "done" \/ peer.delay >= ProbeTimeout(NormalizeTimeout(opt.timeout), CipherCap)

Scannable == {p \in ScanVersions \X Suites : CipherSuiteSupportsVersion(p[2], p[1])}

\* When a connected check is done, each scan the options ask for has one answer
\* per question: every version, and every suite at every version it exists for.
\* A failed probe never ends its loop, not even after the context ended.
ProbesComplete ==
  Done /\ tls.connected =>
    /\ ~opt.skipTLSProbe =>
         {x.version : x \in versions} = Versions /\ Cardinality(versions) = 4
    /\ ~opt.skipCiphers =>
         /\ {<<x.version, x.suite>> : x \in ciphers} = Scannable
         /\ Cardinality(ciphers) = Cardinality(Scannable)

Has(id, status) == \E f \in security.findings : f.id = id /\ f.status = status

Undisturbed == lost = 0 /\ ctx # "done" /\ peer.delay < CipherCap
                 /\ peer.delay < NormalizeTimeout(opt.timeout)

\* When no answer was lost and the endpoint is fast enough, the cipher findings
\* say exactly what the endpoint accepts: each fails iff some pair of version
\* and suite it accepts deserves it.
CipherAuditExact ==
  Done /\ tls.connected /\ ~opt.skipCiphers /\ Undisturbed =>
    LET taken == {p \in Scannable : CipherTrue(p[1], p[2])}
    IN  /\ Has("weak_ciphers", "fail") <=> \E p \in taken : Weak(p[2])
        /\ Has("weak_ciphers", "pass") <=> \A p \in taken : ~Weak(p[2])
        /\ Has("legacy_ciphers", "warn") <=>
             \E p \in taken : SuiteTraits[p[2]].cbc \/ Strength(p[1], p[2]) = "legacy"
        /\ Has("forward_secrecy", "pass") <=> \A p \in taken : SuiteTraits[p[2]].fs
        /\ Has("robot", "warn") <=> \E p \in taken : StaticRSA(p[2])
        /\ Has("robot", "pass") <=> \A p \in taken : ~StaticRSA(p[2])

----------------------------------------------------------------------------
(* Verdict and grade. *)

\* Whatever fails on the way, a TLS check that did not end in a verified
\* handshake is graded F.
FailClosed ==
  Done /\ tls.attempted /\ ~(tls.connected /\ verification.verified) => security.grade = "F"

\* When no answer was lost, a connected check has a critical failure for a reason
\* only: the certificate was not verified, or the endpoint accepts no modern
\* version.  Evidence of different stages never contradicts itself into an F.
CriticalExact ==
  Done /\ tls.connected /\ Undisturbed =>
    (CriticalFailure(security.findings) <=>
       \/ ~verification.verified
       \/ ~opt.skipTLSProbe /\ ~VersionTrue(12) /\ ~VersionTrue(13))

\* A verified certificate is the one served for the name Check sends as SNI, is
\* in its validity period, leads to a root of a source that could be read, and,
\* unless --no-hostname was given, covers the identity the options ask for.
VerifiedIdentity ==
  verification.verified =>
    /\ tls.connected
    /\ ~verification.expired /\ ~verification.notYetValid
    /\ \/ Leaf.anchor = "system" /\ opt.systemRoots
       \/ Leaf.anchor = "ca_file" /\ opt.caFile = "good"
       \/ Leaf.anchor = "ca_bundle" /\ opt.caBundle = "good"
    /\ ~opt.noHostname =>
         CASE opt.verifyName # NoName -> opt.verifyName \in Leaf.names
           [] opt.verifyName = NoName /\ opt.serverName # NoName -> opt.serverName \in Leaf.names
           [] OTHER -> input.host \in Leaf.names
    /\ verification.errors \subseteq {"roots"}

\* The CAs the options ask for, in the order loadRoots reads them.
Source(state, ca) ==
  CASE state = "none" -> <<>> [] state = "good" -> <<ca>> [] OTHER -> <<"lost">>

CAs == Source(opt.caFile, "ca_file") \o Source(opt.caBundle, "ca_bundle")

\* What the commands and their exit codes rest on (CheckResult): a target is
\* rejected exactly when it or the options are unusable, TLS is tried unless the
\* target is plain, and a verdict rests on no CA behind one that cannot be used.
PromiseKept ==
  /\ pc = "rejected" => ~Valid
  /\ Done => Valid /\ Promised(
       [attempted |-> tls.attempted, connected |-> tls.connected, verified |-> verification.verified],
       PlainRoute, Leaf.anchor, CAs)

----------------------------------------------------------------------------
(* The wire. *)

\* The main connection is held while the probes run, each probe opens one more,
\* and none outlives checkTLS: no path leaves a connection open.
ConnsBounded ==
  /\ conns <= 2
  /\ pc \in {"start", "rejected", "dns", "route", "settle", "http", "head", "get",
             "report", "done"} => conns = 0
  /\ pc = "tls" => conns <= 1

\* Check sends a request in the clear only for a target that says http://; a
\* failed handshake never downgrades a target.
NoPlaintextDowngrade == http.plaintext => input.form = "http"

\* The errors of a report are exactly those of the stages that failed: the TLS
\* stage when its handshake did not complete, the HTTP stage iff both requests
\* failed, nothing added twice or taken back on the way.  HTTP was asked at all
\* only where the options allow it and, over TLS, only after a handshake.
ErrorsExact ==
  Done =>
    LET failed == tls.attempted /\ ~tls.connected
    IN  /\ errors = When(failed, "tls") \cup When(failed /\ Target.scheme = "https", "https")
                      \cup When(http.attempted /\ ~http.reachable, "http")
        /\ http.attempted => ~opt.skipHTTP /\ (http.plaintext \/ tls.connected)

\* Nothing is sent once the caller's context has ended: no connection opens and
\* no request is answered.
NothingSentAfterContext ==
  [][ctx = "done" => conns' <= conns /\ (http'.reachable => http.reachable)]_vars

----------------------------------------------------------------------------
(* The end of a check. *)

\* What is left of a call of connectTLSConfig: its dial and its handshake.
CallLeft(call) == CASE call = "idle" -> 2 [] call = "dialed" -> 1 [] OTHER -> 0

\* The steps a check takes at most from a point on: three for each connection (dial,
\* handshake, record), one for each of the others.
Remaining(at, call, v, i) ==
  LET perVersion == 3 * Len(SuiteList)
  IN  CASE at \in {"done", "rejected"} -> 0
        [] at = "report"   -> 1
        [] at = "settle"   -> 2
        [] at = "get"      -> 3
        [] at = "head"     -> 4
        [] at = "http"     -> 5
        [] at = "close"    -> 6
        [] at = "ciphers"  -> 7 + (12 - v) * perVersion + 3 * (Len(SuiteList) - i) + CallLeft(call)
        [] at = "versions" -> 7 + 3 * perVersion + 3 * (13 - v) + CallLeft(call)
        [] at = "tls"      -> 19 + 3 * perVersion + CallLeft(call)
        [] at = "route"    -> 22 + 3 * perVersion
        [] at = "dns"      -> 23 + 3 * perVersion
        [] at = "start"    -> 24 + 3 * perVersion

StepsLeft == Remaining(pc, dial, ver, idx)

\* No check runs on: whatever the network answers, each of its steps leaves fewer
\* to take, and only the end of the caller's context leaves as many.  That a step is
\* always possible, so that a report comes, is part of Implements.
AlwaysAdvances == [][ctx' = ctx => StepsLeft' < StepsLeft]_vars

----------------------------------------------------------------------------
(* The abstract service this run implements. *)

VersionFacts == {<<"version", v>> : v \in Versions}
CipherFacts  == {<<"cipher", p[1], p[2]>> : p \in Scannable}

Agenda == (IF opt.skipTLSProbe THEN {} ELSE VersionFacts)
            \cup (IF opt.skipCiphers THEN {} ELSE CipherFacts)

Settled(supported) ==
  {<<"version", x.version>> : x \in {y \in versions : y.supported = supported}}
    \cup {<<"cipher", x.version, x.suite>> : x \in {y \in ciphers : y.supported = supported}}

Phase == CASE pc = "start"    -> "requested"
           [] pc = "rejected" -> "rejected"
           [] pc = "done"     -> "reported"
           [] OTHER           -> IF tls.connected THEN "asking" ELSE "running"

Service == INSTANCE CheckService WITH
  Facts   <- VersionFacts \cup CipherFacts,
  Grades  <- {"A+", "A", "B", "C", "D", "F"},
  phase   <- Phase,
  mode    <- IF pc \in {"start", "rejected"} THEN "" ELSE IF PlainRoute THEN "plain" ELSE "tls",
  truth   <- {<<"version", v>> : v \in {w \in Versions : VersionTrue(w)}}
               \cup {<<"cipher", p[1], p[2]>> : p \in {q \in Scannable : CipherTrue(q[1], q[2])}},
  todo    <- IF tls.connected THEN Agenda \ (Settled(TRUE) \cup Settled(FALSE)) ELSE {},
  claims  <- Settled(TRUE),
  denied  <- Settled(FALSE),
  trusted <- verification.verified,
  grade   <- security.grade

\* The run implements the service: facts are claimed only when true, every fact
\* of the agenda is settled exactly once before the report, an untrusted TLS
\* check is graded F, and a report comes.
Implements == Service!Spec
=============================================================================
