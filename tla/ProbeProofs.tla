----------------------------- MODULE ProbeProofs -----------------------------
(***************************************************************************)
(* What the loops of probeTLSVersions and probeTLSCiphers have collected   *)
(* when they end, whatever failed on the way, and what the audit of the    *)
(* suites is worth then.                                                   *)
(***************************************************************************)
EXTENDS CheckProofs

Past(p) == p \in {"ciphers", "close", "http", "head", "get", "settle", "report", "done"}

\* The loops run after a handshake only, each where the options ask for it.
LoopInv ==
  /\ pc \in {"versions", "ciphers", "close"} => tls.connected
  /\ pc = "versions" => ~opt.skipTLSProbe
  /\ pc = "ciphers" => ~opt.skipCiphers
  /\ tls.connected => pc = "versions" \/ Past(pc)

\* The questions that have been asked, and that they have one answer each.
VersionsDue ==
  CASE pc = "versions" -> {v \in Versions : v < ver}
    [] pc # "versions" /\ tls.connected /\ ~opt.skipTLSProbe -> Versions
    [] OTHER -> {}

Tried(n) == {SuiteList[i] : i \in 1..n}

Behind == {p \in Scannable : p[1] < ver \/ (p[1] = ver /\ p[2] \in Tried(idx - 1))}

CiphersDue ==
  CASE pc = "ciphers" -> Behind
    [] pc \notin {"versions", "ciphers"} /\ tls.connected /\ ~opt.skipCiphers -> Scannable
    [] OTHER -> {}

VersionsInv ==
  /\ {x.version : x \in versions} = VersionsDue
  /\ \A x, y \in versions : x.version = y.version => x = y

CiphersInv ==
  /\ {<<x.version, x.suite>> : x \in ciphers} = CiphersDue
  /\ \A x, y \in ciphers : x.version = y.version /\ x.suite = y.suite => x = y

ProbeInv == LoopInv /\ VersionsInv /\ CiphersInv

----------------------------------------------------------------------------
(* Steps that ask nothing. *)

Asks == RecordVersion \/ RecordCipher \/ SkipSuite \/ MainConnected

\* Every other step leaves the answers, the connection and the loops alone.
LEMMA QuietSteps ==
  ASSUME Typed, LoopInv, [Next]_vars, ~Asks
  PROVE  /\ UNCHANGED <<versions, ciphers, ver, idx, opt, tls.connected>>
         /\ \/ pc' = pc
            \/ /\ pc \notin {"versions", "ciphers"} /\ pc' \notin {"versions", "ciphers"}
               /\ Past(pc) => Past(pc')
  <1> USE DEF chosen, net, scan, report, Asks, Past
  <1>0. tls \in [attempted : BOOLEAN, connected : BOOLEAN, version : Versions \cup {0}]
    BY DEF Typed, ReportType
  <1>1. CASE Start
    BY <1>1 DEF Start
  <1>2. CASE CheckDNS
    BY <1>2 DEF CheckDNS
  <1>3. CASE Route
    BY <1>0, <1>3 DEF Route
  <1>4. CASE Dial
    BY <1>4 DEF Dial
  <1>5. CASE Handshake
    BY <1>5 DEF Handshake
  <1>7. CASE MainFailed
    BY <1>7 DEF MainFailed
  <1>11. CASE Close
    BY <1>11 DEF Close
  <1>12. CASE BeginHTTP
    BY <1>12 DEF BeginHTTP
  <1>13. CASE HeadRequest
    BY <1>13 DEF HeadRequest, Fails, HttpAnswered, HttpFailed, AfterHTTP
  <1>14. CASE GetRequest
    BY <1>14 DEF GetRequest, Fails, HttpAnswered, HttpFailed, AfterHTTP
  <1>15. CASE Settle
    BY <1>15 DEF Settle
  <1>16. CASE Report
    BY <1>16 DEF Report
  <1>17. CASE EndContext
    BY <1>17 DEF EndContext
  <1>18. CASE UNCHANGED vars
    BY <1>18 DEF vars
  <1> QED BY <1>1, <1>2, <1>3, <1>4, <1>5, <1>7, <1>11, <1>12, <1>13, <1>14, <1>15, <1>16, <1>17, <1>18, Steps

LEMMA QuietInv ==
  ASSUME Typed, ProbeInv, [Next]_vars, ~Asks
  PROVE  ProbeInv'
  <1>1. /\ UNCHANGED <<versions, ciphers, ver, idx, opt, tls.connected>>
        /\ \/ pc' = pc
           \/ /\ pc \notin {"versions", "ciphers"} /\ pc' \notin {"versions", "ciphers"}
              /\ Past(pc) => Past(pc')
    BY QuietSteps DEF ProbeInv
  <1>2. pc' = "close" => pc = "close"
    BY Steps DEF Asks, chosen, Start, CheckDNS, Route, Dial, Handshake, MainFailed, Close,
       BeginHTTP, HeadRequest, GetRequest, Settle, Report, EndContext, vars, HttpAnswered,
       HttpFailed, AfterHTTP
  <1>3. VersionsDue' = VersionsDue
    BY <1>1 DEF VersionsDue
  <1>4. CiphersDue' = CiphersDue
    BY <1>1 DEF CiphersDue, Behind
  <1>5. LoopInv'
    BY <1>1, <1>2 DEF ProbeInv, LoopInv, Past
  <1> QED BY <1>1, <1>3, <1>4, <1>5 DEF ProbeInv, VersionsInv, CiphersInv

----------------------------------------------------------------------------
(* The handshake that starts the loops. *)

LEMMA StartInv ==
  ASSUME Typed, ProbeInv, MainConnected
  PROVE  ProbeInv'
  <1>1. /\ UNCHANGED <<versions, ciphers, ver, idx, opt>> /\ tls'.connected
        /\ pc = "tls" /\ pc' = IF opt.skipTLSProbe THEN AfterVersions ELSE "versions"
        /\ ver = 10 /\ idx = 1 /\ ~tls.connected
    <2>1. tls \in [attempted : BOOLEAN, connected : BOOLEAN, version : Versions \cup {0}]
      BY DEF Typed, ReportType
    <2> QED BY <2>1 DEF MainConnected, chosen, scan, Typed, CtlType, ConnectedInv
  <1>2. VersionsDue = {} /\ CiphersDue = {}
    BY <1>1 DEF VersionsDue, CiphersDue
  <1>3. VersionsDue' = {}
    BY <1>1 DEF VersionsDue, AfterVersions, Versions
  <1>4. CiphersDue' = {}
    <2>1. Behind' = {}
      BY <1>1 DEF Behind, Tried, Scannable, ScanVersions
    <2> QED BY <1>1, <2>1 DEF CiphersDue, AfterVersions
  <1>5. LoopInv'
    BY <1>1 DEF LoopInv, Past, AfterVersions
  <1> QED BY <1>1, <1>2, <1>3, <1>4, <1>5 DEF ProbeInv, VersionsInv, CiphersInv

----------------------------------------------------------------------------
(* The loop over the versions. *)

LEMMA VersionInv ==
  ASSUME Typed, ProbeInv, RecordVersion
  PROVE  ProbeInv'
  <1> DEFINE new == [version |-> ver, supported |-> dial = "up"]
  <1>1. /\ pc = "versions" /\ tls.connected /\ ~opt.skipTLSProbe /\ idx = 1
        /\ UNCHANGED <<ciphers, idx, opt, tls>>
        /\ versions' = versions \cup {new}
        /\ \/ ver < 13 /\ ver' = ver + 1 /\ pc' = "versions"
           \/ ver = 13 /\ ver' = 10 /\ pc' = AfterVersions
    BY DEF RecordVersion, chosen, report, ProbeInv, LoopInv, Typed, CtlType, Versions
  <1>2. ver \in Versions /\ new.version = ver
    BY DEF Typed, CtlType
  <1>3. VersionsDue = {v \in Versions : v < ver}
    BY <1>1 DEF VersionsDue
  <1>4. VersionsDue' = VersionsDue \cup {ver}
    <2>1. CASE pc' = "versions"
      BY <1>1, <1>2, <1>3, <2>1 DEF VersionsDue, Versions, AfterVersions
    <2>2. CASE pc' # "versions"
      <3>1. VersionsDue' = Versions /\ ver = 13
        BY <1>1, <2>2 DEF VersionsDue
      <3> QED BY <1>3, <3>1 DEF Versions
    <2> QED BY <2>1, <2>2
  <1> HIDE DEF new
  <1>5. VersionsInv'
    BY <1>1, <1>2, <1>3, <1>4 DEF ProbeInv, VersionsInv, Versions
  <1>6. CiphersDue = {} /\ CiphersDue' = {}
    <2>1. pc' = "ciphers" => Behind' = {}
      BY <1>1 DEF Behind, Tried, Scannable, ScanVersions, AfterVersions
    <2> QED BY <1>1, <2>1 DEF CiphersDue, AfterVersions
  <1>7. LoopInv'
    BY <1>1 DEF LoopInv, Past, AfterVersions
  <1> QED BY <1>1, <1>5, <1>6, <1>7 DEF ProbeInv, CiphersInv

----------------------------------------------------------------------------
(* The loops over the suites. *)

\* The pair the inventory is at.
Here == <<ver, SuiteList[idx]>>

\* A round leaves the pair behind, and after the last one every pair is behind.
LEMMA RoundDue ==
  ASSUME Typed, ProbeInv, pc = "ciphers", NextSuite, UNCHANGED <<opt, tls>>
  PROVE  /\ CiphersDue' = CiphersDue \cup ({Here} \cap Scannable)
         /\ Here \notin CiphersDue
         /\ LoopInv' /\ VersionsDue' = VersionsDue
  <1>1. /\ ver \in ScanVersions /\ idx \in 1..Len(SuiteList)
        /\ tls.connected /\ ~opt.skipCiphers /\ CiphersDue = Behind
    BY DEF Typed, CtlType, ProbeInv, LoopInv, CiphersDue
  <1>2. Len(SuiteList) \in Nat /\ ver \in Int /\ idx \in Int
    BY <1>1, SuiteAssumption DEF ScanVersions
  <1>3. \A p \in Scannable : p[1] \in ScanVersions /\ p[2] \in Suites /\ p = <<p[1], p[2]>>
    BY DEF Scannable
  <1>4. Tried(idx) = Tried(idx - 1) \cup {SuiteList[idx]}
    BY <1>1, <1>2 DEF Tried
  <1>5. SuiteList[idx] \notin Tried(idx - 1)
    BY <1>1, <1>2, ListedOnce DEF Tried
  <1>6. Suites \subseteq Tried(Len(SuiteList))
    BY ListedOnce DEF Tried
  <1>7. Here \notin CiphersDue
    BY <1>1, <1>2, <1>5 DEF Here, Behind
  <1>8. CASE idx < Len(SuiteList)
    <2>1. idx' = idx + 1 /\ ver' = ver /\ pc' = "ciphers"
      BY <1>8 DEF NextSuite
    <2>2. CiphersDue' = {p \in Scannable : p[1] < ver \/ (p[1] = ver /\ p[2] \in Tried(idx))}
      <3>1. idx' - 1 = idx
        BY <1>2, <2>1
      <3> QED BY <2>1, <3>1 DEF CiphersDue, Behind
    <2>3. CiphersDue' = CiphersDue \cup ({Here} \cap Scannable)
      BY <1>1, <1>3, <1>4, <2>2 DEF Behind, Here
    <2> QED BY <1>1, <1>7, <2>1, <2>3 DEF LoopInv, VersionsDue, Past
  <1>9. CASE idx = Len(SuiteList)
    <2>1. \A p \in Scannable : p[2] \in Tried(idx)
      BY <1>3, <1>6, <1>9
    <2>2. CiphersDue \cup ({Here} \cap Scannable) = {p \in Scannable : p[1] < ver + 1}
      <3>1. \A p \in Scannable : p[1] < ver + 1 <=> p[1] < ver \/ p[1] = ver
        BY <1>2, <1>3 DEF ScanVersions
      <3> QED BY <1>1, <1>3, <1>4, <2>1, <3>1 DEF Behind, Here
    <2>3. CASE ver < 12
      <3>1. idx' = 1 /\ ver' = ver + 1 /\ pc' = "ciphers"
        BY <1>9, <2>3, <1>2 DEF NextSuite
      <3>2. Tried(0) = {}
        BY DEF Tried
      <3>3. CiphersDue' = {p \in Scannable : p[1] < ver + 1}
        BY <3>1, <3>2 DEF CiphersDue, Behind
      <3> QED BY <1>1, <1>7, <2>2, <3>1, <3>3 DEF LoopInv, VersionsDue, Past
    <2>4. CASE ver = 12
      <3>1. pc' = "close"
        BY <1>9, <2>4, <1>2 DEF NextSuite
      <3>2. CiphersDue' = Scannable
        BY <1>1, <3>1 DEF CiphersDue
      <3>3. {p \in Scannable : p[1] < ver + 1} = Scannable
        BY <1>3, <2>4 DEF ScanVersions
      <3> QED BY <1>1, <1>7, <2>2, <3>1, <3>2, <3>3 DEF LoopInv, VersionsDue, Past
    <2> QED BY <1>1, <2>3, <2>4 DEF ScanVersions
  <1> QED BY <1>1, <1>2, <1>8, <1>9

LEMMA SkipInv ==
  ASSUME Typed, ProbeInv, SkipSuite
  PROVE  ProbeInv'
  <1>1. /\ pc = "ciphers" /\ NextSuite /\ ~ScansSuite
        /\ UNCHANGED <<opt, tls, versions, ciphers>>
    BY DEF SkipSuite, chosen, report
  <1>2. Here \notin Scannable
    BY <1>1 DEF Here, Scannable, ScansSuite
  <1>3. CiphersDue' = CiphersDue /\ LoopInv' /\ VersionsDue' = VersionsDue
    BY <1>1, <1>2, RoundDue
  <1> QED BY <1>1, <1>3 DEF ProbeInv, VersionsInv, CiphersInv

LEMMA CipherInv ==
  ASSUME Typed, ProbeInv, RecordCipher
  PROVE  ProbeInv'
  <1> DEFINE new == [version |-> ver, suite |-> SuiteList[idx], supported |-> dial = "up"]
  <1>1. /\ pc = "ciphers" /\ NextSuite /\ dial # "idle"
        /\ UNCHANGED <<opt, tls, versions>> /\ ciphers' = ciphers \cup {new}
    BY DEF RecordCipher, chosen, report
  <1>2. Here \in Scannable
    <2>1. ScansSuite
      BY <1>1 DEF Typed, DialInv, Connecting
    <2>2. ver \in ScanVersions /\ SuiteList[idx] \in Suites
      BY <1>1, SuiteAssumption DEF Typed, CtlType
    <2> QED BY <2>1, <2>2 DEF Here, Scannable, ScansSuite
  <1>3. /\ CiphersDue' = CiphersDue \cup {Here} /\ Here \notin CiphersDue
        /\ LoopInv' /\ VersionsDue' = VersionsDue
    BY <1>1, <1>2, RoundDue
  <1>4. <<new.version, new.suite>> = Here
    BY DEF Here
  <1> HIDE DEF new
  <1>5. CiphersInv'
    <2>1. {<<x.version, x.suite>> : x \in ciphers'} = CiphersDue \cup {Here}
      BY <1>1, <1>4 DEF ProbeInv, CiphersInv
    <2>2. \A x \in ciphers : <<x.version, x.suite>> # Here
      BY <1>3 DEF ProbeInv, CiphersInv
    <2>3. ASSUME NEW x \in ciphers', NEW y \in ciphers', x.version = y.version, x.suite = y.suite
          PROVE  x = y
      BY <1>1, <1>4, <2>2, <2>3 DEF ProbeInv, CiphersInv
    <2> QED BY <1>3, <2>1, <2>3 DEF CiphersInv
  <1> QED BY <1>1, <1>3, <1>5 DEF ProbeInv, VersionsInv

LEMMA ProbeAlways == Spec => []ProbeInv
  <1>1. ASSUME Init PROVE ProbeInv
    <2>1. pc = "start" /\ ~tls.connected /\ versions = {} /\ ciphers = {}
      BY <1>1 DEF Init
    <2>2. VersionsDue = {} /\ CiphersDue = {}
      BY <2>1 DEF VersionsDue, CiphersDue
    <2> QED BY <2>1, <2>2 DEF ProbeInv, LoopInv, VersionsInv, CiphersInv
  <1>2. Typed /\ ProbeInv /\ [Next]_vars => ProbeInv'
    BY QuietInv, StartInv, VersionInv, SkipInv, CipherInv DEF Asks
  <1> QED BY <1>1, <1>2, TypedAlways, PTL DEF Spec

----------------------------------------------------------------------------
(* The audit that is done. *)

LEMMA IntervalSize ==
  /\ IsFiniteSet(10..12)
  /\ IsFiniteSet(10..13) /\ Cardinality(10..13) = 4
  <1> DEFINE a == 10
             b == 12
             c == 13
  <1>1. a \in Int /\ b \in Int /\ c \in Int /\ ~(a > c) /\ c - a + 1 = 4
    OBVIOUS
  <1>2. IsFiniteSet(a..b) /\ IsFiniteSet(a..c) /\ Cardinality(a..c) = 4
    <2> HIDE DEF a, b, c
    <2> QED BY <1>1, FS_Interval
  <1> QED BY <1>2

LEMMA ScannableFinite == IsFiniteSet(Scannable)
  <1>1. IsFiniteSet(ScanVersions \X Suites)
    <2>1. IsFiniteSet(ScanVersions)
      BY IntervalSize DEF ScanVersions
    <2>2. IsFiniteSet(ScanVersions) /\ IsFiniteSet(Suites)
      BY <2>1, SuiteAssumption
    <2> QED BY <2>2, FS_Product
  <1> QED BY <1>1, FS_Subset DEF Scannable

\* ProbesComplete: a connected check that is done has one answer for every
\* version and for every suite at every version it exists for, whatever failed
\* and whenever the context ended (tls.go:117-198).
THEOREM ProbesAreComplete == Spec => []ProbesComplete
  <1>1. Typed /\ ProbeInv => ProbesComplete
    <2> SUFFICES ASSUME Typed, ProbeInv, Done, tls.connected
                 PROVE  /\ ~opt.skipTLSProbe =>
                             /\ {x.version : x \in versions} = Versions
                             /\ Cardinality(versions) = 4
                        /\ ~opt.skipCiphers =>
                             /\ {<<x.version, x.suite>> : x \in ciphers} = Scannable
                             /\ Cardinality(ciphers) = Cardinality(Scannable)
      BY DEF ProbesComplete
    <2>1. ASSUME ~opt.skipTLSProbe
          PROVE  {x.version : x \in versions} = Versions /\ Cardinality(versions) = 4
      <3>1. {x.version : x \in versions} = Versions
        BY <2>1 DEF Done, ProbeInv, VersionsInv, VersionsDue
      <3>2. IsFiniteSet(Versions) /\ Cardinality(Versions) = 4
        BY IntervalSize DEF Versions
      <3>3. Cardinality(versions) = Cardinality(Versions)
        <4> DEFINE f == [x \in versions |-> x.version]
        <4>1. f \in Injection(versions, Versions) /\ f \in Surjection(versions, Versions)
          <5>1. f \in [versions -> Versions]
            BY <3>1
          <5>2. \A x, y \in versions : f[x] = f[y] => x = y
            BY DEF ProbeInv, VersionsInv
          <5>3. \A t \in Versions : \E x \in versions : f[x] = t
            BY <3>1
          <5> QED BY <5>1, <5>2, <5>3 DEF Injection, Surjection, IsInjective
        <4> QED BY <4>1, <3>2, FS_Injection
      <3> QED BY <3>1, <3>2, <3>3
    <2>2. ASSUME ~opt.skipCiphers
          PROVE  /\ {<<x.version, x.suite>> : x \in ciphers} = Scannable
                 /\ Cardinality(ciphers) = Cardinality(Scannable)
      <3>1. {<<x.version, x.suite>> : x \in ciphers} = Scannable
        BY <2>2 DEF Done, ProbeInv, CiphersInv, CiphersDue
      <3>2. Cardinality(ciphers) = Cardinality(Scannable)
        <4> DEFINE f == [x \in ciphers |-> <<x.version, x.suite>>]
        <4>1. f \in Injection(ciphers, Scannable) /\ f \in Surjection(ciphers, Scannable)
          <5>1. f \in [ciphers -> Scannable]
            BY <3>1
          <5>2. \A x, y \in ciphers : f[x] = f[y] => x = y
            BY DEF ProbeInv, CiphersInv
          <5>3. \A t \in Scannable : \E x \in ciphers : f[x] = t
            BY <3>1
          <5> QED BY <5>1, <5>2, <5>3 DEF Injection, Surjection, IsInjective
        <4> QED BY <4>1, ScannableFinite, FS_Injection
      <3> QED BY <3>1, <3>2
    <2> QED BY <2>1, <2>2
  <1> QED BY <1>1, TypedAlways, ProbeAlways, PTL

----------------------------------------------------------------------------
(* What the findings are drawn from. *)

\* Report adds a warning of its own, after the evidence was read.
EvidenceWith(w) == [Evidence EXCEPT !.warnings = w]

ReportedInv == Done => \E w : security.findings = Findings(EvidenceWith(w))

LEMMA EndOfCheck ==
  ASSUME Typed, [Next]_vars, Done'
  PROVE  Report \/ (Done /\ UNCHANGED <<chosen, lost, scan, report>>)
  <1> USE DEF Done, chosen, net, scan, report
  <1>1. CASE Start
    BY <1>1 DEF Start
  <1>2. CASE CheckDNS
    BY <1>2 DEF CheckDNS
  <1>3. CASE Route
    BY <1>3 DEF Route
  <1>4. CASE Dial
    BY <1>4 DEF Dial, Connecting, ScansSuite
  <1>5. CASE Handshake
    BY <1>5 DEF Handshake, Fails, Typed, DialInv, Connecting, ScansSuite
  <1>6. CASE MainConnected
    BY <1>6 DEF MainConnected, AfterVersions
  <1>7. CASE MainFailed
    BY <1>7 DEF MainFailed
  <1>8. CASE RecordVersion
    BY <1>8 DEF RecordVersion, AfterVersions
  <1>9. CASE SkipSuite
    BY <1>9 DEF SkipSuite, NextSuite
  <1>10. CASE RecordCipher
    BY <1>10 DEF RecordCipher, NextSuite
  <1>11. CASE Close
    BY <1>11 DEF Close
  <1>12. CASE BeginHTTP
    BY <1>12 DEF BeginHTTP
  <1>13. CASE HeadRequest
    BY <1>13 DEF HeadRequest, HttpAnswered, HttpFailed, AfterHTTP
  <1>14. CASE GetRequest
    BY <1>14 DEF GetRequest, HttpAnswered, HttpFailed, AfterHTTP
  <1>15. CASE Settle
    BY <1>15 DEF Settle
  <1>17. CASE EndContext
    BY <1>17 DEF EndContext
  <1>18. CASE UNCHANGED vars
    BY <1>18 DEF vars
  <1> QED BY <1>1, <1>2, <1>3, <1>4, <1>5, <1>6, <1>7, <1>8, <1>9, <1>10, <1>11, <1>12, <1>13, <1>14, <1>15, <1>17, <1>18, Steps

LEMMA ReportedAlways == Spec => []ReportedInv
  <1>1. Init => ReportedInv
    BY DEF Init, ReportedInv, Done
  <1>2. ASSUME Typed, ReportedInv, [Next]_vars PROVE ReportedInv'
    <2> SUFFICES ASSUME Done' PROVE (\E w : security.findings = Findings(EvidenceWith(w)))'
      BY DEF ReportedInv
    <2>1. CASE Report
      <3>1. security'.findings = Findings(Evidence)
        BY <2>1 DEF Report, AnalyzeSecurity
      <3>2. [Evidence' EXCEPT !.warnings = warnings] = Evidence
        BY <2>1 DEF Report, Evidence, Leaf, Target, SniName, chosen, net, scan
      <3> QED BY <3>1, <3>2 DEF EvidenceWith
    <2>2. CASE Done /\ UNCHANGED <<chosen, lost, scan, report>>
      <3>1. PICK w : security.findings = Findings(EvidenceWith(w))
        BY <1>2, <2>2 DEF ReportedInv
      <3>2. UNCHANGED security /\ EvidenceWith(w)' = EvidenceWith(w)
        BY <2>2 DEF EvidenceWith, Evidence, Leaf, Target, SniName, chosen, scan, report
      <3> QED BY <3>1, <3>2
    <2> QED BY <1>2, <2>1, <2>2, EndOfCheck
  <1> QED BY <1>1, <1>2, TypedAlways, PTL DEF Spec

LEMMA VerdictAlways == Spec => []VerdictInv
  <1>1. Init => VerdictInv
    BY DEF Init, VerdictInv
  <1> QED BY <1>1, VerdictStep, TypedAlways, PTL DEF Spec

----------------------------------------------------------------------------
(* An undisturbed audit. *)

\* Nothing excuses a probe that says no: the answers are those of the endpoint.
LEMMA AnswersTrue ==
  ASSUME Typed, PositiveClaimsTrue, NegativeClaimsExplained, Undisturbed
  PROVE  /\ \A x \in versions : x.supported <=> VersionTrue(x.version)
         /\ \A x \in ciphers : x.supported <=> CipherTrue(x.version, x.suite)
  <1>1. opt.timeout \in Int /\ peer.delay \in Nat
    BY ScenarioType DEF Typed, Option, Endpoint
  <1>2. ~(peer.delay >= ProbeTimeout(NormalizeTimeout(opt.timeout), CipherCap))
    BY <1>1 DEF Undisturbed, ProbeTimeout, NormalizeTimeout, CipherCap, DefaultTimeout
  <1>3. ~(peer.delay >= ProbeTimeout(NormalizeTimeout(opt.timeout), VersionCap))
    BY <1>1 DEF Undisturbed, ProbeTimeout, NormalizeTimeout, CipherCap, VersionCap, DefaultTimeout
  <1>4. ~(lost > 0) /\ ctx # "done"
    BY DEF Undisturbed
  <1>5. \A x \in versions : x.supported \in BOOLEAN
    BY DEF Typed, ScanType, VersionResults
  <1>6. \A x \in ciphers : x.supported \in BOOLEAN
    BY DEF Typed, ScanType, CipherResults
  <1> QED BY <1>2, <1>3, <1>4, <1>5, <1>6 DEF PositiveClaimsTrue, NegativeClaimsExplained

Taken == {p \in Scannable : CipherTrue(p[1], p[2])}

\* The suites accepted are the pairs the endpoint takes.
LEMMA AcceptedExact ==
  ASSUME Typed, ProbeInv, PositiveClaimsTrue, NegativeClaimsExplained, Undisturbed,
         Done, tls.connected, ~opt.skipCiphers, NEW w
  PROVE  /\ \A x \in Accepted(EvidenceWith(w)) : <<x.version, x.suite>> \in Taken
         /\ \A p \in Taken : \E x \in Accepted(EvidenceWith(w)) :
              x.version = p[1] /\ x.suite = p[2]
         /\ EvidenceWith(w).ciphers # {}
  <1>1. Accepted(EvidenceWith(w)) = {x \in ciphers : x.supported}
    BY DEF Accepted, EvidenceWith, Evidence
  <1>2. {<<x.version, x.suite>> : x \in ciphers} = Scannable
    BY DEF ProbeInv, CiphersInv, CiphersDue, Done
  <1>3. \A x \in ciphers : x.supported <=> CipherTrue(x.version, x.suite)
    BY AnswersTrue
  <1>4. \A x \in ciphers : <<x.version, x.suite>> \in Scannable
    BY <1>2
  <1>5. \A p \in Scannable : \E x \in ciphers : p = <<x.version, x.suite>>
    BY <1>2
  <1>6. \A x \in Accepted(EvidenceWith(w)) : <<x.version, x.suite>> \in Taken
    BY <1>1, <1>3, <1>4 DEF Taken
  <1>7. ASSUME NEW p \in Taken
        PROVE  \E x \in Accepted(EvidenceWith(w)) : x.version = p[1] /\ x.suite = p[2]
    <2>1. PICK x \in ciphers : p = <<x.version, x.suite>>
      BY <1>5 DEF Taken
    <2>2. x.version = p[1] /\ x.suite = p[2]
      BY <2>1
    <2> QED BY <1>1, <1>3, <2>2 DEF Taken
  <1>8. Scannable # {}
    <2>1. PICK s \in Suites, v \in ScanVersions : v \in SuiteTraits[s].versions
      BY ListedOnce
    <2>2. <<v, s>> \in Scannable
      BY <2>1 DEF Scannable, CipherSuiteSupportsVersion
    <2> QED BY <2>2
  <1>9. EvidenceWith(w).ciphers # {}
    BY <1>2, <1>8 DEF EvidenceWith, Evidence
  <1> QED BY <1>6, <1>7, <1>9

CipherIds == {"weak_ciphers", "legacy_ciphers", "forward_secrecy"}

LEMMA FindingFields ==
  /\ \A id, severity, status :
       /\ Finding(id, severity, status).id = id
       /\ Finding(id, severity, status).severity = severity
       /\ Finding(id, severity, status).status = status
  /\ \A id, severity, status, nth :
       /\ Nth(id, severity, status, nth).id = id
       /\ Nth(id, severity, status, nth).severity = severity
       /\ Nth(id, severity, status, nth).status = status
  BY DEF Finding, Nth

\* The findings about suites come from two tables only.
LEMMA CipherSource ==
  ASSUME NEW r, NEW f \in Findings(r)
  PROVE  /\ f.id \in CipherIds => f \in CipherFindings(r)
         /\ f.id = "robot" => f \in VulnerabilityFindings(r)
  <1> USE FindingFields DEF When, Either, CipherIds
  <1>1. CASE f \in TransportFindings(r)
    BY <1>1 DEF TransportFindings
  <1>2. CASE f \in TrustFindings(r.verdict)
    BY <1>2 DEF TrustFindings
  <1>3. CASE f \in LeafFindings(r.leaf)
    BY <1>3 DEF LeafFindings
  <1>4. CASE f \in ChainFindings(r.warnings)
    <2>1. PICK w \in r.warnings : f = Nth("chain_installation", "medium", "warn", <<w.kind, w.at>>)
      BY <1>4 DEF ChainFindings
    <2> QED BY <2>1
  <1>5. CASE f \in ProtocolFindings(r)
    BY <1>5 DEF ProtocolFindings
  <1>6. CASE f \in CipherFindings(r)
    BY <1>6 DEF CipherFindings
  <1>7. CASE f \in HeaderFindings(r.headers)
    <2>1. PICK h \in r.headers :
            f = Nth("http_header", IF h.status = "fail" THEN "high" ELSE "medium",
                    h.status, <<h.name, 0>>)
      BY <1>7 DEF HeaderFindings
    <2> QED BY <2>1
  <1>8. CASE f \in DNSFindings(r.dns)
    BY <1>8 DEF DNSFindings
  <1>9. CASE f \in VulnerabilityFindings(r)
    BY <1>9 DEF VulnerabilityFindings
  <1> QED BY <1>1, <1>2, <1>3, <1>4, <1>5, <1>6, <1>7, <1>8, <1>9 DEF Findings

Found(r, id, status) == \E f \in Findings(r) : f.id = id /\ f.status = status

\* What each finding about suites says of the suites accepted.
LEMMA CipherVerdicts ==
  ASSUME NEW r, r.ciphers # {}
  PROVE  /\ Found(r, "weak_ciphers", "fail") <=> \E x \in Accepted(r) : Weak(x.suite)
         /\ Found(r, "weak_ciphers", "pass") <=> \A x \in Accepted(r) : ~Weak(x.suite)
         /\ Found(r, "legacy_ciphers", "warn") <=>
              \E x \in Accepted(r) :
                Strength(x.version, x.suite) = "legacy" \/ SuiteTraits[x.suite].cbc
         /\ Found(r, "forward_secrecy", "pass") <=> \A x \in Accepted(r) : SuiteTraits[x.suite].fs
         /\ Found(r, "robot", "warn") <=> \E x \in Accepted(r) : StaticRSA(x.suite)
         /\ Found(r, "robot", "pass") <=> \A x \in Accepted(r) : ~StaticRSA(x.suite)
  <1> DEFINE InC(id, st) == \E f \in CipherFindings(r) : f.id = id /\ f.status = st
             InV(id, st) == \E f \in VulnerabilityFindings(r) : f.id = id /\ f.status = st
  <1>1. CipherFindings(r) \subseteq Findings(r) /\ VulnerabilityFindings(r) \subseteq Findings(r)
    BY DEF Findings
  <1>2. \A id \in CipherIds : \A st : Found(r, id, st) <=> InC(id, st)
    BY <1>1, CipherSource DEF Found
  <1>3. \A st : Found(r, "robot", st) <=> InV("robot", st)
    BY <1>1, CipherSource DEF Found
  <1>4. InC("weak_ciphers", "fail") <=> \E x \in Accepted(r) : Weak(x.suite)
    BY FindingFields DEF CipherFindings, When, Either
  <1>5. InC("weak_ciphers", "pass") <=> \A x \in Accepted(r) : ~Weak(x.suite)
    BY FindingFields DEF CipherFindings, When, Either
  <1>6. InC("legacy_ciphers", "warn") <=>
          \E x \in Accepted(r) :
            Strength(x.version, x.suite) = "legacy" \/ SuiteTraits[x.suite].cbc
    BY FindingFields DEF CipherFindings, When, Either
  <1>7. InC("forward_secrecy", "pass") <=> \A x \in Accepted(r) : SuiteTraits[x.suite].fs
    BY FindingFields DEF CipherFindings, When, Either
  <1>8. InV("robot", "warn") <=> \E x \in Accepted(r) : StaticRSA(x.suite)
    BY FindingFields DEF VulnerabilityFindings, When, Either
  <1>9. InV("robot", "pass") <=> \A x \in Accepted(r) : ~StaticRSA(x.suite)
    BY FindingFields DEF VulnerabilityFindings, When, Either
  <1> HIDE DEF InC, InV
  <1> QED BY <1>2, <1>3, <1>4, <1>5, <1>6, <1>7, <1>8, <1>9 DEF CipherIds

\* CipherAuditExact: when no answer was lost and the endpoint is fast enough,
\* each finding about suites fails exactly when some pair of version and suite
\* the endpoint accepts deserves it (security.go:121-156, 182-202).
THEOREM CipherAuditIsExact == Spec => []CipherAuditExact
  <1> DEFINE I == /\ Typed /\ ProbeInv /\ ReportedInv
                  /\ PositiveClaimsTrue /\ NegativeClaimsExplained
  <1>1. I => CipherAuditExact
    <2> SUFFICES ASSUME I, Done, tls.connected, ~opt.skipCiphers, Undisturbed
                 PROVE  /\ Has("weak_ciphers", "fail") <=> \E p \in Taken : Weak(p[2])
                        /\ Has("weak_ciphers", "pass") <=> \A p \in Taken : ~Weak(p[2])
                        /\ Has("legacy_ciphers", "warn") <=>
                             \E p \in Taken : SuiteTraits[p[2]].cbc \/ Strength(p[1], p[2]) = "legacy"
                        /\ Has("forward_secrecy", "pass") <=> \A p \in Taken : SuiteTraits[p[2]].fs
                        /\ Has("robot", "warn") <=> \E p \in Taken : StaticRSA(p[2])
                        /\ Has("robot", "pass") <=> \A p \in Taken : ~StaticRSA(p[2])
      BY DEF CipherAuditExact, Taken
    <2>1. PICK w : security.findings = Findings(EvidenceWith(w))
      BY DEF ReportedInv
    <2> DEFINE r == EvidenceWith(w)
    <2>2. \A id, st : Has(id, st) <=> Found(r, id, st)
      BY <2>1 DEF Has, Found
    <2>3. /\ \A x \in Accepted(r) : <<x.version, x.suite>> \in Taken
          /\ \A p \in Taken : \E x \in Accepted(r) : x.version = p[1] /\ x.suite = p[2]
          /\ r.ciphers # {}
      BY AcceptedExact
    <2> HIDE DEF r
    <2>4. /\ (\E x \in Accepted(r) : Weak(x.suite)) <=> \E p \in Taken : Weak(p[2])
          /\ (\E x \in Accepted(r) : StaticRSA(x.suite)) <=> \E p \in Taken : StaticRSA(p[2])
      BY <2>3 DEF Weak, StaticRSA
    <2>5. (\A x \in Accepted(r) : SuiteTraits[x.suite].fs) <=> \A p \in Taken : SuiteTraits[p[2]].fs
      BY <2>3
    <2>6. (\E x \in Accepted(r) :
             Strength(x.version, x.suite) = "legacy" \/ SuiteTraits[x.suite].cbc)
            <=> \E p \in Taken : SuiteTraits[p[2]].cbc \/ Strength(p[1], p[2]) = "legacy"
      BY <2>3
    <2>7. /\ Has("weak_ciphers", "fail") <=> \E x \in Accepted(r) : Weak(x.suite)
          /\ Has("weak_ciphers", "pass") <=> \A x \in Accepted(r) : ~Weak(x.suite)
          /\ Has("legacy_ciphers", "warn") <=>
               \E x \in Accepted(r) :
                 Strength(x.version, x.suite) = "legacy" \/ SuiteTraits[x.suite].cbc
          /\ Has("forward_secrecy", "pass") <=> \A x \in Accepted(r) : SuiteTraits[x.suite].fs
          /\ Has("robot", "warn") <=> \E x \in Accepted(r) : StaticRSA(x.suite)
          /\ Has("robot", "pass") <=> \A x \in Accepted(r) : ~StaticRSA(x.suite)
      BY <2>2, <2>3, CipherVerdicts
    <2> QED BY <2>4, <2>5, <2>6, <2>7
  <1> QED BY <1>1, TypedAlways, ProbeAlways, ReportedAlways, ClaimsAreTrue,
             DenialsAreExplained, PTL

----------------------------------------------------------------------------
(* Critical failures. *)

\* The findings whose failure is critical, and what each is drawn from.
LEMMA CriticalSource ==
  ASSUME NEW r, NEW f \in Findings(r), f.severity = "critical", f.status = "fail"
  PROVE  \/ r.attempted /\ ~r.connected
         \/ r.verdict.checked /\ \/ ~r.verdict.verified
                                 \/ r.verdict.expired
                                 \/ r.verdict.hostnameChecked /\ ~r.verdict.hostnameVerified
         \/ r.versions # {} /\ ~VersionSupported(r, 12) /\ ~VersionSupported(r, 13)
  <1> USE FindingFields DEF When, Either
  <1>1. CASE f \in TransportFindings(r)
    BY <1>1 DEF TransportFindings
  <1>2. CASE f \in TrustFindings(r.verdict)
    BY <1>2 DEF TrustFindings
  <1>3. CASE f \in LeafFindings(r.leaf)
    BY <1>3 DEF LeafFindings
  <1>4. CASE f \in ChainFindings(r.warnings)
    <2>1. PICK w \in r.warnings : f = Nth("chain_installation", "medium", "warn", <<w.kind, w.at>>)
      BY <1>4 DEF ChainFindings
    <2> QED BY <2>1
  <1>5. CASE f \in ProtocolFindings(r)
    BY <1>5 DEF ProtocolFindings
  <1>6. CASE f \in CipherFindings(r)
    BY <1>6 DEF CipherFindings
  <1>7. CASE f \in HeaderFindings(r.headers)
    <2>1. PICK h \in r.headers :
            f = Nth("http_header", IF h.status = "fail" THEN "high" ELSE "medium",
                    h.status, <<h.name, 0>>)
      BY <1>7 DEF HeaderFindings
    <2> QED BY <2>1
  <1>8. CASE f \in DNSFindings(r.dns)
    BY <1>8 DEF DNSFindings
  <1>9. CASE f \in VulnerabilityFindings(r)
    BY <1>9 DEF VulnerabilityFindings
  <1> QED BY <1>1, <1>2, <1>3, <1>4, <1>5, <1>6, <1>7, <1>8, <1>9 DEF Findings

\* A certificate that was not verified, and an endpoint without modern TLS, are
\* critical failures.
LEMMA CriticalNamed ==
  ASSUME NEW r,
         \/ r.verdict.checked /\ ~r.verdict.verified
         \/ r.versions # {} /\ ~VersionSupported(r, 12) /\ ~VersionSupported(r, 13)
  PROVE  CriticalFailure(Findings(r))
  <1>1. CASE r.verdict.checked /\ ~r.verdict.verified
    <2>1. Finding("certificate_trust", "critical", "fail") \in Findings(r)
      BY <1>1 DEF Findings, TrustFindings, Either
    <2> QED BY <2>1, FindingFields DEF CriticalFailure
  <1>2. CASE r.versions # {} /\ ~VersionSupported(r, 12) /\ ~VersionSupported(r, 13)
    <2>1. Finding("modern_tls_missing", "critical", "fail") \in Findings(r)
      BY <1>2 DEF Findings, ProtocolFindings, When
    <2> QED BY <2>1, FindingFields DEF CriticalFailure
  <1> QED BY <1>1, <1>2

\* A verified certificate is neither expired nor served under another name.
LEMMA VerifiedIsClean ==
  ASSUME Typed, VerdictInv, verification.verified
  PROVE  ~verification.expired /\ verification.hostnameVerified
  <1> DEFINE name  == VerifyName(Target, opt)
             roots == LoadRoots(opt)
  <1>1. tls.connected /\ verification = Verdict
    BY DEF VerdictInv, Unchecked
  <1>2. X509Error(Leaf, roots, name) = "ok"
    BY <1>1 DEF Verdict, VerifyPeerCertificates, Leaf
  <1>3. InValidity(Leaf) /\ (name # NoName => name \in Leaf.names)
    BY <1>2 DEF X509Error
  <1>4. Leaf \in Certificate
    <2>1. SniName(Target, opt) \in Names \cup {NoName}
      BY ScenarioType DEF Typed, SniName, Target, Option, Input
    <2>2. peer.chains \in [Names \cup {NoName} -> Seq(Certificate) \ {<<>>}]
      BY ScenarioType DEF Typed, Endpoint
    <2>3. peer.chains[SniName(Target, opt)] \in Seq(Certificate) \ {<<>>}
      BY <2>1, <2>2
    <2> QED BY <2>3 DEF Leaf
  <1>5. verification.expired <=> Leaf.left < 0
    BY <1>1 DEF Verdict, VerifyPeerCertificates, Leaf
  <1>6. verification.hostnameVerified
    BY <1>1, <1>3 DEF Verdict, VerifyPeerCertificates, Leaf
  <1>7. Leaf.left \in Int
    BY <1>4 DEF Certificate
  <1> QED BY <1>3, <1>5, <1>6, <1>7 DEF InValidity

\* The versions supported are those the endpoint speaks, when they were probed.
LEMMA VersionsExact ==
  ASSUME Typed, ProbeInv, PositiveClaimsTrue, NegativeClaimsExplained, Undisturbed,
         Done, tls.connected, NEW w
  PROVE  /\ EvidenceWith(w).versions # {} <=> ~opt.skipTLSProbe
         /\ ~opt.skipTLSProbe => \A v \in Versions :
              VersionSupported(EvidenceWith(w), v) <=> VersionTrue(v)
  <1>1. EvidenceWith(w).versions = versions
    BY DEF EvidenceWith, Evidence
  <1>2. {x.version : x \in versions} = IF opt.skipTLSProbe THEN {} ELSE Versions
    BY DEF ProbeInv, VersionsInv, VersionsDue, Done
  <1>3. \A x \in versions : x.supported <=> VersionTrue(x.version)
    BY AnswersTrue
  <1>4. 12 \in Versions
    BY DEF Versions
  <1>5. opt.skipTLSProbe => versions = {}
    BY <1>2
  <1>6. ~opt.skipTLSProbe => \A v \in Versions : \E x \in versions : x.version = v
    BY <1>2
  <1> QED BY <1>1, <1>3, <1>4, <1>5, <1>6 DEF VersionSupported

\* CriticalExact: when no answer was lost, a connected check has a critical
\* failure exactly when its certificate was not verified or the endpoint, asked
\* for its versions, accepts no modern one (security.go:18-119).
THEOREM CriticalIsExact == Spec => []CriticalExact
  <1> DEFINE I == /\ Typed /\ ProbeInv /\ ReportedInv /\ VerdictInv
                  /\ PositiveClaimsTrue /\ NegativeClaimsExplained
  <1>1. I => CriticalExact
    <2> SUFFICES ASSUME I, Done, tls.connected, Undisturbed
                 PROVE  CriticalFailure(security.findings) <=>
                          \/ ~verification.verified
                          \/ ~opt.skipTLSProbe /\ ~VersionTrue(12) /\ ~VersionTrue(13)
      BY DEF CriticalExact
    <2>1. PICK w : security.findings = Findings(EvidenceWith(w))
      BY DEF ReportedInv
    <2> DEFINE r == EvidenceWith(w)
    <2>2. r.verdict = verification /\ r.connected = tls.connected
      BY DEF EvidenceWith, Evidence
    <2>3. verification.checked
      BY DEF Typed, ConnectedInv
    <2>4. /\ r.versions # {} <=> ~opt.skipTLSProbe
          /\ ~opt.skipTLSProbe => /\ VersionSupported(r, 12) <=> VersionTrue(12)
                                  /\ VersionSupported(r, 13) <=> VersionTrue(13)
      BY VersionsExact DEF Versions
    <2>5. verification.verified => ~verification.expired /\ verification.hostnameVerified
      BY VerifiedIsClean
    <2> HIDE DEF r
    <2>6. ASSUME CriticalFailure(Findings(r))
          PROVE  \/ ~verification.verified
                 \/ ~opt.skipTLSProbe /\ ~VersionTrue(12) /\ ~VersionTrue(13)
      <3>1. PICK f \in Findings(r) : f.status = "fail" /\ f.severity = "critical"
        BY <2>6 DEF CriticalFailure
      <3> QED BY <2>2, <2>4, <2>5, <3>1, CriticalSource
    <2>7. ASSUME \/ ~verification.verified
                 \/ ~opt.skipTLSProbe /\ ~VersionTrue(12) /\ ~VersionTrue(13)
          PROVE  CriticalFailure(Findings(r))
      BY <2>2, <2>3, <2>4, <2>7, CriticalNamed
    <2> QED BY <2>1, <2>6, <2>7 DEF r
  <1> QED BY <1>1, TypedAlways, ProbeAlways, ReportedAlways, VerdictAlways, ClaimsAreTrue,
             DenialsAreExplained, PTL

----------------------------------------------------------------------------
(* The refinement of CheckService. *)

\* The state of the service, as the mapping of CheckProps has it.
Mode  == IF pc \in {"start", "rejected"} THEN "" ELSE IF PlainRoute THEN "plain" ELSE "tls"
Facts == VersionFacts \cup CipherFacts
Truth == {<<"version", v>> : v \in {w \in Versions : VersionTrue(w)}}
           \cup {<<"cipher", p[1], p[2]>> : p \in {q \in Scannable : CipherTrue(q[1], q[2])}}
Todo  == IF tls.connected THEN Agenda \ (Settled(TRUE) \cup Settled(FALSE)) ELSE {}
Trusted == verification.verified
Grade   == security.grade
Grades  == {"A+", "A", "B", "C", "D", "F"}

Speaking == Start \/ MainConnected \/ RecordVersion \/ RecordCipher \/ Report

\* Every other step is a stutter of the service.
LEMMA SilentSteps ==
  ASSUME Typed, [Next]_vars, ~Speaking
  PROVE  UNCHANGED Service!vars
  <1> DEFINE Outer == {"start", "rejected", "done"}
             Kept == /\ UNCHANGED <<chosen, versions, ciphers, tls.connected, verification, security>>
                     /\ pc' = pc \/ (pc \notin Outer /\ pc' \notin Outer)
  <1>0. tls \in [attempted : BOOLEAN, connected : BOOLEAN, version : Versions \cup {0}]
    BY DEF Typed, ReportType
  <1>1. Kept
    <2> USE DEF chosen, net, scan, report, Speaking
    <2>2. CASE CheckDNS
      BY <2>2 DEF CheckDNS
    <2>3. CASE Route
      BY <1>0, <2>3 DEF Route
    <2>4. CASE Dial
      BY <2>4 DEF Dial
    <2>5. CASE Handshake
      BY <2>5 DEF Handshake
    <2>7. CASE MainFailed
      BY <2>7 DEF MainFailed
    <2>9. CASE SkipSuite
      BY <2>9 DEF SkipSuite, NextSuite
    <2>11. CASE Close
      BY <2>11 DEF Close
    <2>12. CASE BeginHTTP
      BY <2>12 DEF BeginHTTP
    <2>13. CASE HeadRequest
      BY <2>13 DEF HeadRequest, Fails, HttpAnswered, HttpFailed, AfterHTTP
    <2>14. CASE GetRequest
      BY <2>14 DEF GetRequest, Fails, HttpAnswered, HttpFailed, AfterHTTP
    <2>15. CASE Settle
      BY <2>15 DEF Settle
    <2>17. CASE EndContext
      BY <2>17 DEF EndContext
    <2>18. CASE UNCHANGED vars
      BY <2>18 DEF vars
    <2> QED BY <2>2, <2>3, <2>4, <2>5, <2>7, <2>9, <2>11, <2>12, <2>13, <2>14, <2>15, <2>17, <2>18, Steps
  <1>2. Phase' = Phase /\ Mode' = Mode
    BY <1>1 DEF Phase, Mode, PlainRoute, Target, chosen
  <1>3. Truth' = Truth
    BY <1>1 DEF Truth, VersionTrue, CipherTrue, chosen
  <1>4. Todo' = Todo /\ Settled(TRUE)' = Settled(TRUE) /\ Settled(FALSE)' = Settled(FALSE)
    BY <1>1 DEF Todo, Agenda, Settled, chosen
  <1>5. Trusted' = Trusted /\ Grade' = Grade
    BY <1>1 DEF Trusted, Grade
  <1> QED BY <1>2, <1>3, <1>4, <1>5 DEF Service!vars, Mode, Truth, Todo, Trusted, Grade

\* Start rejects or accepts.
LEMMA StartRefines ==
  ASSUME Typed, Start
  PROVE  Service!Reject \/ Service!Accept
  <1>1. /\ pc = "start" /\ ~tls.connected /\ UNCHANGED <<chosen, scan, report>>
        /\ pc' \in {"rejected", "route", "dns"}
    BY DEF Start, Typed, ConnectedInv
  <1>2. Phase = "requested" /\ Phase' = IF pc' = "rejected" THEN "rejected" ELSE "running"
    BY <1>1 DEF Phase, report
  <1>3. Mode = "" /\ Mode' \in IF pc' = "rejected" THEN {""} ELSE {"tls", "plain"}
    BY <1>1 DEF Mode
  <1>4. Truth' = Truth
    BY <1>1 DEF Truth, VersionTrue, CipherTrue, chosen
  <1>5. Todo' = Todo /\ Settled(TRUE)' = Settled(TRUE) /\ Settled(FALSE)' = Settled(FALSE)
    BY <1>1 DEF Todo, Agenda, Settled, chosen, scan, report
  <1>6. Trusted' = Trusted /\ Grade' = Grade
    BY <1>1 DEF Trusted, Grade, report
  <1> QED BY <1>2, <1>3, <1>4, <1>5, <1>6
          DEF Service!Reject, Service!Accept, Mode, Truth, Todo, Trusted, Grade

\* A handshake that came up draws the agenda.
LEMMA ConnectRefines ==
  ASSUME Typed, RouteInv, MainConnected
  PROVE  Service!Connect
  <1>1. /\ pc = "tls" /\ ~tls.connected /\ tls'.connected
        /\ pc' \notin {"start", "rejected", "done"}
        /\ UNCHANGED <<chosen, scan, security>>
        /\ verification' = Verdict
    <2>1. tls \in [attempted : BOOLEAN, connected : BOOLEAN, version : Versions \cup {0}]
      BY DEF Typed, ReportType
    <2> QED BY <2>1 DEF MainConnected, Typed, ConnectedInv, AfterVersions, Verdict
  <1>2. Phase = "running" /\ Phase' = "asking"
    BY <1>1 DEF Phase
  <1>3. Mode = "tls" /\ Mode' = Mode
    <2>1. ~PlainRoute
      BY <1>1 DEF RouteInv, Begun, Probing
    <2> QED BY <1>1, <2>1 DEF Mode, PlainRoute, Target, chosen
  <1>4. Truth' = Truth
    BY <1>1 DEF Truth, VersionTrue, CipherTrue, chosen
  <1>5. Settled(TRUE)' = Settled(TRUE) /\ Settled(FALSE)' = Settled(FALSE)
    BY <1>1 DEF Settled, scan
  <1>6. Todo' \in SUBSET Facts
    BY DEF Todo, Agenda, Facts
  <1>7. Trusted' \in BOOLEAN /\ Grade' = Grade
    BY <1>1 DEF Trusted, Grade, Verdict, VerifyPeerCertificates
  <1> QED BY <1>2, <1>3, <1>4, <1>5, <1>6, <1>7
          DEF Service!Connect, Mode, Truth, Todo, Trusted, Grade, Facts

\* An answer settles one question, which was open.
LEMMA SettleRefines ==
  ASSUME NEW f \in Facts, f \in Todo, tls.connected,
         UNCHANGED <<chosen, tls, verification, security>>,
         pc \notin {"start", "rejected", "done"}, pc' \notin {"start", "rejected", "done"},
         \/ f \in Truth /\ Settled(TRUE)' = Settled(TRUE) \cup {f}
                        /\ Settled(FALSE)' = Settled(FALSE)
         \/ Settled(FALSE)' = Settled(FALSE) \cup {f} /\ Settled(TRUE)' = Settled(TRUE)
  PROVE  Service!Settle(f)
  <1>1. Phase = "asking" /\ Phase' = Phase
    BY DEF Phase
  <1>2. Mode' = Mode
    BY DEF Mode, PlainRoute, Target, chosen
  <1>3. Truth' = Truth
    BY DEF Truth, VersionTrue, CipherTrue, chosen
  <1>4. Todo' = Todo \ {f}
    <2>1. Agenda' = Agenda
      BY DEF Agenda, chosen
    <2> QED BY <2>1 DEF Todo
  <1>5. Trusted' = Trusted /\ Grade' = Grade
    BY DEF Trusted, Grade
  <1> QED BY <1>1, <1>2, <1>3, <1>4, <1>5
          DEF Service!Settle, Mode, Truth, Todo, Trusted, Grade

LEMMA VersionRefines ==
  ASSUME Typed, ProbeInv, RecordVersion
  PROVE  \E f \in Facts : Service!Settle(f)
  <1> DEFINE f == <<"version", ver>>
             new == [version |-> ver, supported |-> dial = "up"]
  <1>1. /\ pc = "versions" /\ tls.connected /\ ~opt.skipTLSProbe
        /\ UNCHANGED <<chosen, ciphers, tls, verification, security>>
        /\ versions' = versions \cup {new} /\ pc' \in {"versions", "ciphers", "close"}
    BY DEF RecordVersion, report, ProbeInv, LoopInv, AfterVersions
  <1>2. ver \in Versions /\ f \in VersionFacts
    BY DEF Typed, CtlType, VersionFacts
  <1>3. \A x \in versions : x.version # ver
    BY <1>1, <1>2 DEF ProbeInv, VersionsInv, VersionsDue, Versions
  <1>4. f \notin Settled(TRUE) /\ f \notin Settled(FALSE)
    BY <1>3 DEF Settled
  <1>5. f \in Todo
    BY <1>1, <1>2, <1>4 DEF Todo, Agenda
  <1>6. \/ f \in Truth /\ Settled(TRUE)' = Settled(TRUE) \cup {f}
                       /\ Settled(FALSE)' = Settled(FALSE)
        \/ Settled(FALSE)' = Settled(FALSE) \cup {f} /\ Settled(TRUE)' = Settled(TRUE)
    <2>1. CASE dial = "up"
      <3>1. new.version = ver /\ new.supported = TRUE
        BY <2>1
      <3> HIDE DEF new
      <3>2. f \in Truth
        <4>1. OfferedRange = {ver} /\ OfferedSuites = DefaultSuites
          BY <1>1, ProbeSingle DEF OfferedRange, OfferedSuites, Typed
        <4>2. VersionTrue(ver)
          BY <2>1, <4>1 DEF VersionTrue, Typed, UpInv
        <4> QED BY <1>2, <4>2 DEF Truth
      <3>3. Settled(TRUE)' = Settled(TRUE) \cup {f}
        BY <1>1, <3>1 DEF Settled
      <3>4. Settled(FALSE)' = Settled(FALSE)
        BY <1>1, <3>1 DEF Settled
      <3> QED BY <3>2, <3>3, <3>4
    <2>2. CASE dial # "up"
      <3>1. new.version = ver /\ new.supported = FALSE
        BY <2>2
      <3> HIDE DEF new
      <3>2. Settled(FALSE)' = Settled(FALSE) \cup {f}
        BY <1>1, <3>1 DEF Settled
      <3>3. Settled(TRUE)' = Settled(TRUE)
        BY <1>1, <3>1 DEF Settled
      <3> QED BY <3>2, <3>3
    <2> QED BY <2>1, <2>2
  <1> HIDE DEF f, new
  <1>7. f \in Facts
    BY <1>2 DEF Facts
  <1>8. Service!Settle(f)
    BY <1>1, <1>5, <1>6, <1>7, SettleRefines
  <1> QED BY <1>7, <1>8

LEMMA CipherRefines ==
  ASSUME Typed, ProbeInv, RecordCipher
  PROVE  \E f \in Facts : Service!Settle(f)
  <1> DEFINE f == <<"cipher", ver, SuiteList[idx]>>
             new == [version |-> ver, suite |-> SuiteList[idx], supported |-> dial = "up"]
  <1>1. /\ pc = "ciphers" /\ tls.connected /\ ~opt.skipCiphers /\ dial # "idle" /\ NextSuite
        /\ UNCHANGED <<chosen, versions, tls, verification, security>>
        /\ ciphers' = ciphers \cup {new} /\ pc' \in {"ciphers", "close"}
    BY DEF RecordCipher, report, ProbeInv, LoopInv, NextSuite
  <1>2. Here \in Scannable
    <2>1. ScansSuite
      BY <1>1 DEF Typed, DialInv, Connecting
    <2>2. ver \in ScanVersions /\ SuiteList[idx] \in Suites
      BY <1>1, SuiteAssumption DEF Typed, CtlType
    <2> QED BY <2>1, <2>2 DEF Here, Scannable, ScansSuite
  <1>3. Here[1] = ver /\ Here[2] = SuiteList[idx]
    BY DEF Here
  <1>4. f \in CipherFacts
    BY <1>2, <1>3 DEF CipherFacts
  <1>5. \A x \in ciphers : <<x.version, x.suite>> # Here
    <2>1. Here \notin CiphersDue
      BY <1>1, RoundDue DEF chosen
    <2> QED BY <2>1 DEF ProbeInv, CiphersInv
  <1>6. f \notin Settled(TRUE) /\ f \notin Settled(FALSE)
    BY <1>5 DEF Settled, Here
  <1>7. f \in Todo
    BY <1>1, <1>4, <1>6 DEF Todo, Agenda
  <1>8. \/ f \in Truth /\ Settled(TRUE)' = Settled(TRUE) \cup {f}
                       /\ Settled(FALSE)' = Settled(FALSE)
        \/ Settled(FALSE)' = Settled(FALSE) \cup {f} /\ Settled(TRUE)' = Settled(TRUE)
    <2>1. CASE dial = "up"
      <3>1. new.version = ver /\ new.suite = SuiteList[idx] /\ new.supported = TRUE
        BY <2>1
      <3> HIDE DEF new
      <3>2. f \in Truth
        <4>1. OfferedRange = {ver} /\ OfferedSuites = {SuiteList[idx]}
          BY <1>1, ProbeSingle DEF OfferedRange, OfferedSuites, Typed
        <4>2. CipherTrue(ver, SuiteList[idx])
          BY <2>1, <4>1 DEF CipherTrue, Typed, UpInv
        <4> QED BY <1>2, <1>3, <4>2 DEF Truth
      <3>3. Settled(TRUE)' = Settled(TRUE) \cup {f}
        BY <1>1, <3>1 DEF Settled
      <3>4. Settled(FALSE)' = Settled(FALSE)
        BY <1>1, <3>1 DEF Settled
      <3> QED BY <3>2, <3>3, <3>4
    <2>2. CASE dial # "up"
      <3>1. new.version = ver /\ new.suite = SuiteList[idx] /\ new.supported = FALSE
        BY <2>2
      <3> HIDE DEF new
      <3>2. Settled(FALSE)' = Settled(FALSE) \cup {f}
        BY <1>1, <3>1 DEF Settled
      <3>3. Settled(TRUE)' = Settled(TRUE)
        BY <1>1, <3>1 DEF Settled
      <3> QED BY <3>2, <3>3
    <2> QED BY <2>1, <2>2
  <1> HIDE DEF f, new
  <1>9. f \in Facts
    BY <1>4 DEF Facts
  <1>10. Service!Settle(f)
    BY <1>1, <1>7, <1>8, <1>9, SettleRefines
  <1> QED BY <1>9, <1>10

\* When the report comes, no question of the agenda is open.
LEMMA AgendaSettled ==
  ASSUME Typed, ProbeInv, pc = "report"
  PROVE  Todo = {}
  <1>1. ASSUME tls.connected, NEW f \in Agenda
        PROVE  f \in Settled(TRUE) \cup Settled(FALSE)
    <2>1. CASE ~opt.skipTLSProbe /\ f \in VersionFacts
      <3>1. PICK v \in Versions : f = <<"version", v>>
        BY <2>1 DEF VersionFacts
      <3>2. PICK x \in versions : x.version = v
        BY <1>1, <2>1 DEF ProbeInv, VersionsInv, VersionsDue
      <3>3. x.supported \in BOOLEAN
        BY DEF Typed, ScanType, VersionResults
      <3>4. CASE x.supported = TRUE
        BY <3>1, <3>2, <3>4 DEF Settled
      <3>5. CASE x.supported = FALSE
        BY <3>1, <3>2, <3>5 DEF Settled
      <3> QED BY <3>3, <3>4, <3>5
    <2>2. CASE ~opt.skipCiphers /\ f \in CipherFacts
      <3>1. PICK p \in Scannable : f = <<"cipher", p[1], p[2]>>
        BY <2>2 DEF CipherFacts
      <3>2. PICK x \in ciphers : <<x.version, x.suite>> = p
        BY <1>1, <2>2 DEF ProbeInv, CiphersInv, CiphersDue
      <3>3. x.version = p[1] /\ x.suite = p[2]
        BY <3>2
      <3>4. x.supported \in BOOLEAN
        BY DEF Typed, ScanType, CipherResults
      <3>5. CASE x.supported = TRUE
        BY <3>1, <3>3, <3>5 DEF Settled
      <3>6. CASE x.supported = FALSE
        BY <3>1, <3>3, <3>6 DEF Settled
      <3> QED BY <3>4, <3>5, <3>6
    <2> QED BY <2>1, <2>2 DEF Agenda
  <1> QED BY <1>1 DEF Todo

LEMMA ReportRefines ==
  ASSUME Typed, ProbeInv, RouteInv, FailClosed', Report
  PROVE  Service!Report
  <1>1. /\ pc = "report" /\ pc' = "done"
        /\ UNCHANGED <<chosen, scan, tls, verification>>
        /\ security' = AnalyzeSecurity(Evidence)
    BY DEF Report
  <1>2. Phase \in {"running", "asking"} /\ Phase' = "reported"
    BY <1>1 DEF Phase
  <1>3. Mode' = Mode
    BY <1>1 DEF Mode, PlainRoute, Target, chosen
  <1>4. Truth' = Truth
    BY <1>1 DEF Truth, VersionTrue, CipherTrue, chosen
  <1>5. Settled(TRUE)' = Settled(TRUE) /\ Settled(FALSE)' = Settled(FALSE)
    BY <1>1 DEF Settled, scan
  <1>6. Todo = {} /\ Todo' = Todo
    BY <1>1, <1>5, AgendaSettled DEF Todo, Agenda, chosen
  <1>7. Trusted' = Trusted
    BY <1>1 DEF Trusted
  <1>8. Grade' \in IF Mode = "tls" /\ ~Trusted THEN {"F"} ELSE Grades
    <2>1. Mode = "tls" => tls.attempted
      BY <1>1 DEF Mode, RouteInv, Begun
    <2>2. Mode = "tls" /\ ~Trusted => Grade' = "F"
      BY <1>1, <2>1 DEF FailClosed, Done, Grade, Trusted
    <2>3. Grade' \in Grades
      BY <1>1 DEF Grade, Grades, AnalyzeSecurity, GradeScore
    <2> QED BY <2>2, <2>3
  <1> QED BY <1>2, <1>3, <1>4, <1>5, <1>6, <1>7, <1>8
          DEF Service!Report, Mode, Truth, Todo, Trusted, Grade, Grades

\* The safety half of Implements: facts are claimed only when true, each fact of
\* the agenda is settled once and before the report, and an untrusted TLS check
\* is graded F, for every endpoint, table of suites and bound on the losses.
THEOREM CheckRefinesService == Spec => Service!Init /\ [][Service!Next]_(Service!vars)
  <1>1. ASSUME Init PROVE Service!Init
    <2>1. pc = "start" /\ ~tls.connected /\ versions = {} /\ ciphers = {}
      BY <1>1 DEF Init
    <2>2. verification = Unchecked /\ security = NoSecurity
      BY <1>1 DEF Init
    <2>3. Phase = "requested" /\ Settled(TRUE) = {} /\ Settled(FALSE) = {}
      BY <2>1 DEF Phase, Settled
    <2>4. Truth \in SUBSET Facts
      BY DEF Truth, Facts, VersionFacts, CipherFacts
    <2>5. Trusted = FALSE /\ Grade = ""
      BY <2>2 DEF Trusted, Grade, Unchecked, NoSecurity
    <2> QED BY <2>1, <2>3, <2>4, <2>5 DEF Service!Init, Truth, Facts, Trusted, Grade
  <1>2. ASSUME Typed, ProbeInv, RouteInv, FailClosed', [Next]_vars
        PROVE  [Service!Next]_(Service!vars)
    <2>1. CASE Start
      BY <1>2, <2>1, StartRefines DEF Service!Next
    <2>2. CASE MainConnected
      BY <1>2, <2>2, ConnectRefines DEF Service!Next
    <2>3. CASE RecordVersion
      BY <1>2, <2>3, VersionRefines DEF Service!Next, Facts
    <2>4. CASE RecordCipher
      BY <1>2, <2>4, CipherRefines DEF Service!Next, Facts
    <2>5. CASE Report
      BY <1>2, <2>5, ReportRefines DEF Service!Next
    <2>6. CASE ~Speaking
      BY <1>2, <2>6, SilentSteps
    <2> QED BY <2>1, <2>2, <2>3, <2>4, <2>5, <2>6 DEF Speaking
  <1>3. Init => RouteInv
    BY OutcomeInit
  <1>4. Typed /\ RouteInv /\ [Next]_vars => RouteInv'
    BY RouteStep
  <1> QED BY <1>1, <1>2, <1>3, <1>4, TypedAlways, ProbeAlways, UntrustedChecksFail, PTL DEF Spec
=============================================================================
