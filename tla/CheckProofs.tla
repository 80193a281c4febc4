---------------------------- MODULE CheckProofs ----------------------------
(***************************************************************************)
(* Proofs about Check, for every set of scenarios, every suite table and   *)
(* every bound on the losses.                                              *)
(***************************************************************************)
EXTENDS CheckProps, SecurityProofs, SequenceTheorems

----------------------------------------------------------------------------
(* The inductive invariant, part by part. *)

\* The scenario, the control state and the loop positions.  Outside their loops
\* the positions are at their start.
CtlType ==
  /\ [opt |-> opt, input |-> input, peer |-> peer] \in Scenarios
  /\ ctx \in {"background", "live", "done"}
  /\ pc \in PCs
  /\ dial \in {"idle", "dialed", "up", "failed"}
  /\ lost \in 0..MaxLost
  /\ ver \in Versions /\ idx \in 1..Len(SuiteList)
  /\ pc = "ciphers" => ver \in ScanVersions
  /\ pc # "ciphers" => idx = 1
  /\ pc \notin {"versions", "ciphers"} => ver = 10

\* The fields of the report.
ReportType ==
  /\ protocol \in {"", "HTTP", "TLS"}
  /\ tls \in [attempted : BOOLEAN, connected : BOOLEAN, version : Versions \cup {0}]
  /\ http \in [attempted : BOOLEAN, plaintext : BOOLEAN, reachable : BOOLEAN,
              checks : SUBSET HeaderChecks]
  /\ dns \in (SUBSET RecordTypes) \cup {NotAsked}
  /\ errors \subseteq {"tls", "http", "https"}

ScanType == versions \subseteq VersionResults /\ ciphers \subseteq CipherResults

\* The finiteness AnalyzeSecurity needs, and what it gives.
FiniteType == IsFiniteSet(warnings) /\ IsFiniteSet(http.checks)
ScoreType  == security.score \in 0..100

\* A call of connectTLSConfig is under way only where Check makes one.
DialInv == dial # "idle" => Connecting

\* The main connection is held from the handshake to the deferred close; the
\* call under way holds one from its dial on.
Held == IF pc \in {"versions", "ciphers", "close"} THEN 1 ELSE 0
Open == IF dial \in {"dialed", "up"} THEN 1 ELSE 0

ConnsInv == conns = Held + Open

\* A handshake that came up is one the endpoint agreed to.
UpInv == dial = "up" => Agree(peer.accepts, OfferedRange, OfferedSuites)

\* A connected report has a checked verdict, and a run that only begins has
\* neither.
ConnectedInv ==
  /\ tls.connected => verification.checked
  /\ pc \in {"start", "dns", "route", "rejected"} => ~tls.attempted
  /\ pc \in {"start", "dns", "route", "tls"} => ~tls.connected

----------------------------------------------------------------------------
(* Constants. *)

LEMMA ScenarioType ==
  ASSUME CtlType
  PROVE  opt \in Option /\ input \in Input /\ peer \in Endpoint
  <1>1. [opt |-> opt, input |-> input, peer |-> peer] \in [opt : Option, input : Input, peer : Endpoint]
    BY InputAssumption DEF CtlType
  <1> QED BY <1>1

\* The range a handshake offers is a set of integers.
LEMMA RangeType == ASSUME CtlType PROVE OfferedRange \subseteq Int
  <1>1. opt.tlsMin \in Int /\ opt.tlsMax \in Int
    BY ScenarioType DEF Option
  <1>2. LowBound(opt.tlsMin) \in Int /\ HighBound(opt.tlsMax) \in Int
    BY <1>1 DEF LowBound, HighBound
  <1>3. ver \in Versions
    BY DEF CtlType
  <1>4. ver \in Int
    BY <1>3 DEF Versions
  <1> QED BY <1>2, <1>4 DEF OfferedRange, ProbeRange

\* Every operator that adds warnings adds finitely many.
LEMMA VerifyWarningsFinite ==
  ASSUME NEW chain \in Seq(Certificate), NEW target, NEW o
  PROVE  IsFiniteSet(VerifyWarnings(chain, target, o))
  <1> DEFINE n == Len(chain)
             I == {j \in 2..n : chain[j].selfSigned}
             J == {j \in 1..(n - 1) : ~chain[j].byNext}
             A == {Warning("root_sent", i) : i \in I}
             B == {Warning("chain_order", i) : i \in J}
             f == [i \in I |-> Warning("root_sent", i)]
             g == [i \in J |-> Warning("chain_order", i)]
             err == X509Error(chain[1], LoadRoots(o), NoName)
  <1>1. IsFiniteSet(I) /\ IsFiniteSet(J)
    <2>1. n \in Nat
      OBVIOUS
    <2>2. IsFiniteSet(2..n) /\ IsFiniteSet(1..(n - 1))
      BY <2>1, FS_Interval
    <2> QED BY <2>2, FS_Subset, I \in SUBSET (2..n), J \in SUBSET (1..(n - 1))
  <1> HIDE DEF I, J, n
  <1>2. f \in Surjection(I, A) /\ g \in Surjection(J, B)
    BY DEF Surjection
  <1>3. IsFiniteSet(A) /\ IsFiniteSet(B)
    BY <1>1, <1>2, FS_Surjection
  <1>4. VerifyWarnings(chain, target, o) =
          (When(~o.systemRoots, Warning("system_roots", 0))
             \cup When(o.noHostname, Warning("hostname_off", 0)))
          \cup ((When(err # "ok" /\ Len(chain) = 1 /\ ~chain[1].selfSigned,
                      Warning("leaf_only", 1)) \cup A) \cup B)
    BY DEF VerifyWarnings, ChainWarnings, I, J, n
  <1> HIDE DEF A, B, err, f, g
  <1>5. IsFiniteSet(When(~o.systemRoots, Warning("system_roots", 0))
                      \cup When(o.noHostname, Warning("hostname_off", 0)))
    BY WhenFinite, FS_Union
  <1>6. IsFiniteSet((When(err # "ok" /\ Len(chain) = 1 /\ ~chain[1].selfSigned,
                          Warning("leaf_only", 1)) \cup A) \cup B)
    BY <1>3, WhenFinite, FS_Union
  <1> DEFINE V == When(~o.systemRoots, Warning("system_roots", 0))
                    \cup When(o.noHostname, Warning("hostname_off", 0))
             W == (When(err # "ok" /\ Len(chain) = 1 /\ ~chain[1].selfSigned,
                        Warning("leaf_only", 1)) \cup A) \cup B
  <1>7. VerifyWarnings(chain, target, o) = V \cup W
    BY <1>4
  <1>8. IsFiniteSet(V) /\ IsFiniteSet(W)
    BY <1>5, <1>6
  <1> HIDE DEF V, W
  <1> QED BY <1>7, <1>8, FS_Union

\* One response yields finitely many header checks, each of a known name.
LEMMA HeaderCheckType ==
  ASSUME NEW name \in {"redirect", "hsts", "csp", "xcto", "frame", "referrer", "permissions"},
         NEW present, NEW missing \in {"fail", "warn", "info"}
  PROVE  HeaderCheck(name, present, missing) \in HeaderChecks
  <1>1. HeaderStatus(present, missing) \in {"pass", "fail", "warn", "info"}
    BY DEF HeaderStatus
  <1> QED BY <1>1 DEF HeaderCheck, HeaderChecks

LEMMA SixFinite == \A a, b, c, d, e, f : IsFiniteSet({a, b, c, d, e, f})
  <1> SUFFICES ASSUME NEW a, NEW b, NEW c, NEW d, NEW e, NEW f
               PROVE  IsFiniteSet({a, b, c, d, e, f})
    OBVIOUS
  <1> DEFINE U == (((({a} \cup {b}) \cup {c}) \cup {d}) \cup {e}) \cup {f}
  <1>1. IsFiniteSet(U)
    <2>1. IsFiniteSet({a} \cup {b})
      BY FS_Singleton, FS_Union
    <2>2. IsFiniteSet(({a} \cup {b}) \cup {c})
      BY <2>1, FS_Singleton, FS_Union
    <2>3. IsFiniteSet((({a} \cup {b}) \cup {c}) \cup {d})
      BY <2>2, FS_Singleton, FS_Union
    <2>4. IsFiniteSet(((({a} \cup {b}) \cup {c}) \cup {d}) \cup {e})
      BY <2>3, FS_Singleton, FS_Union
    <2> QED BY <2>4, FS_Singleton, FS_Union
  <1>2. {a, b, c, d, e, f} = U
    OBVIOUS
  <1> HIDE DEF U
  <1> QED BY <1>1, <1>2

LEMMA HeaderChecksFinite ==
  ASSUME NEW resp, NEW p \in BOOLEAN
  PROVE  /\ AnalyzeHTTPHeaders(resp, p) \subseteq HeaderChecks
         /\ IsFiniteSet(AnalyzeHTTPHeaders(resp, p))
  <1>1. CASE p
    BY <1>1, FS_Singleton, HeaderCheckType DEF AnalyzeHTTPHeaders
  <1>2. CASE ~p
    <2>1. AnalyzeHTTPHeaders(resp, p) \subseteq HeaderChecks
      BY <1>2, HeaderCheckType DEF AnalyzeHTTPHeaders
    <2>2. IsFiniteSet(AnalyzeHTTPHeaders(resp, p))
      BY <1>2, SixFinite DEF AnalyzeHTTPHeaders
    <2> QED BY <2>1, <2>2
  <1> QED BY <1>1, <1>2
----------------------------------------------------------------------------
(* Steps. *)

\* A step is one of the actions or changes nothing.
LEMMA Steps ==
  ASSUME [Next]_vars
  PROVE  \/ Start
         \/ CheckDNS
         \/ Route
         \/ Dial
         \/ Handshake
         \/ MainConnected
         \/ MainFailed
         \/ RecordVersion
         \/ SkipSuite
         \/ RecordCipher
         \/ Close
         \/ BeginHTTP
         \/ HeadRequest
         \/ GetRequest
         \/ Settle
         \/ Report
         \/ EndContext
         \/ UNCHANGED vars
  BY DEF Next, Step, Terminated

\* What the frames of the actions stand for.
LEMMA Frames ==
  /\ UNCHANGED chosen <=> UNCHANGED <<opt, input, peer>>
  /\ UNCHANGED net <=> UNCHANGED <<ctx, dial, conns, lost>>
  /\ UNCHANGED scan <=> UNCHANGED <<ver, idx, versions, ciphers>>
  /\ UNCHANGED report <=>
       UNCHANGED <<protocol, tls, http, dns, verification, warnings, errors, security>>
  BY DEF chosen, net, scan, report

LEMMA ConstantFacts == MaxLost \in Nat /\ Len(SuiteList) \in Nat \ {0}
  BY SuiteAssumption, InputAssumption

----------------------------------------------------------------------------
(* Control. *)

LEMMA CtlInit == Init => CtlType
  <1> SUFFICES ASSUME Init PROVE CtlType
    OBVIOUS
  <1>1. [opt |-> opt, input |-> input, peer |-> peer] \in Scenarios
    <2>1. PICK s \in Scenarios : opt = s.opt /\ input = s.input /\ peer = s.peer
      BY DEF Init
    <2>2. s \in [opt : Option, input : Input, peer : Endpoint]
      BY InputAssumption
    <2>3. s = [opt |-> s.opt, input |-> s.input, peer |-> s.peer]
      BY <2>2
    <2> QED BY <2>1, <2>3
  <1>2. ctx \in {"background", "live", "done"}
    BY InputAssumption DEF Init
  <1>3. pc = "start" /\ dial = "idle" /\ lost = 0 /\ ver = 10 /\ idx = 1
    BY DEF Init
  <1> QED BY <1>1, <1>2, <1>3, ConstantFacts DEF CtlType, PCs, Versions

LEMMA CtlStep == ASSUME CtlType, DialInv, [Next]_vars PROVE CtlType'
  <1> USE ConstantFacts DEF CtlType, PCs, Versions, ScanVersions, chosen, net, scan, report
  <1>1. CASE Start
    BY <1>1 DEF Start
  <1>2. CASE CheckDNS
    BY <1>2 DEF CheckDNS
  <1>3. CASE Route
    BY <1>3 DEF Route
  <1>4. CASE Dial
    BY <1>4 DEF Dial, Fails, Connecting, ScansSuite
  <1>5. CASE Handshake
    BY <1>5 DEF Handshake, Fails, DialInv, Connecting, ScansSuite
  <1>6. CASE MainConnected
    BY <1>6 DEF MainConnected, AfterVersions
  <1>7. CASE MainFailed
    BY <1>7 DEF MainFailed
  <1>8. CASE RecordVersion
    BY <1>8 DEF RecordVersion, AfterVersions
  <1>9. CASE SkipSuite
    BY <1>9 DEF SkipSuite, NextSuite
  <1>10. CASE RecordCipher
    BY <1>10 DEF RecordCipher, NextSuite
  <1>11. CASE Close
    BY <1>11 DEF Close
  <1>12. CASE BeginHTTP
    BY <1>12 DEF BeginHTTP
  <1>13. CASE HeadRequest
    BY <1>13 DEF HeadRequest, Fails, HttpAnswered, HttpFailed, AfterHTTP
  <1>14. CASE GetRequest
    BY <1>14 DEF GetRequest, Fails, HttpAnswered, HttpFailed, AfterHTTP
  <1>15. CASE Settle
    BY <1>15 DEF Settle
  <1>16. CASE Report
    BY <1>16 DEF Report
  <1>17. CASE EndContext
    BY <1>17 DEF EndContext
  <1>18. CASE UNCHANGED vars
    BY <1>18 DEF vars
  <1> QED BY <1>1, <1>2, <1>3, <1>4, <1>5, <1>6, <1>7, <1>8, <1>9, <1>10, <1>11, <1>12, <1>13, <1>14, <1>15, <1>16, <1>17, <1>18, Steps
\* The condition under which a call of connectTLSConfig is under way survives
\* every step: a call ends before its loop moves on.
LEMMA DialStep == ASSUME DialInv, [Next]_vars PROVE DialInv'
  <1> USE DEF DialInv, Connecting, ScansSuite, chosen, net, scan, report
  <1>1. CASE Start
    BY <1>1 DEF Start
  <1>2. CASE CheckDNS
    BY <1>2 DEF CheckDNS
  <1>3. CASE Route
    BY <1>3 DEF Route
  <1>4. CASE Dial
    BY <1>4 DEF Dial
  <1>5. CASE Handshake
    BY <1>5 DEF Handshake
  <1>6. CASE MainConnected
    BY <1>6 DEF MainConnected
  <1>7. CASE MainFailed
    BY <1>7 DEF MainFailed
  <1>8. CASE RecordVersion
    BY <1>8 DEF RecordVersion
  <1>9. CASE SkipSuite
    BY <1>9 DEF SkipSuite
  <1>10. CASE RecordCipher
    BY <1>10 DEF RecordCipher
  <1>11. CASE Close
    BY <1>11 DEF Close
  <1>12. CASE BeginHTTP
    BY <1>12 DEF BeginHTTP
  <1>13. CASE HeadRequest
    BY <1>13 DEF HeadRequest
  <1>14. CASE GetRequest
    BY <1>14 DEF GetRequest
  <1>15. CASE Settle
    BY <1>15 DEF Settle
  <1>16. CASE Report
    BY <1>16 DEF Report
  <1>17. CASE EndContext
    BY <1>17 DEF EndContext
  <1>18. CASE UNCHANGED vars
    BY <1>18 DEF vars
  <1> QED BY <1>1, <1>2, <1>3, <1>4, <1>5, <1>6, <1>7, <1>8, <1>9, <1>10, <1>11, <1>12, <1>13, <1>14, <1>15, <1>16, <1>17, <1>18, Steps

\* Connections open and close in pairs.
LEMMA ConnsStep ==
  ASSUME ConnsInv, DialInv, CtlType, [Next]_vars
  PROVE  ConnsInv'
  <1> USE DEF ConnsInv, Held, Open, DialInv, Connecting, ScansSuite, chosen, net, scan, report
  <1>1. CASE Start
    BY <1>1 DEF Start
  <1>2. CASE CheckDNS
    BY <1>2 DEF CheckDNS
  <1>3. CASE Route
    BY <1>3 DEF Route
  <1>4. CASE Dial
    BY <1>4 DEF Dial
  <1>5. CASE Handshake
    BY <1>5 DEF Handshake, ConnsAfterFailure
  <1>6. CASE MainConnected
    BY <1>6 DEF MainConnected, AfterVersions
  <1>7. CASE MainFailed
    BY <1>7 DEF MainFailed
  <1>8. CASE RecordVersion
    BY <1>8 DEF RecordVersion, AfterVersions
  <1>9. CASE SkipSuite
    BY <1>9 DEF SkipSuite, NextSuite
  <1>10. CASE RecordCipher
    BY <1>10 DEF RecordCipher, NextSuite
  <1>11. CASE Close
    BY <1>11 DEF Close
  <1>12. CASE BeginHTTP
    BY <1>12 DEF BeginHTTP
  <1>13. CASE HeadRequest
    BY <1>13 DEF HeadRequest, HttpAnswered, HttpFailed, AfterHTTP
  <1>14. CASE GetRequest
    BY <1>14 DEF GetRequest, HttpAnswered, HttpFailed, AfterHTTP
  <1>15. CASE Settle
    BY <1>15 DEF Settle
  <1>16. CASE Report
    BY <1>16 DEF Report
  <1>17. CASE EndContext
    BY <1>17 DEF EndContext
  <1>18. CASE UNCHANGED vars
    BY <1>18 DEF vars
  <1> QED BY <1>1, <1>2, <1>3, <1>4, <1>5, <1>6, <1>7, <1>8, <1>9, <1>10, <1>11, <1>12, <1>13, <1>14, <1>15, <1>16, <1>17, <1>18, Steps
\* Only a handshake the endpoint agreed to comes up.
LEMMA UpStep ==
  ASSUME UpInv, DialInv, [Next]_vars
  PROVE  UpInv'
  <1> USE DEF UpInv, OfferedRange, OfferedSuites, ProbeRange, DialInv, Connecting, ScansSuite, chosen, net, scan, report
  <1>1. CASE Start
    BY <1>1 DEF Start
  <1>2. CASE CheckDNS
    BY <1>2 DEF CheckDNS
  <1>3. CASE Route
    BY <1>3 DEF Route
  <1>4. CASE Dial
    BY <1>4 DEF Dial
  <1>5. CASE Handshake
    BY <1>5 DEF Handshake, HandshakeWorks
  <1>6. CASE MainConnected
    BY <1>6 DEF MainConnected
  <1>7. CASE MainFailed
    BY <1>7 DEF MainFailed
  <1>8. CASE RecordVersion
    BY <1>8 DEF RecordVersion
  <1>9. CASE SkipSuite
    BY <1>9 DEF SkipSuite
  <1>10. CASE RecordCipher
    BY <1>10 DEF RecordCipher
  <1>11. CASE Close
    BY <1>11 DEF Close
  <1>12. CASE BeginHTTP
    BY <1>12 DEF BeginHTTP
  <1>13. CASE HeadRequest
    BY <1>13 DEF HeadRequest
  <1>14. CASE GetRequest
    BY <1>14 DEF GetRequest
  <1>15. CASE Settle
    BY <1>15 DEF Settle
  <1>16. CASE Report
    BY <1>16 DEF Report
  <1>17. CASE EndContext
    BY <1>17 DEF EndContext
  <1>18. CASE UNCHANGED vars
    BY <1>18 DEF vars
  <1> QED BY <1>1, <1>2, <1>3, <1>4, <1>5, <1>6, <1>7, <1>8, <1>9, <1>10, <1>11, <1>12, <1>13, <1>14, <1>15, <1>16, <1>17, <1>18, Steps

\* The verdict comes with the connection.
LEMMA ConnectedStep ==
  ASSUME ConnectedInv, CtlType, ReportType, [Next]_vars
  PROVE  ConnectedInv'
  <1> USE DEF ConnectedInv, chosen, net, scan, report
  <1>1. CASE Start
    BY <1>1 DEF Start
  <1>2. CASE CheckDNS
    BY <1>2 DEF CheckDNS
  <1>3. CASE Route
    BY <1>3 DEF Route, ReportType
  <1>4. CASE Dial
    BY <1>4 DEF Dial
  <1>5. CASE Handshake
    BY <1>5 DEF Handshake
  <1>6. CASE MainConnected
    BY <1>6 DEF MainConnected, AfterVersions, VerifyPeerCertificates, CtlType
  <1>7. CASE MainFailed
    BY <1>7 DEF MainFailed
  <1>8. CASE RecordVersion
    BY <1>8 DEF RecordVersion, AfterVersions
  <1>9. CASE SkipSuite
    BY <1>9 DEF SkipSuite, NextSuite
  <1>10. CASE RecordCipher
    BY <1>10 DEF RecordCipher, NextSuite
  <1>11. CASE Close
    BY <1>11 DEF Close
  <1>12. CASE BeginHTTP
    BY <1>12 DEF BeginHTTP
  <1>13. CASE HeadRequest
    BY <1>13 DEF HeadRequest, HttpAnswered, HttpFailed, AfterHTTP
  <1>14. CASE GetRequest
    BY <1>14 DEF GetRequest, HttpAnswered, HttpFailed, AfterHTTP
  <1>15. CASE Settle
    BY <1>15 DEF Settle
  <1>16. CASE Report
    BY <1>16 DEF Report
  <1>17. CASE EndContext
    BY <1>17 DEF EndContext
  <1>18. CASE UNCHANGED vars
    BY <1>18 DEF vars
  <1> QED BY <1>1, <1>2, <1>3, <1>4, <1>5, <1>6, <1>7, <1>8, <1>9, <1>10, <1>11, <1>12, <1>13, <1>14, <1>15, <1>16, <1>17, <1>18, Steps
----------------------------------------------------------------------------
(* Types of the report. *)

LEMMA ReportInit == Init => ReportType /\ ScanType /\ FiniteType /\ ScoreType
  <1> SUFFICES ASSUME Init PROVE ReportType /\ ScanType /\ FiniteType /\ ScoreType
    OBVIOUS
  <1>1. /\ protocol = "" /\ tls = [attempted |-> FALSE, connected |-> FALSE, version |-> 0]
        /\ http = Silent /\ dns = NotAsked /\ errors = {} /\ warnings = {}
        /\ versions = {} /\ ciphers = {} /\ security = NoSecurity
    BY DEF Init
  <1>2. http \in [attempted : BOOLEAN, plaintext : BOOLEAN, reachable : BOOLEAN,
                  checks : SUBSET HeaderChecks]
    BY <1>1 DEF Silent
  <1>3. ReportType
    BY <1>1, <1>2 DEF ReportType
  <1>4. ScanType
    BY <1>1 DEF ScanType
  <1>5. FiniteType
    BY <1>1, FS_EmptySet DEF FiniteType, Silent
  <1>6. ScoreType
    <2>1. NoSecurity.score = 0
      BY DEF NoSecurity
    <2>2. security.score = 0
      BY <1>1, <2>1
    <2> QED BY <2>2 DEF ScoreType
  <1> QED BY <1>3, <1>4, <1>5, <1>6

\* The response of an answered request gives checks of the right type.
LEMMA AnsweredType ==
  ASSUME ReportType, FiniteType, NEW m, HttpAnswered(m)
  PROVE  /\ http' \in [attempted : BOOLEAN, plaintext : BOOLEAN, reachable : BOOLEAN,
                       checks : SUBSET HeaderChecks]
         /\ IsFiniteSet(http'.checks)
  <1> DEFINE H == [attempted : BOOLEAN, plaintext : BOOLEAN, reachable : BOOLEAN,
                   checks : SUBSET HeaderChecks]
             C == AnalyzeHTTPHeaders(peer.response, http.plaintext)
  <1>1. http \in H
    BY DEF ReportType
  <1>2. http.plaintext \in BOOLEAN
    BY <1>1
  <1>3. C \subseteq HeaderChecks /\ IsFiniteSet(C)
    BY <1>2, HeaderChecksFinite
  <1> HIDE DEF C
  <1>4. http' = [http EXCEPT !.reachable = TRUE, !.checks = C]
    BY DEF HttpAnswered, C
  <1> QED BY <1>1, <1>3, <1>4

LEMMA ReportTypeStep ==
  ASSUME ReportType, FiniteType, CtlType, [Next]_vars
  PROVE  ReportType'
  <1> USE DEF ReportType, chosen, net, scan, report
  <1>1. CASE Start
    BY <1>1 DEF Start
  <1>2. CASE CheckDNS
    BY <1>2 DEF CheckDNS, RecordTypes
  <1>3. CASE Route
    BY <1>3 DEF Route
  <1>4. CASE Dial
    BY <1>4 DEF Dial
  <1>5. CASE Handshake
    BY <1>5 DEF Handshake
  <1>6. CASE MainConnected
    <2>1. PICK v \in Versions : tls' = [tls EXCEPT !.connected = TRUE, !.version = v]
      BY <1>6 DEF MainConnected
    <2>2. UNCHANGED <<protocol, http, dns, errors>>
      BY <1>6 DEF MainConnected
    <2> QED BY <2>1, <2>2
  <1>7. CASE MainFailed
    BY <1>7 DEF MainFailed
  <1>8. CASE RecordVersion
    BY <1>8 DEF RecordVersion
  <1>9. CASE SkipSuite
    BY <1>9 DEF SkipSuite
  <1>10. CASE RecordCipher
    BY <1>10 DEF RecordCipher
  <1>11. CASE Close
    BY <1>11 DEF Close
  <1>12. CASE BeginHTTP
    BY <1>12 DEF BeginHTTP
  <1>13. CASE HeadRequest
    <2>1. CASE HttpAnswered(peer.head)
      BY <1>13, <2>1, AnsweredType DEF HeadRequest, HttpAnswered
    <2>2. CASE ~HttpAnswered(peer.head)
      BY <1>13, <2>2 DEF HeadRequest, HttpFailed
    <2> QED BY <2>1, <2>2
  <1>14. CASE GetRequest
    <2>1. CASE HttpAnswered(peer.get)
      BY <1>14, <2>1, AnsweredType DEF GetRequest, HttpAnswered
    <2>2. CASE ~HttpAnswered(peer.get)
      BY <1>14, <2>2 DEF GetRequest, HttpFailed
    <2> QED BY <2>1, <2>2
  <1>15. CASE Settle
    BY <1>15 DEF Settle, When
  <1>16. CASE Report
    BY <1>16 DEF Report
  <1>17. CASE EndContext
    BY <1>17 DEF EndContext
  <1>18. CASE UNCHANGED vars
    BY <1>18 DEF vars
  <1> QED BY <1>1, <1>2, <1>3, <1>4, <1>5, <1>6, <1>7, <1>8, <1>9, <1>10, <1>11, <1>12, <1>13, <1>14, <1>15, <1>16, <1>17, <1>18, Steps
LEMMA ScanTypeStep ==
  ASSUME ScanType, CtlType, [Next]_vars
  PROVE  ScanType'
  <1> USE DEF ScanType, chosen, net, scan, report
  <1>1. CASE Start
    BY <1>1 DEF Start
  <1>2. CASE CheckDNS
    BY <1>2 DEF CheckDNS
  <1>3. CASE Route
    BY <1>3 DEF Route
  <1>4. CASE Dial
    BY <1>4 DEF Dial
  <1>5. CASE Handshake
    BY <1>5 DEF Handshake
  <1>6. CASE MainConnected
    BY <1>6 DEF MainConnected
  <1>7. CASE MainFailed
    BY <1>7 DEF MainFailed
  <1>8. CASE RecordVersion
    <2>1. [version |-> ver, supported |-> dial = "up"] \in VersionResults
      BY DEF VersionResults, CtlType
    <2> QED BY <1>8, <2>1 DEF RecordVersion
  <1>9. CASE SkipSuite
    BY <1>9 DEF SkipSuite
  <1>10. CASE RecordCipher
    <2>1. SuiteList[idx] \in Suites
      BY SuiteAssumption DEF CtlType
    <2>2. ver \in ScanVersions
      BY <1>10 DEF RecordCipher, CtlType
    <2>3. [version |-> ver, suite |-> SuiteList[idx], supported |-> dial = "up"] \in CipherResults
      BY <2>1, <2>2 DEF CipherResults
    <2> QED BY <1>10, <2>3 DEF RecordCipher
  <1>11. CASE Close
    BY <1>11 DEF Close
  <1>12. CASE BeginHTTP
    BY <1>12 DEF BeginHTTP
  <1>13. CASE HeadRequest
    BY <1>13 DEF HeadRequest
  <1>14. CASE GetRequest
    BY <1>14 DEF GetRequest
  <1>15. CASE Settle
    BY <1>15 DEF Settle
  <1>16. CASE Report
    BY <1>16 DEF Report
  <1>17. CASE EndContext
    BY <1>17 DEF EndContext
  <1>18. CASE UNCHANGED vars
    BY <1>18 DEF vars
  <1> QED BY <1>1, <1>2, <1>3, <1>4, <1>5, <1>6, <1>7, <1>8, <1>9, <1>10, <1>11, <1>12, <1>13, <1>14, <1>15, <1>16, <1>17, <1>18, Steps

\* The chain served for the name Check sends is a sequence of certificates.
LEMMA ChainType ==
  ASSUME CtlType PROVE peer.chains[SniName(Target, opt)] \in Seq(Certificate)
  <1>1. SniName(Target, opt) \in Names \cup {NoName}
    BY ScenarioType DEF SniName, Target, Option, Input
  <1>2. peer.chains \in [Names \cup {NoName} -> Seq(Certificate) \ {<<>>}]
    BY ScenarioType DEF Endpoint
  <1> QED BY <1>1, <1>2

LEMMA FiniteStep ==
  ASSUME FiniteType, ReportType, CtlType, [Next]_vars
  PROVE  FiniteType'
  <1> USE DEF FiniteType, chosen, net, scan, report
  <1>1. CASE Start
    BY <1>1 DEF Start
  <1>2. CASE CheckDNS
    <2>1. PICK c : warnings' = warnings \cup When(c, Warning("dns", 0))
      BY <1>2 DEF CheckDNS
    <2>2. IsFiniteSet(When(c, Warning("dns", 0)))
      BY WhenFinite
    <2>3. IsFiniteSet(warnings')
      BY <2>1, <2>2, FS_Union
    <2> QED BY <1>2, <2>3 DEF CheckDNS
  <1>3. CASE Route
    BY <1>3 DEF Route
  <1>4. CASE Dial
    BY <1>4 DEF Dial
  <1>5. CASE Handshake
    BY <1>5 DEF Handshake
  <1>6. CASE MainConnected
    <2>1. IsFiniteSet(VerifyWarnings(peer.chains[SniName(Target, opt)], Target, opt))
      BY ChainType, VerifyWarningsFinite
    <2> QED BY <1>6, <2>1 DEF MainConnected
  <1>7. CASE MainFailed
    BY <1>7 DEF MainFailed
  <1>8. CASE RecordVersion
    BY <1>8 DEF RecordVersion
  <1>9. CASE SkipSuite
    BY <1>9 DEF SkipSuite
  <1>10. CASE RecordCipher
    BY <1>10 DEF RecordCipher
  <1>11. CASE Close
    BY <1>11 DEF Close
  <1>12. CASE BeginHTTP
    <2>1. http'.checks = http.checks
      BY <1>12 DEF BeginHTTP, ReportType
    <2> QED BY <1>12, <2>1 DEF BeginHTTP
  <1>13. CASE HeadRequest
    <2>1. CASE HttpAnswered(peer.head)
      BY <1>13, <2>1, AnsweredType DEF HeadRequest
    <2>2. CASE ~HttpAnswered(peer.head)
      BY <1>13, <2>2 DEF HeadRequest, HttpFailed
    <2> QED BY <2>1, <2>2
  <1>14. CASE GetRequest
    <2>1. CASE HttpAnswered(peer.get)
      BY <1>14, <2>1, AnsweredType DEF GetRequest
    <2>2. CASE ~HttpAnswered(peer.get)
      BY <1>14, <2>2 DEF GetRequest, HttpFailed
    <2> QED BY <2>1, <2>2
  <1>15. CASE Settle
    BY <1>15, WhenFinite, FS_Union DEF Settle
  <1>16. CASE Report
    BY <1>16, WhenFinite, FS_Union DEF Report
  <1>17. CASE EndContext
    BY <1>17 DEF EndContext
  <1>18. CASE UNCHANGED vars
    BY <1>18 DEF vars
  <1> QED BY <1>1, <1>2, <1>3, <1>4, <1>5, <1>6, <1>7, <1>8, <1>9, <1>10, <1>11, <1>12, <1>13, <1>14, <1>15, <1>16, <1>17, <1>18, Steps

LEMMA ScoreStep ==
  ASSUME ScoreType, FiniteType, [Next]_vars
  PROVE  ScoreType'
  <1> USE DEF ScoreType, chosen, net, scan, report
  <1>1. CASE Start
    BY <1>1 DEF Start
  <1>2. CASE CheckDNS
    BY <1>2 DEF CheckDNS
  <1>3. CASE Route
    BY <1>3 DEF Route
  <1>4. CASE Dial
    BY <1>4 DEF Dial
  <1>5. CASE Handshake
    BY <1>5 DEF Handshake
  <1>6. CASE MainConnected
    BY <1>6 DEF MainConnected
  <1>7. CASE MainFailed
    BY <1>7 DEF MainFailed
  <1>8. CASE RecordVersion
    BY <1>8 DEF RecordVersion
  <1>9. CASE SkipSuite
    BY <1>9 DEF SkipSuite
  <1>10. CASE RecordCipher
    BY <1>10 DEF RecordCipher
  <1>11. CASE Close
    BY <1>11 DEF Close
  <1>12. CASE BeginHTTP
    BY <1>12 DEF BeginHTTP
  <1>13. CASE HeadRequest
    BY <1>13 DEF HeadRequest
  <1>14. CASE GetRequest
    BY <1>14 DEF GetRequest
  <1>15. CASE Settle
    BY <1>15 DEF Settle
  <1>16. CASE Report
    <2>1. FiniteEvidence(Evidence)
      BY DEF FiniteEvidence, Evidence, FiniteType
    <2>2. ScoreFindings(Findings(Evidence)) \in 0..100
      BY <2>1, FindingsFinite, ScoreRange
    <2>3. AnalyzeSecurity(Evidence).score = ScoreFindings(Findings(Evidence))
      BY DEF AnalyzeSecurity
    <2> QED BY <1>16, <2>2, <2>3 DEF Report
  <1>17. CASE EndContext
    BY <1>17 DEF EndContext
  <1>18. CASE UNCHANGED vars
    BY <1>18 DEF vars
  <1> QED BY <1>1, <1>2, <1>3, <1>4, <1>5, <1>6, <1>7, <1>8, <1>9, <1>10, <1>11, <1>12, <1>13, <1>14, <1>15, <1>16, <1>17, <1>18, Steps
----------------------------------------------------------------------------
(* The safety invariants. *)

LEMMA ControlInit == Init => DialInv /\ ConnsInv /\ UpInv /\ ConnectedInv
  <1> SUFFICES ASSUME Init PROVE DialInv /\ ConnsInv /\ UpInv /\ ConnectedInv
    OBVIOUS
  <1>1. pc = "start" /\ dial = "idle" /\ conns = 0
    BY DEF Init
  <1>2. ~tls.attempted /\ ~tls.connected
    BY DEF Init
  <1> QED BY <1>1, <1>2 DEF DialInv, ConnsInv, Held, Open, UpInv, ConnectedInv

\* The parts about control and types, which the proofs of the others use.
Typed ==
  /\ CtlType /\ DialInv /\ ConnsInv /\ UpInv /\ ConnectedInv
  /\ ReportType /\ ScanType /\ FiniteType /\ ScoreType

LEMMA TypedInit == Init => Typed
  BY CtlInit, ControlInit, ReportInit DEF Typed

LEMMA TypedStep == Typed /\ [Next]_vars => Typed'
  BY CtlStep, DialStep, ConnsStep, UpStep, ConnectedStep, ReportTypeStep, ScanTypeStep,
     FiniteStep, ScoreStep DEF Typed

LEMMA TypedAlways == Spec => []Typed
  BY TypedInit, TypedStep, PTL DEF Spec

\* TypeOK: every field of the report stays in its range, for all the scenarios.
THEOREM TypeCorrect == Spec => []TypeOK
  <1>1. Typed => TypeOK
    <2> SUFFICES ASSUME Typed PROVE TypeOK
      OBVIOUS
    <2>1. conns \in 0..2
      BY DEF Typed, ConnsInv, Held, Open
    <2> QED BY <2>1 DEF Typed, CtlType, ReportType, ScanType, ScoreType, TypeOK
  <1> QED BY <1>1, TypedAlways, PTL

\* ConnsBounded: at most the main connection and one probe are open, and none
\* once checkTLS has returned.
THEOREM ConnectionsReleased == Spec => []ConnsBounded
  <1>1. Typed => ConnsBounded
    BY DEF Typed, ConnsInv, DialInv, Connecting, ScansSuite, Held, Open, ConnsBounded
  <1> QED BY <1>1, TypedAlways, PTL

\* NothingSentAfterContext: no connection opens and no request is answered once
\* the caller's context has ended.
THEOREM SilentAfterContext == Spec => NothingSentAfterContext
  <1> DEFINE A == ctx = "done" => conns' <= conns /\ (http'.reachable => http.reachable)
  <1>1. ASSUME Typed, Next, ctx = "done" PROVE A
    <2>1. conns \in Int
      BY <1>1 DEF Typed, ConnsInv, Held, Open
    <2>2. http \in [attempted : BOOLEAN, plaintext : BOOLEAN, reachable : BOOLEAN,
                    checks : SUBSET HeaderChecks]
      BY <1>1 DEF Typed, ReportType
    <2>3. ~Reachable /\ ~Answers(NormalizeTimeout(opt.timeout))
      BY <1>1 DEF Reachable, Answers
    <2>4. ~HttpAnswered(peer.head) /\ ~HttpAnswered(peer.get)
      BY <2>3 DEF HttpAnswered, HttpWorks
    <2>5. A
      <3> USE <1>1, <2>1, <2>2, <2>3, <2>4 DEF chosen, net, scan, report
      <3>1. CASE Start
        BY <3>1 DEF Start
      <3>2. CASE CheckDNS
        BY <3>2 DEF CheckDNS
      <3>3. CASE Route
        BY <3>3 DEF Route
      <3>4. CASE Dial
        BY <3>4 DEF Dial
      <3>5. CASE Handshake
        BY <3>5 DEF Handshake, ConnsAfterFailure
      <3>6. CASE MainConnected
        BY <3>6 DEF MainConnected
      <3>7. CASE MainFailed
        BY <3>7 DEF MainFailed
      <3>8. CASE RecordVersion
        BY <3>8 DEF RecordVersion
      <3>9. CASE SkipSuite
        BY <3>9 DEF SkipSuite
      <3>10. CASE RecordCipher
        BY <3>10 DEF RecordCipher
      <3>11. CASE Close
        BY <3>11 DEF Close
      <3>12. CASE BeginHTTP
        BY <3>12 DEF BeginHTTP
      <3>13. CASE HeadRequest
        BY <3>13 DEF HeadRequest, HttpFailed
      <3>14. CASE GetRequest
        BY <3>14 DEF GetRequest, HttpFailed
      <3>15. CASE Settle
        BY <3>15 DEF Settle
      <3>16. CASE Report
        BY <3>16 DEF Report
      <3>17. CASE EndContext
        BY <3>17 DEF EndContext
      <3>18. CASE UNCHANGED vars
        BY <3>18 DEF vars
      <3> QED BY <3>1, <3>2, <3>3, <3>4, <3>5, <3>6, <3>7, <3>8, <3>9, <3>10, <3>11, <3>12, <3>13, <3>14, <3>15, <3>16, <3>17, <3>18, <1>1, Steps
    <2> QED BY <2>5
  <1>2. Typed /\ [Next]_vars => [A]_vars
    BY <1>1
  <1> QED BY <1>2, TypedAlways, PTL DEF Spec, NothingSentAfterContext
----------------------------------------------------------------------------
(* Trust and grade. *)

LEMMA FailClosedInit == Init => FailClosed
  BY DEF Init, FailClosed, Done

\* A grade is given once, by Report, from evidence that names the failure.
LEMMA FailClosedStep ==
  ASSUME FailClosed, Typed, [Next]_vars
  PROVE  FailClosed'
  <1> USE DEF FailClosed, Done, chosen, net, scan, report
  <1>1. CASE Start
    BY <1>1 DEF Start
  <1>2. CASE CheckDNS
    BY <1>2 DEF CheckDNS
  <1>3. CASE Route
    BY <1>3 DEF Route
  <1>4. CASE Dial
    BY <1>4 DEF Dial, Connecting, ScansSuite
  <1>5. CASE Handshake
    BY <1>5 DEF Handshake, Typed, DialInv, Connecting, ScansSuite
  <1>6. CASE MainConnected
    BY <1>6 DEF MainConnected, AfterVersions
  <1>7. CASE MainFailed
    BY <1>7 DEF MainFailed
  <1>8. CASE RecordVersion
    BY <1>8 DEF RecordVersion, AfterVersions
  <1>9. CASE SkipSuite
    BY <1>9 DEF SkipSuite, NextSuite
  <1>10. CASE RecordCipher
    BY <1>10 DEF RecordCipher, NextSuite
  <1>11. CASE Close
    BY <1>11 DEF Close
  <1>12. CASE BeginHTTP
    BY <1>12 DEF BeginHTTP
  <1>13. CASE HeadRequest
    BY <1>13 DEF HeadRequest, HttpAnswered, HttpFailed, AfterHTTP
  <1>14. CASE GetRequest
    BY <1>14 DEF GetRequest, HttpAnswered, HttpFailed, AfterHTTP
  <1>15. CASE Settle
    BY <1>15 DEF Settle
  <1>16. CASE Report
    <2> SUFFICES ASSUME tls.attempted, ~(tls.connected /\ verification.verified)
                 PROVE  AnalyzeSecurity(Evidence).grade = "F"
      BY <1>16 DEF Report
    <2>1. Evidence.attempted = tls.attempted /\ Evidence.connected = tls.connected
      BY DEF Evidence
    <2>2. Evidence.verdict = verification
      BY DEF Evidence
    <2>3. tls.connected => verification.checked
      BY DEF Typed, ConnectedInv
    <2> QED BY <2>1, <2>2, <2>3, UntrustedIsF
  <1>17. CASE EndContext
    BY <1>17 DEF EndContext
  <1>18. CASE UNCHANGED vars
    BY <1>18 DEF vars
  <1> QED BY <1>1, <1>2, <1>3, <1>4, <1>5, <1>6, <1>7, <1>8, <1>9, <1>10, <1>11, <1>12, <1>13, <1>14, <1>15, <1>16, <1>17, <1>18, Steps

\* FailClosed: a TLS check that did not end in a verified handshake is graded F,
\* whatever was lost, refused or cut off on the way.
THEOREM UntrustedChecksFail == Spec => []FailClosed
  <1>1. Typed /\ FailClosed /\ [Next]_vars => FailClosed'
    BY FailClosedStep
  <1> QED BY <1>1, FailClosedInit, TypedAlways, PTL DEF Spec

----------------------------------------------------------------------------
(* No downgrade. *)

LEMMA PlaintextStep ==
  ASSUME NoPlaintextDowngrade, Typed, [Next]_vars
  PROVE  NoPlaintextDowngrade'
  <1> USE DEF NoPlaintextDowngrade, chosen, net, scan, report
  <1>1. CASE Start
    BY <1>1 DEF Start
  <1>2. CASE CheckDNS
    BY <1>2 DEF CheckDNS
  <1>3. CASE Route
    BY <1>3 DEF Route
  <1>4. CASE Dial
    BY <1>4 DEF Dial
  <1>5. CASE Handshake
    BY <1>5 DEF Handshake
  <1>6. CASE MainConnected
    BY <1>6 DEF MainConnected
  <1>7. CASE MainFailed
    BY <1>7 DEF MainFailed
  <1>8. CASE RecordVersion
    BY <1>8 DEF RecordVersion
  <1>9. CASE SkipSuite
    BY <1>9 DEF SkipSuite
  <1>10. CASE RecordCipher
    BY <1>10 DEF RecordCipher
  <1>11. CASE Close
    BY <1>11 DEF Close
  <1>12. CASE BeginHTTP
    <2>1. HttpScheme = "http" => input.form = "http"
      BY DEF HttpScheme, FallsBack, Target
    <2>2. http'.plaintext = (HttpScheme = "http")
      BY <1>12 DEF BeginHTTP, Typed, ReportType
    <2> QED BY <1>12, <2>1, <2>2 DEF BeginHTTP
  <1>13. CASE HeadRequest
    BY <1>13 DEF HeadRequest, HttpAnswered, HttpFailed, Typed, ReportType
  <1>14. CASE GetRequest
    BY <1>14 DEF GetRequest, HttpAnswered, HttpFailed, Typed, ReportType
  <1>15. CASE Settle
    BY <1>15 DEF Settle
  <1>16. CASE Report
    BY <1>16 DEF Report
  <1>17. CASE EndContext
    BY <1>17 DEF EndContext
  <1>18. CASE UNCHANGED vars
    BY <1>18 DEF vars
  <1> QED BY <1>1, <1>2, <1>3, <1>4, <1>5, <1>6, <1>7, <1>8, <1>9, <1>10, <1>11, <1>12, <1>13, <1>14, <1>15, <1>16, <1>17, <1>18, Steps

\* NoPlaintextDowngrade: only a target written http:// is asked in the clear; no
\* failure on the way changes that.
THEOREM NeverDowngraded == Spec => []NoPlaintextDowngrade
  <1>1. Init => NoPlaintextDowngrade
    <2> SUFFICES ASSUME Init PROVE ~http.plaintext
      BY DEF NoPlaintextDowngrade
    <2>1. http = Silent
      BY DEF Init
    <2> QED BY <2>1 DEF Silent
  <1>2. Typed /\ NoPlaintextDowngrade /\ [Next]_vars => NoPlaintextDowngrade'
    BY PlaintextStep
  <1> QED BY <1>1, <1>2, TypedAlways, PTL DEF Spec
----------------------------------------------------------------------------
(* The verdict is about the identity asked for. *)

\* The verdict on the chain served for the name Check sends.
Verdict == VerifyPeerCertificates(peer.chains[SniName(Target, opt)], Target, opt)

\* There is a verdict exactly with a connection, and it is that one.
VerdictInv ==
  \/ verification = Unchecked
  \/ tls.connected /\ verification = Verdict

LEMMA VerdictStep ==
  ASSUME VerdictInv, Typed, [Next]_vars
  PROVE  VerdictInv'
  <1>0. UNCHANGED chosen => Verdict' = Verdict
    BY DEF Verdict, chosen, SniName, VerifyPeerCertificates, VerifyName, LoadRoots, RootsFail, UsableFile, Target
  <1> USE <1>0 DEF VerdictInv, net, scan, report
  <1>1. CASE Start
    BY <1>1 DEF Start
  <1>2. CASE CheckDNS
    BY <1>2 DEF CheckDNS
  <1>3. CASE Route
    <2>1. UNCHANGED <<chosen, verification>> /\ tls'.connected = tls.connected
      BY <1>3 DEF Route, Typed, ReportType
    <2> QED BY <2>1
  <1>4. CASE Dial
    BY <1>4 DEF Dial
  <1>5. CASE Handshake
    BY <1>5 DEF Handshake
  <1>6. CASE MainConnected
    <2>1. UNCHANGED chosen /\ verification' = Verdict
      BY <1>6 DEF MainConnected, Verdict
    <2>2. tls'.connected
      BY <1>6 DEF MainConnected, Typed, ReportType
    <2> QED BY <2>1, <2>2
  <1>7. CASE MainFailed
    BY <1>7 DEF MainFailed
  <1>8. CASE RecordVersion
    BY <1>8 DEF RecordVersion
  <1>9. CASE SkipSuite
    BY <1>9 DEF SkipSuite
  <1>10. CASE RecordCipher
    BY <1>10 DEF RecordCipher
  <1>11. CASE Close
    BY <1>11 DEF Close
  <1>12. CASE BeginHTTP
    BY <1>12 DEF BeginHTTP
  <1>13. CASE HeadRequest
    BY <1>13 DEF HeadRequest, HttpAnswered, HttpFailed
  <1>14. CASE GetRequest
    BY <1>14 DEF GetRequest, HttpAnswered, HttpFailed
  <1>15. CASE Settle
    BY <1>15 DEF Settle
  <1>16. CASE Report
    BY <1>16 DEF Report
  <1>17. CASE EndContext
    BY <1>17 DEF EndContext
  <1>18. CASE UNCHANGED vars
    BY <1>18 DEF vars
  <1> QED BY <1>1, <1>2, <1>3, <1>4, <1>5, <1>6, <1>7, <1>8, <1>9, <1>10, <1>11, <1>12, <1>13, <1>14, <1>15, <1>16, <1>17, <1>18, Steps

\* VerifiedIdentity: a verified certificate is valid now, leads to a root of a
\* source that was read, and covers the name the options ask for.
THEOREM VerifiedNamesMatch == Spec => []VerifiedIdentity
  <1>1. Init => VerdictInv
    BY DEF Init, VerdictInv
  <1>2. Typed /\ VerdictInv /\ [Next]_vars => VerdictInv'
    BY VerdictStep
  <1>3. Typed /\ VerdictInv => VerifiedIdentity
    <2> SUFFICES ASSUME Typed, VerdictInv, verification.verified PROVE VerifiedIdentity
      BY DEF VerifiedIdentity
    <2> DEFINE name  == VerifyName(Target, opt)
               roots == LoadRoots(opt)
    <2>1. tls.connected /\ verification = Verdict
      BY DEF VerdictInv, Unchecked
    <2>2. X509Error(Leaf, roots, name) = "ok"
      BY <2>1 DEF Verdict, VerifyPeerCertificates, Leaf
    <2>3. InValidity(Leaf) /\ (name # NoName => name \in Leaf.names) /\ Leaf.anchor \in roots
      BY <2>2 DEF X509Error
    <2>4. ~verification.expired /\ ~verification.notYetValid
      <3>1. Leaf \in Certificate
        <4>1. SniName(Target, opt) \in Names \cup {NoName}
          BY ScenarioType DEF Typed, SniName, Target, Option, Input
        <4>2. peer.chains \in [Names \cup {NoName} -> Seq(Certificate) \ {<<>>}]
          BY ScenarioType DEF Typed, Endpoint
        <4>3. peer.chains[SniName(Target, opt)] \in Seq(Certificate) \ {<<>>}
          BY <4>1, <4>2
        <4> QED BY <4>3 DEF Leaf
      <3>2. Leaf.left \in Int /\ Leaf.age \in Int
        BY <3>1 DEF Certificate
      <3>3. verification.expired <=> Leaf.left < 0
        BY <2>1 DEF Verdict, VerifyPeerCertificates, Leaf
      <3>4. verification.notYetValid <=> Leaf.age < 0
        BY <2>1 DEF Verdict, VerifyPeerCertificates, Leaf
      <3> QED BY <2>3, <3>2, <3>3, <3>4 DEF InValidity
    <2>5. \/ Leaf.anchor = "system" /\ opt.systemRoots
          \/ Leaf.anchor = "ca_file" /\ opt.caFile = "good"
          \/ Leaf.anchor = "ca_bundle" /\ opt.caBundle = "good"
      BY <2>3 DEF LoadRoots
    <2>6. ~opt.noHostname =>
            CASE opt.verifyName # NoName -> opt.verifyName \in Leaf.names
              [] opt.verifyName = NoName /\ opt.serverName # NoName -> opt.serverName \in Leaf.names
              [] OTHER -> input.host \in Leaf.names
      <3>1. input.host # NoName
        BY ScenarioType, NameAssumption DEF Typed, Input
      <3> QED BY <2>3, <3>1 DEF VerifyName, Target
    <2>7. verification.errors \subseteq {"roots"}
      <3>1. X509Error(Leaf, roots, NoName) = "ok"
        BY <2>3 DEF X509Error
      <3>2. name = NoName \/ name \in Leaf.names
        BY <2>3
      <3> QED BY <2>1, <2>2, <3>1, <3>2 DEF Verdict, VerifyPeerCertificates, Leaf
    <2> QED BY <2>1, <2>4, <2>5, <2>6, <2>7 DEF VerifiedIdentity
  <1> QED BY <1>1, <1>2, <1>3, TypedAlways, PTL DEF Spec
----------------------------------------------------------------------------
(* What the probes say. *)

\* The endpoint picks one version of a range.
LEMMA OnePick ==
  ASSUME NEW accepts, NEW range \in SUBSET Int, NEW v, NEW w,
         Picks(accepts, range, v), Picks(accepts, range, w)
  PROVE  v = w
  <1>1. v \in Speaks(accepts, range) /\ w \in Speaks(accepts, range)
    BY DEF Picks
  <1>2. v \in Int /\ w \in Int
    BY <1>1 DEF Speaks
  <1>3. v <= w /\ w <= v
    BY <1>1 DEF Picks
  <1> QED BY <1>2, <1>3

\* A probe offers one version, so what it learns is about that version.
LEMMA ProbeSingle == ASSUME CtlType PROVE ProbeRange(ver) = {ver}
  <1>1. ver \in Int
    BY DEF CtlType, Versions
  <1> QED BY <1>1 DEF ProbeRange

LEMMA ClaimsStep ==
  ASSUME PositiveClaimsTrue, Typed, [Next]_vars
  PROVE  PositiveClaimsTrue'
  <1>0. UNCHANGED peer => /\ \A v : VersionTrue(v)' <=> VersionTrue(v)
                          /\ \A v, s : CipherTrue(v, s)' <=> CipherTrue(v, s)
    BY DEF VersionTrue, CipherTrue
  <1> USE <1>0 DEF PositiveClaimsTrue, chosen, net, scan, report
  <1>1. CASE Start
    BY <1>1 DEF Start
  <1>2. CASE CheckDNS
    BY <1>2 DEF CheckDNS
  <1>3. CASE Route
    <2>1. tls'.connected = tls.connected /\ tls'.version = tls.version
      BY <1>3 DEF Route, Typed, ReportType
    <2> QED BY <1>3, <2>1 DEF Route
  <1>4. CASE Dial
    BY <1>4 DEF Dial
  <1>5. CASE Handshake
    BY <1>5 DEF Handshake
  <1>6. CASE MainConnected
    <2>1. PICK v \in Versions : /\ Picks(peer.accepts, OfferedRange, v)
                                /\ tls' = [tls EXCEPT !.connected = TRUE, !.version = v]
      BY <1>6 DEF MainConnected
    <2>2. tls'.version = v
      BY <2>1 DEF Typed, ReportType
    <2>3. Agree(peer.accepts, OfferedRange, DefaultSuites)
      BY <1>6 DEF MainConnected, Typed, UpInv, OfferedSuites
    <2>4. PICK w \in OfferedRange : /\ Picks(peer.accepts, OfferedRange, w)
                                    /\ \E s \in DefaultSuites : <<w, s>> \in peer.accepts
      BY <2>3 DEF Agree
    <2>5. v = w
      BY <2>1, <2>4, OnePick, RangeType DEF Typed
    <2>6. DefaultSuites' = DefaultSuites
      BY DEF DefaultSuites
    <2>7. UNCHANGED <<peer, versions, ciphers>>
      BY <1>6 DEF MainConnected
    <2> QED BY <2>2, <2>4, <2>5, <2>7
  <1>7. CASE MainFailed
    BY <1>7 DEF MainFailed
  <1>8. CASE RecordVersion
    <2>1. dial = "up" => VersionTrue(ver)
      BY <1>8, ProbeSingle DEF RecordVersion, Typed, UpInv, OfferedRange, OfferedSuites, VersionTrue
    <2>2. UNCHANGED <<peer, tls, ciphers>>
      BY <1>8 DEF RecordVersion
    <2>3. versions' = versions \cup {[version |-> ver, supported |-> dial = "up"]}
      BY <1>8 DEF RecordVersion
    <2>4. ASSUME NEW x \in versions', x.supported PROVE VersionTrue(x.version)
      <3>1. CASE x \in versions
        BY <3>1, <2>4
      <3>2. CASE x = [version |-> ver, supported |-> dial = "up"]
        <4>1. x.version = ver /\ (x.supported <=> dial = "up")
          BY <3>2
        <4> QED BY <4>1, <2>1, <2>4
      <3> QED BY <2>3, <3>1, <3>2
    <2> QED BY <2>2, <2>4
  <1>9. CASE SkipSuite
    BY <1>9 DEF SkipSuite
  <1>10. CASE RecordCipher
    <2>1. dial = "up" => CipherTrue(ver, SuiteList[idx])
      BY <1>10, ProbeSingle DEF RecordCipher, Typed, UpInv, OfferedRange, OfferedSuites, CipherTrue
    <2>2. UNCHANGED <<peer, tls, versions>>
      BY <1>10 DEF RecordCipher
    <2>3. ciphers' = ciphers \cup
            {[version |-> ver, suite |-> SuiteList[idx], supported |-> dial = "up"]}
      BY <1>10 DEF RecordCipher
    <2>4. ASSUME NEW x \in ciphers', x.supported PROVE CipherTrue(x.version, x.suite)
      <3>1. CASE x \in ciphers
        BY <3>1, <2>4
      <3>2. CASE x = [version |-> ver, suite |-> SuiteList[idx], supported |-> dial = "up"]
        <4>1. x.version = ver /\ x.suite = SuiteList[idx] /\ (x.supported <=> dial = "up")
          BY <3>2
        <4> QED BY <4>1, <2>1, <2>4
      <3> QED BY <2>3, <3>1, <3>2
    <2> QED BY <2>2, <2>4
  <1>11. CASE Close
    BY <1>11 DEF Close
  <1>12. CASE BeginHTTP
    BY <1>12 DEF BeginHTTP
  <1>13. CASE HeadRequest
    BY <1>13 DEF HeadRequest
  <1>14. CASE GetRequest
    BY <1>14 DEF GetRequest
  <1>15. CASE Settle
    BY <1>15 DEF Settle
  <1>16. CASE Report
    BY <1>16 DEF Report
  <1>17. CASE EndContext
    BY <1>17 DEF EndContext
  <1>18. CASE UNCHANGED vars
    BY <1>18 DEF vars
  <1> QED BY <1>1, <1>2, <1>3, <1>4, <1>5, <1>6, <1>7, <1>8, <1>9, <1>10, <1>11, <1>12, <1>13, <1>14, <1>15, <1>16, <1>17, <1>18, Steps

\* PositiveClaimsTrue: what the report calls supported, the endpoint accepts,
\* for every suite table, every endpoint and every loss.
THEOREM ClaimsAreTrue == Spec => []PositiveClaimsTrue
  <1>1. Init => PositiveClaimsTrue
    <2> SUFFICES ASSUME Init PROVE versions = {} /\ ciphers = {} /\ ~tls.connected
      BY DEF PositiveClaimsTrue
    <2>1. tls = [attempted |-> FALSE, connected |-> FALSE, version |-> 0]
      BY DEF Init
    <2>2. ~tls.connected
      BY <2>1
    <2>3. versions = {} /\ ciphers = {}
      BY DEF Init
    <2> QED BY <2>2, <2>3
  <1>2. Typed /\ PositiveClaimsTrue /\ [Next]_vars => PositiveClaimsTrue'
    BY ClaimsStep
  <1> QED BY <1>1, <1>2, TypedAlways, PTL DEF Spec
----------------------------------------------------------------------------
(* Why a probe says no. *)

\* The call under way may fail only for a reason.
Excuse == lost > 0 \/ ctx = "done" \/ peer.delay >= Limit

\* The probes run only against an endpoint that is up, and a probe that failed
\* has an excuse or was refused.
FailInv ==
  /\ dial \in {"dialed", "up"} \/ pc \in {"versions", "ciphers", "close"} => peer.up
  /\ dial = "failed" /\ pc \in {"versions", "ciphers"} =>
       Excuse \/ ~Agree(peer.accepts, OfferedRange, OfferedSuites)

LEMMA LimitType == ASSUME CtlType, pc \in {"tls", "versions", "ciphers"} PROVE Limit \in Int
  <1>1. opt.timeout \in Int
    BY ScenarioType DEF Option
  <1>2. NormalizeTimeout(opt.timeout) \in Int
    BY <1>1 DEF NormalizeTimeout, DefaultTimeout
  <1> QED BY <1>2 DEF Limit, ProbeTimeout, VersionCap, CipherCap

LEMMA FailStep ==
  ASSUME FailInv, Typed, [Next]_vars
  PROVE  FailInv'
  <1> USE DEF FailInv, chosen, net, scan, report
  <1>1. CASE Start
    BY <1>1 DEF Start, Typed, DialInv, Connecting, ScansSuite
  <1>2. CASE CheckDNS
    BY <1>2 DEF CheckDNS, Typed, DialInv, Connecting, ScansSuite
  <1>3. CASE Route
    BY <1>3 DEF Route, Typed, DialInv, Connecting, ScansSuite
  <1>4. CASE Dial
    <2>1. Reachable => peer.up
      BY DEF Reachable
    <2>2. UNCHANGED <<opt, input, peer, ctx, pc, ver, idx>>
      BY <1>4 DEF Dial
    <2>3. dial' = "dialed" => peer.up
      BY <1>4, <2>1 DEF Dial
    <2>4. dial' = "failed" => ~Reachable \/ lost' > 0
      BY <1>4, ConstantFacts DEF Dial, Fails, Typed, CtlType
    <2>5. dial' = "failed" /\ pc \in {"versions", "ciphers"} => Excuse'
      BY <2>2, <2>4 DEF Reachable, Excuse
    <2>6. dial' \in {"dialed", "failed"}
      BY <1>4 DEF Dial
    <2> QED BY <2>2, <2>3, <2>5, <2>6
  <1>5. CASE Handshake
    <2>1. UNCHANGED <<opt, input, peer, ctx, pc, ver, idx>> /\ dial = "dialed"
      BY <1>5 DEF Handshake
    <2>2. dial' = "failed" => ~HandshakeWorks \/ lost' > 0
      BY <1>5, ConstantFacts DEF Handshake, Fails, Typed, CtlType
    <2>3. ASSUME ~HandshakeWorks, pc \in {"versions", "ciphers"}
          PROVE  Excuse \/ ~Agree(peer.accepts, OfferedRange, OfferedSuites)
      <3>1. peer.delay \in Int /\ Limit \in Int
        BY <2>3, LimitType, ScenarioType DEF Typed, Endpoint
      <3> QED BY <2>1, <2>3, <3>1 DEF HandshakeWorks, Answers, Reachable, Excuse
    <2>4. UNCHANGED <<Limit, OfferedRange, OfferedSuites>>
      BY <2>1 DEF Limit, OfferedRange, OfferedSuites, ProbeRange
    <2>5. lost \in Int /\ lost' \in Int /\ lost <= lost'
      BY <1>5, ConstantFacts DEF Handshake, Fails, Typed, CtlType
    <2>6. dial' = "failed" /\ pc \in {"versions", "ciphers"} =>
            (Excuse \/ ~Agree(peer.accepts, OfferedRange, OfferedSuites))'
      BY <2>1, <2>2, <2>3, <2>4, <2>5 DEF Excuse
    <2> QED BY <2>1, <2>6
  <1>6. CASE MainConnected
    BY <1>6 DEF MainConnected, AfterVersions
  <1>7. CASE MainFailed
    BY <1>7 DEF MainFailed
  <1>8. CASE RecordVersion
    BY <1>8 DEF RecordVersion, AfterVersions
  <1>9. CASE SkipSuite
    BY <1>9 DEF SkipSuite, NextSuite, Typed, DialInv, Connecting, ScansSuite
  <1>10. CASE RecordCipher
    BY <1>10 DEF RecordCipher, NextSuite
  <1>11. CASE Close
    BY <1>11 DEF Close, Typed, DialInv, Connecting, ScansSuite
  <1>12. CASE BeginHTTP
    BY <1>12 DEF BeginHTTP, Typed, DialInv, Connecting, ScansSuite
  <1>13. CASE HeadRequest
    BY <1>13 DEF HeadRequest, HttpAnswered, HttpFailed, AfterHTTP, Typed, DialInv, Connecting, ScansSuite
  <1>14. CASE GetRequest
    BY <1>14 DEF GetRequest, HttpAnswered, HttpFailed, AfterHTTP, Typed, DialInv, Connecting, ScansSuite
  <1>15. CASE Settle
    BY <1>15 DEF Settle, Typed, DialInv, Connecting, ScansSuite
  <1>16. CASE Report
    BY <1>16 DEF Report, Typed, DialInv, Connecting, ScansSuite
  <1>17. CASE EndContext
    <2>1. UNCHANGED <<peer, pc, dial>> /\ ctx' = "done"
      BY <1>17 DEF EndContext
    <2> QED BY <2>1 DEF Excuse
  <1>18. CASE UNCHANGED vars
    <2>1. UNCHANGED <<Limit, OfferedRange, OfferedSuites, Excuse>>
      BY <1>18 DEF vars, Limit, OfferedRange, OfferedSuites, ProbeRange, Excuse
    <2> QED BY <1>18, <2>1 DEF vars
  <1> QED BY <1>1, <1>2, <1>3, <1>4, <1>5, <1>6, <1>7, <1>8, <1>9, <1>10, <1>11, <1>12, <1>13, <1>14, <1>15, <1>16, <1>17, <1>18, Steps

\* The probes that were recorded as refused against the truth have an excuse,
\* and it does not go away: losses are not taken back and a context stays ended.

LEMMA DenialsStep ==
  ASSUME NegativeClaimsExplained, FailInv, Typed, [Next]_vars
  PROVE  NegativeClaimsExplained'
  <1>0. UNCHANGED peer => /\ \A v : VersionTrue(v)' <=> VersionTrue(v)
                          /\ \A v, s : CipherTrue(v, s)' <=> CipherTrue(v, s)
    BY DEF VersionTrue, CipherTrue
  <1> USE <1>0 DEF NegativeClaimsExplained, chosen, net, scan, report
  <1>1. CASE Start
    BY <1>1 DEF Start
  <1>2. CASE CheckDNS
    BY <1>2 DEF CheckDNS, Fails, HttpAnswered, HttpFailed, Typed, CtlType
  <1>3. CASE Route
    BY <1>3 DEF Route
  <1>4. CASE Dial
    BY <1>4 DEF Dial, Fails, HttpAnswered, HttpFailed, Typed, CtlType
  <1>5. CASE Handshake
    BY <1>5 DEF Handshake, Fails, HttpAnswered, HttpFailed, Typed, CtlType
  <1>6. CASE MainConnected
    BY <1>6 DEF MainConnected
  <1>7. CASE MainFailed
    BY <1>7 DEF MainFailed
  <1>8. CASE RecordVersion
    <2>1. UNCHANGED <<opt, peer, ciphers, lost, ctx>> /\ pc = "versions"
      BY <1>8 DEF RecordVersion
    <2>2. dial # "up" /\ VersionTrue(ver) =>
            \/ lost > 0 \/ ctx = "done"
            \/ peer.delay >= ProbeTimeout(NormalizeTimeout(opt.timeout), VersionCap)
      BY <1>8, ProbeSingle DEF RecordVersion, FailInv, Excuse, Limit, Typed, OfferedRange,
         OfferedSuites, VersionTrue
    <2>3. versions' = versions \cup {[version |-> ver, supported |-> dial = "up"]}
      BY <1>8 DEF RecordVersion
    <2>4. ASSUME NEW x \in versions', ~x.supported, VersionTrue(x.version)
          PROVE  \/ lost > 0 \/ ctx = "done"
                 \/ peer.delay >= ProbeTimeout(NormalizeTimeout(opt.timeout), VersionCap)
      <3>1. CASE x \in versions
        BY <3>1, <2>4
      <3>2. CASE x = [version |-> ver, supported |-> dial = "up"]
        <4>1. x.version = ver /\ (x.supported <=> dial = "up")
          BY <3>2
        <4> QED BY <4>1, <2>2, <2>4
      <3> QED BY <2>3, <3>1, <3>2
    <2> QED BY <2>1, <2>4
  <1>9. CASE SkipSuite
    BY <1>9 DEF SkipSuite
  <1>10. CASE RecordCipher
    <2>1. UNCHANGED <<opt, peer, versions, lost, ctx>> /\ pc = "ciphers"
      BY <1>10 DEF RecordCipher
    <2>2. dial # "up" /\ CipherTrue(ver, SuiteList[idx]) =>
            \/ lost > 0 \/ ctx = "done"
            \/ peer.delay >= ProbeTimeout(NormalizeTimeout(opt.timeout), CipherCap)
      BY <1>10, ProbeSingle DEF RecordCipher, FailInv, Excuse, Limit, Typed, OfferedRange,
         OfferedSuites, CipherTrue
    <2>3. ciphers' = ciphers \cup
            {[version |-> ver, suite |-> SuiteList[idx], supported |-> dial = "up"]}
      BY <1>10 DEF RecordCipher
    <2>4. ASSUME NEW x \in ciphers', ~x.supported, CipherTrue(x.version, x.suite)
          PROVE  \/ lost > 0 \/ ctx = "done"
                 \/ peer.delay >= ProbeTimeout(NormalizeTimeout(opt.timeout), CipherCap)
      <3>1. CASE x \in ciphers
        BY <3>1, <2>4
      <3>2. CASE x = [version |-> ver, suite |-> SuiteList[idx], supported |-> dial = "up"]
        <4>1. x.version = ver /\ x.suite = SuiteList[idx] /\ (x.supported <=> dial = "up")
          BY <3>2
        <4> QED BY <4>1, <2>2, <2>4
      <3> QED BY <2>3, <3>1, <3>2
    <2> QED BY <2>1, <2>4
  <1>11. CASE Close
    BY <1>11 DEF Close
  <1>12. CASE BeginHTTP
    BY <1>12 DEF BeginHTTP
  <1>13. CASE HeadRequest
    BY <1>13 DEF HeadRequest, Fails, HttpAnswered, HttpFailed, Typed, CtlType
  <1>14. CASE GetRequest
    BY <1>14 DEF GetRequest, Fails, HttpAnswered, HttpFailed, Typed, CtlType
  <1>15. CASE Settle
    BY <1>15 DEF Settle
  <1>16. CASE Report
    BY <1>16 DEF Report
  <1>17. CASE EndContext
    BY <1>17 DEF EndContext
  <1>18. CASE UNCHANGED vars
    BY <1>18 DEF vars
  <1> QED BY <1>1, <1>2, <1>3, <1>4, <1>5, <1>6, <1>7, <1>8, <1>9, <1>10, <1>11, <1>12, <1>13, <1>14, <1>15, <1>16, <1>17, <1>18, Steps

\* NegativeClaimsExplained: against the truth a probe says no only after a loss,
\* an ended context or an answer slower than its cap.
THEOREM DenialsAreExplained == Spec => []NegativeClaimsExplained
  <1> DEFINE I == FailInv /\ NegativeClaimsExplained
  <1>1. Init => I
    BY DEF Init, FailInv, NegativeClaimsExplained
  <1>2. Typed /\ I /\ [Next]_vars => I'
    BY FailStep, DenialsStep
  <1> QED BY <1>1, <1>2, TypedAlways, PTL DEF Spec
----------------------------------------------------------------------------
(* The errors of a report. *)

Begun   == {"start", "rejected", "dns", "route"}
Probing == {"tls", "versions", "ciphers", "close"}
Failed  == tls.attempted /\ ~tls.connected

\* Which way the run went.  Once the TLS way is taken the plain HTTP fallback is
\* closed: it needs a target that would have gone the other way.
RouteInv ==
  /\ pc \in Begun => protocol = ""
  /\ pc \notin Begun => protocol = IF PlainRoute THEN "HTTP" ELSE "TLS"
  /\ tls.attempted <=> protocol = "TLS"
  /\ tls.connected => tls.attempted
  /\ pc \in Probing \cup {"settle"} => tls.attempted
  /\ pc \in {"versions", "ciphers", "close"} => tls.connected
  /\ pc \in {"http", "head", "get"} => ~opt.skipHTTP /\ (tls.attempted => tls.connected)

\* What has been asked over HTTP.
AskedInv ==
  /\ pc \in Begun \cup Probing \cup {"http"} => ~http.attempted
  /\ pc = "settle" /\ ~tls.connected => ~http.attempted
  /\ pc \in {"head", "get"} => http.attempted /\ ~http.reachable
  /\ http.reachable => http.attempted
  /\ http.attempted => ~opt.skipHTTP /\ (http.plaintext \/ tls.connected)

\* Each error is in the report as soon as its stage has failed, and only then.
ErrorsInv ==
  /\ "tls" \in errors <=> Failed /\ pc # "tls"
  /\ "https" \in errors <=> Failed /\ Target.scheme = "https" /\ pc \in {"report", "done"}
  /\ "http" \in errors <=> http.attempted /\ ~http.reachable /\ pc \notin {"head", "get"}

LEMMA OutcomeInit == Init => RouteInv /\ AskedInv /\ ErrorsInv
  <1> SUFFICES ASSUME Init PROVE RouteInv /\ AskedInv /\ ErrorsInv
    OBVIOUS
  <1>1. pc = "start" /\ protocol = "" /\ errors = {}
    BY DEF Init
  <1>2. ~tls.attempted /\ ~tls.connected
    BY DEF Init
  <1>3. ~http.attempted /\ ~http.reachable
    BY DEF Init, Silent
  <1> QED BY <1>1, <1>2, <1>3 DEF RouteInv, AskedInv, ErrorsInv, Begun, Probing, Failed

\* On the TLS way no target falls back to plain HTTP.
LEMMA NoFallback ==
  ASSUME CtlType, protocol = "TLS", RouteInv
  PROVE  \A c : ~FallsBack(c)
  <1>1. ~PlainRoute
    BY DEF RouteInv, Begun
  <1>2. Target.scheme \in {"http", "https"}
    BY DEF Target
  <1> QED BY <1>1, <1>2 DEF PlainRoute, FallsBack

LEMMA RouteStep ==
  ASSUME RouteInv, Typed, [Next]_vars
  PROVE  RouteInv'
  <1>0. /\ CtlType /\ DialInv /\ ReportType
        /\ UNCHANGED chosen => (PlainRoute' <=> PlainRoute)
    BY DEF Typed, PlainRoute, Target, chosen
  <1> USE <1>0 DEF RouteInv, Begun, Probing, chosen, net, scan, report
  <1>1. CASE Start
    BY <1>1 DEF Start
  <1>2. CASE CheckDNS
    BY <1>2 DEF CheckDNS
  <1>3. CASE Route
    <2>1. tls'.attempted = ~PlainRoute /\ tls'.connected = tls.connected
      BY <1>3 DEF Route, ReportType
    <2>2. ~tls.connected
      BY <1>3 DEF Route
    <2> QED BY <1>3, <2>1, <2>2 DEF Route
  <1>4. CASE Dial
    BY <1>4 DEF Dial
  <1>5. CASE Handshake
    BY <1>5 DEF Handshake
  <1>6. CASE MainConnected
    <2>1. tls'.attempted = tls.attempted /\ tls'.connected
      BY <1>6 DEF MainConnected, ReportType
    <2> QED BY <1>6, <2>1 DEF MainConnected, AfterVersions
  <1>7. CASE MainFailed
    BY <1>7 DEF MainFailed
  <1>8. CASE RecordVersion
    BY <1>8 DEF RecordVersion, AfterVersions
  <1>9. CASE SkipSuite
    BY <1>9 DEF SkipSuite, NextSuite
  <1>10. CASE RecordCipher
    BY <1>10 DEF RecordCipher, NextSuite
  <1>11. CASE Close
    BY <1>11 DEF Close
  <1>12. CASE BeginHTTP
    BY <1>12 DEF BeginHTTP
  <1>13. CASE HeadRequest
    BY <1>13 DEF HeadRequest, HttpAnswered, HttpFailed, AfterHTTP
  <1>14. CASE GetRequest
    BY <1>14 DEF GetRequest, HttpAnswered, HttpFailed, AfterHTTP
  <1>15. CASE Settle
    <2>1. ~FallsBack(tls.connected)
      BY <1>15, NoFallback DEF Settle
    <2> QED BY <1>15, <2>1 DEF Settle
  <1>16. CASE Report
    BY <1>16 DEF Report
  <1>17. CASE EndContext
    BY <1>17 DEF EndContext
  <1>18. CASE UNCHANGED vars
    BY <1>18 DEF vars
  <1> QED BY <1>1, <1>2, <1>3, <1>4, <1>5, <1>6, <1>7, <1>8, <1>9, <1>10, <1>11, <1>12, <1>13, <1>14, <1>15, <1>16, <1>17, <1>18, Steps

LEMMA AskedStep ==
  ASSUME AskedInv, RouteInv, Typed, [Next]_vars
  PROVE  AskedInv'
  <1>0. CtlType /\ DialInv /\ ReportType
    BY DEF Typed
  <1> USE <1>0 DEF AskedInv, RouteInv, Begun, Probing, chosen, net, scan, report
  <1>1. CASE Start
    BY <1>1 DEF Start
  <1>2. CASE CheckDNS
    BY <1>2 DEF CheckDNS
  <1>3. CASE Route
    <2>1. tls'.connected = tls.connected
      BY <1>3 DEF Route, ReportType
    <2> QED BY <1>3, <2>1 DEF Route
  <1>4. CASE Dial
    BY <1>4 DEF Dial
  <1>5. CASE Handshake
    BY <1>5 DEF Handshake
  <1>6. CASE MainConnected
    <2>1. tls'.connected
      BY <1>6 DEF MainConnected, ReportType
    <2> QED BY <1>6, <2>1 DEF MainConnected, AfterVersions
  <1>7. CASE MainFailed
    BY <1>7 DEF MainFailed
  <1>8. CASE RecordVersion
    BY <1>8 DEF RecordVersion, AfterVersions
  <1>9. CASE SkipSuite
    BY <1>9 DEF SkipSuite, NextSuite
  <1>10. CASE RecordCipher
    BY <1>10 DEF RecordCipher, NextSuite
  <1>11. CASE Close
    BY <1>11 DEF Close
  <1>12. CASE BeginHTTP
    <2>1. http'.attempted /\ http'.reachable = http.reachable
      BY <1>12 DEF BeginHTTP, ReportType
    <2>2. http'.plaintext <=> HttpScheme = "http"
      BY <1>12 DEF BeginHTTP, ReportType
    <2>3. ~tls.attempted => HttpScheme = "http"
      BY <1>12 DEF BeginHTTP, HttpScheme, PlainRoute
    <2> QED BY <1>12, <2>1, <2>2, <2>3 DEF BeginHTTP
  <1>13. CASE HeadRequest
    <2>1. http'.attempted = http.attempted /\ http'.plaintext = http.plaintext
      BY <1>13 DEF HeadRequest, HttpAnswered, HttpFailed, ReportType
    <2>2. http'.reachable = http.reachable \/ pc' = AfterHTTP
      BY <1>13 DEF HeadRequest, HttpAnswered, HttpFailed
    <2> QED BY <1>13, <2>1, <2>2 DEF HeadRequest, HttpAnswered, HttpFailed, AfterHTTP
  <1>14. CASE GetRequest
    <2>1. http'.attempted = http.attempted /\ http'.plaintext = http.plaintext
      BY <1>14 DEF GetRequest, HttpAnswered, HttpFailed, ReportType
    <2> QED BY <1>14, <2>1 DEF GetRequest, HttpAnswered, HttpFailed, AfterHTTP
  <1>15. CASE Settle
    <2>1. ~FallsBack(tls.connected)
      BY <1>15, NoFallback DEF Settle
    <2> QED BY <1>15, <2>1 DEF Settle
  <1>16. CASE Report
    BY <1>16 DEF Report
  <1>17. CASE EndContext
    BY <1>17 DEF EndContext
  <1>18. CASE UNCHANGED vars
    BY <1>18 DEF vars
  <1> QED BY <1>1, <1>2, <1>3, <1>4, <1>5, <1>6, <1>7, <1>8, <1>9, <1>10, <1>11, <1>12, <1>13, <1>14, <1>15, <1>16, <1>17, <1>18, Steps
LEMMA ErrorsStep ==
  ASSUME ErrorsInv, AskedInv, RouteInv, Typed, [Next]_vars
  PROVE  ErrorsInv'
  <1>0. /\ CtlType /\ DialInv /\ ReportType
        /\ UNCHANGED chosen => Target' = Target
    BY DEF Typed, Target, chosen
  <1> USE <1>0 DEF ErrorsInv, AskedInv, RouteInv, Begun, Probing, net, scan, report
  <1>1. CASE Start
    BY <1>1 DEF Start, Failed
  <1>2. CASE CheckDNS
    BY <1>2 DEF CheckDNS, Failed
  <1>3. CASE Route
    <2>1. tls'.attempted = ~PlainRoute /\ tls'.connected = tls.connected
      BY <1>3 DEF Route, ReportType
    <2>2. ~tls.connected /\ ~tls.attempted /\ ~http.attempted
      BY <1>3 DEF Route
    <2>3. CASE PlainRoute
      <3>1. ~Failed'
        BY <2>1, <2>3 DEF Failed
      <3> QED BY <1>3, <2>2, <2>3, <3>1 DEF Route, Failed
    <2>4. CASE ~PlainRoute
      <3>1. pc' = "tls"
        BY <1>3, <2>4 DEF Route
      <3> QED BY <1>3, <2>2, <3>1 DEF Route, Failed
    <2> QED BY <2>3, <2>4
  <1>4. CASE Dial
    BY <1>4 DEF Dial, Failed
  <1>5. CASE Handshake
    BY <1>5 DEF Handshake, Failed
  <1>6. CASE MainConnected
    <2>1. tls'.connected
      BY <1>6 DEF MainConnected, ReportType
    <2>2. UNCHANGED <<http, errors>> /\ pc' \in {"versions", "ciphers", "close"}
      BY <1>6 DEF MainConnected, AfterVersions
    <2> QED BY <1>6, <2>1, <2>2 DEF MainConnected, Failed
  <1>7. CASE MainFailed
    <2>1. Failed /\ Failed'
      BY <1>7 DEF MainFailed, Failed, Typed, ConnectedInv
    <2> QED BY <1>7, <2>1 DEF MainFailed
  <1>8. CASE RecordVersion
    BY <1>8 DEF RecordVersion, AfterVersions, Failed
  <1>9. CASE SkipSuite
    BY <1>9 DEF SkipSuite, NextSuite, Failed
  <1>10. CASE RecordCipher
    BY <1>10 DEF RecordCipher, NextSuite, Failed
  <1>11. CASE Close
    BY <1>11 DEF Close, Failed
  <1>12. CASE BeginHTTP
    <2>1. Failed' <=> Failed
      BY <1>12 DEF BeginHTTP, Failed
    <2>2. ~Failed
      BY <1>12 DEF BeginHTTP, Failed
    <2> QED BY <1>12, <2>1, <2>2 DEF BeginHTTP
  <1>13. CASE HeadRequest
    <2>1. http'.attempted = http.attempted /\ tls' = tls /\ pc \in {"head", "get"}
      BY <1>13 DEF HeadRequest, HttpAnswered, HttpFailed, ReportType
    <2>2. CASE HttpAnswered(peer.head)
      <3>1. http'.reachable /\ errors' = errors /\ pc' \in {"settle", "report"}
        BY <2>2 DEF HttpAnswered, AfterHTTP, ReportType
      <3>2. pc' = "settle" \/ ~Failed
        BY <2>2, <2>1 DEF HttpAnswered, AfterHTTP, Failed
      <3> QED BY <1>13, <2>1, <3>1, <3>2 DEF HeadRequest, Failed
    <2>3. CASE ~HttpAnswered(peer.head)
      BY <1>13, <2>1, <2>3 DEF HeadRequest, HttpFailed, AfterHTTP, Failed
    <2> QED BY <2>2, <2>3
  <1>14. CASE GetRequest
    <2>1. http'.attempted = http.attempted /\ tls' = tls /\ pc \in {"head", "get"}
      BY <1>14 DEF GetRequest, HttpAnswered, HttpFailed, ReportType
    <2>2. CASE HttpAnswered(peer.get)
      <3>1. http'.reachable /\ errors' = errors /\ pc' \in {"settle", "report"}
        BY <2>2 DEF HttpAnswered, AfterHTTP, ReportType
      <3>2. pc' = "settle" \/ ~Failed
        BY <2>2, <2>1 DEF HttpAnswered, AfterHTTP, Failed
      <3> QED BY <1>14, <2>1, <3>1, <3>2 DEF GetRequest, Failed
    <2>3. CASE ~HttpAnswered(peer.get)
      BY <1>14, <2>1, <2>3 DEF GetRequest, HttpFailed, AfterHTTP, Failed
    <2> QED BY <2>2, <2>3
  <1>15. CASE Settle
    <2>1. ~FallsBack(tls.connected)
      BY <1>15, NoFallback DEF Settle
    <2>2. UNCHANGED <<Target, tls, http>> /\ pc' = "report"
      BY <1>15, <2>1 DEF Settle
    <2>3. errors' = errors \cup When(Failed /\ Target.scheme = "https", "https")
      BY <1>15 DEF Settle, Failed
    <2> QED BY <1>15, <2>2, <2>3 DEF Settle, When, Failed
  <1>16. CASE Report
    BY <1>16 DEF Report, Failed
  <1>17. CASE EndContext
    BY <1>17 DEF EndContext, Failed
  <1>18. CASE UNCHANGED vars
    BY <1>18 DEF vars, Failed, chosen
  <1> QED BY <1>1, <1>2, <1>3, <1>4, <1>5, <1>6, <1>7, <1>8, <1>9, <1>10, <1>11, <1>12, <1>13, <1>14, <1>15, <1>16, <1>17, <1>18, Steps

\* ErrorsExact: the errors of a report are those of the stages that failed, no
\* more and no less, and HTTP is asked only where it may be.
THEOREM ErrorsNameTheStages == Spec => []ErrorsExact
  <1> DEFINE I == RouteInv /\ AskedInv /\ ErrorsInv
  <1>1. Init => I
    BY OutcomeInit
  <1>2. Typed /\ I /\ [Next]_vars => I'
    BY RouteStep, AskedStep, ErrorsStep
  <1>3. Typed /\ I => ErrorsExact
    <2> SUFFICES ASSUME Typed, I, Done PROVE ErrorsExact
      BY DEF ErrorsExact
    <2>1. errors \subseteq {"tls", "http", "https"}
      BY DEF Typed, ReportType
    <2>2. errors = (When(Failed, "tls") \cup When(Failed /\ Target.scheme = "https", "https"))
                      \cup When(http.attempted /\ ~http.reachable, "http")
      BY <2>1 DEF ErrorsInv, When, Done
    <2> QED BY <2>2 DEF AskedInv, ErrorsExact, Failed
  <1> QED BY <1>1, <1>2, <1>3, TypedAlways, PTL DEF Spec

\* The plain HTTP fallback of check.go:72 is never taken: a check that tried TLS
\* ends without the warning that announces it.
THEOREM FallbackIsDead == Spec => [](pc = "settle" => ~FallsBack(tls.connected))
  <1>1. Typed /\ RouteInv => (pc = "settle" => ~FallsBack(tls.connected))
    <2> SUFFICES ASSUME Typed, RouteInv, pc = "settle" PROVE ~FallsBack(tls.connected)
      OBVIOUS
    <2>1. protocol = "TLS"
      BY DEF RouteInv
    <2> QED BY <2>1, NoFallback DEF Typed
  <1>2. Typed /\ RouteInv /\ [Next]_vars => RouteInv'
    BY RouteStep
  <1>3. Init => RouteInv
    BY OutcomeInit
  <1> QED BY <1>1, <1>2, <1>3, TypedAlways, PTL DEF Spec
----------------------------------------------------------------------------
(* What the commands rest on. *)

\* Only a usable request goes on.
ValidInv ==
  /\ pc = "rejected" => ~Valid
  /\ pc \notin {"start", "rejected"} => Valid

LEMMA ValidStep ==
  ASSUME ValidInv, Typed, [Next]_vars
  PROVE  ValidInv'
  <1>0. UNCHANGED chosen => (Valid' <=> Valid)
    BY DEF chosen, Valid
  <1> USE <1>0 DEF ValidInv, Typed
  <1>1. CASE Start
    BY <1>1 DEF Start
  <1>2. CASE CheckDNS
    BY <1>2 DEF CheckDNS
  <1>3. CASE Route
    BY <1>3 DEF Route
  <1>4. CASE Dial
    BY <1>4 DEF Dial, Connecting, ScansSuite
  <1>5. CASE Handshake
    BY <1>5 DEF Handshake, DialInv, Connecting, ScansSuite
  <1>6. CASE MainConnected
    BY <1>6 DEF MainConnected, AfterVersions
  <1>7. CASE MainFailed
    BY <1>7 DEF MainFailed
  <1>8. CASE RecordVersion
    BY <1>8 DEF RecordVersion, AfterVersions
  <1>9. CASE SkipSuite
    BY <1>9 DEF SkipSuite, NextSuite
  <1>10. CASE RecordCipher
    BY <1>10 DEF RecordCipher, NextSuite
  <1>11. CASE Close
    BY <1>11 DEF Close
  <1>12. CASE BeginHTTP
    BY <1>12 DEF BeginHTTP
  <1>13. CASE HeadRequest
    BY <1>13 DEF HeadRequest, HttpAnswered, HttpFailed, AfterHTTP
  <1>14. CASE GetRequest
    BY <1>14 DEF GetRequest, HttpAnswered, HttpFailed, AfterHTTP
  <1>15. CASE Settle
    BY <1>15 DEF Settle
  <1>16. CASE Report
    BY <1>16 DEF Report
  <1>17. CASE EndContext
    BY <1>17 DEF EndContext
  <1>18. CASE UNCHANGED vars
    BY <1>18 DEF vars
  <1> QED BY <1>1, <1>2, <1>3, <1>4, <1>5, <1>6, <1>7, <1>8, <1>9, <1>10, <1>11, <1>12, <1>13, <1>14, <1>15, <1>16, <1>17, <1>18, Steps

\* Of two sources, one behind the other, the first is trusted when it is usable, and
\* then the second when it is.
LEMMA TrustedBoth ==
  ASSUME NEW S, NEW s \in Seq(S), NEW t \in Seq(S), \A i \in DOMAIN s : s[i] \notin Unusable
  PROVE  /\ \A i \in DOMAIN s : s[i] \in TrustedCAs(s \o t)
         /\ (\A i \in DOMAIN t : t[i] \notin Unusable) =>
              \A i \in DOMAIN t : t[i] \in TrustedCAs(s \o t)
  <1> DEFINE both == s \o t
  <1>1. /\ Len(s) \in Nat /\ Len(t) \in Nat
        /\ DOMAIN s = 1..Len(s) /\ DOMAIN t = 1..Len(t)
        /\ both \in Seq(S) /\ Len(both) = Len(s) + Len(t)
    BY ConcatProperties
  <1>2. \A i \in 1..(Len(s) + Len(t)) : both[i] = IF i <= Len(s) THEN s[i] ELSE t[i - Len(s)]
    BY ConcatProperties
  <1> HIDE DEF both
  <1>3. DOMAIN both = 1..(Len(s) + Len(t))
    BY <1>1
  <1>4. \A i \in DOMAIN s : i \in DOMAIN both /\ both[i] = s[i]
    BY <1>1, <1>2, <1>3
  <1>5. \A i \in DOMAIN t : Len(s) + i \in DOMAIN both /\ both[Len(s) + i] = t[i]
    BY <1>1, <1>2, <1>3
  <1>6. \A i \in DOMAIN s : s[i] \in TrustedCAs(both)
    <2> SUFFICES ASSUME NEW i \in DOMAIN s PROVE both[i] \in TrustedCAs(both)
      BY <1>4
    <2>1. \A k \in 1..i : both[k] \notin Unusable
      BY <1>1, <1>4
    <2> QED BY <1>4, <2>1 DEF TrustedCAs
  <1>7. ASSUME \A i \in DOMAIN t : t[i] \notin Unusable
        PROVE  \A i \in DOMAIN t : t[i] \in TrustedCAs(both)
    <2>1. \A k \in DOMAIN both : both[k] \notin Unusable
      <3> SUFFICES ASSUME NEW k \in DOMAIN both PROVE both[k] \notin Unusable
        OBVIOUS
      <3>1. CASE k <= Len(s)
        BY <1>1, <1>3, <1>4, <3>1
      <3>2. CASE ~(k <= Len(s))
        <4>1. k - Len(s) \in DOMAIN t /\ both[k] = t[k - Len(s)]
          BY <1>1, <1>2, <1>3, <3>2
        <4> QED BY <1>7, <4>1
      <3> QED BY <3>1, <3>2
    <2>2. \A i \in DOMAIN both : \A k \in 1..i : k \in DOMAIN both
      BY <1>1, <1>3
    <2> QED BY <1>5, <2>1, <2>2 DEF TrustedCAs
  <1> QED BY <1>6, <1>7 DEF both

\* loadRoots adds nothing to what the commands expect it to trust.
LEMMA RootsTrusted ==
  ASSUME opt \in Option
  PROVE  LoadRoots(opt) \subseteq TrustedCAs(CAs)
  <1> DEFINE file   == Source(opt.caFile, "ca_file")
             bundle == Source(opt.caBundle, "ca_bundle")
             S      == {"ca_file", "ca_bundle", "lost"}
  <1>1. /\ opt.caFile \in {"none", "good", "no_pem", "unreadable"}
        /\ opt.caBundle \in {"none", "good", "no_pem"}
    BY DEF Option
  <1>2. \A x \in S : <<x>> \in Seq(S) /\ <<>> \in Seq(S)
    OBVIOUS
  <1>3. file \in Seq(S) /\ bundle \in Seq(S)
    <2>1. file \in {<<>>, <<"ca_file">>, <<"lost">>} /\ bundle \in {<<>>, <<"ca_bundle">>, <<"lost">>}
      BY <1>1 DEF Source
    <2> HIDE DEF file, bundle
    <2> QED BY <1>2, <2>1
  <1>4. \A x : DOMAIN <<x>> = {1} /\ <<x>>[1] = x
    OBVIOUS
  <1>5. DOMAIN <<>> = {}
    OBVIOUS
  <1>6. /\ opt.caFile = "good" => file = <<"ca_file">>
        /\ opt.caFile = "none" => file = <<>>
        /\ opt.caBundle = "good" => bundle = <<"ca_bundle">>
    BY DEF Source
  <1>7. CAs = file \o bundle
    BY DEF CAs
  <1> HIDE DEF file, bundle, S
  <1>8. opt.caFile = "good" => "ca_file" \in TrustedCAs(CAs)
    <2> SUFFICES ASSUME opt.caFile = "good" PROVE "ca_file" \in TrustedCAs(CAs)
      OBVIOUS
    <2>1. DOMAIN file = {1} /\ file[1] = "ca_file"
      BY <1>4, <1>6
    <2>2. \A i \in DOMAIN file : file[i] \notin Unusable
      BY <2>1 DEF Unusable
    <2> QED BY <1>3, <1>7, <2>1, <2>2, TrustedBoth
  <1>9. opt.caFile \in {"none", "good"} /\ opt.caBundle = "good" => "ca_bundle" \in TrustedCAs(CAs)
    <2> SUFFICES ASSUME opt.caFile \in {"none", "good"}, opt.caBundle = "good"
                 PROVE  "ca_bundle" \in TrustedCAs(CAs)
      OBVIOUS
    <2>1. \A i \in DOMAIN file : file[i] \notin Unusable
      BY <1>4, <1>5, <1>6 DEF Unusable
    <2>2. DOMAIN bundle = {1} /\ bundle[1] = "ca_bundle"
      BY <1>4, <1>6
    <2>3. \A i \in DOMAIN bundle : bundle[i] \notin Unusable
      BY <2>2 DEF Unusable
    <2> QED BY <1>3, <1>7, <2>1, <2>2, <2>3, TrustedBoth
  <1>10. "system" \in TrustedCAs(CAs)
    BY DEF TrustedCAs
  <1> QED BY <1>8, <1>9, <1>10 DEF LoadRoots, UsableFile

\* PromiseKept: the results Check hands to the check and kube commands are among
\* those their models go through (CheckResult), and it rejects what they say it does.
THEOREM CheckKeepsPromise == Spec => []PromiseKept
  <1> DEFINE I == ValidInv /\ RouteInv /\ VerdictInv
  <1>1. Init => I
    <2>1. Init => pc = "start" /\ verification = Unchecked
      BY DEF Init
    <2>2. Init => ValidInv /\ VerdictInv
      BY <2>1 DEF ValidInv, VerdictInv
    <2> QED BY <2>2, OutcomeInit
  <1>2. Typed /\ I /\ [Next]_vars => I'
    BY ValidStep, RouteStep, VerdictStep
  <1>3. Typed /\ I => PromiseKept
    <2> DEFINE r == [attempted |-> tls.attempted, connected |-> tls.connected,
                     verified |-> verification.verified]
               Kept == Promised(r, PlainRoute, Leaf.anchor, CAs)
    <2>0. PromiseKept <=> (pc = "rejected" => ~Valid) /\ (Done => Valid /\ Kept)
      BY DEF PromiseKept
    <2> HIDE DEF Kept
    <2> SUFFICES ASSUME Typed, I, Done PROVE Kept
      BY <2>0 DEF ValidInv, Done
    <2>1. tls.attempted <=> ~PlainRoute
      BY DEF RouteInv, Begun, Done
    <2>2. tls.connected => tls.attempted
      BY DEF RouteInv
    <2>3. verification.verified => tls.connected /\ Leaf.anchor \in TrustedCAs(CAs)
      <3> SUFFICES ASSUME verification.verified PROVE tls.connected /\ Leaf.anchor \in TrustedCAs(CAs)
        OBVIOUS
      <3>1. tls.connected /\ verification = Verdict
        BY DEF VerdictInv, Unchecked
      <3>2. X509Error(Leaf, LoadRoots(opt), VerifyName(Target, opt)) = "ok"
        BY <3>1 DEF Verdict, VerifyPeerCertificates, Leaf
      <3>3. Leaf.anchor \in LoadRoots(opt)
        BY <3>2 DEF X509Error
      <3> QED BY <3>1, <3>3, ScenarioType, RootsTrusted DEF Typed
    <2> QED BY <2>1, <2>2, <2>3 DEF Kept, Promised
  <1> QED BY <1>1, <1>2, <1>3, TypedAlways, PTL DEF Spec
----------------------------------------------------------------------------
(* The end of a check. *)

\* What Remaining gives at each point.
Counts(d, v, i) ==
  LET L == Len(SuiteList)
  IN  /\ Remaining("done", d, v, i) = 0
      /\ Remaining("rejected", d, v, i) = 0
      /\ Remaining("report", d, v, i) = 1
      /\ Remaining("settle", d, v, i) = 2
      /\ Remaining("get", d, v, i) = 3
      /\ Remaining("head", d, v, i) = 4
      /\ Remaining("http", d, v, i) = 5
      /\ Remaining("close", d, v, i) = 6
      /\ v = 10 => Remaining("ciphers", d, v, i) = 7 + 9 * L - 3 * i + CallLeft(d)
      /\ v = 11 => Remaining("ciphers", d, v, i) = 7 + 6 * L - 3 * i + CallLeft(d)
      /\ v = 12 => Remaining("ciphers", d, v, i) = 7 + 3 * L - 3 * i + CallLeft(d)
      /\ Remaining("versions", d, v, i) = 46 + 9 * L - 3 * v + CallLeft(d)
      /\ Remaining("tls", d, v, i) = 19 + 9 * L + CallLeft(d)
      /\ Remaining("route", d, v, i) = 22 + 9 * L
      /\ Remaining("dns", d, v, i) = 23 + 9 * L
      /\ Remaining("start", d, v, i) = 24 + 9 * L

LEMMA RemainingAt ==
  ASSUME NEW d, NEW v \in Versions, NEW i \in 1..Len(SuiteList)
  PROVE  Counts(d, v, i)
  <1> DEFINE L == Len(SuiteList)
  <1>1. L \in Nat \ {0} /\ i \in Nat /\ v \in Nat /\ CallLeft(d) \in {0, 1, 2}
    BY ConstantFacts DEF Versions, CallLeft
  <1> USE <1>1
  <1>2. /\ Remaining("done", d, v, i) = 0
        /\ Remaining("rejected", d, v, i) = 0
        /\ Remaining("report", d, v, i) = 1
        /\ Remaining("settle", d, v, i) = 2
        /\ Remaining("get", d, v, i) = 3
        /\ Remaining("head", d, v, i) = 4
        /\ Remaining("http", d, v, i) = 5
        /\ Remaining("close", d, v, i) = 6
    BY DEF Remaining
  <1>3. Remaining("ciphers", d, v, i) = 7 + (12 - v) * (3 * L) + 3 * (L - i) + CallLeft(d)
    BY DEF Remaining
  <1>4. Remaining("versions", d, v, i) = 46 + 9 * L - 3 * v + CallLeft(d)
    BY DEF Remaining
  <1>5. /\ Remaining("tls", d, v, i) = 19 + 9 * L + CallLeft(d)
        /\ Remaining("route", d, v, i) = 22 + 9 * L
        /\ Remaining("dns", d, v, i) = 23 + 9 * L
        /\ Remaining("start", d, v, i) = 24 + 9 * L
    BY DEF Remaining
  <1>6. /\ v = 10 => Remaining("ciphers", d, v, i) = 7 + 9 * L - 3 * i + CallLeft(d)
        /\ v = 11 => Remaining("ciphers", d, v, i) = 7 + 6 * L - 3 * i + CallLeft(d)
        /\ v = 12 => Remaining("ciphers", d, v, i) = 7 + 3 * L - 3 * i + CallLeft(d)
    BY <1>3
  <1> QED BY <1>2, <1>4, <1>5, <1>6 DEF Counts

\* The loop positions and the call, where they are read.
LoopType(at, d, v, i) ==
  /\ v \in 10..13 /\ i \in 1..Len(SuiteList)
  /\ at = "ciphers" => v \in 10..12
  /\ at # "ciphers" => i = 1
  /\ at \notin {"versions", "ciphers"} => v = 10
  /\ CallLeft(d) \in 0..2
  /\ CallLeft("idle") = 2 /\ CallLeft("dialed") = 1
  /\ CallLeft("up") = 0 /\ CallLeft("failed") = 0

LEMMA LoopTypes == CtlType => LoopType(pc, dial, ver, idx) /\ Counts(dial, ver, idx)
  <1> SUFFICES ASSUME CtlType PROVE LoopType(pc, dial, ver, idx) /\ Counts(dial, ver, idx)
    OBVIOUS
  <1>1. Counts(dial, ver, idx)
    BY RemainingAt DEF CtlType
  <1>2. CallLeft(dial) \in 0..2
    BY DEF CallLeft
  <1>3. ver \in 10..13 /\ idx \in 1..Len(SuiteList) /\ (pc = "ciphers" => ver \in 10..12)
    BY DEF CtlType, Versions, ScanVersions
  <1>4. /\ CallLeft("idle") = 2 /\ CallLeft("dialed") = 1
        /\ CallLeft("up") = 0 /\ CallLeft("failed") = 0
    BY DEF CallLeft
  <1> QED BY <1>1, <1>2, <1>3, <1>4 DEF LoopType, CtlType

\* A step of the call under way leaves fewer.
LEMMA CallAhead ==
  ASSUME NEW at \in {"tls", "versions", "ciphers"}, NEW v \in 10..13, NEW i \in 1..Len(SuiteList),
         NEW d, NEW e, at = "ciphers" => v \in 10..12, CallLeft(e) < CallLeft(d)
  PROVE  Remaining(at, e, v, i) < Remaining(at, d, v, i)
  <1>1. Counts(d, v, i) /\ Counts(e, v, i)
    BY RemainingAt DEF Versions
  <1>2. CallLeft(d) \in Nat /\ CallLeft(e) \in Nat /\ i \in Nat /\ Len(SuiteList) \in Nat
    BY ConstantFacts DEF CallLeft
  <1>3. CASE at = "tls"
    BY <1>1, <1>2, <1>3 DEF Counts
  <1>4. CASE at = "versions"
    BY <1>1, <1>2, <1>4 DEF Counts
  <1>5. CASE at = "ciphers"
    <2>1. CASE v = 10  BY <1>1, <1>2, <1>5, <2>1 DEF Counts
    <2>2. CASE v = 11  BY <1>1, <1>2, <1>5, <2>2 DEF Counts
    <2>3. CASE v = 12  BY <1>1, <1>2, <1>5, <2>3 DEF Counts
    <2> QED BY <1>5, <2>1, <2>2, <2>3
  <1> QED BY <1>3, <1>4, <1>5

\* So does the next position of the inventory, whatever became of the call.
LEMMA SuiteAhead ==
  ASSUME NEW v \in 10..12, NEW i \in 1..Len(SuiteList), NEW d, NEW e
  PROVE  /\ i < Len(SuiteList) => Remaining("ciphers", e, v, i + 1) < Remaining("ciphers", d, v, i)
         /\ i = Len(SuiteList) /\ v < 12 =>
              Remaining("ciphers", e, v + 1, 1) < Remaining("ciphers", d, v, i)
         /\ i = Len(SuiteList) => Remaining("close", e, 10, 1) < Remaining("ciphers", d, v, i)
  <1> DEFINE L == Len(SuiteList)
  <1>1. /\ L \in Nat \ {0} /\ i \in Nat /\ i >= 1 /\ i <= L
        /\ CallLeft(d) \in 0..2 /\ CallLeft(e) \in 0..2
    BY ConstantFacts DEF CallLeft
  <1>2. /\ \A u \in 10..13 : \A j \in 1..L : Counts(d, u, j) /\ Counts(e, u, j)
    BY RemainingAt DEF Versions
  <1>4. ASSUME i < L
        PROVE  Remaining("ciphers", e, v, i + 1) < Remaining("ciphers", d, v, i)
    <2>1. i + 1 \in 1..L
      BY <1>1, <1>4
    <2>2. Counts(e, v, i + 1) /\ Counts(d, v, i)
      BY <1>2, <2>1
    <2>3. CASE v = 10  BY <1>1, <2>2, <2>3 DEF Counts
    <2>4. CASE v = 11  BY <1>1, <2>2, <2>4 DEF Counts
    <2>5. CASE v = 12  BY <1>1, <2>2, <2>5 DEF Counts
    <2> QED BY <2>3, <2>4, <2>5
  <1>5. ASSUME i = L, v < 12
        PROVE  Remaining("ciphers", e, v + 1, 1) < Remaining("ciphers", d, v, i)
    <2>1. 1 \in 1..L
      BY <1>1
    <2>2. Counts(e, v + 1, 1) /\ Counts(d, v, i)
      BY <1>2, <2>1
    <2>3. CASE v = 10  BY <1>1, <1>5, <2>2, <2>3 DEF Counts
    <2>4. CASE v = 11  BY <1>1, <1>5, <2>2, <2>4 DEF Counts
    <2> QED BY <1>5, <2>3, <2>4
  <1>6. ASSUME i = L
        PROVE  Remaining("close", e, 10, 1) < Remaining("ciphers", d, v, i)
    <2>1. Counts(e, 10, 1) /\ Counts(d, v, i)
      BY <1>1, <1>2
    <2>3. CASE v = 10  BY <1>1, <1>6, <2>1, <2>3 DEF Counts
    <2>4. CASE v = 11  BY <1>1, <1>6, <2>1, <2>4 DEF Counts
    <2>5. CASE v = 12  BY <1>1, <1>6, <2>1, <2>5 DEF Counts
    <2> QED BY <2>3, <2>4, <2>5
  <1> QED BY <1>4, <1>5, <1>6

\* Each step of a check leaves fewer steps than it found.
LEMMA Advances ==
  ASSUME Typed, RouteInv, Typed', Step
  PROVE  Remaining(pc', dial', ver', idx') < Remaining(pc, dial, ver, idx)
  <1> DEFINE L == Len(SuiteList)
             Fewer == Remaining(pc', dial', ver', idx') < Remaining(pc, dial, ver, idx)
  <1>1. LoopType(pc, dial, ver, idx) /\ Counts(dial, ver, idx)
    BY LoopTypes DEF Typed
  <1>2. LoopType(pc', dial', ver', idx') /\ Counts(dial', ver', idx')
    <2>1. Counts(dial', ver', idx')
      BY RemainingAt DEF Typed, CtlType
    <2>2. CallLeft(dial') \in 0..2
      BY DEF CallLeft
    <2>3. ver' \in 10..13 /\ idx' \in 1..Len(SuiteList) /\ (pc' = "ciphers" => ver' \in 10..12)
      BY DEF Typed, CtlType, Versions, ScanVersions
    <2> QED BY <1>1, <2>1, <2>2, <2>3 DEF LoopType, Typed, CtlType
  <1>3. L \in Nat \ {0}
    BY ConstantFacts
  <1>4. dial # "idle" => Connecting
    BY DEF Typed, DialInv
  <1>5. pc = "settle" => ~FallsBack(tls.connected)
    <2> SUFFICES ASSUME pc = "settle" PROVE ~FallsBack(tls.connected)
      OBVIOUS
    <2>1. protocol = "TLS"
      BY DEF RouteInv
    <2> QED BY <2>1, NoFallback DEF Typed
  <1> USE <1>1, <1>2, <1>3 DEF LoopType, Counts, net, scan
  <1>6. CASE Start
    BY <1>6 DEF Start
  <1>7. CASE CheckDNS
    BY <1>7 DEF CheckDNS
  <1>8. CASE Route
    BY <1>8 DEF Route
  <1>9. CASE Dial
    <2>1. /\ pc \in {"tls", "versions", "ciphers"} /\ dial = "idle"
          /\ dial' \in {"dialed", "failed"} /\ UNCHANGED <<pc, ver, idx>>
      BY <1>9 DEF Dial, Connecting, ScansSuite, Fails
    <2>2. CallLeft(dial') < CallLeft(dial)
      BY <2>1
    <2>3. ver \in 10..13 /\ idx \in 1..Len(SuiteList) /\ (pc = "ciphers" => ver \in 10..12)
      OBVIOUS
    <2> HIDE <1>1, <1>2 DEF Counts, LoopType
    <2> QED BY <2>1, <2>2, <2>3, CallAhead
  <1>10. CASE Handshake
    <2>1. /\ pc \in {"tls", "versions", "ciphers"} /\ dial = "dialed"
          /\ dial' \in {"up", "failed"} /\ UNCHANGED <<pc, ver, idx>>
      BY <1>4, <1>10 DEF Handshake, Connecting, ScansSuite, Fails
    <2>2. CallLeft(dial') < CallLeft(dial)
      BY <2>1
    <2>3. ver \in 10..13 /\ idx \in 1..Len(SuiteList) /\ (pc = "ciphers" => ver \in 10..12)
      OBVIOUS
    <2> HIDE <1>1, <1>2 DEF Counts, LoopType
    <2> QED BY <2>1, <2>2, <2>3, CallAhead
  <1>11. CASE MainConnected
    BY <1>11 DEF MainConnected, AfterVersions
  <1>12. CASE MainFailed
    BY <1>12 DEF MainFailed
  <1>13. CASE RecordVersion
    <2>1. /\ pc = "versions" /\ dial' = "idle" /\ idx = 1 /\ idx' = 1
          /\ CallLeft(dial) = 0
      BY <1>13 DEF RecordVersion
    <2>2. CASE ver < 13
      BY <1>13, <2>1, <2>2 DEF RecordVersion
    <2>3. CASE ~(ver < 13)
      <3>1. ver = 13 /\ ver' = 10 /\ pc' \in {"close", "ciphers"}
        BY <1>13, <2>3 DEF RecordVersion, AfterVersions
      <3> QED BY <2>1, <3>1
    <2> QED BY <2>2, <2>3
  <1>14. ASSUME pc = "ciphers", NextSuite PROVE Fewer
    <2>1. CASE idx < L
      <3>1. idx' = idx + 1 /\ ver' = ver /\ pc' = "ciphers"
        BY <1>14, <2>1 DEF NextSuite
      <3> QED BY <1>14, <2>1, <3>1, SuiteAhead
    <2>2. CASE ~(idx < L) /\ ver < 12
      <3>1. idx = L /\ idx' = 1 /\ ver' = ver + 1 /\ pc' = "ciphers"
        BY <1>14, <2>2 DEF NextSuite
      <3> QED BY <1>14, <2>2, <3>1, SuiteAhead
    <2>3. CASE ~(idx < L) /\ ~(ver < 12)
      <3>1. idx = L /\ ver' = 10 /\ idx' = 1 /\ pc' = "close"
        BY <1>14, <2>3 DEF NextSuite
      <3> QED BY <1>14, <3>1, SuiteAhead
    <2> QED BY <2>1, <2>2, <2>3
  <1>15. CASE SkipSuite \/ RecordCipher
    BY <1>14, <1>15 DEF SkipSuite, RecordCipher
  <1>16. CASE Close
    BY <1>16 DEF Close
  <1>17. CASE BeginHTTP
    BY <1>17 DEF BeginHTTP
  <1>18. CASE HeadRequest
    BY <1>18 DEF HeadRequest, HttpAnswered, HttpFailed, AfterHTTP
  <1>19. CASE GetRequest
    BY <1>19 DEF GetRequest, HttpAnswered, HttpFailed, AfterHTTP
  <1>20. CASE Settle
    BY <1>5, <1>20 DEF Settle
  <1>21. CASE Report
    BY <1>21 DEF Report
  <1> QED BY <1>6, <1>7, <1>8, <1>9, <1>10, <1>11, <1>12, <1>13, <1>15, <1>16, <1>17, <1>18, <1>19, <1>20, <1>21 DEF Step

\* AlwaysAdvances: whatever the network answers, no step of a check leaves as many
\* steps to take as it found: every dial and handshake is recorded once and no
\* loop or retry takes a check back to where it was.
THEOREM ChecksAlwaysAdvance == Spec => AlwaysAdvances
  <1> DEFINE A == ctx' = ctx => StepsLeft' < StepsLeft
  <1>1. ASSUME Typed, RouteInv, Typed', [Next]_vars PROVE [A]_vars
    <2>1. CASE Step
      BY <1>1, <2>1, Advances DEF StepsLeft
    <2>2. CASE EndContext
      BY <2>2 DEF EndContext
    <2>3. CASE UNCHANGED vars
      BY <2>3
    <2> QED BY <1>1, <2>1, <2>2, <2>3 DEF Next, Terminated
  <1>2. Typed /\ RouteInv /\ [Next]_vars => [A]_vars
    BY <1>1, TypedStep
  <1>3. Init => RouteInv
    BY OutcomeInit
  <1>4. Typed /\ RouteInv /\ [Next]_vars => RouteInv'
    BY RouteStep
  <1> QED BY <1>2, <1>3, <1>4, TypedAlways, PTL DEF Spec, AlwaysAdvances

\* A check takes at most 24 steps more than nine for each suite.
THEOREM CheckLength == Spec => [](StepsLeft \in 0..(9 * Len(SuiteList) + 24))
  <1>1. CtlType => StepsLeft \in 0..(9 * Len(SuiteList) + 24)
    <2> SUFFICES ASSUME CtlType PROVE StepsLeft \in 0..(9 * Len(SuiteList) + 24)
      OBVIOUS
    <2> DEFINE L == Len(SuiteList)
    <2>0. /\ LoopType(pc, dial, ver, idx) /\ Counts(dial, ver, idx)
          /\ L \in Nat \ {0} /\ idx \in Nat /\ idx >= 1 /\ idx <= L
      BY LoopTypes, ConstantFacts DEF LoopType
    <2> USE <2>0 DEF StepsLeft, LoopType, Counts
    <2>1. CASE pc = "ciphers"
      <3>1. ver = 10 \/ ver = 11 \/ ver = 12
        BY <2>1
      <3>2. CallLeft(dial) \in Nat /\ CallLeft(dial) <= 2
        OBVIOUS
      <3>3. \/ StepsLeft = 7 + 9 * L - 3 * idx + CallLeft(dial)
            \/ StepsLeft = 7 + 6 * L - 3 * idx + CallLeft(dial)
            \/ StepsLeft = 7 + 3 * L - 3 * idx + CallLeft(dial)
        BY <2>1, <3>1
      <3> HIDE <2>0 DEF StepsLeft, LoopType, Counts
      <3> QED BY <2>0, <3>2, <3>3
    <2>2. CASE pc = "versions"
      <3>1. /\ CallLeft(dial) \in Nat /\ CallLeft(dial) <= 2
            /\ ver \in Nat /\ ver >= 10 /\ ver <= 13
        OBVIOUS
      <3>2. StepsLeft = 46 + 9 * L - 3 * ver + CallLeft(dial)
        BY <2>2
      <3> HIDE <2>0 DEF StepsLeft, LoopType, Counts
      <3> QED BY <2>0, <3>1, <3>2
    <2>3. CASE pc = "tls"
      BY <2>3
    <2>4. CASE pc \notin {"ciphers", "versions", "tls"}
      BY <2>4 DEF CtlType, PCs
    <2> QED BY <2>1, <2>2, <2>3, <2>4
  <1> QED BY <1>1, TypedAlways, PTL DEF Typed
=============================================================================
