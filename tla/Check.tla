------------------------------- MODULE Check -------------------------------
(***************************************************************************)
(* One run of checker.Check against one endpoint: validation, DNS, the     *)
(* main TLS handshake, the version probes and the cipher inventory, the    *)
(* HTTP probe and the report (internal/checker/check.go, tls.go, dns.go).  *)
(*                                                                         *)
(* The endpoint does not change while it is checked.  The environment may  *)
(* lose up to MaxLost answers (a dropped SYN, a reset, a packet late for   *)
(* its deadline) and may end the caller's context.  Times are counted in   *)
(* half seconds.                                                           *)
(***************************************************************************)
EXTENDS Security, HttpHeaders

CONSTANTS
  Scenarios,  \* the options, the target as typed, and what answers at its address
  Contexts,   \* "background" cannot end, "live" can
  MaxLost     \* bound on the answers the network loses

Option == [timeout : Int, tlsMin : Int, tlsMax : Int,
           skipDNS : BOOLEAN, skipHTTP : BOOLEAN, skipTLSProbe : BOOLEAN,
           skipCiphers : BOOLEAN, forceTLS : BOOLEAN, noHostname : BOOLEAN,
           serverName : Names \cup {NoName}, verifyName : Names \cup {NoName},
           caFile : {"none", "good", "no_pem", "unreadable"},
           caBundle : {"none", "good", "no_pem"}, systemRoots : BOOLEAN]

\* form is how the target was written: without a scheme, with one, or unusable.
Input == [form : {"bare", "http", "https", "bad"}, host : Names, isIP : BOOLEAN]

RecordTypes == {"a", "aaaa", "caa", "ptr"}

Endpoint == [up       : BOOLEAN,                     \* accepts TCP connections
             delay    : Nat,                         \* time it takes to answer
             accepts  : SUBSET (Versions \X Suites), \* what it negotiates
             chains   : [Names \cup {NoName} -> Seq(Certificate) \ {<<>>}], \* by SNI
             dns      : SUBSET RecordTypes,          \* records its name has
             plain    : BOOLEAN,                     \* speaks HTTP without TLS
             head     : BOOLEAN,                     \* answers HEAD
             get      : BOOLEAN,                     \* answers GET
             response : Response]

ASSUME InputAssumption ==
  /\ Scenarios \subseteq [opt : Option, input : Input, peer : Endpoint]
  /\ Contexts \subseteq {"background", "live"}
  /\ MaxLost \in Nat

VARIABLES
  opt, input, peer,            \* chosen at the start
  ctx,                         \* "background", "live" or "done"
  pc,                          \* the next step of Check
  dial,                        \* the call of connectTLSConfig under way
  conns,                       \* TLS connections open
  ver, idx,                    \* loop positions of the probes
  lost,                        \* answers lost so far
  protocol, tls, versions, ciphers, http, dns,
  verification, warnings, errors, security   \* the fields of Result

chosen == <<opt, input, peer>>
net    == <<ctx, dial, conns, lost>>
scan   == <<ver, idx, versions, ciphers>>
report == <<protocol, tls, http, dns, verification, warnings, errors, security>>
vars   == <<chosen, net, scan, report, pc>>

----------------------------------------------------------------------------
(* Helpers of check.go, tls.go and parse.go. *)

DefaultTimeout == 20
VersionCap     == 8
CipherCap      == 3

NormalizeTimeout(t) == IF t <= 0 THEN DefaultTimeout ELSE t

ProbeTimeout(t, cap) == IF t <= 0 \/ t > cap THEN cap ELSE t

TlsVersionValid(v) == v \in {0} \cup Versions

RangeValid(min, max) == min = 0 \/ max = 0 \/ min <= max

\* A target without a scheme gets "https".
Target == [scheme |-> IF input.form = "http" THEN "http" ELSE "https",
           host |-> input.host, isIP |-> input.isIP]

PlainRoute == Target.scheme = "http" /\ ~opt.forceTLS

\* A plausible bug: the fallback does not look at the scheme.
FallsBackBug(connected) == ~connected /\ ~opt.forceTLS

\* The condition of the plain HTTP fallback.
FallsBack(connected) == ~connected /\ Target.scheme # "https" /\ ~opt.forceTLS

\* Plausible bugs: a probe sets only MaxVersion, or keeps the caller's range.
ProbeRangeOpen(v)    == 10..v
ProbeRangeClamped(v) == {w \in LowBound(opt.tlsMin)..HighBound(opt.tlsMax) : w = v}

\* The handshake connectTLSConfig is asked for at this point of the run.
ProbeRange(v) == v..v

OfferedRange ==
  IF pc = "tls" THEN LowBound(opt.tlsMin)..HighBound(opt.tlsMax) ELSE ProbeRange(ver)

OfferedSuites == IF pc = "ciphers" THEN {SuiteList[idx]} ELSE DefaultSuites

Limit == CASE pc = "tls"      -> NormalizeTimeout(opt.timeout)
           [] pc = "versions" -> ProbeTimeout(NormalizeTimeout(opt.timeout), VersionCap)
           [] pc = "ciphers"  -> ProbeTimeout(NormalizeTimeout(opt.timeout), CipherCap)

ScansSuite == pc = "ciphers" /\ CipherSuiteSupportsVersion(SuiteList[idx], ver)

Connecting == pc \in {"tls", "versions"} \/ ScansSuite

Leaf == peer.chains[SniName(Target, opt)][1]

----------------------------------------------------------------------------
(* Initial state and validation. *)

NoSecurity == [findings |-> {}, score |-> 0, grade |-> "", summary |-> ""]

Silent == [attempted |-> FALSE, plaintext |-> FALSE, reachable |-> FALSE, checks |-> {}]

Init ==
  /\ \E s \in Scenarios : opt = s.opt /\ input = s.input /\ peer = s.peer
  /\ ctx \in Contexts
  /\ pc = "start" /\ dial = "idle" /\ conns = 0 /\ lost = 0
  /\ ver = 10 /\ idx = 1 /\ versions = {} /\ ciphers = {}
  /\ protocol = "" /\ tls = [attempted |-> FALSE, connected |-> FALSE, version |-> 0]
  /\ http = Silent /\ dns = NotAsked /\ verification = Unchecked
  /\ warnings = {} /\ errors = {} /\ security = NoSecurity

Valid ==
  /\ TlsVersionValid(opt.tlsMin) /\ TlsVersionValid(opt.tlsMax)
  /\ RangeValid(opt.tlsMin, opt.tlsMax)
  /\ input.form # "bad"

Start ==
  /\ pc = "start"
  /\ pc' = IF ~Valid THEN "rejected" ELSE IF opt.skipDNS THEN "route" ELSE "dns"
  /\ UNCHANGED <<chosen, net, scan, report>>

----------------------------------------------------------------------------
(* The network.  A step that would succeed fails when its answer is lost.  *)

\* A plausible bug: the probes do not pass the caller's context on.
ReachableBug == peer.up

Reachable == peer.up /\ ctx # "done"

Answers(limit) == Reachable /\ peer.delay < limit

\* The step fails: on its own, or because the environment spends a loss on it.
Fails(works) ==
  \/ ~works /\ lost' = lost
  \/ works /\ lost < MaxLost /\ lost' = lost + 1

\* The caller's deadline passes, or its client goes away.
EndContext ==
  /\ ctx = "live" /\ pc \notin {"done", "rejected"}
  /\ ctx' = "done"
  /\ UNCHANGED <<chosen, dial, conns, lost, scan, report, pc>>

\* The lookups that succeed are recorded; a failed A or PTR lookup also leaves
\* a warning, a failed AAAA, CNAME or CAA lookup leaves nothing.
CheckDNS ==
  LET asked == IF input.isIP THEN {"ptr"} ELSE {"a", "aaaa", "caa"}
      has   == IF ctx = "done" THEN {} ELSE peer.dns \cap asked
      warns == IF input.isIP THEN "ptr" ELSE "a"
  IN  /\ pc = "dns"
      /\ \E got \in SUBSET has :
           /\ \/ got = has /\ lost' = lost
              \/ got # has /\ lost < MaxLost /\ lost' = lost + 1
           /\ dns' = got
           /\ warnings' = warnings \cup When(warns \notin got, Warning("dns", 0))
      /\ pc' = "route"
      /\ UNCHANGED <<chosen, ctx, dial, conns, scan, protocol, tls, http,
                     verification, errors, security>>

Route ==
  /\ pc = "route"
  /\ protocol' = IF PlainRoute THEN "HTTP" ELSE "TLS"
  /\ tls' = [tls EXCEPT !.attempted = ~PlainRoute]
  /\ pc' = IF ~PlainRoute THEN "tls" ELSE IF opt.skipHTTP THEN "report" ELSE "http"
  /\ UNCHANGED <<chosen, net, scan, http, dns, verification, warnings, errors, security>>

----------------------------------------------------------------------------
(* connectTLSConfig: dial, then a handshake under its own deadline.        *)

Dial ==
  /\ Connecting /\ dial = "idle"
  /\ \/ Reachable /\ dial' = "dialed" /\ conns' = conns + 1 /\ lost' = lost
     \/ Fails(Reachable) /\ dial' = "failed" /\ conns' = conns
  /\ UNCHANGED <<chosen, ctx, scan, report, pc>>

HandshakeWorks ==
  Answers(Limit) /\ Agree(peer.accepts, OfferedRange, OfferedSuites)

\* A plausible bug: a failed handshake leaves its connection open.
ConnsAfterFailureBug == conns

\* A failed handshake closes the connection before it is reported.
ConnsAfterFailure == conns - 1

Handshake ==
  /\ dial = "dialed"
  /\ \/ HandshakeWorks /\ dial' = "up" /\ conns' = conns /\ lost' = lost
     \/ Fails(HandshakeWorks) /\ dial' = "failed" /\ conns' = ConnsAfterFailure
  /\ UNCHANGED <<chosen, ctx, scan, report, pc>>

----------------------------------------------------------------------------
(* checkTLS. *)

AfterVersions == IF opt.skipCiphers THEN "close" ELSE "ciphers"

\* The verdict and the warnings are assigned together from the chain: the
\* warnings collected so far are replaced.
MainConnected ==
  LET chain == peer.chains[SniName(Target, opt)]
  IN  /\ pc = "tls" /\ dial = "up"
      /\ dial' = "idle"
      /\ \E v \in Versions :
           /\ Picks(peer.accepts, OfferedRange, v)
           /\ tls' = [tls EXCEPT !.connected = TRUE, !.version = v]
      /\ verification' = VerifyPeerCertificates(chain, Target, opt)
      /\ warnings' = VerifyWarnings(chain, Target, opt)
      /\ pc' = IF opt.skipTLSProbe THEN AfterVersions ELSE "versions"
      /\ UNCHANGED <<chosen, ctx, conns, lost, scan, protocol, http, dns, errors, security>>

MainFailed ==
  /\ pc = "tls" /\ dial = "failed"
  /\ dial' = "idle"
  /\ errors' = errors \cup {"tls"}
  /\ pc' = "settle"
  /\ UNCHANGED <<chosen, ctx, conns, lost, scan, protocol, tls, http, dns,
                 verification, warnings, security>>

\* A plausible bug: the first refused version ends the loop.
RecordVersionBug ==
  /\ pc = "versions" /\ dial \in {"up", "failed"}
  /\ versions' = versions \cup {[version |-> ver, supported |-> dial = "up"]}
  /\ conns' = IF dial = "up" THEN conns - 1 ELSE conns
  /\ dial' = "idle"
  /\ IF dial = "up" /\ ver < 13 THEN ver' = ver + 1 /\ pc' = pc
     ELSE ver' = 10 /\ pc' = AfterVersions
  /\ UNCHANGED <<chosen, ctx, lost, idx, ciphers, report>>

\* One answer of probeTLSVersions: a probe connection that came up is closed.
RecordVersion ==
  /\ pc = "versions" /\ dial \in {"up", "failed"}
  /\ versions' = versions \cup {[version |-> ver, supported |-> dial = "up"]}
  /\ conns' = IF dial = "up" THEN conns - 1 ELSE conns
  /\ dial' = "idle"
  /\ IF ver < 13 THEN ver' = ver + 1 /\ pc' = pc ELSE ver' = 10 /\ pc' = AfterVersions
  /\ UNCHANGED <<chosen, ctx, lost, idx, ciphers, report>>

\* A plausible bug: the inventory stops before TLS 1.2.
NextSuiteBug ==
  IF idx < Len(SuiteList) THEN idx' = idx + 1 /\ ver' = ver /\ pc' = pc
  ELSE IF ver < 11 THEN idx' = 1 /\ ver' = ver + 1 /\ pc' = pc
  ELSE idx' = 1 /\ ver' = 10 /\ pc' = "close"

\* The next position of the inventory's two loops.
NextSuite ==
  IF idx < Len(SuiteList) THEN idx' = idx + 1 /\ ver' = ver /\ pc' = pc
  ELSE IF ver < 12 THEN idx' = 1 /\ ver' = ver + 1 /\ pc' = pc
  ELSE idx' = 1 /\ ver' = 10 /\ pc' = "close"

SkipSuite ==
  /\ pc = "ciphers" /\ ~ScansSuite
  /\ NextSuite
  /\ UNCHANGED <<chosen, net, versions, ciphers, report>>

\* One answer of probeTLSCiphers.
RecordCipher ==
  /\ pc = "ciphers" /\ dial \in {"up", "failed"}
  /\ ciphers' = ciphers \cup
       {[version |-> ver, suite |-> SuiteList[idx], supported |-> dial = "up"]}
  /\ conns' = IF dial = "up" THEN conns - 1 ELSE conns
  /\ dial' = "idle"
  /\ NextSuite
  /\ UNCHANGED <<chosen, ctx, lost, versions, report>>

\* checkTLS returns: the deferred close of the main connection.
Close ==
  /\ pc = "close"
  /\ conns' = conns - 1
  /\ pc' = IF opt.skipHTTP THEN "settle" ELSE "http"
  /\ UNCHANGED <<chosen, ctx, dial, lost, scan, report>>

----------------------------------------------------------------------------
(* checkHTTP: HEAD, then GET unless the context has ended. *)

\* Only the fallback changes the scheme it asks with.
HttpScheme == IF protocol = "TLS" /\ FallsBack(tls.connected) THEN "http" ELSE Target.scheme

BeginHTTP ==
  /\ pc = "http"
  /\ http' = [http EXCEPT !.attempted = TRUE, !.plaintext = HttpScheme = "http"]
  /\ pc' = "head"
  /\ UNCHANGED <<chosen, net, scan, protocol, tls, dns, verification, warnings,
                 errors, security>>

HttpWorks(method) ==
  /\ Answers(NormalizeTimeout(opt.timeout))
  /\ IF http.plaintext THEN peer.plain
     ELSE Agree(peer.accepts, LowBound(0)..HighBound(0), DefaultSuites)
  /\ method

\* Where checkHTTP returns to.
AfterHTTP == IF protocol = "TLS" /\ tls.connected THEN "settle" ELSE "report"

HttpAnswered(method) ==
  /\ HttpWorks(method)
  /\ http' = [http EXCEPT !.reachable = TRUE,
                          !.checks = AnalyzeHTTPHeaders(peer.response, http.plaintext)]
  /\ pc' = AfterHTTP
  /\ UNCHANGED <<lost, errors>>

HttpFailed ==
  /\ errors' = errors \cup {"http"}
  /\ pc' = AfterHTTP
  /\ http' = http

\* Plausible bugs: a failed HEAD is reported before GET is tried, or HEAD is
\* tried again for ever.
HeadRequestBlames ==
  /\ pc = "head"
  /\ \/ HttpAnswered(peer.head)
     \/ /\ Fails(HttpWorks(peer.head))
        /\ errors' = errors \cup {"http"} /\ http' = http
        /\ pc' = IF ctx = "done" THEN AfterHTTP ELSE "get"
  /\ UNCHANGED <<chosen, ctx, dial, conns, scan, protocol, tls, dns, verification,
                 warnings, security>>

HeadRequestRetries ==
  /\ pc = "head"
  /\ \/ HttpAnswered(peer.head)
     \/ /\ Fails(HttpWorks(peer.head))
        /\ IF ctx = "done" THEN HttpFailed ELSE UNCHANGED <<pc, http, errors>>
  /\ UNCHANGED <<chosen, ctx, dial, conns, scan, protocol, tls, dns, verification,
                 warnings, security>>

HeadRequest ==
  /\ pc = "head"
  /\ \/ HttpAnswered(peer.head)
     \/ /\ Fails(HttpWorks(peer.head))
        /\ IF ctx = "done" THEN HttpFailed
           ELSE pc' = "get" /\ UNCHANGED <<http, errors>>
  /\ UNCHANGED <<chosen, ctx, dial, conns, scan, protocol, tls, dns, verification,
                 warnings, security>>

GetRequest ==
  /\ pc = "get"
  /\ \/ HttpAnswered(peer.get)
     \/ Fails(HttpWorks(peer.get)) /\ HttpFailed
  /\ UNCHANGED <<chosen, ctx, dial, conns, scan, protocol, tls, dns, verification,
                 warnings, security>>

----------------------------------------------------------------------------
(* The end of Check. *)

Settle ==
  /\ pc = "settle"
  /\ errors' = errors \cup
       When(~tls.connected /\ Target.scheme = "https", "https")
  /\ warnings' = warnings \cup
       When(FallsBack(tls.connected), Warning("fallback", 0))
  /\ pc' = IF FallsBack(tls.connected) /\ ~opt.skipHTTP THEN "http" ELSE "report"
  /\ UNCHANGED <<chosen, net, scan, protocol, tls, http, dns, verification, security>>

Evidence ==
  [plainHTTP |-> protocol = "HTTP" /\ http.plaintext,
   attempted |-> tls.attempted, connected |-> tls.connected,
   verdict   |-> verification,  leaf      |-> Leaf,
   warnings  |-> warnings,      headers   |-> http.checks,
   versions  |-> versions,      ciphers   |-> ciphers,
   dns       |-> IF input.isIP THEN NotAsked ELSE dns]

\* A plain HTTP check says so in a warning; no finding reads it.
Report ==
  /\ pc = "report"
  /\ warnings' = warnings \cup When(protocol = "HTTP", Warning("plain_http", 0))
  /\ security' = AnalyzeSecurity(Evidence)
  /\ pc' = "done"
  /\ UNCHANGED <<chosen, net, scan, protocol, tls, http, dns, verification, errors>>

Terminated == pc \in {"done", "rejected"} /\ UNCHANGED vars

Step ==
  \/ Start \/ CheckDNS \/ Route
  \/ Dial \/ Handshake \/ MainConnected \/ MainFailed
  \/ RecordVersion \/ SkipSuite \/ RecordCipher \/ Close
  \/ BeginHTTP \/ HeadRequest \/ GetRequest \/ Settle \/ Report

Next == Step \/ EndContext \/ Terminated

\* Every call of Check returns (each dial, handshake, lookup and request has a
\* deadline), so its own steps are fair; the end of the context is not.
Spec == Init /\ [][Next]_vars /\ WF_vars(Step)
=============================================================================
