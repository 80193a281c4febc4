# A TLA+ model of ssl-certificate-verifier

`sslcertcheck` inspects one TLS or HTTP endpoint: it resolves its name, makes a
TLS handshake, verifies the certificates it was sent, probes which protocol
versions and cipher suites are accepted, asks for the HTTP response headers and
grades what it found. The grade and the `--fail-on-invalid` exit code are used in
CI, so what matters is that the report is *true*: it must claim nothing the
endpoint does not do, must not pass an endpoint it could not verify, and must do
so when answers are lost, deadlines pass and the caller gives up midway.

This directory holds the model of that program, the TLC runs that check it, and
proofs of its main properties for every value of the constants.

## Inventory

| Component | State | Operations | Hard behaviour | What makes it correct |
|---|---|---|---|---|
| orchestration, `internal/checker/check.go` | the `Result` under construction, the caller's context | `Check`, `checkTLS`, `checkHTTP` | the context ends between any two steps; each stage fails alone; errors and warnings of all stages meet in one report | fails closed; never downgrades to clear text; errors blame the right stage; always returns |
| TLS connections, `tls.go` | the connections open, the loop over versions and suites | `connectTLSConfig`, `probeTLSVersions`, `probeTLSCiphers`, `classifyCipher` | dial and handshake fail separately, under different deadlines; one of dozens of probes fails | each answer is about the version and suite asked; complete inventory; no connection leaks |
| verification, `verify.go` | none (root pool per call) | `verifyPeerCertificates`, `loadRoots`, `chainWarnings` | three names (target, `--servername`, `--verify-name`), three root sources, four independent ways to fail | verified means: valid now, trusted, and the identity asked for |
| analysis, `security.go` | none | `AnalyzeSecurity`, `scoreFindings`, `gradeScore` | findings combine evidence of stages that may disagree or be missing | score in range, critical failure means F, findings follow the endpoint |
| HTTP headers, `http_headers.go` | none | `analyzeHTTPHeaders` | clear text and TLS are judged differently | one check per header, a redirect only with a 3xx status |
| DNS, `dns.go` | none (UDP sockets) | `checkDNS`, `lookupCAAHierarchy`, `lookupCAA`, `queryCAAServer`, `parseCAAResponse` | server failover under one deadline; walk to the parent zone; parser offsets from the wire | a CAA answer belongs to the closest name that has one; no index leaves the message |
| target parsing, `parse.go` | none | `ParseTarget`, `splitHostPortLoose` | bare IPv6, ports in two places, stray brackets | host, port and scheme are those the user wrote |
| certificate metadata, `cert.go` | none | `CertificatesInfo`, `countSCTList` | nested DER lengths, truncating division | counts and days follow the certificate |
| Kubernetes, `kubernetes.go` | the report, the kubeconfig's server and CAs | `CheckKubernetes`, `parseKubeconfig`, `scanKubernetesCertDirs` | line-oriented YAML, files that cannot be read, links | nothing scanned is dropped without a word; the API server is verified with its own cluster's CA |
| command line, `cmd/sslcertcheck/main.go` | flags, results collected, exit code | `runCheck`, `runKubernetes`, `runGUI` | a target that is rejected ends the loop; flags end at the first target; output can fail | with `--fail-on-invalid`, 0 only when all was checked and none failed, 2 only with a reason in the report |
| web GUI, `internal/gui/server.go` | shared default options | `checkAPI` | concurrent requests; durations that wrap; a context that ends with the client or 2 s after the timeout | each request has its own options and deadline, and is answered |
| text reports, `render.go` | none | `RenderText`, `RenderKubernetesText` | none | formatting only; not modelled |

Calls go one way: the command line, the GUI and the Kubernetes check call
`Check`; `Check` calls DNS, TLS, verification and HTTP in that order and the
analysis last. Nothing is shared between two checks except the GUI's default
options, which `checkAPI` copies. Within a check there is one thread: the
concurrency that matters is with the network and with the end of the context.

## Modules

| Module | Models | In terms of the code |
|---|---|---|
| `TlsSuites` | versions, suites, `classifyCipher`; negotiation (external) | a suite is a model value, `SuiteTraits` is what its name and Go's table say |
| `HttpHeaders` | `http_headers.go` | a response is its status, its redirect and the set of headers present |
| `Verify` | `verify.go`, `sniName`, `verifyName`; `x509.Verify` (external) | a certificate is what x509 decides from: validity, names, the root it leads to, signatures |
| `Security` | `security.go` | findings are records, the evidence is the part of `Result` that `AnalyzeSecurity` reads |
| `Check` | `check.go`, `tls.go`, `checkDNS` | the variables are the fields of `Result` and `pc`, the next step; one action per step that reaches the network or changes the report |
| `CheckService` | what a check promises, abstractly | a check settles an agenda of facts, claims only true ones, then reports |
| `CheckProps` | the properties, and the refinement mapping to `CheckService` | |
| `CheckDocs` | statements of the documentation that the code does not meet | |
| `CheckResult` | what the commands expect of a check: the fields they act on, and the CAs `loadRoots` trusts | the CAs in the order they are read; one that cannot be used ends the list |
| `MCCheck` | the small instances | |
| `CaaLookup` | `lookupCAAHierarchy`, `lookupCAA`, `dnsServers`, `queryCAAServer` | `level` and `line` are the positions of the two loops, `pc` is before or in the read of a query; the end of the deadline is an action of its own |
| `CaaService` | what the lookup promises `checkDNS`, abstractly | one answer: nothing, or records that the level it names has |
| `DnsWire` | `buildCAAQuery`, `encodeDNSName`, `parseCAAResponse`, `skipDNSName`, `parseCAARData` | bytes are numbers, `offset` is the parser's; one action per round of a loop |
| `SctList` | `embeddedSCTCount`, `countSCTList` | as `DnsWire` |
| `SctValues` | lists as RFC 6962 spells them (the reference `SctList` is compared with) | |
| `GuiServer` | `checkAPI` with its context; the stages of `Check` by their durations | one record field per call (goroutine); `defaults` is the shared `Server.Defaults` |
| `ParseTarget` | `parse.go`; `net.SplitHostPort`, `net.ParseIP`, `url.Parse` (external) | a target is a scheme and a sequence of tokens |
| `Kubernetes` | `kubernetes.go`, `kubernetesInvalid` | `step` is the next step of `CheckKubernetes`; the scan is one directory a step |
| `Command` | `main.go`; `flag.FlagSet.Parse` (external) | `pc` is the command that runs; one action per word parsed and per target checked |
| `CommandDocs` | a statement of the README that the code does not meet | |
| `MCCaa`, `MCWire`, `MCSct`, `MCGui`, `MCCommand` | the small instances | |
| `SecurityProofs`, `CheckProofs`, `ProbeProofs`, `CaaProofs`, `WireProofs`, `SctProofs`, `CommandProofs`, `GuiProofs` | proofs | |

How they fit together: `CaaLookup` implements `CaaService`, and `CheckDNS` of `Check`
(which finds or misses each record type) uses no more of the lookup than that service
promises. `DnsWire` is the parser behind `Answer`, `Refuse` and `Spoil` of `CaaLookup`:
a message it parses is an answer, one whose response code is an error a refusal, all
others are spoiled. `Command` composes `ParseTarget`, `Kubernetes` and, for each check,
any outcome `CheckResult` allows (`Results` draws every record that is `Promised`), and
`PromiseKept` says that a run of `Check` has no other: what is shown of the commands for all promised
outcomes holds for those `Check` really has. `GuiServer` runs the stages of `Check`
for how long they take, while what a stage finds, also when the context ends in it, is
`Check` with `ctx = "live"`.

`Check` is sequential; its environment is the rest of `Next`. A step that would
succeed may fail because an answer is lost (`Fails`, at most `MaxLost` times), a
slow endpoint misses the deadline that applies at that point (`Limit`: the
configured timeout, 4 s for version probes, 1.5 s for suites; the model counts
half seconds), and `EndContext` may happen before any step when the caller's
context can end (`ctx = "live"`; the command line passes a background context).
`checkTLS` is `Dial`, `Handshake`, then `MainConnected` or `MainFailed`; the two
probe loops reuse `Dial` and `Handshake` and end each round in `RecordVersion` or
`RecordCipher` (`SkipSuite` for suites a version does not have); `Close` is its
deferred `conn.Close()`. `MainConnected` assigns the verdict and *replaces* the
warnings, as check.go:106 does. `checkHTTP` is `BeginHTTP`, `HeadRequest` and
`GetRequest`. The operators named `...Bug`, `ProbeRangeOpen`, `ProbeRangeClamped`,
`HeadRequestBlames` and `HeadRequestRetries` are not part of the behaviour: they are
plausible mistakes, each listed in PROJECT.json with the property that catches it.
In the other modules these carry a comment that calls them a plausible bug.

`CaaLookup`: a query is `Ask` (encode, dial, write) and one of `Answer`, `Refuse`, `Spoil`
and `TimeOut` (the read). A query that fails is `NextServer`, and after the last server
`NextLevel`, which is what line 62 makes of an error. A server that is mute leaves the
read waiting until `Expire`. A truncated answer holds any part of the records, since
the flag is not looked at.

`DnsWire` and `SctList` do not stop at a read behind the end, which would be a panic in
Go; they note the highest byte read in `high`, so that `IndexInside` and `SctsInside` can
fail. Records are kept in order, as the report shows them.

`GuiServer`: `NotPost` and `Receive` are `checkAPI` up to the call of `Check`, with its early
returns in the order of the code. `Decode` waits for the body (`AwaitsBody`), which is the
client's to send (`SendBody`); when the client goes away first, half a body is an error. `RunStage` draws the time a stage would take, up to what its own
deadlines allow (`Limit`), and cuts it where the context ends; `Disconnect` is the client.
A `Duration` wraps at 2 x `Half` half seconds instead of 2^64 ns.

`Kubernetes`: a kubeconfig is a list of lines of clusters, its values cleaned of quotes
and comments; a certificate file is its PEM blocks, or a DER certificate. `Command`: a
flag and its value are one word. `Main`'s cases are those of `knownCommand` and the
switch; `Finish` is the end of `runCheck` and of `runKubernetes`, which are alike.

Lists whose order nobody reads (`Errors`, `Warnings`, `Findings`, the inventory) are
sets. A loop that adds several findings under one id keeps them apart by
position or name, because the score counts them one by one.

## Runs

| Run | Shows | Instance |
|---|---|---|
| `check_safety` | the type invariant and twelve safety properties | six option sets × two targets × six endpoints that differ in what they accept, and 55 option sets × three targets × twelve endpoints that differ in certificate, DNS and HTTP; up to two lost answers; contexts that can and cannot end; 321745 states |
| `check_service` | `Check` implements `CheckService`; each step leaves fewer, and every check ends | five option sets × three targets × five endpoints; one lost answer; 25598 states |
| `caa_lookup` | answers of the CAA lookup are explained; no question is asked twice; it implements `CaaService` | a name of three labels, each with or without records, truncated or not, encodable or not; resolv.conf unreadable, with one server, or with four and useless lines; every mix of good, refusing, mute and unreachable servers; two spoiled answers |
| `wire` | the parsers of peer-chosen bytes stay inside, stop, and agree with the protocol | replies with up to two answers, each cut short everywhere and with bytes added; headers whose counts promise up to 65535 items; lists of up to three timestamps with wrong lengths and missing ends |
| `gui_server` | deadlines of concurrent calls of the API | two calls out of eleven bodies, which arrive or never do; Durations of 7 bits; 391016 states |
| `command` | output and exit codes of `check` and `kube` | every target of up to four tokens; `check` with up to three words; ten kubeconfigs; files of up to two PEM blocks; nodes with K3s, RKE2, links, missing and unreadable paths; stdout open or full; 75989 states |
| `doc_warnings`, `doc_safety`, `doc_beast`, `doc_plain`, `doc_sct`, `doc_kube` | counterexamples, below | parts of the same instances; certificates with one to three timestamps |

The bounds of the runs of `Check`. Four suites: one of TLS 1.3 only, one modern, one CBC of all old
versions, and one insecure static RSA suite that is not offered by default; that
is one per class of `classifyCipher` that a finding tells apart. The probes are
independent of each other, so two losses are enough for a loss in the handshake
or HEAD *and* one in a probe, or one in each of HEAD and GET. The slow endpoint
(2 s) is slower than the suite cap, faster than the version cap and the default
timeout, and slower than the shortest configured timeout: all four outcomes
occur. Chains have up to two certificates, which is where every chain warning
occurs. Options are combined where they interact (names × roots × hostname
checking) and are otherwise varied one at a time.

The bounds of the others. Three levels give a first, a middle and a last one to pass
over. Four servers in resolv.conf are one more than `dnsServers` takes, and there is a
server after the one that fails in each place that matters; `MaxSpoiled` = 2 spoils any
two of their answers. Datagrams have at most two answers: the parser keeps nothing between
answers but `offset` and the records, and `WireInside` is proved for all datagrams. In `wire`
a behaviour is one of `DnsWire` or one of `SctList`, while the other has nothing to read.
Two calls of the GUI are enough for one to disturb the other's options, and they share
nothing else; 7 bits let a timeout wrap to a negative and to a short one, and the two
seconds of grace wrap; `GuiAnsweredInTime` and `GuiCutExplained` are proved for all widths and any number of calls. Four
tokens are enough for a bracketed address with a bracket missing, a port behind it, and
a bare address with a port-like last group; `CommandTargetsUnderstood` is proved for targets of any length. Two targets, or a flag and two targets, show
every order of a rejected, a failed and a fine one.

What the properties say is written above each of them. In short, for `Check`:
positive claims are always true (`PositiveClaimsTrue`), negative ones are false only
for a reason (`NegativeClaimsExplained`) and, when nothing was lost, the cipher
findings are exact (`CipherAuditExact`); the scans are complete (`ProbesComplete`);
an unverified TLS check is graded F (`FailClosed`); verified means verified for the
name asked for (`VerifiedIdentity`); without losses a critical failure has its reason
in the endpoint, never in two stages that contradict each other (`CriticalExact`); no
connection outlives its function
(`ConnsBounded`); nothing is downgraded to clear text (`NoPlaintextDowngrade`); the
errors name exactly the stages that failed, HTTP only when both requests did
(`ErrorsExact`); nothing is sent after the end of the context
(`NothingSentAfterContext`); the commands may rely on the result (`PromiseKept`: a target is
rejected exactly when it or the options are unusable, TLS is tried unless the target is plain,
and no verdict rests on a CA behind one that cannot be used); and every step leaves fewer to
take, whatever the network answers (`AlwaysAdvances`; only the end of the context is a step
that leaves as many), so that a report comes, as `Implements` demands.

For the rest. A parent's CAA records are reported only when each closer name had none,
was truncated, or was turned down by every server, and never for a mere silence
(`ParentHasExcuse`); "no records" has such an excuse at every level or a deadline that
passed (`MissingHasExcuse`); no line of resolv.conf is asked twice about a name (`WalkAdvances`). No parser reads over the end (`IndexInside`, `SctsInside`), the
datagram and not its header bounds the work (`WorkBounded`), what was sent is what is
parsed (`ParseExact`, `SctCountExact`), both stop (`Finishes`, `SctFinishes`). A GUI call has its own
timeout (`OwnTimeout`) and is never checked for longer (`AnsweredInTime`); a stage is cut only
after all of that time (`CutExplained`); each call is answered unless its client
stops in the middle of the body (`EveryCallAnswered`). Each
documented form of a target yields its host and port, and the dialed address is read
back as the same target (`TargetsUnderstood`). Exit code 0 under the gate means all
targets checked and none failed (`GateSound`), for `kube` that no certificate or API server
was passed over in silence (`NothingHidden`); 2 has its reason in a written report
(`ExitJustified`); the output is all or nothing (`AllOrNothing`); the API server is checked
with the CAs of its own cluster, and only they and the system's make it verified (`OwnCluster`).

**Fairness.** `Check`: `WF_vars(Step)`: the program keeps taking steps. Every dial,
handshake, lookup and request has a deadline (`net.Dialer.Timeout`,
`SetDeadline`, `http.Client.Timeout`, `context.WithTimeout`), so each of them comes
back with an answer or an error, and no loop waits for anything. The end of the
context is the caller's affair and is not fair. `CaaLookup` adds `WF_vars(Expire)`: time
passes, and `checkDNS` always sets a deadline (dns.go:18-23); without it a mute server would
hold the read for ever. `DnsWire` and `SctList` are sequential functions (`WF_vars(Step)`).
`GuiServer` has `WF_vars(Handle(c))` for each call, as net/http gives each its own
goroutine and every stage of a check has deadlines. The read of the body has none:
`http.ListenAndServe` (main.go:260) sets no `ReadTimeout`. So its arrival is a step of the client,
clients need neither send it nor leave (`SendBody` and `Disconnect` are not fair), and
`EveryCallAnswered` speaks of the calls that do not wait for it. `Command` has no liveness
property and states no fairness.

### Counterexamples

- `doc_warnings`: the A lookup fails, the report gets a warning, the handshake
  succeeds and check.go:106 overwrites it. USAGE.md:46 lists the warnings as part
  of the report. (`result.Warnings` is empty at that point in a check without DNS,
  which is why no test sees it.)
- `doc_safety`: the endpoint accepts a weak suite; its probe is lost, or the
  endpoint is slower than 1.5 s and all are; the report says `weak_ciphers: pass`.
  CHECKER_PARITY.md:25 promises no silent claim of safety for checks that could not
  be performed.
- `doc_beast`: the endpoint accepts only a static RSA CBC suite at TLS 1.0. Go does
  not offer it by default, so the version probe fails; the inventory offers it and
  finds it accepted; `beast` passes because security.go:191 needs both.
- `doc_plain`: an `http://` target with `--skip-http` has no `plain_http` finding
  (security.go:23 reads a field only the HTTP probe sets) and is graded A+.
- `doc_sct`: crypto/x509 hands out the value of the extension, a DER octet string around
  the list; cert.go:278 passes it on with its tag and length. With two timestamps of 117 bytes
  it starts with 04 81 f0 00 ee: 04 81 is read as the length of the list, and f0 00, the DER
  length and the high byte of the list's own, as that of an entry of 61440 bytes, which does not
  fit. None is counted, and security.go:73 reports a certificate without timestamps that has
  them. With one (04 79 00 77) or three (04 82 01 67) these two bytes happen to be the length of
  all that follows: one is counted, and there is no such finding.
- `doc_kube`: a file below a certificate directory holds an expired certificate and a
  CERTIFICATE block that does not parse. kubernetes.go:333-335 drops all of the file, the
  scan warns, and kubernetesInvalid does not look at warnings: `--fail-on-invalid` exits
  with 0 where README.md:147 promises 2.

Seen while modelling, without a run of their own: the plain HTTP fallback
(check.go:72-79) is never taken, since a target without a scheme gets `https`
(parse.go:18); `FallbackIsDead` proves it, and `NoPlaintextDowngrade` is what would
break if it were.
`modern_tls_missing` can be reported for an endpoint whose main handshake
negotiated TLS 1.3, when its probes were lost. The version probes do not run when
the main handshake fails. `--tls-max 1.1` without `--tls-min` offers an empty range,
since Go's default minimum is TLS 1.2. A certificate that expired within the last
day has 0 days remaining and also gets `expires_soon`. An unreadable `--ca-file`
drops the inline bundle, and does not by itself make the verdict negative. USAGE.md:47
describes `errors` as "connection or verification errors"; verification errors are only
in `verification.errors`, as `ErrorsExact` says. USAGE.md lists exit code 1 for a connection
error, but `check` exits with 0 or, under the gate, 2 when a connection fails (1 is for
a target or option that is rejected, and for output).

A flag behind the first target is checked as a target itself, also `--fail-on-invalid`
(`GateSound` names the case). `kube` ignores words behind its flags. A certificate directory
that is a symbolic link passes os.Stat but WalkDir does not enter it: it is not scanned
and no warning says so. `[:8443` is taken for port 8443 of an empty host, since parse.go:62
looks before the brackets are trimmed (parse.go:65). `--port` is not checked for its range. A
kubeconfig whose clusters fill in different keys is read as one cluster (`OwnCluster` says
what remains true). `gui --timeout 0` gives a check two seconds, while `Check` itself would
take 10 s for each step. A CA file and CA data in one cluster are both trusted.

## Proofs

All proofs are checked by TLAPS for every set of scenarios (options, targets,
endpoints), every finite table of suites and every `MaxLost`, from the named
assumptions `SuiteAssumption`, `NameAssumption` and `InputAssumption`, which only
give the constants their types, and `ListedOnce`: the inventory tries every suite once,
since `tls.CipherSuites()` and `tls.InsecureCipherSuites()` share none, and some suite exists
below TLS 1.3 (else an audit of the suites has nothing to say). `LookupAssumption`, `MessageAssumption`,
`GuiAssumption` (a Duration has a width, the flags fit into it) and `CommandAssumption` give the
constants of the other modules their types. `CommandAssumption` also says what a node is
(`IsNode`, `IsConfig`: files and directories under their paths, a kubeconfig as a finite list of
lines whose values are one token each) and that it says of every path the program may look at
whether something is there (`Charted`). `SctAssumption` says that the extension is bytes.
TLC evaluates each of them in the runs.

`SecurityProofs` is about the operators. `FindingsFinite`: an analysis has finitely
many findings, so that the score, which counts them, is defined (the number of
chain warnings is not bounded by the code). `ScoreRange`: the score lies in 0..100.
`FindingsNeverRaiseScore`: a larger set of findings never scores higher.
`UntrustedIsF`: no other evidence makes up for a missing or unverified handshake.

`CheckProofs` is about behaviours of `Spec`. None of the properties is inductive
alone, so `Typed` collects what the proofs rest on:

- `CtlType`, `ReportType`, `ScanType`, `FiniteType`, `ScoreType`: types, and the
  finiteness that `SecurityProofs` needs;
- `DialInv`: a call of `connectTLSConfig` is under way only where `Check` makes one;
- `ConnsInv`: the number of open connections is the main one, held while the probes
  run, plus that of the call under way;
- `UpInv`: a handshake that came up is one the endpoint agreed to, for the range and
  suites offered at that point;
- `ConnectedInv`: a connected report has a checked verdict.

`TypeCorrect` and `ConnectionsReleased` follow directly. `ClaimsAreTrue` uses `UpInv`
and that a probe offers one version; for the negotiated version, that an endpoint
picks at most one (`OnePick`). `DenialsAreExplained` adds `FailInv`: a failed probe has
an excuse or was refused, and an endpoint that is probed is up.
`UntrustedChecksFail` reduces `FailClosed` to `UntrustedIsF` at the `Report` step.
`VerifiedNamesMatch` adds `VerdictInv`: the verdict is that of the chain served for the
SNI name. `ErrorsNameTheStages` rests on three parts that depend on each other:
`RouteInv` (which way the run went), `AskedInv` (what was asked over HTTP) and
`ErrorsInv` (each error appears when its stage has failed). `FallbackIsDead` follows from
`RouteInv`: the plain HTTP fallback is never taken, for any options and target.
`NeverDowngraded` and `SilentAfterContext` are shown step by step.

`CheckKeepsPromise` ties `Check` to the modules that use it: `PromiseKept` is the predicate
`CheckResult` from which `Kubernetes` and `Command` draw the results of their checks, so that
`CommandGateSound`, `CommandExitJustified` and `CommandOwnCluster` rest on something that is
proved of `Check`. It needs `ValidInv` (a run is rejected exactly when its input is), `RouteInv`,
`VerdictInv` and `RootsTrusted`: the roots `loadRoots` returns are the `TrustedCAs` of the sources
the options name, in the order they are read.

`ChecksAlwaysAdvance` is the part of "a report comes" (in `Implements`) that a proof can reach. `Remaining` counts the
steps from a point of the run on, three for each connection (dial, handshake, record) and one for
each other step, and `CheckLength` bounds it by 9 for each suite and 24. The loops are behind
`SuiteAhead` (the next suite, or the next version, leaves fewer whatever became of the call) and
`CallAhead`; besides the loop positions of `CtlType` it takes `DialInv`, by which a handshake
belongs to one of the three places that make a call, and `RouteInv`, without which the fallback of
`Settle` would lead back to HTTP. What TLC adds in `Implements` is fairness alone: as long as
a check has steps left, one of them can be taken.

`ProbeProofs` is about what `Check`'s loops have collected when they end. `ProbeInv` relates the
answers to the position of the loops: before the versions loop none, inside it one for each
version behind, after it one for each version (`VersionsDue`), and the same of the pairs the
inventory has left behind (`CiphersDue`); `RoundDue` says that a round adds the pair it is at
and nothing else. `ProbesAreComplete` counts them. `AnswersTrue` adds that undisturbed answers
are those of the endpoint (from `ClaimsAreTrue` and `DenialsAreExplained`), and `ReportedInv`
that the findings are still those of the evidence; with `CipherSource`, `CipherVerdicts` and
`CriticalSource`, which say what a finding can come from, `CipherAuditIsExact` and
`CriticalIsExact` follow. `CheckRefinesService` is the safety half of `Implements`: five actions
of `Check` are a step of the service each, and every other one is a stutter.

`CaaProofs`: `CaaTypeCorrect`; `CaaParentsExplained` and `CaaMissingExplained`, from the invariant
`WalkInv` (the levels behind were passed over or the deadline has passed, so were the servers
behind on this level, and an answer belongs to the level the walk is at: neither property says
this of a lookup that still runs); `CaaWalkAdvances`, by the order of levels, lines and question
before answer; `CaaRefinesService`, the safety half of `Implements`, where
every query that fails is a stutter or the answer "nothing".

`WireProofs`: `WireInside`, from `Inside`, which places the offset between items, names and
data: a round of `skipDNSName` may leave it behind the end, and only the test at the next
read saves it, so `offset <= Size` holds between items alone. `WireWorkBounded`: `Taken` counts
the smallest size of the items read, which is what bounds the work. `WireTypeCorrect` needs
the same. `WireParsesWhole` says of every datagram what `ParseExact` says of those of the
instance, and without the parser's variables: a `Layout` gives the position of each item, the end
of its name and the records so far; a datagram is `Whole` if it is an answer to the query with a
layout of as many items as its header promises. It is parsed if and only if it is whole, and
the records are those of its layout (`ParsedIfWhole`). The invariant is `Found`: the parser has
found the layout of the items behind it and stands inside the next one. That a refused
datagram is not whole needs that it has one layout only (`LayoutsAgree`, and for the labels of a
name `LabelsAgree`): where the parser is stuck, every layout is.

`SctProofs`: `SctsStayInside`. Its `Inside` says that the entries counted lie before the position
of the loop, the position before the end of the list, and that end inside the value, whatever
length the list claims. `SctsAllCounted` says of every value what `SctCountExact` says of the
lists of the instance: a `Chain` is the positions of entries that follow one another inside the
list, the count is the length of one behind which none fits (`EntriesCounted`), and no other
number is (`NoOtherCount`). `Chained` adds that the loop stands at the end of the chain so far.
That two chains agree as far as both go (`ChainsAgree`, like the two lemmas of `WireProofs`) takes
an induction, which the prover has no rule for; the lemma takes the least position at which they
differ instead (`LeastNumber`, from the library's theorem on well-founded relations).

`CommandProofs`: `CommandTypeCorrect`, `CommandGateSound`, `CommandExitJustified` and
`CommandAllOrNothing` follow from `CommandInv`: the flags' rest is a suffix of the line that has
lost no gate unnoticed (`Suffix`), the results are those of its first targets and `anyInvalid`
is their verdict (`Matched`), nothing is printed before the end (`Underway`), and what each exit
code leaves behind (`Ended`). `KubeInv` is the same of `CheckKubernetes`: the server and the CAs
are those of the kubeconfig the report names (`Configured`), the API server was checked or the
report says why not (`ApiChecked`), and what the directories behind the scan hold is in the
report (`DirsReported`); `KubeEnded` says that exit code 0 comes after all of it.

- `CommandNothingHidden` follows from these: a file that was read whole has a certificate in the
  report for each of its blocks (`FileReported`), and a file that was not is in a warning.
- `CommandOwnCluster` is about the first line of each key that parseKubeconfig keeps, and, by
  `Promised`, about whose word makes the API server verified. A kubeconfig
  writes its clusters one behind the other, each key once (`IsConfig`). If all clusters fill in
  the same keys, the first values of two keys cannot come from two clusters, or one of the
  clusters would have to fill in the other key before (`OneCluster`).
- `CommandTargetsUnderstood` holds for every word, however long. The heart is `JoinedIsSplit`: what
  `net.JoinHostPort` joins, `net.SplitHostPort` splits again, since a host that survived
  ParseTarget has no brackets (`ParseInside`). With `RoundTrip` the dialed address is read back as
  the same target; `FormsUnderstood` goes through the documented forms.
- `CommandAdvances` says that a command comes to its end on every path: the words of the line, the
  targets among them and the parts and directories of `CheckKubernetes` are taken one by one, none
  twice, and what the line or the configuration names bounds their number. Only serving goes on.

`GuiProofs`: `GuiOwnTimeout`, `GuiAnsweredInTime` and `GuiCutExplained` follow from `GuiInv`: what
is left and what is used make up the budget, and a stage of a waiting client is cut only when
nothing is left. `WrapBounds` is the fact about overflow they rest on: a sum that does not fit
comes back smaller, so a deadline can only be too early. `GuiTypeCorrect` adds `Ahead`: the
stages still to run are in order and none of them has been cut. `GuiCallsAdvance` is the part of
`EveryCallAnswered` without fairness: every step of the server itself brings one call nearer to
its answer, and neither holds another one up nor takes its time.

Only model-checked: `ParseExact` and `SctCountExact`, which compare the parsers with encodings
built by folding over lists (`FlattenSeq`): what such a fold yields for every list takes an
induction over data. (`WireParsesWhole` and `SctsAllCounted` say without an encoding what they are about.)
Liveness (`Finishes`, `SctFinishes`, `EveryCallAnswered` and the fairness of both
`Implements`) is out of the prover's reach as well and stays with TLC; but `ChecksAlwaysAdvance`,
`CaaWalkAdvances`, `GuiCallsAdvance` and `CommandAdvances` show that no sequence of steps goes on for
ever, so that what remains to TLC there is that a next step is always possible (for `Command` the
absence of deadlock, in `command`).

## Not modelled

Text: error messages, URLs, names and descriptions of findings. One consequence is
that a warning counts as a chain warning by its kind, while the code looks for the
words "intermediate" and "chain order" in its text. The endpoint does not change
while it is checked; its certificate chain depends on the SNI name only. A lookup,
dial or handshake either succeeds or fails: what is sent inside is crypto/tls and
net. `http.Client` reads one response and follows no redirect, as configured.
`CertificatesInfo` fills some forty fields by copying or converting what crypto/x509
decoded; only those a decision depends on are modelled (status, days, self-signedness,
the SCT count). `render.go`, `RenderKubernetesText`, the GUI's page, its headers and
`/healthz`, the build scripts and the CI files hold no decision a check depends on; nor
does the browser `gui --open` starts.

`Command` leaves out "--" and white space in words, and a reader of stdout that closes
it (SIGPIPE). Files do not change while a command runs. Two numbers never follow one another in a word: they are one number,
and a token of their own if they matter (`Apart`). `net.ParseIP`, `url.Parse` and
`flag` are modelled for the tokens and words of the instances, as the Go version of
go.mod behaves. In `GuiServer` a stage that is cut takes the rest of the time and no
more; the scheduler's own delays are left out. A call is answered when `writeJSON` hands the
answer to net/http: that sends it behind the rest of the body, without a deadline either, and
whether the client takes it is not modelled. A body counts as arrived when all that `Decode`
reads of it is there. In `Check`, a request that cannot be built (check.go:142-146) is a HEAD and
a GET that fail, which leaves the same error.

## Plan

Done: `Check` and its service; `CaaLookup`, `DnsWire` and `SctList`; `GuiServer`; `Command` with
`Kubernetes` and `ParseTarget`; the proofs above. Left:

1. The hazards PROJECT.json lists without a property: each is a decision of one line, and its
   note says why no property speaks of it.
2. That what a server encodes (`EncodeReply` of `MCWire`) is `Whole` in the sense of
   `WireProofs`: `ParseExact` shows it for the replies of the instance.
