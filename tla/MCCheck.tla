------------------------------ MODULE MCCheck ------------------------------
(***************************************************************************)
(* Small instances of Check: four suites, eight endpoints, and the option  *)
(* sets and targets the runs choose from.                                  *)
(***************************************************************************)
EXTENDS CheckDocs, TLC

CONSTANTS aes13, gcm, cbc, rsa

MCSuites    == {aes13, gcm, cbc, rsa}
MCSuiteList == <<aes13, gcm, cbc, rsa>>

Modern == [versions |-> {12}, insecure |-> FALSE, broken |-> FALSE, cbc |-> FALSE,
           fs |-> TRUE, rsa |-> TRUE, byDefault |-> TRUE]

\* TLS_AES_128_GCM_SHA256, TLS_ECDHE_RSA_WITH_AES_128_GCM_SHA256,
\* TLS_ECDHE_RSA_WITH_AES_128_CBC_SHA, TLS_RSA_WITH_AES_128_CBC_SHA
MCSuiteTraits ==
  (aes13 :> [Modern EXCEPT !.versions = {13}, !.rsa = FALSE, !.fs = FALSE])
    @@ (gcm :> Modern)
    @@ (cbc :> [Modern EXCEPT !.versions = 10..12, !.cbc = TRUE])
    @@ (rsa :> [Modern EXCEPT !.versions = 10..12, !.cbc = TRUE, !.fs = FALSE,
                              !.insecure = TRUE, !.byDefault = FALSE])

----------------------------------------------------------------------------
(* Certificates and endpoints. *)

Good == [left |-> 2000, age |-> 500, names |-> {"host", "alias"}, anchor |-> "system",
         selfSigned |-> FALSE, byNext |-> TRUE, flaws |-> {}]

Root == [Good EXCEPT !.names = {}, !.selfSigned = TRUE]

Intermediate == [Good EXCEPT !.names = {}]

Serving(chain) == [n \in {"host", "alias", "other", ""} |-> chain]

Standard == [up |-> TRUE, delay |-> 1,
             accepts |-> {<<13, aes13>>, <<12, gcm>>},
             chains |-> Serving(<<Good, Intermediate>>),
             dns |-> {"a", "caa"}, plain |-> FALSE, head |-> TRUE, get |-> TRUE,
             response |-> [code |-> 200, toHTTPS |-> FALSE,
                           headers |-> {"hsts", "csp_frame", "nosniff"}]]

Mixed  == [Standard EXCEPT !.accepts = @ \cup ({10, 11, 12} \X {cbc, rsa}), !.head = FALSE]
Legacy == [Standard EXCEPT !.accepts = {10, 11} \X {cbc, rsa}]
OldRSA == [Standard EXCEPT !.accepts = {<<12, gcm>>, <<10, rsa>>}]
Slow   == [Mixed EXCEPT !.delay = 4]
Down   == [Standard EXCEPT !.up = FALSE]
Clear  == [Standard EXCEPT !.accepts = {}, !.plain = TRUE]

ScanEndpoints == {Standard, Mixed, Legacy, OldRSA, Slow, Down}

\* Endpoints that differ in the certificate they serve.
Bad(cert) == [Standard EXCEPT !.chains = Serving(<<cert>>)]

ByName == [Standard EXCEPT !.chains = [Serving(<<[Good EXCEPT !.names = {"other"}]>>)
                                         EXCEPT !["alias"] = <<Good>>]]

CertEndpoints ==
  {Bad([Good EXCEPT !.left = -5]), Bad([Good EXCEPT !.age = -1]),
   Bad([Good EXCEPT !.anchor = "none"]), Bad([Good EXCEPT !.anchor = "ca_file"]),
   Bad([Good EXCEPT !.anchor = "ca_bundle", !.left = 100]),
   Bad([Good EXCEPT !.anchor = "none", !.selfSigned = TRUE]),
   [Standard EXCEPT !.chains = Serving(<<[Good EXCEPT !.byNext = FALSE], Root>>)],
   ByName, Standard, Down, Clear,
   [Clear EXCEPT !.response = [code |-> 301, toHTTPS |-> TRUE, headers |-> {}]]}

----------------------------------------------------------------------------
(* Option sets and targets. *)

Defaults == [timeout |-> 20, tlsMin |-> 0, tlsMax |-> 0, skipDNS |-> FALSE,
             skipHTTP |-> FALSE, skipTLSProbe |-> FALSE, skipCiphers |-> FALSE,
             forceTLS |-> FALSE, noHostname |-> FALSE, serverName |-> "",
             verifyName |-> "", caFile |-> "none", caBundle |-> "none",
             systemRoots |-> TRUE]

NoScan == [Defaults EXCEPT !.skipTLSProbe = TRUE, !.skipCiphers = TRUE]

ScanOpts ==
  {Defaults, [Defaults EXCEPT !.timeout = 0, !.skipHTTP = TRUE],
   [Defaults EXCEPT !.timeout = 2, !.skipDNS = TRUE],
   [Defaults EXCEPT !.skipTLSProbe = TRUE, !.tlsMin = 13],
   [Defaults EXCEPT !.skipCiphers = TRUE, !.tlsMin = 10, !.skipDNS = TRUE],
   [Defaults EXCEPT !.tlsMin = 13, !.tlsMax = 11]}

VerdictOpts ==
  {[NoScan EXCEPT !.serverName = s, !.verifyName = v, !.noHostname = n, !.caFile = f,
                  !.caBundle = b] :
     s \in {"", "alias"}, v \in {"", "other"}, n \in BOOLEAN,
     f \in {"none", "good", "unreadable"}, b \in {"none", "good"}}
  \cup {[NoScan EXCEPT !.forceTLS = TRUE], [NoScan EXCEPT !.systemRoots = FALSE],
        [NoScan EXCEPT !.caBundle = "no_pem", !.forceTLS = TRUE, !.skipHTTP = TRUE],
        [NoScan EXCEPT !.caFile = "no_pem", !.caBundle = "good", !.serverName = "other"],
        [NoScan EXCEPT !.skipHTTP = TRUE], [NoScan EXCEPT !.tlsMax = 11],
        [NoScan EXCEPT !.tlsMin = 99]}

ServiceOpts ==
  {Defaults, NoScan, [Defaults EXCEPT !.skipTLSProbe = TRUE],
   [Defaults EXCEPT !.skipCiphers = TRUE], [Defaults EXCEPT !.tlsMin = 13, !.tlsMax = 12]}

ServiceEndpoints ==
  {Mixed, Slow, Clear, [Legacy EXCEPT !.chains = Serving(<<[Good EXCEPT !.left = -5]>>)],
   [Mixed EXCEPT !.get = FALSE, !.chains = Serving(<<[Good EXCEPT !.names = {}]>>)]}

Bare == [form |-> "bare", host |-> "host", isIP |-> FALSE]

ScanInputs    == {Bare, [Bare EXCEPT !.form = "bad"]}
VerdictInputs == {Bare, [Bare EXCEPT !.form = "http"],
                  [form |-> "https", host |-> "other", isIP |-> TRUE]}

Cross(opts, inputs, endpoints) ==
  {[opt |-> o, input |-> i, peer |-> e] : o \in opts, i \in inputs, e \in endpoints}

ScanScenarios    == Cross(ScanOpts, ScanInputs, ScanEndpoints)
VerdictScenarios == Cross(VerdictOpts, VerdictInputs, CertEndpoints)
SafetyScenarios  == ScanScenarios \cup VerdictScenarios

ServiceScenarios == Cross(ServiceOpts, VerdictInputs, ServiceEndpoints)

MCNames == {"host", "alias", "other"}
=============================================================================
