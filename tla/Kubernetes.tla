----------------------------- MODULE Kubernetes -----------------------------
(***************************************************************************)
(* CheckKubernetes (internal/checker/kubernetes.go): the paths of a K3s or *)
(* RKE2 node, its kubeconfig, the TLS check of the API server with the     *)
(* cluster's CA, and the scan of the certificate directories, one          *)
(* directory a step.                                                       *)
(*                                                                         *)
(* "" is a path, a name or a value that is not there.  A relative CA file  *)
(* is named by the path it is joined to.  Nothing on the disk changes      *)
(* while the command runs.                                                 *)
(***************************************************************************)
EXTENDS ParseTarget, SequencesExt, CheckResult

CONSTANT
  Issuer  \* function: the CA that issued the certificate shown to a target

\* KubernetesOptions: paths, or "" and no directories for the preset's.
KubeOption == [distro : STRING, kubeconfig : STRING, certDirs : Seq(STRING),
               skipLive : BOOLEAN, skipCertScan : BOOLEAN]

\* A line of a kubeconfig: one key of one cluster, and its value or none.  The
\* server is a target.  CA data is "garbled" when it is not base64, "no_pem" when
\* no certificate is in it; a CA file is "lost" when it cannot be used.
Keys == {"server", "certificate-authority", "certificate-authority-data"}

IsLine(l) == /\ DOMAIN l = {"cluster", "key", "value"}
             /\ l.cluster \in Nat /\ l.key \in Keys
             /\ l.value = <<>> \/ l.value = <<l.value[1]>>

\* A kubeconfig lists its clusters one after the other, each key of one at most once.
IsConfig(c) ==
  /\ c.kind \in {"missing", "file", "unreadable"}
  /\ \A i \in DOMAIN c.lines : i \in Nat /\ IsLine(c.lines[i])
  /\ \A i, j \in DOMAIN c.lines : i < j =>
       /\ c.lines[i].cluster <= c.lines[j].cluster
       /\ c.lines[i].cluster = c.lines[j].cluster => c.lines[i].key # c.lines[j].key

\* A certificate's validity, in days from now.
Certificate == [notBefore : Int, notAfter : Int]

\* A PEM block: one certificate, one that does not parse, or something else.
Block == [type : {"CERTIFICATE", "PRIVATE KEY"}, cert : Seq(Certificate)]

\* A file below a certificate directory, or something WalkDir could not enter.
File == [path : STRING, kind : {"file", "blocked"}, ext : {".crt", ".pem", ".key"},
         readable : BOOLEAN, blocks : Seq(Block), der : Seq(Certificate)]

\* The disk: a kubeconfig or none, a directory or something else, at each path.
IsNode(n) ==
  /\ \A c \in Range(n.configs) : IsConfig(c)
  /\ \A d \in Range(n.dirs) :
       d.kind \in {"missing", "file", "link", "dir"} /\ \A f \in d.files : f \in File

VARIABLES
  kopt,    \* KubernetesOptions
  node,    \* the disk: kubeconfigs, CA files and directories
  step,    \* the next step of CheckKubernetes
  scanned, \* directories scanned so far
  info,    \* kubeInfo
  kreport  \* KubernetesReport

kubeVars == <<kopt, node, step, scanned, info, kreport>>

----------------------------------------------------------------------------
(* One target: checker.Check, as CheckResult promises it. *)

NoOptions == [port |-> 0, range |-> TRUE, forceTLS |-> FALSE]

Rejects(word, opt) == ~opt.range \/ ~Parse(word, opt.port).ok

IssuerOf(word) == IF word \in DOMAIN Issuer THEN Issuer[word] ELSE "unknown"

\* The results a check may have: a connection may fail, a certificate of a known
\* issuer may still have the wrong name or date.
Results(word, opt, cas) ==
  {r \in [target : {word}, attempted : BOOLEAN, connected : BOOLEAN, verified : BOOLEAN] :
     Promised(r, word.scheme = "http" /\ ~opt.forceTLS, IssuerOf(word), cas)}

\* A plausible bug: a target without TLS counts as unverified.
InvalidPlain(result) == ~result.connected \/ ~result.verified

\* A TLS target that is not fully verified.
Invalid(result) == result.attempted /\ (~result.connected \/ ~result.verified)

----------------------------------------------------------------------------
(* Presets. *)

Preset(name, config, dirs) == [distro |-> name, kubeconfig |-> config, certDirs |-> dirs]

K3sPreset  == Preset("k3s", "k3s.yaml", <<"k3s/server/tls", "k3s/agent">>)
Rke2Preset == Preset("rke2", "rke2.yaml", <<"rke2/server/tls", "rke2/agent">>)

FileExists(path) == node.configs[path].kind \in {"file", "unreadable"}

\* os.Stat follows a symbolic link.
IsDir(path) == node.dirs[path].kind \in {"dir", "link"}

Present(preset) ==
  FileExists(preset.kubeconfig) \/ \E i \in DOMAIN preset.certDirs : IsDir(preset.certDirs[i])

Unnamed == kopt.distro = "auto"

\* Paths of the user's own stand for themselves: no preset fills the others in.
ResolvePreset ==
  CASE Unnamed /\ (kopt.kubeconfig # "" \/ kopt.certDirs # <<>>) -> Preset("custom", "", <<>>)
    [] Unnamed /\ kopt.kubeconfig = "" /\ kopt.certDirs = <<>> ->
         IF ~Present(K3sPreset) /\ Present(Rke2Preset) THEN Rke2Preset ELSE K3sPreset
    [] kopt.distro = "k3s"  -> K3sPreset
    [] kopt.distro = "rke2" -> Rke2Preset
    [] OTHER                -> Preset(kopt.distro, "", <<>>)

Warning(about, path) == [about |-> about, path |-> path]

PresetWarnings ==
  IF \/ kopt.distro \notin {"auto", "k3s", "rke2", "custom"}
     \/ /\ Unnamed /\ kopt.kubeconfig = "" /\ kopt.certDirs = <<>>
        /\ ~Present(K3sPreset) /\ ~Present(Rke2Preset)
  THEN {Warning("preset", "")} ELSE {}

\* The node says what is at every path an option or a preset names.
Charted(n, o) ==
  /\ {K3sPreset.kubeconfig, Rke2Preset.kubeconfig} \cup ({o.kubeconfig} \ {""}) \subseteq DOMAIN n.configs
  /\ Range(K3sPreset.certDirs) \cup Range(Rke2Preset.certDirs) \cup Range(o.certDirs) \subseteq DOMAIN n.dirs

----------------------------------------------------------------------------
(* parseKubeconfig: no clusters, only the first line of each key with a value. *)

Valued(lines, key) == {i \in DOMAIN lines : lines[i].key = key /\ lines[i].value # <<>>}

\* A plausible bug: a later line overwrites an earlier one.
LastValue(lines, key) ==
  IF Valued(lines, key) = {} THEN <<>> ELSE lines[Max(Valued(lines, key))].value

FirstValue(lines, key) ==
  IF Valued(lines, key) = {} THEN <<>> ELSE lines[Min(Valued(lines, key))].value

CAData(lines) == FirstValue(lines, "certificate-authority-data")

NoInfo == [ok |-> FALSE, server |-> <<>>, caFile |-> <<>>, caData |-> <<>>]

\* A plausible bug: the server comes from the last cluster.
ParseKubeconfigBug(config) ==
  [ok     |-> TRUE,
   server |-> LastValue(config.lines, "server"),
   caFile |-> FirstValue(config.lines, "certificate-authority"),
   caData |-> CAData(config.lines)]

ParseKubeconfig(config) ==
  IF config.kind # "file" \/ CAData(config.lines) = <<"garbled">> THEN NoInfo
  ELSE [ok     |-> TRUE,
        server |-> FirstValue(config.lines, "server"),
        caFile |-> FirstValue(config.lines, "certificate-authority"),
        caData |-> CAData(config.lines)]

----------------------------------------------------------------------------
(* The scan. *)

\* The status CertificatesInfo gives a certificate.
Status(c) == CASE c.notBefore > 0 -> "not_yet_valid" [] c.notAfter < 0 -> "expired" [] OTHER -> "valid"

IsCertFile(file) == file.ext \in {".crt", ".pem"}

CertBlocks(file) == SelectSeq(file.blocks, LAMBDA b : b.type = "CERTIFICATE")

Garbled(file) == \E i \in DOMAIN CertBlocks(file) : CertBlocks(file)[i].cert = <<>>

\* A plausible bug: pem.Decode is called once.
ReadFirst(file) ==
  CASE ~file.readable \/ Garbled(file) -> <<>>
    [] file.readable /\ CertBlocks(file) = <<>> -> file.der
    [] OTHER -> <<CertBlocks(file)[1].cert[1]>>

\* readCertificates: all the certificates of a file, or none and an error.
ReadCertificates(file) ==
  CASE ~file.readable \/ Garbled(file) -> <<>>
    [] file.readable /\ CertBlocks(file) = <<>> -> file.der
    [] OTHER -> [i \in DOMAIN CertBlocks(file) |-> CertBlocks(file)[i].cert[1]]

\* What a directory adds to the certificates, and to the warnings.
Scanned(dir) ==
  LET files == IF dir.kind = "dir" THEN {f \in dir.files : f.kind = "file" /\ IsCertFile(f)} ELSE {}
  IN  UNION {{[path |-> f.path, index |-> i, status |-> Status(ReadCertificates(f)[i])] :
                i \in DOMAIN ReadCertificates(f)} : f \in files}

ScanWarnings(path, dir) ==
  CASE dir.kind \in {"missing", "file"} -> {Warning("cert-dir", path)}
    [] dir.kind = "link" -> {}   \* WalkDir does not follow the link it starts from
    [] dir.kind = "dir"  ->
         {Warning("file", f.path) : f \in {g \in dir.files :
            g.kind = "blocked" \/ (IsCertFile(g) /\ ReadCertificates(g) = <<>>)}}

----------------------------------------------------------------------------
(* CheckKubernetes. *)

EmptyReport ==
  [distro |-> "", kubeconfig |-> "", certDirs |-> <<>>, server |-> <<>>,
   apiCheck |-> <<>>, certs |-> {}, warnings |-> {}, errors |-> {}]

KubeInit ==
  /\ step = "resolve" /\ scanned = 0 /\ info = NoInfo /\ kreport = EmptyReport

Resolve ==
  /\ step = "resolve" /\ step' = "kubeconfig"
  /\ kreport' = [kreport EXCEPT
       !.distro     = ResolvePreset.distro,
       !.kubeconfig = IF kopt.kubeconfig # "" THEN kopt.kubeconfig ELSE ResolvePreset.kubeconfig,
       !.certDirs   = IF kopt.certDirs # <<>> THEN kopt.certDirs ELSE ResolvePreset.certDirs,
       !.warnings   = PresetWarnings]
  /\ UNCHANGED <<kopt, node, scanned, info>>

ReadKubeconfig ==
  /\ step = "kubeconfig" /\ step' = "api"
  /\ info' = IF kreport.kubeconfig = "" THEN NoInfo
             ELSE ParseKubeconfig(node.configs[kreport.kubeconfig])
  /\ kreport' = [kreport EXCEPT
       !.server   = info'.server,
       !.warnings = @ \cup IF kreport.kubeconfig # "" /\ ~info'.ok
                           THEN {Warning("kubeconfig", kreport.kubeconfig)} ELSE {}]
  /\ UNCHANGED <<kopt, node, scanned>>

\* The CAs the check of the API server is given: the file, then the inline data.
ClusterCAs == info.caFile \o info.caData

CheckApi ==
  /\ step = "api" /\ ~kopt.skipLive /\ kreport.server # <<>> /\ step' = "scan"
  /\ LET server == kreport.server[1]
     IN  IF Rejects(server, NoOptions)
         THEN kreport' = [kreport EXCEPT !.errors = {"api-server"}]
         ELSE \E r \in Results(server, NoOptions, ClusterCAs) :
                kreport' = [kreport EXCEPT !.apiCheck = <<r>>]
  /\ UNCHANGED <<kopt, node, scanned, info>>

NoApi ==
  /\ step = "api" /\ (kopt.skipLive \/ kreport.server = <<>>) /\ step' = "scan"
  /\ kreport' = [kreport EXCEPT
       !.warnings = @ \cup IF kopt.skipLive THEN {} ELSE {Warning("api-server", "")}]
  /\ UNCHANGED <<kopt, node, scanned, info>>

ScanDir ==
  /\ step = "scan" /\ ~kopt.skipCertScan /\ scanned < Len(kreport.certDirs)
  /\ scanned' = scanned + 1
  /\ LET path == kreport.certDirs[scanned']
     IN  kreport' = [kreport EXCEPT
           !.certs    = @ \cup Scanned(node.dirs[path]),
           !.warnings = @ \cup ScanWarnings(path, node.dirs[path])]
  /\ UNCHANGED <<kopt, node, step, info>>

Reported ==
  /\ step = "scan" /\ (kopt.skipCertScan \/ scanned = Len(kreport.certDirs))
  /\ step' = "reported"
  /\ UNCHANGED <<kopt, node, scanned, info, kreport>>

CheckKubernetes == Resolve \/ ReadKubeconfig \/ CheckApi \/ NoApi \/ ScanDir \/ Reported

\* kubernetesInvalid, the verdict behind --fail-on-invalid.
KubernetesInvalid ==
  \/ kreport.errors # {}
  \/ \E i \in DOMAIN kreport.apiCheck : Invalid(kreport.apiCheck[i])
  \/ \E c \in kreport.certs : c.status # "valid"
=============================================================================
