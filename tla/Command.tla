------------------------------- MODULE Command -------------------------------
(***************************************************************************)
(* The command line (cmd/sslcertcheck/main.go): dispatch, flags, the loop  *)
(* over the targets of check, the kube and gui commands, the output and    *)
(* the exit code.                                                          *)
(*                                                                         *)
(* Every word is also a target as ParseTarget reads it.  The package flag  *)
(* takes words with a dash for flags up to the first word without one; a   *)
(* flag and its value are one word here.                                   *)
(***************************************************************************)
EXTENDS Kubernetes

CONSTANT
  Scenarios  \* the words behind the program's name, its stdout, options and node

Word(token) == Bare(<<token>>)

Gate     == Word("--fail-on-invalid")
FormatOf == [f \in {Word("--format=text"), Word("--format=json"), Word("--format=xml")} |->
               CASE f = Word("--format=text") -> "text"
                 [] f = Word("--format=json") -> "json" [] OTHER -> "xml"]
Known    == {Gate} \cup DOMAIN FormatOf
Help     == {Word("-h"), Word("--help")}
Dashed   == Known \cup Help \cup {Word("--bogus")}

KubeNames == {Word("kube"), Word("kubernetes"), Word("k8s")}
Commands  == {Word("check"), Word("gui"), Word("version"), Word("help")} \cup KubeNames

Words == {w \in [scheme : {"", "http", "https", "ftp"}, rest : Seq(STRING)] : Apart(w.rest)}

ASSUME CommandAssumption ==
  \A s \in Scenarios :
    /\ s.line \in Seq(Words) /\ s.stdout \in {"open", "full"}
    /\ s.kopt \in KubeOption /\ IsNode(s.node) /\ Charted(s.node, s.kopt)

VARIABLES
  line,               \* the words of the command line
  stdout,             \* "open", or "full" when nothing can be written
  copt,               \* the options of check that decide whether it rejects a target
  pc,                 \* the next step of main
  flags,              \* what fs.Parse made of the line
  results,            \* the results of the targets checked so far
  anyInvalid,
  printed,            \* what stdout shows: nothing, or the results of one report
  exit                \* the exit code, or Running

commandVars == <<line, stdout, copt, pc, flags, results, anyInvalid, printed, exit>>
vars        == <<commandVars, kubeVars>>

Running == -1

----------------------------------------------------------------------------
(* flag.FlagSet.Parse, one word a step. *)

\* The flags of a command line not parsed yet.
Unparsed(words) == [end |-> "", gate |-> FALSE, format |-> "text", rest |-> words]

\* The flags a command has; gui has neither of these.
KnownTo(command) == IF command = "gui" THEN {} ELSE Known

\* The first word without a dash ends the flags, as do a call for help and a flag
\* the command does not have.
ParseWord(f, known) ==
  LET word == Head(f.rest)
  IN  IF f.rest = <<>> \/ word \notin Dashed THEN [f EXCEPT !.end = "parsed"]
      ELSE IF word \notin known THEN [f EXCEPT !.end = IF word \in Help THEN "help" ELSE "error"]
      ELSE [f EXCEPT !.rest = Tail(@), !.gate = @ \/ word = Gate,
                     !.format = IF word = Gate THEN @ ELSE FormatOf[word]]

----------------------------------------------------------------------------
(* main. *)

Init ==
  /\ \E s \in Scenarios : /\ line = s.line /\ stdout = s.stdout /\ copt = s.copt
                           /\ kopt = s.kopt /\ node = s.node
  /\ pc = "main" /\ flags = Unparsed(<<>>) /\ results = <<>> /\ anyInvalid = FALSE
  /\ printed = <<>> /\ exit = Running
  /\ KubeInit

\* A plausible bug: the error is noted, and the command goes on.
ExitBug(code) == pc' = pc /\ exit' = code

Exit(code) == pc' = "exited" /\ exit' = code

Goto(next) == pc' = next /\ exit' = exit

\* A word that is no command, or a flag, is a target or a flag of check.
Main ==
  /\ pc = "main"
  /\ LET first == line[1]
         Run(name, words) == Goto(name) /\ flags' = Unparsed(words)
     IN  CASE line = <<>> -> Exit(1) /\ flags' = flags
           [] line # <<>> /\ first \in {Word("version"), Word("help")} -> Exit(0) /\ flags' = flags
           [] line # <<>> /\ first \in KubeNames -> Run("kube", Tail(line))
           [] line # <<>> /\ first = Word("gui") -> Run("gui", Tail(line))
           [] line # <<>> /\ first = Word("check") -> Run("check", Tail(line))
           [] line # <<>> /\ first \notin Commands -> Run("check", line)
  /\ UNCHANGED <<line, stdout, copt, results, anyInvalid, printed, kubeVars>>

ParseFlag ==
  /\ pc \in {"check", "kube", "gui"} /\ flags.end = ""
  /\ flags' = ParseWord(flags, KnownTo(pc))
  /\ UNCHANGED <<line, stdout, copt, pc, results, anyInvalid, printed, exit, kubeVars>>

\* -h ends a command with 0, a flag it does not know with 1.
BadFlags ==
  /\ pc \in {"check", "kube", "gui"} /\ flags.end \in {"help", "error"}
  /\ Exit(IF flags.end = "help" THEN 0 ELSE 1)
  /\ UNCHANGED <<line, stdout, copt, flags, results, anyInvalid, printed, kubeVars>>

----------------------------------------------------------------------------
(* runCheck. *)

NoTarget ==
  /\ pc = "check" /\ flags.end = "parsed" /\ flags.rest = <<>> /\ Exit(1)
  /\ UNCHANGED <<line, stdout, copt, flags, results, anyInvalid, printed, kubeVars>>

NextTarget == flags.rest[Len(results) + 1]

Looping == pc = "check" /\ flags.end = "parsed" /\ Len(results) < Len(flags.rest)

\* A plausible bug: the last target decides.
FlagsLast(invalid) == invalid

\* anyInvalid after one more result.
Flags(invalid) == anyInvalid \/ invalid

CheckTarget ==
  /\ Looping /\ ~Rejects(NextTarget, copt)
  /\ \E r \in Results(NextTarget, copt, copt.cas) :
       results' = Append(results, r) /\ anyInvalid' = Flags(Invalid(r))
  /\ UNCHANGED <<line, stdout, copt, pc, flags, printed, exit, kubeVars>>

\* A plausible bug: a rejected target is passed over.
RejectTargetBug ==
  /\ Looping /\ Rejects(NextTarget, copt)
  /\ flags' = [flags EXCEPT !.rest =
       SubSeq(@, 1, Len(results)) \o SubSeq(@, Len(results) + 2, Len(@))]
  /\ UNCHANGED <<line, stdout, copt, pc, results, anyInvalid, printed, exit, kubeVars>>

\* A target Check rejects ends the command: no result is printed.
RejectTarget ==
  /\ Looping /\ Rejects(NextTarget, copt) /\ Exit(1)
  /\ UNCHANGED <<line, stdout, copt, flags, results, anyInvalid, printed, kubeVars>>

----------------------------------------------------------------------------
(* The output.  Only the JSON encoder's error is looked at. *)

\* What a report leaves on stdout.
Shown(report) == IF stdout = "open" THEN report ELSE <<>>

Finish(report, invalid) ==
  LET failed == flags.format = "json" /\ stdout = "full"
  IN  IF flags.format = "xml" THEN Exit(1) /\ printed' = printed
      ELSE /\ printed' = Shown(report)
           /\ Exit(CASE failed -> 1 [] ~failed /\ flags.gate /\ invalid -> 2 [] OTHER -> 0)

PrintResults ==
  /\ pc = "check" /\ flags.end = "parsed" /\ flags.rest # <<>>
  /\ Len(results) = Len(flags.rest) /\ Finish(results, anyInvalid)
  /\ UNCHANGED <<line, stdout, copt, flags, results, anyInvalid, kubeVars>>

----------------------------------------------------------------------------
(* runKubernetes and runGUI: words behind the flags are ignored. *)

RunKubernetes ==
  /\ pc = "kube" /\ flags.end = "parsed" /\ CheckKubernetes
  /\ UNCHANGED commandVars

PrintKubernetes ==
  /\ pc = "kube" /\ flags.end = "parsed" /\ step = "reported"
  /\ Finish(<<kreport>>, KubernetesInvalid)
  /\ UNCHANGED <<line, stdout, copt, flags, results, anyInvalid, kubeVars>>

\* ListenAndServe serves, or returns an error when it cannot listen.
Serve ==
  /\ pc = "gui" /\ flags.end = "parsed" /\ (Goto("serving") \/ Exit(1))
  /\ UNCHANGED <<line, stdout, copt, flags, results, anyInvalid, printed, kubeVars>>

Over == pc \in {"exited", "serving"} /\ UNCHANGED vars

Next ==
  \/ Main \/ ParseFlag \/ BadFlags \/ NoTarget \/ CheckTarget \/ RejectTarget \/ PrintResults
  \/ RunKubernetes \/ PrintKubernetes \/ Serve \/ Over

Spec == Init /\ [][Next]_vars

----------------------------------------------------------------------------
(* Properties. *)

\* The variables have their types.
TypeOK ==
  /\ pc \in {"main", "check", "kube", "gui", "exited", "serving"}
  /\ stdout \in {"open", "full"} /\ IsNode(node) /\ kopt \in KubeOption
  /\ flags.end \in {"", "parsed", "help", "error"} /\ flags.gate \in BOOLEAN
  /\ flags.format \in {"text", "json", "xml"}
  /\ Len(results) <= Len(flags.rest) /\ anyInvalid \in BOOLEAN
  /\ exit \in {Running, 0, 1, 2} /\ (exit # Running <=> pc = "exited")
  /\ step \in {"resolve", "kubeconfig", "api", "scan", "reported"}
  /\ scanned <= Len(kreport.certDirs)

\* Every word, read by ParseTarget as a target, is understood as the documentation
\* of targets says, and its address is read back as the same target.
TargetsUnderstood == pc = "main" => \A i \in DOMAIN line : Understood(line[i])

Checks == line = <<>> \/ line[1] \notin Commands \ {Word("check")}
Kubes  == line # <<>> /\ line[1] \in KubeNames

Targets == [i \in DOMAIN results |-> results[i].target]

Verified(r) == r.connected /\ r.verified

\* --fail-on-invalid: check exits with 0 only when every target of the line was
\* checked, and each was verified or had no TLS to verify; unless the flag came
\* behind a target, and was itself checked as one.
GateSound ==
  exit = 0 /\ Checks /\ flags.end = "parsed" /\ Gate \in Range(line) =>
    /\ Targets = flags.rest
    /\ \/ \A i \in DOMAIN results : results[i].attempted => Verified(results[i])
       \/ Gate \in Range(Targets)

\* Exit code 2 means that the flag was set, that some TLS target or certificate
\* failed, and that the report which says so was written if it could be.
ExitJustified ==
  exit = 2 =>
    /\ flags.gate
    /\ \/ \E i \in DOMAIN results : results[i].attempted /\ ~Verified(results[i])
       \/ /\ Kubes
          /\ \/ kreport.errors # {} \/ \E c \in kreport.certs : c.status # "valid"
             \/ \E r \in Range(kreport.apiCheck) : r.attempted /\ ~Verified(r)
    /\ stdout = "open" => printed # <<>>

\* The output is all or nothing: a target that is rejected late, or a format that
\* does not exist, takes every result with it, and then the exit code is 1.
AllOrNothing ==
  pc = "exited" /\ Checks /\ flags.end # "help" =>
    \/ exit = 1 /\ printed = <<>>
    \/ /\ printed \in {results, <<>>} /\ Targets = flags.rest
       /\ \E n \in DOMAIN line \cup {0} : Targets = SubSeq(line, n + 1, Len(line))
       /\ printed = <<>> => stdout = "full"

Files(dir) == {f \in dir.files : f.kind = "file" /\ IsCertFile(f)}

\* Every certificate of the file is in the report with the status it has.
Listed(f) ==
  \/ f.der # <<>> /\ [path |-> f.path, index |-> 1, status |-> Status(f.der[1])] \in kreport.certs
  \/ /\ CertBlocks(f) # <<>>
     /\ \A i \in DOMAIN CertBlocks(f) :
          /\ CertBlocks(f)[i].cert # <<>>
          /\ [path |-> f.path, index |-> i, status |-> Status(CertBlocks(f)[i].cert[1])] \in kreport.certs

Warned(about, path) == Warning(about, path) \in kreport.warnings

\* kube with --fail-on-invalid exits with 0 only when the API server was verified
\* or the report says why it was not checked, and every certificate file below a
\* scanned directory has all its certificates listed and valid, or is named in a
\* warning.  A directory behind a symbolic link is not entered.
NothingHidden ==
  exit = 0 /\ Kubes /\ flags.end = "parsed" /\ flags.gate =>
    /\ \/ kopt.skipLive \/ Warned("api-server", "")
       \/ \E r \in Range(kreport.apiCheck) : Verified(r) \/ r.target.scheme = "http"
    /\ kopt.skipCertScan \/ \A path \in Range(kreport.certDirs) :
         CASE node.dirs[path].kind = "dir" ->
                \A f \in Files(node.dirs[path]) :
                  \/ Warned("file", f.path)
                  \/ Listed(f) /\ \A c \in kreport.certs : c.path = f.path => c.status = "valid"
           [] node.dirs[path].kind = "link" -> TRUE
           [] OTHER -> Warned("cert-dir", path)

Cluster(lines, n) == {l \in Range(lines) : l.cluster = n /\ l.value # <<>>}

\* The API server is checked with its own cluster's CA: when all clusters of the
\* kubeconfig fill in the same keys, the server and the CAs that were picked line by
\* line come from one cluster, and only they and the system's make it verified.
OwnCluster ==
  kreport.apiCheck # <<>> =>
    LET lines     == node.configs[kreport.kubeconfig].lines
        result    == kreport.apiCheck[1]
        Filled(n) == {l.key : l \in Cluster(lines, n)}
        CAs(n)    == {m.value[1] : m \in {k \in Cluster(lines, n) : k.key # "server"}}
    IN  (\A k, l \in Range(lines) : Filled(k.cluster) = Filled(l.cluster)) =>
          \E l \in Range(lines) :
            /\ l.key = "server" /\ l.value = <<result.target>>
            /\ Range(ClusterCAs) = CAs(l.cluster)
            /\ result.verified => IssuerOf(result.target) \in {"system"} \cup CAs(l.cluster)
=============================================================================
