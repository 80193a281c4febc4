----------------------------- MODULE CommandDocs -----------------------------
(***************************************************************************)
(* What the documentation says of --fail-on-invalid.                       *)
(***************************************************************************)
EXTENDS Command

\* "--fail-on-invalid  Exit with code 2 for invalid API TLS or expired local
\* certs" (README.md:147): a readable file below a scanned directory with an expired
\* certificate in it gives exit code 2, when the report can be written.
ExpiredMeansTwo ==
  /\ pc = "exited" /\ Kubes /\ flags.end = "parsed" /\ flags.gate
  /\ flags.format # "xml" /\ stdout = "open" /\ ~kopt.skipCertScan
  /\ \E path \in Range(kreport.certDirs) :
       /\ node.dirs[path].kind = "dir"
       /\ \E f \in Files(node.dirs[path]) : f.readable /\ \E b \in Range(f.blocks) :
            b.cert # <<>> /\ Status(b.cert[1]) = "expired"
  => exit = 2
=============================================================================
