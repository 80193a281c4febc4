---------------------------- MODULE CheckResult ----------------------------
(***************************************************************************)
(* What the commands may expect of a check: the part of checker.Result     *)
(* they act on, as kube and check use it (Kubernetes, Command) and as a    *)
(* run of Check has to deliver it (CheckProps).                            *)
(***************************************************************************)
EXTENDS Naturals, Sequences

\* A CA file or bundle that cannot be read or holds no certificate.
Unusable == {"lost", "no_pem"}

\* The CAs a verdict may rest on, of those asked for, in loadRoots' order: the
\* first unusable one ends it, and the pool filled so far is used all the same.
TrustedCAs(cas) ==
  {"system"} \cup {cas[i] : i \in {j \in DOMAIN cas : \A k \in 1..j : cas[k] \notin Unusable}}

\* Nothing is verified without a handshake, or on the word of another CA.
Promised(r, plain, issuer, cas) ==
  /\ r.attempted <=> ~plain
  /\ r.connected => r.attempted
  /\ r.verified => r.connected /\ issuer \in TrustedCAs(cas)
=============================================================================
