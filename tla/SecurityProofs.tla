--------------------------- MODULE SecurityProofs ---------------------------
(***************************************************************************)
(* Facts about AnalyzeSecurity that hold for every evidence: its findings  *)
(* are finitely many, so the score is defined and stays in 0..100; another *)
(* finding never raises the score; and a TLS check without a verified      *)
(* handshake is graded F.                                                  *)
(***************************************************************************)
EXTENDS Security, FiniteSetTheorems, TLAPS

\* What AnalyzeSecurity needs of the evidence to end with finitely many findings.
FiniteEvidence(r) == IsFiniteSet(r.warnings) /\ IsFiniteSet(r.headers)

----------------------------------------------------------------------------
(* Finiteness. *)

\* The guarded and the two-way finding are finite sets.
LEMMA WhenFinite ==
  /\ \A c, f : IsFiniteSet(When(c, f))
  /\ \A c, f, g : IsFiniteSet(Either(c, f, g))
  BY FS_EmptySet, FS_Singleton DEF When, Either

\* One finding per chain warning keeps the set finite.
LEMMA ChainFindingsFinite ==
  ASSUME NEW W, IsFiniteSet(W)
  PROVE  IsFiniteSet(ChainFindings(W))
  <1> DEFINE K == {x \in W : x.kind \in ChainKinds}
             T == {Nth("chain_installation", "medium", "warn", <<w.kind, w.at>>) : w \in K}
             g == [w \in K |-> Nth("chain_installation", "medium", "warn", <<w.kind, w.at>>)]
  <1>1. IsFiniteSet(K)
    BY FS_Subset, K \in SUBSET W
  <1>2. g \in Surjection(K, T)
    BY DEF Surjection, g, T
  <1> QED BY <1>1, <1>2, FS_Surjection DEF ChainFindings
\* So does one finding per failed header check.
LEMMA HeaderFindingsFinite ==
  ASSUME NEW H, IsFiniteSet(H)
  PROVE  IsFiniteSet(HeaderFindings(H))
  <1> DEFINE K == {x \in H : x.status \in {"fail", "warn"}}
             F(h) == Nth("http_header", IF h.status = "fail" THEN "high" ELSE "medium",
                         h.status, <<h.name, 0>>)
             T == {F(h) : h \in K}
             g == [h \in K |-> F(h)]
  <1>1. IsFiniteSet(K)
    BY FS_Subset, K \in SUBSET H
  <1> HIDE DEF F
  <1>2. g \in Surjection(K, T)
    BY DEF Surjection
  <1>3. HeaderFindings(H) = T
    BY DEF HeaderFindings, F
  <1> QED BY <1>1, <1>2, <1>3, FS_Surjection

\* The leaf and the not-tested probes add findings from fixed lists.
LEMMA LeafFindingsFinite == \A leaf : IsFiniteSet(LeafFindings(leaf))
  <1> SUFFICES ASSUME NEW leaf PROVE IsFiniteSet(LeafFindings(leaf))
    OBVIOUS
  <1> DEFINE D == DaysRemaining(leaf.left)
             A == When(D \in 0..14, Finding("expires_soon", "high", "warn"))
             B == When(D \in 15..30, Finding("expires_soon", "medium", "warn"))
             C == {Finding(f, "high", "fail") : f \in leaf.flaws \cap {"weak_signature", "weak_key"}}
             E == {Finding(f, "medium", "warn") :
                     f \in leaf.flaws \cap {"revocation_info", "certificate_transparency"}}
             C2 == {Finding("weak_signature", "high", "fail")}
                     \cup {Finding("weak_key", "high", "fail")}
             E2 == {Finding("revocation_info", "medium", "warn")}
                     \cup {Finding("certificate_transparency", "medium", "warn")}
  <1>1. IsFiniteSet(A) /\ IsFiniteSet(B)
    BY WhenFinite
  <1>2. IsFiniteSet(C2) /\ IsFiniteSet(E2)
    BY FS_Singleton, FS_Union
  <1>3. C \in SUBSET C2 /\ E \in SUBSET E2
    OBVIOUS
  <1>4. IsFiniteSet(C) /\ IsFiniteSet(E)
    BY <1>2, <1>3, FS_Subset
  <1>5. LeafFindings(leaf) = ((A \cup B) \cup C) \cup E
    BY DEF LeafFindings
  <1> HIDE DEF A, B, C, E
  <1> QED BY <1>1, <1>4, <1>5, FS_Union

LEMMA FixedFindingsFinite ==
  ASSUME NEW r
  PROVE  /\ IsFiniteSet(TransportFindings(r)) /\ IsFiniteSet(TrustFindings(r.verdict))
         /\ IsFiniteSet(ProtocolFindings(r)) /\ IsFiniteSet(CipherFindings(r))
         /\ IsFiniteSet(DNSFindings(r.dns)) /\ IsFiniteSet(VulnerabilityFindings(r))
  <1>1. IsFiniteSet(TransportFindings(r))
    BY WhenFinite, FS_Union DEF TransportFindings
  <1>2. IsFiniteSet(TrustFindings(r.verdict))
    BY WhenFinite, FS_Union, FS_EmptySet DEF TrustFindings
  <1>3. IsFiniteSet(ProtocolFindings(r))
    BY WhenFinite, FS_Union DEF ProtocolFindings
  <1>4. IsFiniteSet(CipherFindings(r))
    BY WhenFinite, FS_Union, FS_Singleton DEF CipherFindings
  <1>5. IsFiniteSet(DNSFindings(r.dns))
    BY WhenFinite, FS_Union, FS_EmptySet DEF DNSFindings
  <1>6. IsFiniteSet(VulnerabilityFindings(r))
    <2> DEFINE N == {Finding(id, "info", "not_tested") : id \in {"poodle", "heartbleed", "ticketbleed"}}
           M == ({Finding("poodle", "info", "not_tested")}
                  \cup {Finding("heartbleed", "info", "not_tested")})
                  \cup {Finding("ticketbleed", "info", "not_tested")}
    <2>1. N = M
      OBVIOUS
    <2>2. IsFiniteSet(M)
      BY FS_Singleton, FS_Union
    <2> HIDE DEF N, M
    <2>3. IsFiniteSet(N)
      BY <2>1, <2>2
    <2> QED BY <2>3, WhenFinite, FS_Union DEF VulnerabilityFindings, N
  <1> QED BY <1>1, <1>2, <1>3, <1>4, <1>5, <1>6

\* Finite evidence gives finitely many findings.
THEOREM FindingsFinite ==
  ASSUME NEW r, FiniteEvidence(r)
  PROVE  IsFiniteSet(Findings(r))
  <1> DEFINE L == IF r.connected THEN LeafFindings(r.leaf) ELSE {}
  <1>1. IsFiniteSet(L)
    BY LeafFindingsFinite, FS_EmptySet
  <1>2. IsFiniteSet(ChainFindings(r.warnings)) /\ IsFiniteSet(HeaderFindings(r.headers))
    BY ChainFindingsFinite, HeaderFindingsFinite DEF FiniteEvidence
  <1> HIDE DEF L
  <1> QED BY <1>1, <1>2, FixedFindingsFinite, FS_Union DEF Findings, L
----------------------------------------------------------------------------
(* Score and grade. *)

\* The findings of one severity that count are finitely many.
LEMMA CountedType ==
  ASSUME NEW S, IsFiniteSet(S), NEW severity
  PROVE  IsFiniteSet(Counted(S, severity)) /\ Cardinality(Counted(S, severity)) \in Nat
  <1>1. Counted(S, severity) \in SUBSET S
    BY DEF Counted
  <1>2. IsFiniteSet(Counted(S, severity))
    BY <1>1, FS_Subset
  <1> QED BY <1>2, FS_CardinalityType

LEMMA PenaltyType == ASSUME NEW S, IsFiniteSet(S) PROVE Penalty(S) \in Nat
  <1>1. /\ Cardinality(Counted(S, "critical")) \in Nat
        /\ Cardinality(Counted(S, "high")) \in Nat
        /\ Cardinality(Counted(S, "medium")) \in Nat
        /\ Cardinality(Counted(S, "low")) \in Nat
    BY CountedType
  <1> QED BY <1>1 DEF Penalty

\* scoreFindings never leaves 0..100, however many findings there are.
THEOREM ScoreRange == ASSUME NEW S, IsFiniteSet(S) PROVE ScoreFindings(S) \in 0..100
  BY PenaltyType DEF ScoreFindings

\* A larger set of findings is never scored higher: no finding, not even one
\* that passes, can make up for another.
THEOREM FindingsNeverRaiseScore ==
  ASSUME NEW S, NEW T, IsFiniteSet(T), S \subseteq T
  PROVE  ScoreFindings(T) <= ScoreFindings(S)
  <1>1. IsFiniteSet(S)
    BY FS_Subset
  <1>2. ASSUME NEW severity
        PROVE  /\ Cardinality(Counted(S, severity)) <= Cardinality(Counted(T, severity))
               /\ Cardinality(Counted(S, severity)) \in Nat
               /\ Cardinality(Counted(T, severity)) \in Nat
    <2>1. Counted(S, severity) \in SUBSET Counted(T, severity)
      BY DEF Counted
    <2>2. IsFiniteSet(Counted(T, severity))
      BY CountedType
    <2>3. Cardinality(Counted(S, severity)) <= Cardinality(Counted(T, severity))
      BY <2>1, <2>2, FS_Subset
    <2> QED BY <2>3, <1>1, CountedType
  <1>3. /\ Cardinality(Counted(S, "critical")) <= Cardinality(Counted(T, "critical"))
        /\ Cardinality(Counted(S, "high")) <= Cardinality(Counted(T, "high"))
        /\ Cardinality(Counted(S, "medium")) <= Cardinality(Counted(T, "medium"))
        /\ Cardinality(Counted(S, "low")) <= Cardinality(Counted(T, "low"))
    BY <1>2
  <1>4. /\ Cardinality(Counted(S, "critical")) \in Nat /\ Cardinality(Counted(T, "critical")) \in Nat
        /\ Cardinality(Counted(S, "high")) \in Nat /\ Cardinality(Counted(T, "high")) \in Nat
        /\ Cardinality(Counted(S, "medium")) \in Nat /\ Cardinality(Counted(T, "medium")) \in Nat
        /\ Cardinality(Counted(S, "low")) \in Nat /\ Cardinality(Counted(T, "low")) \in Nat
    BY <1>2
  <1>5. Penalty(S) <= Penalty(T)
    BY <1>3, <1>4 DEF Penalty
  <1> QED BY <1>1, <1>5, PenaltyType DEF ScoreFindings

\* A handshake that was attempted and failed, or a certificate that was checked
\* and not verified, is a critical failure, and the grade is F whatever else was
\* found.
THEOREM UntrustedIsF ==
  ASSUME NEW r, r.attempted,
         ~r.connected \/ (r.verdict.checked /\ ~r.verdict.verified)
  PROVE  AnalyzeSecurity(r).grade = "F"
  <1>1. CriticalFailure(Findings(r))
    <2>1. CASE ~r.connected
      <3>1. Finding("tls_handshake", "critical", "fail") \in Findings(r)
        BY <2>1 DEF Findings, TransportFindings, When
      <3> QED BY <3>1 DEF CriticalFailure, Finding, Nth
    <2>2. CASE r.verdict.checked /\ ~r.verdict.verified
      <3>1. Finding("certificate_trust", "critical", "fail") \in Findings(r)
        BY <2>2 DEF Findings, TrustFindings, Either
      <3> QED BY <3>1 DEF CriticalFailure, Finding, Nth
    <2> QED BY <2>1, <2>2
  <1> QED BY <1>1 DEF AnalyzeSecurity, GradeScore
=============================================================================
