----------------------------- MODULE TlsSuites -----------------------------
(***************************************************************************)
(* Protocol versions and cipher suites, as the probes of                   *)
(* internal/checker/tls.go see them.  A version is 10, 11, 12 or 13 for    *)
(* TLS 1.0 to 1.3.  A suite is a model value; what its name and Go's       *)
(* tls.CipherSuite record say of it is the record SuiteTraits[suite].      *)
(***************************************************************************)
EXTENDS Integers, Sequences, FiniteSets

CONSTANTS
  Suites,       \* the suites crypto/tls knows, secure and insecure
  SuiteList,    \* the order in which the inventory tries them
  SuiteTraits   \* per suite: what Go's table and the suite's name say

Versions     == 10..13
ScanVersions == 10..12     \* the versions whose suites Go lets a client choose

Traits == [versions  : SUBSET Versions, \* suite.SupportedVersions
           insecure  : BOOLEAN,         \* suite.Insecure
           broken    : BOOLEAN,         \* "_RC4_" or "_3DES_" in the name
           cbc       : BOOLEAN,         \* "_CBC_"
           fs        : BOOLEAN,         \* "_ECDHE_" or "_DHE_"
           rsa       : BOOLEAN,         \* "_RSA_"
           byDefault : BOOLEAN]         \* offered when Config.CipherSuites is nil

ASSUME SuiteAssumption ==
  /\ IsFiniteSet(Suites)
  /\ SuiteList \in Seq(Suites) /\ SuiteList # <<>>
  /\ SuiteTraits \in [Suites -> Traits]

\* The inventory tries every suite of crypto/tls, each once, and one at least
\* exists below TLS 1.3.
ASSUME ListedOnce ==
  /\ \A s \in Suites : \E i \in 1..Len(SuiteList) : SuiteList[i] = s
  /\ \A i, j \in 1..Len(SuiteList) : SuiteList[i] = SuiteList[j] => i = j
  /\ \E s \in Suites : SuiteTraits[s].versions \cap ScanVersions # {}

----------------------------------------------------------------------------
(* classifyCipher: the classes the inventory and the findings are built on. *)

Weak(s) == SuiteTraits[s].insecure \/ SuiteTraits[s].broken

Strength(v, s) ==
  IF Weak(s) THEN "weak"
  ELSE IF v \in {10, 11} \/ SuiteTraits[s].cbc \/ ~SuiteTraits[s].fs THEN "legacy"
  ELSE "modern"

StaticRSA(s) == SuiteTraits[s].rsa /\ ~SuiteTraits[s].fs

CipherSuiteSupportsVersion(s, v) == v \in SuiteTraits[s].versions

----------------------------------------------------------------------------
(* crypto/tls, external: the suites a client offers when it names none, the *)
(* range it offers when a bound is 0, and the outcome of the negotiation.   *)

DefaultSuites == {s \in Suites : SuiteTraits[s].byDefault}

LowBound(min)  == IF min = 0 THEN 12 ELSE min
HighBound(max) == IF max = 0 THEN 13 ELSE max

\* An endpoint is the set of <<version, suite>> pairs it accepts.  It answers
\* with the highest version of the offered range that it speaks at all, and the
\* handshake fails when no offered suite is left for that version.
Speaks(accepts, range) == {v \in range : \E s \in Suites : <<v, s>> \in accepts}

Picks(accepts, range, v) ==
  v \in Speaks(accepts, range) /\ \A w \in Speaks(accepts, range) : w <= v

Agree(accepts, range, suites) ==
  \E v \in range : Picks(accepts, range, v) /\ \E s \in suites : <<v, s>> \in accepts
=============================================================================
