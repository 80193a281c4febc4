------------------------------- MODULE Verify -------------------------------
(***************************************************************************)
(* Certificate verification: the names a check uses (sniName, verifyName), *)
(* the root pool it builds (loadRoots) and the verdict it reaches on the   *)
(* certificates a server sent (verifyPeerCertificates, chainWarnings).     *)
(*                                                                         *)
(* A certificate is abstracted to what x509 decides from: hours to and     *)
(* since its validity bounds, the names it covers, the root a ServerAuth   *)
(* path from it ends in (NoRoot: no path), whether it is self-signed, and  *)
(* whether the next certificate sent signed it.                            *)
(***************************************************************************)
EXTENDS Integers, Sequences, FiniteSets

CONSTANTS
  Names,   \* host names and addresses
  NoName,  \* the empty string where a name could stand
  NoRoot   \* anchor of a certificate that leads to no root

ASSUME NameAssumption == NoName \notin Names

Anchors == {"system", "ca_file", "ca_bundle"}

Certificate == [left       : Int,     \* hours until NotAfter
                age        : Int,     \* hours since NotBefore
                names      : SUBSET Names,
                anchor     : Anchors \cup {NoRoot},
                selfSigned : BOOLEAN,
                byNext     : BOOLEAN, \* CheckSignatureFrom the next one sent
                flaws      : SUBSET {"weak_signature", "weak_key",
                                     "revocation_info", "certificate_transparency"}]

----------------------------------------------------------------------------
(* Names.  opt.serverName and opt.verifyName are --servername, --verify-name *)

SniName(target, opt) ==
  IF opt.serverName # NoName THEN opt.serverName
  ELSE IF target.isIP THEN NoName
  ELSE target.host

\* A plausible bug: --servername wins over --verify-name.
VerifyNameBug(target, opt) ==
  IF opt.noHostname THEN NoName
  ELSE IF opt.serverName # NoName THEN opt.serverName
  ELSE IF opt.verifyName # NoName THEN opt.verifyName
  ELSE target.host

VerifyName(target, opt) ==
  IF opt.noHostname THEN NoName
  ELSE IF opt.verifyName # NoName THEN opt.verifyName
  ELSE IF opt.serverName # NoName THEN opt.serverName
  ELSE target.host

----------------------------------------------------------------------------
(* Roots.  opt.caFile and opt.caBundle say what the sources hold; the      *)
(* system store may fail to load (opt.systemRoots is FALSE).  A CA file    *)
(* that cannot be used ends loadRoots before the inline bundle is read.    *)

UsableFile(opt) == opt.caFile \in {"none", "good"}

\* A plausible bug: the bundle is read although the file could not be used.
LoadRootsBug(opt) ==
  (IF opt.systemRoots THEN {"system"} ELSE {})
    \cup (IF opt.caFile = "good" THEN {"ca_file"} ELSE {})
    \cup (IF opt.caBundle = "good" THEN {"ca_bundle"} ELSE {})

LoadRoots(opt) ==
  (IF opt.systemRoots THEN {"system"} ELSE {})
    \cup (IF opt.caFile = "good" THEN {"ca_file"} ELSE {})
    \cup (IF UsableFile(opt) /\ opt.caBundle = "good" THEN {"ca_bundle"} ELSE {})

RootsFail(opt) == ~UsableFile(opt) \/ opt.caBundle = "no_pem"

----------------------------------------------------------------------------
(* crypto/x509, external: the leaf's validity is checked first, then the   *)
(* name if one is given, then the path.                                    *)

InValidity(leaf) == leaf.left >= 0 /\ leaf.age >= 0

X509Error(leaf, roots, name) ==
  IF ~InValidity(leaf) THEN "validity"
  ELSE IF name # NoName /\ name \notin leaf.names THEN "name"
  ELSE IF leaf.anchor \notin roots THEN "authority"
  ELSE "ok"

----------------------------------------------------------------------------
(* The verdict. *)

Unchecked == [checked |-> FALSE, verified |-> FALSE, chainVerified |-> FALSE,
              hostnameChecked |-> FALSE, hostnameVerified |-> FALSE,
              expired |-> FALSE, notYetValid |-> FALSE, selfSigned |-> FALSE,
              errors |-> {}]

VerifyPeerCertificates(chain, target, opt) ==
  LET leaf     == chain[1]
      name     == VerifyName(target, opt)
      roots    == LoadRoots(opt)
      chainErr == X509Error(leaf, roots, NoName)
      hostErr  == IF name = NoName \/ name \in leaf.names THEN "ok" ELSE "name"
      fullErr  == X509Error(leaf, roots, name)
  IN  [checked          |-> TRUE,
       verified         |-> fullErr = "ok",
       chainVerified    |-> chainErr = "ok",
       hostnameChecked  |-> name # NoName,
       hostnameVerified |-> hostErr = "ok",
       expired          |-> leaf.left < 0,
       notYetValid      |-> leaf.age < 0,
       selfSigned       |-> leaf.selfSigned,
       errors           |->
         (IF RootsFail(opt) THEN {"roots"} ELSE {})
           \cup ({chainErr, hostErr, fullErr} \ {"ok"})]

----------------------------------------------------------------------------
(* Warnings.  A warning is its kind and the position it is about.          *)

Warning(kind, at) == [kind |-> kind, at |-> at]

\* Warnings whose text names an intermediate or the chain order: AnalyzeSecurity
\* looks for those words.
ChainKinds == {"leaf_only", "root_sent", "chain_order"}

When(condition, x) == IF condition THEN {x} ELSE {}

ChainWarnings(chain, chainErr) ==
  When(chainErr # "ok" /\ Len(chain) = 1 /\ ~chain[1].selfSigned, Warning("leaf_only", 1))
    \cup {Warning("root_sent", i) : i \in {j \in 2..Len(chain) : chain[j].selfSigned}}
    \cup {Warning("chain_order", i) : i \in {j \in 1..(Len(chain) - 1) : ~chain[j].byNext}}

VerifyWarnings(chain, target, opt) ==
  When(~opt.systemRoots, Warning("system_roots", 0))
    \cup When(opt.noHostname, Warning("hostname_off", 0))
    \cup ChainWarnings(chain, X509Error(chain[1], LoadRoots(opt), NoName))
=============================================================================
