---------------------------- MODULE CheckService ----------------------------
(***************************************************************************)
(* What a check promises its caller, without dials, handshakes, loops or   *)
(* deadlines.  A request is rejected, or it is accepted and ends in one    *)
(* report.  A check that connects draws up an agenda of facts about the    *)
(* endpoint; it may claim a fact only when it is true, it may deny any     *)
(* fact it could not confirm, and it reports only when the agenda is       *)
(* settled.  A TLS check that did not establish trust gets the grade F.    *)
(***************************************************************************)
EXTENDS FiniteSets

CONSTANTS
  Facts,   \* what can be asked of an endpoint
  Grades   \* local grades, "F" among them

VARIABLES
  phase,   \* "requested", "rejected", "running", "asking" or "reported"
  mode,    \* "tls" or "plain" once accepted
  truth,   \* the facts that hold of the endpoint
  todo,    \* facts of the agenda not yet settled
  claims, denied,
  trusted, \* the identity was verified
  grade

vars == <<phase, mode, truth, todo, claims, denied, trusted, grade>>

Init ==
  /\ phase = "requested" /\ mode = "" /\ truth \in SUBSET Facts
  /\ todo = {} /\ claims = {} /\ denied = {} /\ trusted = FALSE /\ grade = ""

Reject ==
  /\ phase = "requested" /\ phase' = "rejected"
  /\ UNCHANGED <<mode, truth, todo, claims, denied, trusted, grade>>

Accept ==
  /\ phase = "requested" /\ phase' = "running" /\ mode' \in {"tls", "plain"}
  /\ UNCHANGED <<truth, todo, claims, denied, trusted, grade>>

Connect ==
  /\ phase = "running" /\ mode = "tls" /\ phase' = "asking"
  /\ todo' \in SUBSET Facts /\ trusted' \in BOOLEAN
  /\ UNCHANGED <<mode, truth, claims, denied, grade>>

Settle(f) ==
  /\ phase = "asking" /\ f \in todo /\ todo' = todo \ {f}
  /\ \/ f \in truth /\ claims' = claims \cup {f} /\ denied' = denied
     \/ denied' = denied \cup {f} /\ claims' = claims
  /\ UNCHANGED <<phase, mode, truth, trusted, grade>>

Report ==
  /\ phase \in {"running", "asking"} /\ todo = {} /\ phase' = "reported"
  /\ grade' \in IF mode = "tls" /\ ~trusted THEN {"F"} ELSE Grades
  /\ UNCHANGED <<mode, truth, todo, claims, denied, trusted>>

Next == Reject \/ Accept \/ Connect \/ Report \/ \E f \in Facts : Settle(f)

Spec == Init /\ [][Next]_vars /\ WF_vars(Next)
=============================================================================
