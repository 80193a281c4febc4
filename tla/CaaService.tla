----------------------------- MODULE CaaService -----------------------------
(***************************************************************************)
(* What the CAA lookup promises the check that calls it: one answer, which *)
(* is either nothing or records that the named level really has.  Check    *)
(* uses no more than this: its DNS step finds "caa" or misses it.          *)
(***************************************************************************)
EXTENDS Integers

VARIABLES
  zone,        \* the records of each level of the name
  answered,    \* the lookup has returned
  host, caa    \* the level the answer belongs to, 0 for none, and its records

vars == <<zone, answered, host, caa>>

Init == answered = FALSE /\ host = 0 /\ caa = {}

Nothing == host' = 0 /\ caa' = {}

RecordsOf(l) == host' = l /\ caa' \in (SUBSET zone[l]) \ {{}}

Answer ==
  /\ ~answered /\ answered' = TRUE
  /\ Nothing \/ \E l \in DOMAIN zone : RecordsOf(l)
  /\ UNCHANGED zone

Spec == Init /\ [][Answer]_vars /\ WF_vars(Answer)
=============================================================================
