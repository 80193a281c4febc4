----------------------------- MODULE CaaLookup -----------------------------
(***************************************************************************)
(* The CAA lookup of a check (internal/checker/dns.go): the walk from the  *)
(* host to its parent names, for each name the failover over the DNS       *)
(* servers, and one deadline for all of it.                                *)
(*                                                                         *)
(* Level 1 is the host, level l+1 the parent of level l.  A query is one   *)
(* UDP datagram and one read; a lost datagram is a read that ends with the *)
(* deadline.  The environment decides when the deadline passes and spoils  *)
(* up to MaxSpoiled answers (a wrong ID or a malformed message).           *)
(***************************************************************************)
EXTENDS Integers, Sequences, FiniteSets

CONSTANTS
  Servers,     \* addresses of DNS servers
  Fallback,    \* the two public servers, in order
  Records,     \* CAA records
  Lookups,     \* the instances of the problem
  MaxSpoiled   \* bound on the answers the environment spoils

NoServer == "no server"   \* a line of resolv.conf that names no usable server

Kinds == {"good", "refuses", "mute", "unreachable"}

\* One instance: the labels of the host, how many levels have a label that
\* cannot be encoded, the records and the oversized answers of each level, the
\* lines of resolv.conf (none if it cannot be read), and how servers behave.
IsLookup(q) ==
  /\ q.depth \in Nat \ {0} /\ q.broken \in 0..q.depth
  /\ q.zone \in [1..q.depth -> SUBSET Records] /\ q.big \subseteq 1..q.depth
  /\ q.conf \in Seq(Servers \cup {NoServer})
  /\ q.kind \in [Servers -> Kinds]

ASSUME LookupAssumption ==
  /\ Fallback \in Seq(Servers) /\ Len(Fallback) = 2
  /\ NoServer \notin Servers
  /\ \A q \in Lookups : IsLookup(q)
  /\ MaxSpoiled \in Nat

VARIABLES
  query,        \* the instance, chosen at the start
  pc,           \* "ask" or "read" in queryCAAServer, "done"
  level, line,  \* positions of the two loops: the name, the line of the server
  late,         \* the deadline has passed
  host, caa,    \* the result: the level it belongs to (0: none) and its records
  spoiled       \* the <<level, line>> queries whose answer was spoiled

vars == <<query, pc, level, line, late, host, caa, spoiled>>

----------------------------------------------------------------------------
(* dnsServers: the first three usable lines, else the public servers. *)

Names(lines) == {i \in DOMAIN lines : lines[i] # NoServer}

Lines == IF Names(query.conf) = {} THEN Fallback ELSE query.conf

DnsServers ==
  {i \in Names(Lines) : Cardinality({j \in Names(Lines) : j < i}) < 3}

\* i is the first of the lines S.
First(S, i) == i \in S /\ \A j \in S : i <= j

(* queryCAAServer: a query that fails moves on to the next server, and after
   the last one the walk continues with the parent as if the name had no
   records. *)

Server == query.kind[Lines[line]]

\* Plausible bugs: the walk goes one level too far, every name gets a fresh
\* deadline, a failed server is asked again, the first failure ends the lookup.
MoreLevelsBug == level <= query.depth
DeadlineRenewed == FALSE
AfterRetries(i) == {j \in DnsServers : j >= i}
AfterNone(i) == {}

MoreLevels == level < query.depth

\* The deadline is that of the whole check: going to the parent does not move it.
DeadlinePassed == late

NextLevel ==
  /\ IF MoreLevels
     THEN /\ level' = level + 1 /\ pc' = "ask"
          /\ \E i \in DnsServers : First(DnsServers, i) /\ line' = i
     ELSE pc' = "done" /\ UNCHANGED <<level, line>>
  /\ late' = DeadlinePassed
  /\ UNCHANGED <<host, caa>>

After(i) == {j \in DnsServers : j > i}

NextServer ==
  IF After(line) = {} THEN NextLevel
  ELSE /\ \E i \in After(line) : First(After(line), i) /\ line' = i
       /\ pc' = "ask"
       /\ UNCHANGED <<level, late, host, caa>>

----------------------------------------------------------------------------

Init ==
  /\ query \in Lookups
  /\ pc = "ask" /\ level = 1 /\ line \in DnsServers /\ First(DnsServers, line)
  /\ late = FALSE /\ host = 0 /\ caa = {} /\ spoiled = {}

\* Build the query, dial and write it.
Ask ==
  /\ pc = "ask"
  /\ IF level <= query.broken \/ late \/ Server = "unreachable"
     THEN NextServer
     ELSE pc' = "read" /\ UNCHANGED <<level, line, late, host, caa>>
  /\ UNCHANGED <<query, spoiled>>

\* A plausible bug: the records are reported for the name the user asked about.
FoundAtTop == 1

FoundAt == level

\* What an answer holds: the records of the name, or those that fit, since the
\* truncation flag is not looked at.
Contents ==
  IF level \in query.big THEN SUBSET query.zone[level] ELSE {query.zone[level]}

Answer ==
  /\ pc = "read" /\ ~late /\ Server = "good"
  /\ \E records \in Contents :
       IF records = {} THEN NextLevel
       ELSE /\ host' = FoundAt /\ caa' = records /\ pc' = "done"
            /\ UNCHANGED <<level, line, late>>
  /\ UNCHANGED <<query, spoiled>>

\* A response code other than "no error" and "no such name".
Refuse ==
  /\ pc = "read" /\ ~late /\ Server = "refuses"
  /\ NextServer
  /\ UNCHANGED <<query, spoiled>>

\* A datagram arrives that is not an answer to this query.
Spoil ==
  /\ pc = "read" /\ ~late /\ Server # "mute" /\ Cardinality(spoiled) < MaxSpoiled
  /\ spoiled' = spoiled \cup {<<level, line>>}
  /\ NextServer
  /\ UNCHANGED query

\* The connection's deadline is that of the context.
TimeOut ==
  /\ pc = "read" /\ late
  /\ NextServer
  /\ UNCHANGED <<query, spoiled>>

\* The deadline passes, or the caller's context ends.
Expire ==
  /\ pc # "done" /\ ~late /\ late' = TRUE
  /\ UNCHANGED <<query, pc, level, line, host, caa, spoiled>>

Terminated == pc = "done" /\ UNCHANGED vars

Step == Ask \/ Answer \/ Refuse \/ Spoil \/ TimeOut

Next == Step \/ Expire \/ Terminated

\* The lookup keeps running, and time passes: a deadline is always set, since
\* checkDNS derives its context with a timeout of at most 5 s.
Spec == Init /\ [][Next]_vars /\ WF_vars(Step) /\ WF_vars(Expire)

----------------------------------------------------------------------------
(* Properties. *)

\* Every variable stays in its range; the walk never leaves the name and asks
\* only servers dnsServers lists.
TypeOK ==
  /\ query \in Lookups
  /\ pc \in {"ask", "read", "done"}
  /\ level \in 1..query.depth /\ line \in DnsServers
  /\ late \in BOOLEAN
  /\ host \in 0..query.depth /\ caa \subseteq Records
  /\ spoiled \subseteq (1..query.depth) \X DnsServers

\* A query that fails without the deadline: it cannot be encoded or sent, is
\* refused, or its answer was spoiled.
Refused(l, i) ==
  \/ l <= query.broken
  \/ query.kind[Lines[i]] \in {"refuses", "unreachable"}
  \/ <<l, i>> \in spoiled

NoAnswer(l) == \A i \in DnsServers : Refused(l, i)

\* A name without an answer that says otherwise: it has no records, the answer
\* was truncated, or every server turned the query down.
PassedOver(l) == query.zone[l] = {} \/ l \in query.big \/ NoAnswer(l)

\* The records of a parent are reported only when each closer name was passed
\* over.  A server that is merely silent, or a deadline that passes, never makes
\* the parent's records stand for those of the name.
ParentHasExcuse == \A l \in 1..(host - 1) : PassedOver(l)

\* "No CAA records" is reported for a name that has some, at any level, only when
\* the deadline passed or that level was passed over.
MissingHasExcuse ==
  pc = "done" /\ host = 0 => \A l \in 1..query.depth : PassedOver(l) \/ late

\* No line of resolv.conf is asked twice about a name: each step goes on to a
\* parent, to a later line or from the question to its answer, and none comes back,
\* however the servers fail; only the deadline passes without the walk.
WalkAdvances ==
  [][late' = late =>
       \/ level' > level
       \/ level' = level /\ line' > line
       \/ level' = level /\ line' = line /\ <<pc, pc'>> \in
            {<<"ask", "read">>, <<"ask", "done">>, <<"read", "done">>}]_vars

\* The lookup implements the service Check relies on: one answer, with records
\* the level it names really has, and it always comes.
Service == INSTANCE CaaService WITH zone <- query.zone, answered <- pc = "done"

Implements == Service!Spec
=============================================================================
