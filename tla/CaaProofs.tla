----------------------------- MODULE CaaProofs -----------------------------
(***************************************************************************)
(* Proofs about CaaLookup, for every host, zone, resolv.conf and behaviour *)
(* of the servers.  WalkInv is what the two loops have established: every  *)
(* level behind the walk was passed over and every server before the       *)
(* current one turned the query down, unless the deadline passed.          *)
(***************************************************************************)
EXTENDS CaaLookup, TLAPS

LevelsBehind == \A l \in 1..(level - 1) : PassedOver(l) \/ late

ServersBehind == \A i \in DnsServers : i < line => Refused(level, i) \/ late

WalkInv ==
  /\ LevelsBehind
  /\ pc # "done" => host = 0 /\ caa = {} /\ ServersBehind
  /\ host > 0 => host = level

----------------------------------------------------------------------------

\* A lookup asks at least one server: dnsServers never returns an empty list, so
\* the positions of its lines are whole numbers with a first one.
LEMMA ServerLines ==
  ASSUME IsLookup(query)
  PROVE  DnsServers \subseteq Nat
<1>1. query.conf \in Seq(Servers \cup {NoServer}) /\ Fallback \in Seq(Servers)
  BY LookupAssumption DEF IsLookup
<1>2. DOMAIN Lines \subseteq Nat
  BY <1>1 DEF Lines
<1> QED BY <1>2 DEF DnsServers, Names

\* The instance is well formed.
LEMMA QueryType ==
  ASSUME TypeOK
  PROVE  /\ IsLookup(query) /\ query.depth \in Nat /\ level \in Nat
         /\ DnsServers \subseteq Nat /\ line \in Nat
<1>1. IsLookup(query)
  BY LookupAssumption DEF TypeOK
<1>2. query.depth \in Nat
  BY <1>1 DEF IsLookup
<1> QED BY <1>1, <1>2, ServerLines DEF TypeOK

\* dnsServers depends on resolv.conf only.
LEMMA ServersFixed ==
  ASSUME UNCHANGED query
  PROVE  DnsServers' = DnsServers /\ Lines' = Lines
BY DEF DnsServers, Lines, Names

----------------------------------------------------------------------------
(* Types. *)

LEMMA NextLevelType ==
  ASSUME TypeOK, NextLevel, UNCHANGED query
  PROVE  /\ pc' \in {"ask", "done"} /\ level' \in 1..query.depth /\ line' \in DnsServers
         /\ late' \in BOOLEAN /\ host' = host /\ caa' = caa
<1> USE QueryType
<1>1. level' \in 1..query.depth
  BY DEF NextLevel, MoreLevels, TypeOK
<1> QED BY <1>1 DEF NextLevel, TypeOK, DeadlinePassed, First

LEMMA NextServerType ==
  ASSUME TypeOK, NextServer, UNCHANGED query
  PROVE  /\ pc' \in {"ask", "done"} /\ level' \in 1..query.depth /\ line' \in DnsServers
         /\ late' \in BOOLEAN /\ host' = host /\ caa' = caa
<1>1. CASE After(line) = {}
  BY <1>1, NextLevelType DEF NextServer
<1>2. CASE After(line) # {}
  BY <1>2 DEF NextServer, TypeOK, After, First
<1> QED BY <1>1, <1>2

\* Every step keeps the types.
LEMMA TypeStep ==
  ASSUME TypeOK, [Next]_vars
  PROVE  TypeOK'
<1> USE ServersFixed, QueryType
<1>1. CASE Ask
  <2>1. CASE NextServer
    BY <1>1, <2>1, NextServerType DEF Ask, TypeOK
  <2>2. CASE pc' = "read" /\ UNCHANGED <<level, line, late, host, caa>>
    BY <1>1, <2>2 DEF Ask, TypeOK
  <2> QED BY <1>1, <2>1, <2>2 DEF Ask
<1>2. CASE Answer
  <2>1. PICK records \in Contents :
           IF records = {} THEN NextLevel
           ELSE /\ host' = FoundAt /\ caa' = records /\ pc' = "done"
                /\ UNCHANGED <<level, line, late>>
    BY <1>2 DEF Answer
  <2>2. UNCHANGED <<query, spoiled>>
    BY <1>2 DEF Answer
  <2>3. CASE records = {}
    BY <2>1, <2>2, <2>3, NextLevelType DEF TypeOK
  <2>4. CASE records # {}
    <3>1. query.zone[level] \subseteq Records
      BY DEF IsLookup, TypeOK
    <3>2. records \subseteq Records
      BY <2>1, <3>1 DEF Contents
    <3>3. level \in 0..query.depth
      BY DEF TypeOK
    <3> QED BY <2>1, <2>2, <2>4, <3>2, <3>3 DEF TypeOK, FoundAt
  <2> QED BY <2>3, <2>4
<1>3. CASE Refuse
  BY <1>3, NextServerType DEF Refuse, TypeOK
<1>4. CASE Spoil
  <2>1. <<level, line>> \in (1..query.depth) \X DnsServers
    BY DEF TypeOK
  <2>2. spoiled' \subseteq (1..query.depth) \X DnsServers
    BY <1>4, <2>1 DEF Spoil, TypeOK
  <2> QED BY <1>4, <2>2, NextServerType DEF Spoil, TypeOK
<1>5. CASE TimeOut
  BY <1>5, NextServerType DEF TimeOut, TypeOK
<1>6. CASE Expire
  BY <1>6 DEF Expire, TypeOK
<1>7. CASE UNCHANGED vars
  BY <1>7 DEF vars, TypeOK
<1> QED BY <1>1, <1>2, <1>3, <1>4, <1>5, <1>6, <1>7 DEF Next, Step, Terminated

\* The initial states are well typed.
LEMMA TypeInit ==
  ASSUME Init
  PROVE  TypeOK
<1>1. IsLookup(query)
  BY LookupAssumption DEF Init
<1>2. 1 \in 1..query.depth /\ 0 \in 0..query.depth
  BY <1>1 DEF IsLookup
<1> QED BY <1>2 DEF Init, TypeOK

\* Type correctness: the walk stays inside the name and the list of servers, for
\* every host and every resolv.conf.
THEOREM CaaTypeCorrect == Spec => []TypeOK
<1>1. TypeOK /\ [Next]_vars => TypeOK'
  BY TypeStep
<1> QED BY TypeInit, <1>1, PTL DEF Spec


----------------------------------------------------------------------------
(* The walk. *)

\* What turned a query down once still did later: answers stay spoiled, and the
\* deadline does not come back.
LEMMA ExcuseKept ==
  ASSUME UNCHANGED query, spoiled \subseteq spoiled', late => late'
  PROVE  /\ \A l, i : Refused(l, i) => Refused(l, i)'
         /\ \A l : PassedOver(l) => PassedOver(l)'
<1>1. \A l, i : Refused(l, i) => Refused(l, i)'
  BY ServersFixed DEF Refused
<1> QED BY <1>1, ServersFixed DEF PassedOver, NoAnswer

\* Going to the parent is justified when the current level was passed over.
LEMMA NextLevelWalk ==
  ASSUME NEW n, n = level,
         TypeOK, WalkInv, pc # "done", NextLevel, UNCHANGED query,
         spoiled \subseteq spoiled', (PassedOver(n) \/ late)'
  PROVE  /\ WalkInv'
         /\ host' = 0
         /\ pc' = "done" => \A l \in 1..query.depth : (PassedOver(l) \/ late)'
<1> USE QueryType
<1>1. late' = late /\ host' = host /\ caa' = caa
  BY DEF NextLevel, DeadlinePassed
<1>2. \A l \in 1..n : (PassedOver(l) \/ late)'
  <2>1. \A l \in 1..(n - 1) : (PassedOver(l) \/ late)'
    BY <1>1, ExcuseKept DEF WalkInv, LevelsBehind
  <2>2. \A l \in 1..n : l = n \/ l \in 1..(n - 1)
    OBVIOUS
  <2> QED BY <2>1, <2>2
<1>3. CASE MoreLevels
  <2>1. level' = n + 1 /\ pc' = "ask" /\ First(DnsServers, line')
    BY <1>3 DEF NextLevel
  <2>2. 1..(level' - 1) = 1..n
    BY <2>1
  <2>3. LevelsBehind'
    BY <1>2, <2>2 DEF LevelsBehind
  <2>4. ServersBehind'
    <3>1. line' \in DnsServers /\ (\A j \in DnsServers : line' <= j) /\ DnsServers' = DnsServers
      BY <2>1, ServersFixed DEF First
    <3>2. ASSUME NEW i \in DnsServers', i < line' PROVE FALSE
      <4>1. i \in DnsServers /\ line' <= i /\ i \in Nat /\ line' \in Nat
        BY <3>1, <3>2
      <4> QED BY <3>2, <4>1
    <3> QED BY <3>2 DEF ServersBehind
  <2> QED BY <1>1, <2>1, <2>3, <2>4 DEF WalkInv
<1>4. CASE ~MoreLevels
  <2>1. level' = n /\ pc' = "done"
    BY <1>4 DEF NextLevel
  <2>2. n = query.depth
    BY <1>4 DEF MoreLevels, TypeOK
  <2>3. LevelsBehind'
    <3>1. 1..(level' - 1) \subseteq 1..n
      BY <2>1
    <3> QED BY <1>2, <3>1 DEF LevelsBehind
  <2>4. WalkInv'
    BY <1>1, <2>1, <2>3 DEF WalkInv
  <2> QED BY <1>1, <1>2, <2>1, <2>2, <2>4 DEF WalkInv
<1> QED BY <1>3, <1>4

\* Going to the next server, or past the last one, is justified when the current
\* server turned the query down.
LEMMA NextServerWalk ==
  ASSUME NEW n, n = level, NEW k, k = line,
         TypeOK, WalkInv, pc # "done", NextServer, UNCHANGED query,
         spoiled \subseteq spoiled', late => late', (Refused(n, k) \/ late)'
  PROVE  /\ WalkInv'
         /\ host' = 0
         /\ pc' = "done" => \A l \in 1..query.depth : (PassedOver(l) \/ late)'
<1> USE QueryType
<1>1. \A i \in DnsServers : i <= k => (Refused(n, i) \/ late)'
  <2>1. \A i \in DnsServers : i < k => (Refused(n, i) \/ late)'
    BY ExcuseKept DEF WalkInv, ServersBehind
  <2>2. \A i \in DnsServers : i <= k => i < k \/ i = k
    OBVIOUS
  <2> QED BY <2>1, <2>2
<1>2. CASE After(line) = {}
  <2>1. \A i \in DnsServers : i <= k
    BY <1>2 DEF After
  <2>2. (PassedOver(n) \/ late)'
    BY <1>1, <2>1, ServersFixed DEF PassedOver, NoAnswer
  <2>3. NextLevel
    BY <1>2 DEF NextServer
  <2> QED BY <2>2, <2>3, NextLevelWalk
<1>3. CASE After(line) # {}
  <2>1. /\ First(After(line), line') /\ pc' = "ask"
        /\ level' = level /\ late' = late /\ host' = host /\ caa' = caa
    BY <1>3 DEF NextServer
  <2>2. LevelsBehind'
    BY <2>1, ExcuseKept DEF WalkInv, LevelsBehind
  <2>3. \A i \in DnsServers : i < line' => i <= k
    BY <2>1 DEF First, After
  <2>4. ServersBehind'
    BY <1>1, <2>1, <2>3, ServersFixed DEF ServersBehind
  <2> QED BY <2>1, <2>2, <2>4 DEF WalkInv
<1> QED BY <1>2, <1>3

\* One step keeps what the walk established, and ends it only for a reason.
LEMMA WalkStep ==
  ASSUME TypeOK, WalkInv, ParentHasExcuse, MissingHasExcuse, [Next]_vars
  PROVE  WalkInv' /\ ParentHasExcuse' /\ MissingHasExcuse'
<1> USE QueryType
<1> DEFINE Over == /\ host' = 0
                   /\ pc' = "done" => \A l \in 1..query.depth : (PassedOver(l) \/ late)'
<1>1. ASSUME WalkInv', Over, query' = query
      PROVE  WalkInv' /\ ParentHasExcuse' /\ MissingHasExcuse'
  <2>1. ParentHasExcuse'
    <3>1. 1..(host' - 1) = {}
      BY <1>1
    <3> QED BY <3>1 DEF ParentHasExcuse
  <2>2. MissingHasExcuse'
    BY <1>1 DEF MissingHasExcuse
  <2> QED BY <1>1, <2>1, <2>2
<1> HIDE DEF Over
<1>2. ASSUME pc # "done", NextServer, UNCHANGED query, spoiled \subseteq spoiled', late => late',
             NEW n, n = level, NEW k, k = line, (Refused(n, k) \/ late)'
      PROVE  WalkInv' /\ ParentHasExcuse' /\ MissingHasExcuse'
  <2>1. WalkInv' /\ Over
    BY <1>2, NextServerWalk DEF Over
  <2> QED BY <1>1, <1>2, <2>1
<1>3. PICK n : n = level
  OBVIOUS
<1>4. PICK k : k = line
  OBVIOUS
<1>5. CASE Ask
  <2>1. CASE NextServer /\ (level <= query.broken \/ late \/ Server = "unreachable")
    <3>1. UNCHANGED <<query, spoiled>> /\ pc # "done"
      BY <1>5 DEF Ask
    <3>2. late' = late
      BY <2>1 DEF NextServer, NextLevel, DeadlinePassed
    <3>3. Refused(n, k) \/ late
      BY <1>3, <1>4, <2>1 DEF Refused, Server
    <3>4. (Refused(n, k) \/ late)'
      BY <3>1, <3>2, <3>3, ExcuseKept
    <3> QED BY <1>2, <1>3, <1>4, <2>1, <3>1, <3>2, <3>4
  <2>2. CASE pc' = "read" /\ UNCHANGED <<level, line, late, host, caa>>
    <3>1. UNCHANGED <<query, spoiled>> /\ pc # "done"
      BY <1>5 DEF Ask
    <3>2. WalkInv'
      BY <2>2, <3>1, ExcuseKept, ServersFixed DEF WalkInv, LevelsBehind, ServersBehind
    <3>3. Over
      BY <2>2, <3>1 DEF WalkInv, Over
    <3> QED BY <1>1, <3>1, <3>2, <3>3
  <2> QED BY <1>5, <2>1, <2>2 DEF Ask
<1>6. CASE Answer
  <2>1. PICK records \in Contents :
           IF records = {} THEN NextLevel
           ELSE /\ host' = FoundAt /\ caa' = records /\ pc' = "done"
                /\ UNCHANGED <<level, line, late>>
    BY <1>6 DEF Answer
  <2>2. UNCHANGED <<query, spoiled>> /\ pc = "read" /\ ~late
    BY <1>6 DEF Answer
  <2>3. CASE records = {}
    <3>1. PassedOver(n)
      BY <1>3, <2>1, <2>3 DEF Contents, PassedOver
    <3>2. (PassedOver(n) \/ late)'
      <4>1. late => late'
        BY <2>2
      <4> QED BY <2>2, <3>1, <4>1, ExcuseKept
    <3>3. WalkInv' /\ Over
      BY <1>3, <2>1, <2>2, <2>3, <3>2, NextLevelWalk DEF Over
    <3> QED BY <1>1, <2>2, <3>3
  <2>4. CASE records # {}
    <3>1. host' = level /\ pc' = "done" /\ level' = level /\ late' = late /\ level > 0
      BY <2>1, <2>4 DEF FoundAt, TypeOK
    <3>2. LevelsBehind'
      BY <2>2, <3>1, ExcuseKept DEF WalkInv, LevelsBehind
    <3>3. ParentHasExcuse'
      BY <2>2, <3>1, <3>2 DEF LevelsBehind, ParentHasExcuse
    <3>4. WalkInv'
      BY <3>1, <3>2 DEF WalkInv
    <3> QED BY <3>1, <3>3, <3>4 DEF MissingHasExcuse
  <2> QED BY <2>3, <2>4
<1>7. CASE Refuse
  <2>1. UNCHANGED <<query, spoiled>> /\ pc # "done" /\ NextServer /\ ~late
    BY <1>7 DEF Refuse
  <2>2. Refused(n, k)
    BY <1>3, <1>4, <1>7 DEF Refuse, Refused, Server
  <2>3. late => late'
    BY <2>1
  <2>4. (Refused(n, k) \/ late)'
    BY <2>1, <2>2, <2>3, ExcuseKept
  <2> QED BY <1>2, <1>3, <1>4, <2>1, <2>4
<1>8. CASE Spoil
  <2>1. /\ query' = query /\ spoiled' = spoiled \cup {<<n, k>>} /\ pc # "done"
        /\ NextServer /\ ~late
    BY <1>3, <1>4, <1>8 DEF Spoil
  <2>2. (Refused(n, k) \/ late)'
    BY <2>1 DEF Refused
  <2>3. spoiled \subseteq spoiled'
    BY <2>1
  <2> QED BY <1>2, <1>3, <1>4, <2>1, <2>2, <2>3
<1>9. CASE TimeOut
  <2>1. UNCHANGED <<query, spoiled>> /\ pc # "done" /\ NextServer /\ late
    BY <1>9 DEF TimeOut
  <2>2. late'
    BY <2>1 DEF NextServer, NextLevel, DeadlinePassed
  <2>3. (Refused(n, k) \/ late)'
    BY <2>2
  <2> QED BY <1>2, <1>3, <1>4, <2>1, <2>2, <2>3
<1>10. CASE Expire
  <2>1. UNCHANGED <<query, pc, level, line, host, caa, spoiled>> /\ late' /\ pc # "done"
    BY <1>10 DEF Expire
  <2>2. WalkInv'
    BY <2>1, ServersFixed DEF WalkInv, LevelsBehind, ServersBehind
  <2>3. Over
    BY <2>1 DEF WalkInv, Over
  <2> QED BY <1>1, <2>1, <2>2, <2>3
<1>11. CASE UNCHANGED vars
  <2>1. UNCHANGED <<query, pc, level, line, late, host, caa, spoiled>>
    BY <1>11 DEF vars
  <2>2. WalkInv'
    BY <2>1, ExcuseKept, ServersFixed DEF WalkInv, LevelsBehind, ServersBehind
  <2> QED BY <2>1, <2>2, ExcuseKept DEF ParentHasExcuse, MissingHasExcuse
<1> QED BY <1>5, <1>6, <1>7, <1>8, <1>9, <1>10, <1>11 DEF Next, Step, Terminated

\* The walk starts with nothing behind it.
LEMMA WalkInit ==
  ASSUME Init
  PROVE  WalkInv /\ ParentHasExcuse /\ MissingHasExcuse
<1>1. pc = "ask" /\ level = 1 /\ First(DnsServers, line) /\ host = 0 /\ caa = {}
  BY DEF Init
<1>2. LevelsBehind
  BY <1>1 DEF LevelsBehind
<1>3. ServersBehind
  <2>1. DnsServers \subseteq Nat
    BY TypeInit, QueryType
  <2> QED BY <1>1, <2>1 DEF ServersBehind, First
<1>4. 1..(host - 1) = {}
  BY <1>1
<1> QED BY <1>1, <1>2, <1>3, <1>4 DEF WalkInv, ParentHasExcuse, MissingHasExcuse

LEMMA CaaInvariant == Spec => [](TypeOK /\ WalkInv /\ ParentHasExcuse /\ MissingHasExcuse)
<1> DEFINE Inv == TypeOK /\ WalkInv /\ ParentHasExcuse /\ MissingHasExcuse
<1>1. Init => Inv
  BY TypeInit, WalkInit
<1>2. Inv /\ [Next]_vars => Inv'
  BY TypeStep, WalkStep
<1> QED BY <1>1, <1>2, PTL DEF Spec

\* The records of a parent always have their excuse: closer names are passed over
\* only when they have no records, were truncated, or every server turned them
\* down, and a deadline is none of these (dns.go:87-113).
THEOREM CaaParentsExplained == Spec => []ParentHasExcuse
BY CaaInvariant, PTL

\* So has an answer without records, for which a deadline that passed is an
\* excuse as well (dns.go:87-113).
THEOREM CaaMissingExplained == Spec => []MissingHasExcuse
BY CaaInvariant, PTL

----------------------------------------------------------------------------
(* Refinement. *)

\* A query that fails reports nothing: it changes the answer of the service to
\* "nothing" or does not change it at all.
LEMMA FailureRefines ==
  ASSUME WalkInv, pc # "done", NextServer \/ NextLevel, UNCHANGED query
  PROVE  [Service!Answer]_Service!vars
<1>1. host = 0 /\ caa = {} /\ host' = host /\ caa' = caa
  BY DEF WalkInv, NextServer, NextLevel
<1>2. CASE pc' = "done"
  BY <1>1, <1>2 DEF Service!Answer, Service!Nothing
<1>3. CASE pc' # "done"
  BY <1>1, <1>3 DEF Service!vars
<1> QED BY <1>2, <1>3

\* Every step of the lookup is the service's one answer or invisible to it.
LEMMA StepRefines ==
  ASSUME TypeOK, WalkInv, [Next]_vars
  PROVE  [Service!Answer]_Service!vars
<1> USE QueryType
<1>1. CASE Ask
  <2>1. CASE NextServer
    BY <1>1, <2>1, FailureRefines DEF Ask
  <2>2. CASE pc' = "read" /\ UNCHANGED <<level, line, late, host, caa>>
    BY <1>1, <2>2 DEF Ask, Service!vars
  <2> QED BY <1>1, <2>1, <2>2 DEF Ask
<1>2. CASE Answer
  <2>1. PICK records \in Contents :
           IF records = {} THEN NextLevel
           ELSE /\ host' = FoundAt /\ caa' = records /\ pc' = "done"
                /\ UNCHANGED <<level, line, late>>
    BY <1>2 DEF Answer
  <2>2. UNCHANGED <<query, spoiled>> /\ pc = "read"
    BY <1>2 DEF Answer
  <2>3. CASE records = {}
    BY <2>1, <2>2, <2>3, FailureRefines
  <2>4. CASE records # {}
    <3>1. level \in DOMAIN query.zone
      BY DEF IsLookup, TypeOK
    <3>2. records \in (SUBSET query.zone[level]) \ {{}}
      BY <2>1, <2>4 DEF Contents
    <3>3. Service!RecordsOf(level)
      BY <2>1, <2>4, <3>2 DEF Service!RecordsOf, FoundAt
    <3> QED BY <2>1, <2>2, <2>4, <3>1, <3>3 DEF Service!Answer
  <2> QED BY <2>3, <2>4
<1>3. CASE Refuse
  BY <1>3, FailureRefines DEF Refuse
<1>4. CASE Spoil
  BY <1>4, FailureRefines DEF Spoil
<1>5. CASE TimeOut
  BY <1>5, FailureRefines DEF TimeOut
<1>6. CASE Expire
  BY <1>6 DEF Expire, Service!vars
<1>7. CASE UNCHANGED vars
  BY <1>7 DEF vars, Service!vars
<1> QED BY <1>1, <1>2, <1>3, <1>4, <1>5, <1>6, <1>7 DEF Next, Step, Terminated

\* The safety half of Implements: the lookup gives one answer, and records in it
\* are records the level it names has.
THEOREM CaaRefinesService == Spec => Service!Init /\ [][Service!Answer]_(Service!vars)
<1>1. Init => Service!Init
  BY DEF Init, Service!Init
<1>2. TypeOK /\ WalkInv /\ [Next]_vars => [Service!Answer]_(Service!vars)
  BY StepRefines
<1> QED BY <1>1, <1>2, CaaInvariant, PTL DEF Spec

----------------------------------------------------------------------------
(* The end of the walk. *)

\* What a step of the walk may do.
Ahead ==
  \/ level' > level
  \/ level' = level /\ line' > line
  \/ level' = level /\ line' = line /\ <<pc, pc'>> \in
       {<<"ask", "read">>, <<"ask", "done">>, <<"read", "done">>}

\* Giving up on a server moves the walk ahead.
LEMMA FailureAdvances ==
  ASSUME TypeOK, pc \in {"ask", "read"}, NextServer \/ NextLevel
  PROVE  Ahead
<1> USE QueryType
<1>1. CASE NextLevel
  <2>1. CASE MoreLevels
    BY <1>1, <2>1 DEF NextLevel, Ahead
  <2>2. CASE ~MoreLevels
    BY <1>1, <2>2 DEF NextLevel, Ahead
  <2> QED BY <2>1, <2>2
<1>2. CASE NextServer /\ After(line) # {}
  <2>1. PICK i \in After(line) : line' = i /\ level' = level
    BY <1>2 DEF NextServer
  <2> QED BY <2>1 DEF After, Ahead
<1> QED BY <1>1, <1>2 DEF NextServer

\* WalkAdvances: no line of resolv.conf is asked twice about a name, whichever servers
\* fail and in whatever order; the walk is over after one question for each name
\* and line at the latest (dns.go:57-113).
THEOREM CaaWalkAdvances == Spec => WalkAdvances
<1> DEFINE A == late' = late => Ahead
<1>1. TypeOK /\ [Next]_vars => [A]_vars
  <2> SUFFICES ASSUME TypeOK, [Next]_vars, ~UNCHANGED vars, late' = late
               PROVE  Ahead
    OBVIOUS
  <2> USE QueryType
  <2>1. CASE Ask
    <3>1. CASE NextServer
      BY <2>1, <3>1, FailureAdvances DEF Ask
    <3>2. CASE pc' = "read" /\ UNCHANGED <<level, line, late, host, caa>>
      BY <2>1, <3>2 DEF Ask, Ahead
    <3> QED BY <2>1, <3>1, <3>2 DEF Ask
  <2>2. CASE Answer
    <3>1. CASE NextLevel
      BY <2>2, <3>1, FailureAdvances DEF Answer
    <3>2. CASE pc' = "done" /\ UNCHANGED <<level, line>>
      BY <2>2, <3>2 DEF Answer, Ahead
    <3> QED BY <2>2, <3>1, <3>2 DEF Answer
  <2>3. CASE Refuse
    BY <2>3, FailureAdvances DEF Refuse
  <2>4. CASE Spoil
    BY <2>4, FailureAdvances DEF Spoil
  <2>5. CASE TimeOut
    BY <2>5, FailureAdvances DEF TimeOut
  <2>6. CASE Expire
    BY <2>6 DEF Expire
  <2> QED BY <2>1, <2>2, <2>3, <2>4, <2>5, <2>6 DEF Next, Step, Terminated
<1> QED BY <1>1, CaaTypeCorrect, PTL DEF Spec, WalkAdvances, Ahead
=============================================================================
