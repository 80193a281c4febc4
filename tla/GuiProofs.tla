------------------------------ MODULE GuiProofs ------------------------------
(***************************************************************************)
(* The times of the GUI server, for any number of concurrent calls, any    *)
(* width of a Duration and any suites.                                     *)
(***************************************************************************)
EXTENDS GuiServer, TLAPS

----------------------------------------------------------------------------
(* Durations. *)

\* A sum that is too large comes back smaller, never larger.
LEMMA WrapBounds ==
  ASSUME NEW n \in Int, -Half <= n
  PROVE  /\ Wrap(n) \in Int /\ -Half <= Wrap(n) /\ Wrap(n) < Half
         /\ Wrap(n) <= n
         /\ n < Half => Wrap(n) = n
<1> DEFINE a == n + Half
           b == 2 * Half
<1>1. Half \in Nat \ {0}  BY GuiAssumption
<1>2. a \in Nat /\ b \in Nat \ {0}  BY <1>1
<1>3. a % b \in 0..(b - 1) /\ a = b * (a \div b) + (a % b) /\ a \div b \in Int
  <2> HIDE DEF a, b
  <2> QED  BY <1>2
<1>4. a \div b >= 0 /\ b * (a \div b) >= 0
  <2> HIDE DEF a, b
  <2> QED  BY <1>2, <1>3
<1>5. a % b <= a
  <2> DEFINE p == b * (a \div b)
  <2>1. p \in Int  BY <1>2, <1>3
  <2> HIDE DEF p, a, b
  <2> QED  BY <1>2, <1>3, <1>4, <2>1 DEF p
<1>6. a < b => a % b = a
  <2> HIDE DEF a, b
  <2> QED  BY <1>2
<1> QED  BY <1>1, <1>2, <1>3, <1>5, <1>6 DEF Wrap


----------------------------------------------------------------------------
(* The invariant: a check splits its budget into what is left and what is  *)
(* used, and cuts a stage only when nothing is left.                       *)

Given(c) ==
  /\ opt[c] = Timeout(body[c], flag)
  /\ left[c] \in Int /\ used[c] \in Int /\ 0 <= left[c] /\ 0 <= used[c]
  /\ left[c] + used[c] = Budget(opt[c])
  /\ cut[c] # {} /\ c \notin gone => left[c] = 0

Fresh(c) == pc[c] = "received" => used[c] = 0 /\ cut[c] = {}

GuiShape ==
  /\ flag \in Timeouts /\ defaults = flag /\ body \in [Calls -> Bodies]
  /\ pc \in [Calls -> {"received", "check", "answered"}]
  /\ status \in [Calls -> {0, 200, 400, 405}]
  /\ opt = [c \in Calls |-> opt[c]] /\ left = [c \in Calls |-> left[c]]
  /\ used = [c \in Calls |-> used[c]] /\ cut = [c \in Calls |-> cut[c]]
  /\ \A c \in Calls : pc[c] # "answered" => status[c] = 0

GuiInv == GuiShape /\ \A c \in Calls : Fresh(c) /\ (Checking(c) => Given(c))

\* The times of a call fit the types.
LEMMA CallTypes ==
  ASSUME NEW b \in Bodies, NEW f \in Timeouts
  PROVE  /\ b.seconds \in Int /\ f \in Int /\ -Half <= f /\ f < Half
         /\ Timeout(b, f) \in Int /\ -Half <= Timeout(b, f)
         /\ Timeout(b, f) <= IF b.seconds > 0 THEN b.seconds * Second ELSE f
         /\ b.seconds * Second < Half =>
              Timeout(b, f) = IF b.seconds > 0 THEN b.seconds * Second ELSE f
         /\ Budget(Timeout(b, f)) \in Int /\ 0 <= Budget(Timeout(b, f))
<1>1. b.seconds \in Int  BY GuiAssumption DEF Body
<1>2. Half \in Nat \ {0} /\ f \in Int /\ -Half <= f /\ f < Half  BY GuiAssumption
<1>3. ASSUME b.seconds > 0 PROVE b.seconds * Second \in Int /\ -Half <= b.seconds * Second
  BY <1>1, <1>2, <1>3 DEF Second
<1>4. /\ Timeout(b, f) \in Int /\ -Half <= Timeout(b, f)
      /\ Timeout(b, f) <= IF b.seconds > 0 THEN b.seconds * Second ELSE f
      /\ b.seconds * Second < Half => Timeout(b, f) = IF b.seconds > 0 THEN b.seconds * Second ELSE f
  <2>1. CASE b.seconds > 0  BY <2>1, <1>2, <1>3, WrapBounds DEF Timeout
  <2>2. CASE ~(b.seconds > 0)  BY <2>2, <1>2 DEF Timeout
  <2> QED  BY <2>1, <2>2
<1>5. Wrap(Timeout(b, f) + 2 * Second) \in Int
  <2>1. Timeout(b, f) + 2 * Second \in Int /\ -Half <= Timeout(b, f) + 2 * Second
    BY <1>2, <1>4 DEF Second
  <2> QED  BY <2>1, WrapBounds
<1>6. Budget(Timeout(b, f)) \in Int /\ 0 <= Budget(Timeout(b, f))  BY <1>5 DEF Budget, AtLeast
<1> QED  BY <1>1, <1>2, <1>4, <1>6

LEMMA GuiInitInv == Init => GuiInv
BY DEF Init, GuiInv, GuiShape, Fresh, Checking

\* A step of call c leaves every other call's facts alone.
LEMMA OthersStay ==
  ASSUME GuiInv, NEW c \in Calls, NEW d \in Calls, d # c,
         flag' = flag, body' = body,
         pc'[d] = pc[d], status'[d] = status[d], opt'[d] = opt[d], left'[d] = left[d],
         used'[d] = used[d], cut'[d] = cut[d], d \in gone' <=> d \in gone
  PROVE  Fresh(d)' /\ (Checking(d)' => Given(d)')
BY DEF GuiInv, Fresh, Checking, Given

LEMMA ReceiveInv == ASSUME GuiInv, NEW c \in Calls, NotPost(c) \/ Receive(c) PROVE GuiInv'
<1>1. /\ pc[c] = "received" /\ used[c] = 0 /\ cut[c] = {} /\ status[c] = 0
      /\ flag' = flag /\ body' = body /\ used' = used /\ gone' = gone /\ cut' = cut
  BY DEF NotPost, Receive, GuiInv, GuiShape, Fresh
<1> DEFINE b       == body[c]
           timeout == Timeout(b, defaults)
<1>2. CASE \E code \in {400, 405} : Answer(c, code) /\ UNCHANGED <<defaults, opt, left, todo>>
  <2>1. PICK code \in {400, 405} : Answer(c, code) /\ UNCHANGED <<defaults, opt, left, todo>>  BY <1>2
  <2>2. GuiShape'  BY <1>1, <2>1 DEF GuiInv, GuiShape, Answer
  <2>3. Fresh(c)' /\ ~Checking(c)'  BY <1>1, <2>1 DEF GuiInv, GuiShape, Answer, Fresh, Checking
  <2>4. \A d \in Calls : d # c => pc'[d] = pc[d] /\ status'[d] = status[d]
    BY <2>1 DEF GuiInv, GuiShape, Answer
  <2>5. \A d \in Calls : d # c => Fresh(d)' /\ (Checking(d)' => Given(d)')
    BY <1>1, <2>1, <2>4, OthersStay
  <2> QED  BY <2>2, <2>3, <2>5 DEF GuiInv
<1>3. CASE /\ KeepDefaults(timeout)
           /\ opt' = [opt EXCEPT ![c] = timeout]
           /\ left' = [left EXCEPT ![c] = Budget(timeout)]
           /\ pc' = [pc EXCEPT ![c] = "check"]
           /\ UNCHANGED status
  <2>1. defaults' = flag /\ defaults = flag  BY <1>3 DEF KeepDefaults, GuiInv, GuiShape
  <2>2. GuiShape'
    <3> HIDE DEF timeout
    <3>1. pc' \in [Calls -> {"received", "check", "answered"}]  BY <1>3 DEF GuiInv, GuiShape
    <3>2. opt' = [d \in Calls |-> opt'[d]] /\ left' = [d \in Calls |-> left'[d]]
      BY <1>3 DEF GuiInv, GuiShape
    <3>3. \A d \in Calls : pc'[d] # "answered" => status'[d] = 0
      BY <1>1, <1>3 DEF GuiInv, GuiShape
    <3> QED  BY <1>1, <1>3, <2>1, <3>1, <3>2, <3>3 DEF GuiInv, GuiShape
  <2>3. pc'[c] = "check" /\ opt'[c] = timeout /\ left'[c] = Budget(timeout)
    BY <1>3 DEF GuiInv, GuiShape
  <2>4. b \in Bodies /\ flag \in Timeouts  BY DEF GuiInv, GuiShape
  <2>5. Budget(timeout) \in Int /\ 0 <= Budget(timeout)  BY <2>1, <2>4, CallTypes
  <2>6. Given(c)'  BY <1>1, <2>1, <2>3, <2>5 DEF Given
  <2>7. Fresh(c)'  BY <2>3 DEF Fresh
  <2>8. \A d \in Calls : d # c => /\ pc'[d] = pc[d] /\ status'[d] = status[d]
                                  /\ opt'[d] = opt[d] /\ left'[d] = left[d]
    BY <1>3 DEF GuiInv, GuiShape
  <2>9. \A d \in Calls : d # c => Fresh(d)' /\ (Checking(d)' => Given(d)')
    BY <1>1, <2>8, OthersStay
  <2> QED  BY <2>2, <2>6, <2>7, <2>9 DEF GuiInv
<1> QED  BY <1>2, <1>3 DEF NotPost, Receive

\* The end of a call changes no time.
LEMMA AnswerInv ==
  ASSUME GuiInv, NEW c \in Calls, pc[c] = "check", NEW code \in {200, 400}, Answer(c, code),
         UNCHANGED <<defaults, flag, body, opt, left, todo, used, gone, cut>>
  PROVE  GuiInv'
<1>1. Given(c)  BY DEF GuiInv, Checking
<1>2. GuiShape'  BY DEF GuiInv, GuiShape, Answer
<1>3. pc'[c] = "answered" /\ \A d \in Calls : d # c => pc'[d] = pc[d] /\ status'[d] = status[d]
  BY DEF GuiInv, GuiShape, Answer
<1>4. Given(c)' /\ Fresh(c)'  BY <1>1, <1>3 DEF Given, Fresh
<1>5. \A d \in Calls : d # c => Fresh(d)' /\ (Checking(d)' => Given(d)')  BY <1>3, OthersStay
<1> QED  BY <1>2, <1>4, <1>5 DEF GuiInv

LEMMA RunStageInv == ASSUME GuiInv, NEW c \in Calls, RunStage(c) PROVE GuiInv'
<1> DEFINE stage == Head(todo[c])
<1>1. /\ pc[c] = "check" /\ defaults' = defaults /\ flag' = flag /\ body' = body /\ pc' = pc
      /\ opt' = opt /\ gone' = gone /\ status' = status
  BY DEF RunStage
<1>2. PICK d \in 0..Limit(stage, opt[c]) :
        LET ends == c \notin gone /\ d < left[c]
        IN  /\ left' = [left EXCEPT ![c] = AtLeast(0, @ - Spent(c, d))]
            /\ used' = [used EXCEPT ![c] = @ + Spent(c, d)]
            /\ cut' = [cut EXCEPT ![c] = IF ends THEN @ ELSE @ \cup {stage}]
  BY DEF RunStage
<1>3. Given(c)  BY <1>1 DEF GuiInv, Checking
<1>4. d \in Int /\ 0 <= d  OBVIOUS
<1>5. /\ Spent(c, d) \in Int /\ 0 <= Spent(c, d) /\ Spent(c, d) <= left[c]
      /\ c \notin gone /\ ~(d < left[c]) => Spent(c, d) = left[c]
  <2> DEFINE l == left[c]
  <2>1. l \in Int /\ 0 <= l  BY <1>3 DEF Given
  <2>2. Spent(c, d) = IF c \in gone /\ Head(todo[c]) # "dns" THEN 0 ELSE IF d < l THEN d ELSE l
    BY DEF Spent, AtMost
  <2> HIDE DEF l
  <2>3. Spent(c, d) \in Int /\ 0 <= Spent(c, d) /\ Spent(c, d) <= l  BY <1>4, <2>1, <2>2
  <2>4. c \notin gone /\ ~(d < l) => Spent(c, d) = l  BY <2>2
  <2> QED  BY <2>3, <2>4 DEF l
<1>6. GuiShape'  BY <1>1, <1>2 DEF GuiInv, GuiShape
<1>7. /\ left'[c] = left[c] - Spent(c, d) /\ used'[c] = used[c] + Spent(c, d)
      /\ cut'[c] # {} /\ c \notin gone => cut[c] # {} \/ ~(d < left[c])
  <2>1. left'[c] = AtLeast(0, left[c] - Spent(c, d)) /\ used'[c] = used[c] + Spent(c, d)
    BY <1>2 DEF GuiInv, GuiShape
  <2>2. AtLeast(0, left[c] - Spent(c, d)) = left[c] - Spent(c, d)
    BY <1>3, <1>5 DEF AtLeast, Given
  <2>3. cut'[c] # {} /\ c \notin gone => cut[c] # {} \/ ~(d < left[c])
    BY <1>2 DEF GuiInv, GuiShape
  <2> QED  BY <2>1, <2>2, <2>3
<1>8. Given(c)'
  <2>1. left'[c] \in Int /\ used'[c] \in Int /\ 0 <= left'[c] /\ 0 <= used'[c]
        /\ left'[c] + used'[c] = left[c] + used[c]
    BY <1>3, <1>5, <1>7 DEF Given
  <2>2. cut'[c] # {} /\ c \notin gone => left'[c] = 0
    <3>1. SUFFICES ASSUME cut'[c] # {}, c \notin gone PROVE left'[c] = 0  OBVIOUS
    <3>2. CASE cut[c] # {}
      <4>1. left[c] = 0  BY <3>1, <3>2, <1>3 DEF Given
      <4> QED  BY <4>1, <1>5, <1>7
    <3>3. CASE ~(d < left[c])
      <4>1. Spent(c, d) = left[c] /\ left[c] \in Int  BY <3>1, <3>3, <1>5, <1>3 DEF Given
      <4> QED  BY <4>1, <1>7
    <3> QED  BY <3>1, <3>2, <3>3, <1>7
  <2>3. left[c] + used[c] = Budget(opt[c]) /\ opt[c] = Timeout(body[c], flag)  BY <1>3 DEF Given
  <2> QED  BY <2>1, <2>2, <2>3, <1>1 DEF Given
<1>9. Fresh(c)'  BY <1>1 DEF Fresh
<1>10. \A e \in Calls : e # c => left'[e] = left[e] /\ used'[e] = used[e] /\ cut'[e] = cut[e]
  BY <1>2 DEF GuiInv, GuiShape
<1>11. \A e \in Calls : e # c => Fresh(e)' /\ (Checking(e)' => Given(e)')
  BY <1>1, <1>10, OthersStay
<1> QED  BY <1>6, <1>8, <1>9, <1>11 DEF GuiInv

\* A client that goes away only excuses more, and one that sends its body changes
\* nothing of a check.
LEMMA ClientInv == ASSUME GuiInv, NEW c \in Calls, SendBody(c) \/ Disconnect(c) PROVE GuiInv'
<1>1. /\ defaults' = defaults /\ flag' = flag /\ body' = body /\ pc' = pc /\ opt' = opt
      /\ left' = left /\ used' = used /\ cut' = cut /\ status' = status
      /\ \A d \in Calls : d \in gone => d \in gone'
  BY DEF SendBody, Disconnect
<1>2. GuiShape'  BY <1>1 DEF GuiInv, GuiShape
<1>3. \A d \in Calls : Fresh(d)' /\ (Checking(d)' => Given(d)')
  BY <1>1 DEF GuiInv, Fresh, Checking, Given
<1> QED  BY <1>2, <1>3 DEF GuiInv

LEMMA GuiNextInv == GuiInv /\ [Next]_vars => GuiInv'
<1> SUFFICES ASSUME GuiInv, [Next]_vars PROVE GuiInv'  OBVIOUS
<1>1. ASSUME NEW c \in Calls, NotPost(c) \/ Receive(c) PROVE GuiInv'  BY <1>1, ReceiveInv
<1>2. ASSUME NEW c \in Calls, Reject(c) PROVE GuiInv'  BY <1>2, AnswerInv DEF Reject
<1>3. ASSUME NEW c \in Calls, RunStage(c) PROVE GuiInv'  BY <1>3, RunStageInv
<1>4. ASSUME NEW c \in Calls, Finish(c) PROVE GuiInv'  BY <1>4, AnswerInv DEF Finish
<1>5. ASSUME NEW c \in Calls, SendBody(c) \/ Disconnect(c) PROVE GuiInv'  BY <1>5, ClientInv
<1>6. CASE UNCHANGED vars
  BY <1>6 DEF vars, GuiInv, GuiShape, Fresh, Checking, Given
<1> QED  BY <1>1, <1>2, <1>3, <1>4, <1>5, <1>6 DEF Next, Handle, Terminated

----------------------------------------------------------------------------
(* The stages: planned once each, and never to be run again. *)

\* A sequence of stages without repetition.
Plan(s) ==
  /\ s \in Seq(Stages)
  /\ \A i, j \in 1..Len(s) : s[i] = s[j] => i = j

\* A plan of some of the stages S.
PlanOf(s, S) == Plan(s) /\ \A i \in 1..Len(s) : s[i] \in S

\* One stage more, or none, of those that are not in the plan.
LEMMA StageAdded ==
  ASSUME NEW s, NEW S, PlanOf(s, S), NEW b, NEW x \in Stages \ S
  PROVE  PlanOf(s \o Stage(b, x), S \cup {x})
<1>1. s \in Seq(Stages) /\ Plan(s) /\ \A i \in 1..Len(s) : s[i] \in S  BY DEF PlanOf, Plan
<1>2. CASE x \in b.skip
  <2>1. s \o Stage(b, x) = s  BY <1>1, <1>2 DEF Stage
  <2> QED  BY <2>1, <1>1 DEF PlanOf
<1>3. CASE x \notin b.skip
  <2> DEFINE t == s \o <<x>>
  <2>1. s \o Stage(b, x) = t  BY <1>3 DEF Stage
  <2>2. /\ t \in Seq(Stages) /\ Len(t) = Len(s) + 1 /\ Len(s) \in Nat
        /\ \A i \in 1..Len(s) : t[i] = s[i]
        /\ t[Len(s) + 1] = x
    BY <1>1
  <2> HIDE DEF t
  <2>3. \A i \in 1..Len(t) : i \in 1..Len(s) \/ i = Len(s) + 1  BY <2>2
  <2>4. \A i \in 1..Len(t) : t[i] \in S \cup {x}  BY <1>1, <2>2, <2>3
  <2>5. \A i, j \in 1..Len(t) : t[i] = t[j] => i = j  BY <1>1, <2>2, <2>3 DEF Plan
  <2> QED  BY <2>1, <2>2, <2>4, <2>5 DEF Plan, PlanOf
<1> QED  BY <1>2, <1>3

LEMMA PlannedOnce == ASSUME NEW b PROVE Plan(Planned(b))
<1> DEFINE s1 == <<>> \o Stage(b, "dns")
           s2 == s1 \o Stage(b, "tls")
           s3 == s2 \o Stage(b, "versions")
           s4 == s3 \o Stage(b, "ciphers")
           s5 == s4 \o Stage(b, "http")
<1>1. PlanOf(<<>>, {})  BY DEF PlanOf, Plan
<1>2. PlanOf(s1, {"dns"})
  <2>1. "dns" \in Stages \ {} /\ {} \cup {"dns"} = {"dns"}  BY DEF Stages
  <2>2. PlanOf(s1, {} \cup {"dns"})  BY <1>1, <2>1, StageAdded
  <2> QED  BY <2>1, <2>2
<1>3. PlanOf(s2, {"dns", "tls"})
  <2>1. "tls" \in Stages \ {"dns"} /\ {"dns"} \cup {"tls"} = {"dns", "tls"}  BY DEF Stages
  <2> HIDE DEF s1
  <2>2. PlanOf(s2, {"dns"} \cup {"tls"})  BY <1>2, <2>1, StageAdded
  <2> QED  BY <2>1, <2>2
<1>4. PlanOf(s3, {"dns", "tls", "versions"})
  <2>1. /\ "versions" \in Stages \ {"dns", "tls"}
        /\ {"dns", "tls"} \cup {"versions"} = {"dns", "tls", "versions"}
    BY DEF Stages
  <2> HIDE DEF s2
  <2>2. PlanOf(s3, {"dns", "tls"} \cup {"versions"})  BY <1>3, <2>1, StageAdded
  <2> QED  BY <2>1, <2>2
<1>5. PlanOf(s4, {"dns", "tls", "versions", "ciphers"})
  <2>1. /\ "ciphers" \in Stages \ {"dns", "tls", "versions"}
        /\ {"dns", "tls", "versions"} \cup {"ciphers"} = {"dns", "tls", "versions", "ciphers"}
    BY DEF Stages
  <2> HIDE DEF s3
  <2>2. PlanOf(s4, {"dns", "tls", "versions"} \cup {"ciphers"})  BY <1>4, <2>1, StageAdded
  <2> QED  BY <2>1, <2>2
<1>6. Plan(s5)
  <2>1. "http" \in Stages \ {"dns", "tls", "versions", "ciphers"}  BY DEF Stages
  <2> HIDE DEF s4
  <2>2. PlanOf(s5, {"dns", "tls", "versions", "ciphers"} \cup {"http"})  BY <1>5, <2>1, StageAdded
  <2> QED  BY <2>2 DEF PlanOf
<1>7. <<>> \o Stage(b, "dns") = Stage(b, "dns")  BY DEF Stage
<1> QED  BY <1>6, <1>7 DEF Planned

\* Each stage still to run is planned once and was not cut.
Ahead(c) == Plan(todo[c]) /\ \A i \in 1..Len(todo[c]) : todo[c][i] \notin cut[c]

Typed ==
  /\ GuiInv
  /\ opt \in [Calls -> Int] /\ left \in [Calls -> Nat] /\ used \in [Calls -> Nat]
  /\ arrived \subseteq Calls /\ gone \subseteq Calls /\ cut \in [Calls -> SUBSET Stages]
  /\ todo = [c \in Calls |-> todo[c]] /\ \A c \in Calls : Ahead(c)

LEMMA TypedInit == Init => Typed
<1> SUFFICES ASSUME Init PROVE Typed  OBVIOUS
<1>1. GuiInv  BY GuiInitInv
<1>2. ASSUME NEW c \in Calls PROVE Ahead(c)
  <2>1. todo[c] = <<>>  BY DEF Init
  <2> QED  BY <2>1 DEF Ahead, Plan
<1> QED  BY <1>1, <1>2 DEF Init, Typed

\* A call changes its own plan and times only.
LEMMA TypedReceive == ASSUME Typed, NEW c \in Calls, NotPost(c) \/ Receive(c) PROVE Typed'
<1> DEFINE timeout == Timeout(body[c], defaults)
<1>1. GuiInv /\ GuiInv'  BY ReceiveInv DEF Typed
<1>2. /\ arrived' = arrived /\ gone' = gone /\ cut' = cut /\ used' = used /\ cut[c] = {}
  BY <1>1 DEF NotPost, Receive, GuiInv, Fresh
<1>3. CASE UNCHANGED <<opt, left, todo>>  BY <1>1, <1>2, <1>3 DEF Typed, Ahead
<1>4. CASE /\ opt' = [opt EXCEPT ![c] = timeout] /\ left' = [left EXCEPT ![c] = Budget(timeout)]
           /\ todo' = [todo EXCEPT ![c] = Planned(body[c])]
  <2>1. timeout \in Int /\ Budget(timeout) \in Nat
    <3>1. body[c] \in Bodies /\ flag \in Timeouts /\ defaults = flag  BY <1>1 DEF GuiInv, GuiShape
    <3> QED  BY <3>1, CallTypes
  <2>2. opt' \in [Calls -> Int] /\ left' \in [Calls -> Nat]  BY <2>1, <1>4 DEF Typed
  <2>3. todo' = [d \in Calls |-> todo'[d]] /\ todo'[c] = Planned(body[c])
        /\ \A d \in Calls : d # c => todo'[d] = todo[d]
    BY <1>4 DEF Typed
  <2>4. Ahead(c)'  BY <1>2, <2>3, PlannedOnce DEF Ahead
  <2>5. \A d \in Calls : d # c => Ahead(d)'  BY <1>2, <2>3 DEF Typed, Ahead
  <2> QED  BY <1>1, <1>2, <2>2, <2>3, <2>4, <2>5 DEF Typed
<1> QED  BY <1>3, <1>4 DEF NotPost, Receive

\* The stage that was run leaves the plan, and only it can be cut.
LEMMA TypedRunStage == ASSUME Typed, NEW c \in Calls, RunStage(c) PROVE Typed'
<1> DEFINE stage == Head(todo[c])
<1>1. GuiInv /\ GuiInv'  BY RunStageInv DEF Typed
<1>2. arrived' = arrived /\ gone' = gone /\ opt' = opt /\ todo[c] # <<>>  BY DEF RunStage
<1>3. PICK d \in 0..Limit(stage, opt[c]) :
        LET ends == c \notin gone /\ d < left[c]
        IN  /\ left' = [left EXCEPT ![c] = AtLeast(0, @ - Spent(c, d))]
            /\ used' = [used EXCEPT ![c] = @ + Spent(c, d)]
            /\ cut' = [cut EXCEPT ![c] = IF ends THEN @ ELSE @ \cup {stage}]
            /\ todo' = [todo EXCEPT ![c] = AfterStage(c, ends)]
  BY DEF RunStage
<1>4. d \in Nat  OBVIOUS
<1>5. Spent(c, d) \in Nat
  <2>1. left[c] \in Nat  BY DEF Typed
  <2> QED  BY <1>4, <2>1 DEF Spent, AtMost
<1>6. left' \in [Calls -> Nat] /\ used' \in [Calls -> Nat]
  <2>1. left[c] \in Nat /\ used[c] \in Nat  BY DEF Typed
  <2>2. AtLeast(0, left[c] - Spent(c, d)) \in Nat /\ used[c] + Spent(c, d) \in Nat
    BY <1>5, <2>1 DEF AtLeast
  <2> QED  BY <1>3, <2>2 DEF Typed
<1> DEFINE s == todo[c]
<1>7. Plan(s) /\ s # <<>> /\ \A i \in 1..Len(s) : s[i] \notin cut[c]
  BY <1>2 DEF Typed, Ahead
<1>8. /\ Tail(s) \in Seq(Stages) /\ Len(Tail(s)) = Len(s) - 1 /\ Len(s) \in Nat \ {0}
      /\ \A i \in 1..Len(Tail(s)) : Tail(s)[i] = s[i + 1] /\ i + 1 \in 1..Len(s)
      /\ Head(s) = s[1] /\ 1 \in 1..Len(s) /\ Head(s) \in Stages
  BY <1>7 DEF Plan
<1>9. Plan(Tail(s)) /\ \A i \in 1..Len(Tail(s)) : Tail(s)[i] # stage /\ Tail(s)[i] \notin cut[c]
  <2> HIDE DEF s
  <2>1. \A i, j \in 1..Len(Tail(s)) : Tail(s)[i] = Tail(s)[j] => i = j
    <3>1. \A i, j \in 1..Len(Tail(s)) : i + 1 = j + 1 => i = j  OBVIOUS
    <3> QED  BY <1>7, <1>8, <3>1 DEF Plan
  <2>2. \A i \in 1..Len(Tail(s)) : Tail(s)[i] # Head(s)
    <3>1. \A i \in 1..Len(Tail(s)) : i + 1 # 1  OBVIOUS
    <3> QED  BY <1>7, <1>8, <3>1 DEF Plan
  <2> QED  BY <1>7, <1>8, <2>1, <2>2 DEF Plan, s
<1>10. cut'[c] \subseteq cut[c] \cup {stage} /\ cut' \in [Calls -> SUBSET Stages]
  BY <1>3, <1>8 DEF Typed
<1>11. todo' = [e \in Calls |-> todo'[e]] /\ todo'[c] = Tail(s)
       /\ \A e \in Calls : e # c => todo'[e] = todo[e] /\ cut'[e] = cut[e]
  BY <1>3 DEF Typed, AfterStage
<1>12. Ahead(c)'
  <2> HIDE DEF s
  <2> QED  BY <1>9, <1>10, <1>11 DEF Ahead
<1>13. \A e \in Calls : e # c => Ahead(e)'  BY <1>11 DEF Typed, Ahead
<1> QED  BY <1>1, <1>2, <1>6, <1>10, <1>11, <1>12, <1>13 DEF Typed

LEMMA TypedStep == Typed /\ [Next]_vars => Typed'
<1> SUFFICES ASSUME Typed, [Next]_vars PROVE Typed'  OBVIOUS
<1>1. GuiInv'  BY GuiNextInv DEF Typed
<1>2. ASSUME NEW c \in Calls, NotPost(c) \/ Receive(c) PROVE Typed'  BY <1>2, TypedReceive
<1>3. ASSUME NEW c \in Calls, RunStage(c) PROVE Typed'  BY <1>3, TypedRunStage
<1>4. ASSUME UNCHANGED <<opt, left, used, cut, todo>>, (arrived \cup gone)' \subseteq Calls
      PROVE  Typed'
  BY <1>1, <1>4 DEF Typed, Ahead
<1>5. ASSUME NEW c \in Calls, Reject(c) \/ Finish(c) PROVE Typed'
  BY <1>4, <1>5 DEF Reject, Finish, Typed
<1>6. ASSUME NEW c \in Calls, SendBody(c) \/ Disconnect(c) PROVE Typed'
  BY <1>4, <1>6 DEF SendBody, Disconnect, Typed
<1>7. CASE UNCHANGED vars  BY <1>4, <1>7 DEF vars, Typed
<1> QED  BY <1>2, <1>3, <1>5, <1>6, <1>7 DEF Next, Handle, Terminated

----------------------------------------------------------------------------
(* The theorems. *)

\* Every variable of the server stays in its range, and a stage the context cut
\* is not run again, in any number of concurrent calls (server.go:77-103).
THEOREM GuiTypeCorrect == Spec => []TypeOK
<1>1. Typed => TypeOK
  <2> SUFFICES ASSUME Typed PROVE TypeOK  OBVIOUS
  <2>1. GuiShape  BY DEF Typed, GuiInv
  <2>2. flag \in Int  BY <2>1, GuiAssumption DEF GuiShape
  <2>3. ASSUME NEW c \in Calls, NEW i \in DOMAIN todo[c] PROVE todo[c][i] \in Stages \ cut[c]
    <3>1. Plan(todo[c]) /\ \A k \in 1..Len(todo[c]) : todo[c][k] \notin cut[c]  BY DEF Typed, Ahead
    <3>2. todo[c] \in Seq(Stages) /\ DOMAIN todo[c] = 1..Len(todo[c])  BY <3>1 DEF Plan
    <3> QED  BY <3>1, <3>2
  <2> QED  BY <2>1, <2>2, <2>3 DEF TypeOK, Typed, GuiShape
<1> QED  BY <1>1, TypedInit, TypedStep, PTL DEF Spec

LEMMA TimesFromInv == GuiInv => OwnTimeout /\ AnsweredInTime /\ CutExplained
<1> SUFFICES ASSUME GuiInv, NEW c \in Calls, Checking(c)
             PROVE  /\ Fits(c) => opt[c] = Asked(c)
                    /\ used[c] <= AtLeast(0, Asked(c) + 2 * Second)
                    /\ Fits(c) /\ cut[c] # {} => c \in gone \/ used[c] >= Asked(c) + 2 * Second
  BY DEF OwnTimeout, AnsweredInTime, CutExplained
<1>1. Given(c) /\ body[c] \in Bodies /\ flag \in Timeouts  BY DEF GuiInv, GuiShape
<1>2. /\ Asked(c) \in Int /\ Asked(c) = IF body[c].seconds > 0 THEN body[c].seconds * Second ELSE flag
      /\ opt[c] \in Int /\ opt[c] <= Asked(c) /\ -Half <= opt[c] /\ Half \in Nat
  BY <1>1, CallTypes, GuiAssumption DEF Asked, Given, Second
<1>3. Fits(c) => opt[c] = Asked(c)
  <2>1. SUFFICES ASSUME Fits(c) PROVE opt[c] = Asked(c)  OBVIOUS
  <2>2. Asked(c) < Half  BY <2>1, <1>2 DEF Fits, Second
  <2>3. CASE body[c].seconds > 0
    <3>1. body[c].seconds * Second < Half  BY <2>2, <2>3, <1>2
    <3> QED  BY <3>1, <2>3, <1>1, <1>2, CallTypes DEF Given
  <2>4. CASE ~(body[c].seconds > 0)  BY <2>4, <1>1, <1>2 DEF Given, Timeout
  <2> QED  BY <2>3, <2>4
<1>4. opt[c] + 2 * Second \in Int /\ -Half <= opt[c] + 2 * Second  BY <1>2 DEF Second
<1>5. /\ Wrap(opt[c] + 2 * Second) \in Int /\ Wrap(opt[c] + 2 * Second) <= opt[c] + 2 * Second
      /\ opt[c] + 2 * Second < Half => Wrap(opt[c] + 2 * Second) = opt[c] + 2 * Second
  BY <1>4, WrapBounds
<1>6. left[c] \in Int /\ used[c] \in Int /\ 0 <= left[c] /\ left[c] + used[c] = Budget(opt[c])
  BY <1>1 DEF Given
<1>7. used[c] <= Budget(opt[c])
  <2>1. Budget(opt[c]) \in Int  BY <1>5 DEF Budget, AtLeast
  <2> QED  BY <2>1, <1>6
<1>8. used[c] <= AtLeast(0, Asked(c) + 2 * Second)
  <2> DEFINE w == Wrap(opt[c] + 2 * Second)
             a == Asked(c) + 2 * Second
  <2>1. w \in Int /\ a \in Int /\ w <= a  BY <1>2, <1>5 DEF Second
  <2>2. Budget(opt[c]) = AtLeast(0, w)  BY DEF Budget
  <2> HIDE DEF w, a
  <2>3. AtLeast(0, w) <= AtLeast(0, a) /\ AtLeast(0, w) \in Int /\ AtLeast(0, a) \in Int
    BY <2>1 DEF AtLeast
  <2> QED  BY <2>2, <2>3, <1>6, <1>7 DEF a
<1>9. Fits(c) /\ cut[c] # {} => c \in gone \/ used[c] >= Asked(c) + 2 * Second
  <2>1. SUFFICES ASSUME Fits(c), cut[c] # {}, c \notin gone PROVE used[c] >= Asked(c) + 2 * Second
    OBVIOUS
  <2>2. left[c] = 0  BY <2>1, <1>1 DEF Given
  <2>3. Wrap(opt[c] + 2 * Second) = Asked(c) + 2 * Second
    BY <2>1, <1>3, <1>5 DEF Fits
  <2>4. used[c] = AtLeast(0, Asked(c) + 2 * Second)  BY <2>2, <2>3, <1>6 DEF Budget
  <2> QED  BY <2>4, <1>2 DEF AtLeast, Second
<1> QED  BY <1>3, <1>8, <1>9

\* Whatever other calls ask for at the same time, a call runs under its own timeout
\* (server.go:77-94).
THEOREM GuiOwnTimeout == Spec => []OwnTimeout
BY GuiInitInv, GuiNextInv, TimesFromInv, PTL DEF Spec

\* No check outlives its timeout by more than two seconds (server.go:96).
THEOREM GuiAnsweredInTime == Spec => []AnsweredInTime
BY GuiInitInv, GuiNextInv, TimesFromInv, PTL DEF Spec

\* No stage is cut short before that while its client waits (server.go:96).
THEOREM GuiCutExplained == Spec => []CutExplained
BY GuiInitInv, GuiNextInv, TimesFromInv, PTL DEF Spec

----------------------------------------------------------------------------
(* The end of a call. *)

\* A call comes nearer to its answer: it is received, or it has a stage less to
\* run, or it is answered.
Onward(c) ==
  \/ pc[c] = "received" /\ pc'[c] \in {"check", "answered"}
  \/ pc[c] = "check" /\ pc'[c] = "check" /\ Len(todo'[c]) < Len(todo[c])
  \/ pc[c] = "check" /\ pc'[c] = "answered"

\* A call stays where it is, with the time it has.
Untouched(c) ==
  /\ pc'[c] = pc[c] /\ status'[c] = status[c] /\ todo'[c] = todo[c]
  /\ opt'[c] = opt[c] /\ left'[c] = left[c] /\ used'[c] = used[c] /\ cut'[c] = cut[c]

LEMMA HandleOnward ==
  ASSUME Typed, NEW c \in Calls, Handle(c)
  PROVE  Onward(c) /\ \A d \in Calls \ {c} : Untouched(d)
<1>1. GuiShape /\ Ahead(c)  BY DEF Typed, GuiInv
<1> USE <1>1 DEF GuiShape
<1>2. CASE NotPost(c) \/ Receive(c)
  <2>1. \A d \in Calls \ {c} : Untouched(d)
    BY <1>2 DEF NotPost, Receive, Answer, Untouched, Typed
  <2> QED  BY <1>2, <2>1 DEF NotPost, Receive, Answer, Onward
<1>3. CASE Reject(c)  BY <1>3 DEF Reject, Answer, Onward, Untouched
<1>4. CASE RunStage(c)
  <2>1. PICK d \in 0..Limit(Head(todo[c]), opt[c]) :
          LET ends == c \notin gone /\ d < left[c]
          IN  /\ left' = [left EXCEPT ![c] = AtLeast(0, @ - Spent(c, d))]
              /\ used' = [used EXCEPT ![c] = @ + Spent(c, d)]
              /\ cut' = [cut EXCEPT ![c] = IF ends THEN @ ELSE @ \cup {Head(todo[c])}]
              /\ todo' = [todo EXCEPT ![c] = AfterStage(c, ends)]
    BY <1>4 DEF RunStage
  <2>2. /\ pc[c] = "check" /\ todo[c] # <<>>
        /\ pc' = pc /\ opt' = opt /\ status' = status
    BY <1>4 DEF RunStage
  <2>3. todo'[c] = Tail(todo[c])  BY <2>1 DEF AfterStage, Typed
  <2>4. todo[c] \in Seq(Stages)  BY DEF Ahead, Plan
  <2>5. Len(Tail(todo[c])) < Len(todo[c])  BY <2>2, <2>4
  <2>6. \A d2 \in Calls \ {c} : Untouched(d2)  BY <2>1, <2>2 DEF Untouched, Typed
  <2> QED  BY <2>2, <2>3, <2>5, <2>6 DEF Onward
<1>5. CASE Finish(c)  BY <1>5 DEF Finish, Answer, Onward, Untouched
<1> QED  BY <1>2, <1>3, <1>4, <1>5 DEF Handle

\* Every step of the server itself brings one call nearer to its answer and holds no
\* other up, in any number of concurrent calls: no stage is run again, and an answer
\* is given once.  What it may wait for is the client's body (server.go:62-104).
THEOREM GuiCallsAdvance ==
  Spec => [][UNCHANGED <<arrived, gone>> =>
              \E c \in Calls : Onward(c) /\ \A d \in Calls \ {c} : Untouched(d)]_vars
<1> DEFINE A == UNCHANGED <<arrived, gone>> =>
                  \E c \in Calls : Onward(c) /\ \A d \in Calls \ {c} : Untouched(d)
<1>1. Typed /\ [Next]_vars => [A]_vars
  <2> SUFFICES ASSUME Typed, Next, UNCHANGED <<arrived, gone>>, ~UNCHANGED vars PROVE A  OBVIOUS
  <2>1. PICK c \in Calls : Handle(c) \/ SendBody(c) \/ Disconnect(c)  BY DEF Next, Terminated
  <2>2. ~SendBody(c) /\ ~Disconnect(c)  BY DEF SendBody, Disconnect, AwaitsBody
  <2> QED  BY <2>1, <2>2, HandleOnward
<1> QED  BY <1>1, TypedInit, TypedStep, PTL DEF Spec
=============================================================================
