----------------------------- MODULE GuiServer -----------------------------
(***************************************************************************)
(* The API of the local web GUI (internal/gui/server.go): concurrent calls *)
(* of checkAPI, each a goroutine of its own, that share Server.Defaults.   *)
(*                                                                         *)
(* A call waits for its body, lays its fields over the defaults, derives   *)
(* one context for the whole check, runs the stages of checker.Check one   *)
(* after the other and hands one answer to net/http.  Times count half     *)
(* seconds.  What a stage finds is not modelled here (see Check): only how *)
(* long it takes, and whether the context ended it.                        *)
(***************************************************************************)
EXTENDS Integers, Sequences, FiniteSets

CONSTANTS
  Calls,     \* calls of /api/check
  Bodies,    \* what a call can send
  Timeouts,  \* values of the --timeout flag
  Suites,    \* cipher suites the inventory offers, over all versions
  Half       \* a Duration goes from -Half to Half - 1 (2^63 ns in the code)

Second == 2

Stages == {"dns", "tls", "versions", "ciphers", "http"}

\* The parts of a request checkAPI tells apart; skip holds the stages left out.
Body == [method : {"POST", "GET"}, json : BOOLEAN, blank : BOOLEAN, accepted : BOOLEAN,
         seconds : Int, skip : SUBSET (Stages \ {"tls"})]

ASSUME GuiAssumption ==
  /\ Bodies \subseteq Body /\ Half \in Nat \ {0}
  /\ Timeouts \subseteq -Half..(Half - 1) /\ Suites \in Nat

VARIABLES
  defaults,  \* Server.Defaults, shared: the timeout
  flag,      \* the timeout gui.New was given
  body,      \* what each call sent
  arrived,   \* the calls whose client has sent as much of the body as Decode reads
  pc,        \* "received", "check", "answered"
  opt,       \* the timeout in force for each call
  left,      \* the time until the deadline of its context
  todo,      \* the stages Check still has to run
  used,      \* the time Check has taken
  gone,      \* the calls whose client went away
  cut,       \* the stages the context ended
  status     \* the answer, 0 while there is none

vars == <<defaults, flag, body, arrived, pc, opt, left, todo, used, gone, cut, status>>

----------------------------------------------------------------------------
(* Durations. *)

\* A Duration wraps around: time.Duration(n) * time.Second and the sum are cut to 64 bits.
Wrap(n) == ((n + Half) % (2 * Half)) - Half

AtMost(a, b) == IF a < b THEN a ELSE b
AtLeast(a, b) == IF a > b THEN a ELSE b

\* The duration a call asks for, or the server's own.
Timeout(b, default) == IF b.seconds > 0 THEN Wrap(b.seconds * Second) ELSE default

\* A plausible bug: the context gets no more than the timeout.
BudgetBug(timeout) == AtLeast(0, timeout)

\* The whole check gets two seconds more than the timeout; a context whose
\* deadline has passed is over at once.
Budget(timeout) == AtLeast(0, Wrap(timeout + 2 * Second))

NormalizeTimeout(t) == IF t <= 0 THEN 10 * Second ELSE t

\* The longest a stage takes without the context.  A TLS connection has the
\* timeout for the dial and again for the handshake; HTTP has it for HEAD and
\* again for GET.
Limit(stage, timeout) ==
  LET t == NormalizeTimeout(timeout)
  IN  CASE stage = "dns"      -> AtMost(t, 5 * Second)
        [] stage = "tls"      -> 2 * t
        [] stage = "versions" -> 4 * 2 * AtMost(t, 4 * Second)
        [] stage = "ciphers"  -> Suites * 2 * AtMost(t, 3)
        [] stage = "http"     -> 2 * t

\* A stage, unless the call leaves it out.
Stage(b, s) == IF s \in b.skip THEN <<>> ELSE <<s>>

\* The stages of a check, in the order of Check.
Planned(b) ==
  Stage(b, "dns") \o Stage(b, "tls") \o Stage(b, "versions") \o Stage(b, "ciphers") \o Stage(b, "http")

----------------------------------------------------------------------------

Init ==
  /\ flag \in Timeouts /\ defaults = flag
  /\ body \in [Calls -> Bodies] /\ arrived = {}
  /\ pc = [c \in Calls |-> "received"]
  /\ opt = [c \in Calls |-> 0] /\ left = [c \in Calls |-> 0]
  /\ todo = [c \in Calls |-> <<>>] /\ used = [c \in Calls |-> 0]
  /\ gone = {} /\ cut = [c \in Calls |-> {}]
  /\ status = [c \in Calls |-> 0]

Answer(c, code) ==
  /\ pc' = [pc EXCEPT ![c] = "answered"]
  /\ status' = [status EXCEPT ![c] = code]

\* A plausible bug: the options are laid over the server's own.
KeepDefaultsBug(timeout) == defaults' = timeout

\* opt := s.Defaults is a copy.
KeepDefaults(timeout) == defaults' = defaults

\* The server has no ReadTimeout: Decode waits until the body is there, or the
\* client goes away.
AwaitsBody(c) == body[c].method = "POST" /\ c \notin arrived \cup gone

\* checkAPI turns down every other method without a look at the body.
NotPost(c) ==
  /\ pc[c] = "received" /\ body[c].method # "POST"
  /\ Answer(c, 405)
  /\ UNCHANGED <<defaults, flag, body, arrived, opt, left, todo, used, gone, cut>>

\* The body is decoded: half of one is an error.
Readable(c) == c \in arrived /\ body[c].json /\ ~body[c].blank

\* checkAPI from the decoded body up to the call of Check.
Receive(c) ==
  LET timeout == Timeout(body[c], defaults)
  IN  /\ pc[c] = "received" /\ body[c].method = "POST" /\ ~AwaitsBody(c)
      /\ \/ ~Readable(c) /\ Answer(c, 400) /\ UNCHANGED <<defaults, opt, left, todo>>
         \/ /\ Readable(c)
            /\ KeepDefaults(timeout)
            /\ opt' = [opt EXCEPT ![c] = timeout]
            /\ left' = [left EXCEPT ![c] = Budget(timeout)]
            /\ todo' = [todo EXCEPT ![c] = Planned(body[c])]
            /\ pc' = [pc EXCEPT ![c] = "check"]
            /\ UNCHANGED status
      /\ UNCHANGED <<flag, body, arrived, used, gone, cut>>

\* Check rejects the target or the options.
Reject(c) ==
  /\ pc[c] = "check" /\ ~body[c].accepted
  /\ Answer(c, 400)
  /\ UNCHANGED <<defaults, flag, body, arrived, opt, left, todo, used, gone, cut>>

\* Plausible bugs: a stage runs without the context; a stage that was cut is
\* tried again.
SpentBug(c, d) == d
AfterStageBug(c, ends) == IF ends THEN Tail(todo[c]) ELSE todo[c]

\* The context also ends when the client goes away.  Only the read of a CAA
\* answer does not notice: it knows the deadline alone.
Spent(c, d) == IF c \in gone /\ Head(todo[c]) # "dns" THEN 0 ELSE AtMost(d, left[c])

AfterStage(c, ends) == Tail(todo[c])

\* The next stage would take d.  It is cut when the context ends first, and then
\* the stages that follow fail at once.
RunStage(c) ==
  /\ pc[c] = "check" /\ body[c].accepted /\ todo[c] # <<>>
  /\ LET stage == Head(todo[c])
     IN  \E d \in 0..Limit(stage, opt[c]) :
           LET ends == c \notin gone /\ d < left[c]
           IN  /\ left' = [left EXCEPT ![c] = AtLeast(0, @ - Spent(c, d))]
               /\ used' = [used EXCEPT ![c] = @ + Spent(c, d)]
               /\ cut' = [cut EXCEPT ![c] = IF ends THEN @ ELSE @ \cup {stage}]
               /\ todo' = [todo EXCEPT ![c] = AfterStage(c, ends)]
  /\ UNCHANGED <<defaults, flag, body, arrived, pc, opt, gone, status>>

Finish(c) ==
  /\ pc[c] = "check" /\ body[c].accepted /\ todo[c] = <<>>
  /\ Answer(c, 200)
  /\ UNCHANGED <<defaults, flag, body, arrived, opt, left, todo, used, gone, cut>>

\* The client sends its body, if it ever does.
SendBody(c) ==
  /\ pc[c] = "received" /\ AwaitsBody(c)
  /\ arrived' = arrived \cup {c}
  /\ UNCHANGED <<defaults, flag, body, pc, opt, left, todo, used, gone, cut, status>>

\* The client goes away: net/http ends the request's context.
Disconnect(c) ==
  /\ c \notin gone /\ pc[c] # "answered"
  /\ gone' = gone \cup {c}
  /\ UNCHANGED <<defaults, flag, body, arrived, pc, opt, left, todo, used, cut, status>>

Terminated == (\A c \in Calls : pc[c] = "answered") /\ UNCHANGED vars

Handle(c) == NotPost(c) \/ Receive(c) \/ Reject(c) \/ RunStage(c) \/ Finish(c)

Next == (\E c \in Calls : Handle(c) \/ SendBody(c) \/ Disconnect(c)) \/ Terminated

\* Each call has its own goroutine, and every stage returns: its operations have
\* deadlines.  Clients may stay for ever, and may never send their body.
Spec == Init /\ [][Next]_vars /\ \A c \in Calls : WF_vars(Handle(c))

----------------------------------------------------------------------------
(* Properties. *)

\* Every variable stays in its range, and no stage runs again once it was cut.
TypeOK ==
  /\ flag \in Timeouts /\ defaults \in Int
  /\ body \in [Calls -> Bodies] /\ arrived \subseteq Calls
  /\ pc \in [Calls -> {"received", "check", "answered"}]
  /\ opt \in [Calls -> Int] /\ left \in [Calls -> Nat] /\ used \in [Calls -> Nat]
  /\ gone \subseteq Calls /\ cut \in [Calls -> SUBSET Stages]
  /\ \A c \in Calls : \A i \in DOMAIN todo[c] : todo[c][i] \in Stages \ cut[c]
  /\ status \in [Calls -> {0, 200, 400, 405}]

Checking(c) == pc[c] = "check" \/ status[c] = 200

\* The timeout a call asks for, or else that of the --timeout flag.
Asked(c) == IF body[c].seconds > 0 THEN body[c].seconds * Second ELSE flag

\* A Duration can hold it, and the grace on top.
Fits(c) == Asked(c) + 2 * Second < Half

\* A call is checked under its own timeout, whatever other calls ask for at the
\* same time.
OwnTimeout == \A c \in Calls : Checking(c) /\ Fits(c) => opt[c] = Asked(c)

\* A check never outlives its context: a call is answered within its timeout and
\* two seconds, however many stages and probes it runs.
AnsweredInTime == \A c \in Calls : Checking(c) => used[c] <= AtLeast(0, Asked(c) + 2 * Second)

\* A stage of a client that waits is cut short only after all of that time; so a
\* TLS connection that takes no longer than its timeout is not cut when DNS took
\* less than two seconds.
CutExplained ==
  \A c \in Calls : Checking(c) /\ Fits(c) /\ cut[c] # {} =>
    c \in gone \/ used[c] >= Asked(c) + 2 * Second

\* Every call whose client has sent its body, or went away, or need not send one is
\* answered, although other clients keep theirs back for ever.
EveryCallAnswered == \A c \in Calls : ~AwaitsBody(c) ~> pc[c] = "answered"
=============================================================================
