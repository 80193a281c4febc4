---------------------------- MODULE ParseTarget ----------------------------
(***************************************************************************)
(* How a target is understood (internal/checker/parse.go): domain names,   *)
(* addresses, host:port pairs and URLs.                                    *)
(*                                                                         *)
(* What the user types is perhaps a scheme, then tokens: brackets, colons  *)
(* and words.  "v4" and "v6" are addresses in full, the latter with one    *)
(* "::" inside and four digits at either end; "8443" and "443" are ports,  *)
(* "70000" is a number that is none.  Two numbers never follow one another *)
(* (Apart): together they would be one more number.                        *)
(***************************************************************************)
EXTENDS Integers, Sequences, FiniteSets

Digits == {"8443", "70000", "443", "80"}
Tokens == {"[", "]", ":", "name", "v4", "v6"} \cup Digits

Brackets == {"[", "]"}

Apart(s) == \A i \in 1..(Len(s) - 1) : ~({s[i], s[i + 1]} \subseteq Digits)

NoPort == 0
BadPort == -1

\* parsePort: digits that spell a number from 1 to 65535.
ParsePort(s) ==
  CASE s = <<"8443">> -> 8443 [] s = <<"443">> -> 443 [] s = <<"80">> -> 80
    [] OTHER -> BadPort

Rejected == [ok |-> FALSE, host |-> <<>>, port |-> NoPort]

Accepted(host, port) == [ok |-> TRUE, host |-> host, port |-> port]

----------------------------------------------------------------------------
(* Go's standard library. *)

Positions(s, set) == {i \in DOMAIN s : s[i] \in set}

\* net.ParseIP of at most six groups: groups between colons and one "::".
IsIP(s) ==
  LET Groups  == {"v6"} \cup (Digits \ {"70000"})
      Doubles == {i \in 1..(Len(s) - 1) : s[i] = ":" /\ s[i + 1] = ":"}
  IN  \/ s = <<"v4">>
      \/ /\ \A i \in DOMAIN s : s[i] \in Groups \cup {":"} \/ (s[i] = "v4" /\ i = Len(s))
         /\ \A i \in 1..(Len(s) - 1) : ":" \in {s[i], s[i + 1]}
         /\ Cardinality(Doubles) + Cardinality(Positions(s, {"v6"})) = 1
         /\ s[1] = ":" => 1 \in Doubles
         /\ s[Len(s)] = ":" => Len(s) - 1 \in Doubles

\* i is the first, or the last, of the positions S.
IsFirst(S, i) == i \in S /\ \A j \in S : i <= j
IsLast(S, i)  == i \in S /\ \A j \in S : j <= i

Before(s, i) == SubSeq(s, 1, i - 1)
From(s, i)   == SubSeq(s, i + 1, Len(s))

\* strings.Trim(s, "[]").
TrimBrackets(s) ==
  LET inner == {i \in DOMAIN s : s[i] \notin Brackets}
  IN  IF inner = {} THEN <<>>
      ELSE SubSeq(s, CHOOSE i \in inner : IsFirst(inner, i), CHOOSE i \in inner : IsLast(inner, i))

\* net.SplitHostPort: a single colon, or brackets around the host, then a colon.
SplitHostPort(s) ==
  LET colons  == Positions(s, {":"})
      closing == Positions(s, {"]"})
      Splits(i) ==
        /\ IsLast(Positions(s, {":", "v6"}), i) /\ s[i] = ":"
        /\ IF s[1] = "["
           THEN /\ IsFirst(closing, i - 1)
                /\ Positions(SubSeq(s, 2, Len(s)), {"["}) = {} /\ closing = {i - 1}
           ELSE Positions(Before(s, i), {":", "v6"}) = {} /\ Positions(s, Brackets) = {}
      at == {i \in colons : Splits(i)}
  IN  IF at = {} THEN [ok |-> FALSE, host |-> <<>>, port |-> <<>>]
      ELSE LET i == CHOOSE i \in at : TRUE
           IN  [ok   |-> TRUE,
                host |-> IF s[1] = "[" THEN SubSeq(s, 2, i - 2) ELSE Before(s, i),
                port |-> From(s, i)]

\* net.JoinHostPort: brackets around a host with a colon.
JoinHostPort(host, port) ==
  (IF Positions(host, {":", "v6"}) # {} THEN <<"[">> \o host \o <<"]">> ELSE host)
    \o <<":", CHOOSE d \in Digits : ParsePort(<<d>>) = port>>

----------------------------------------------------------------------------
(* splitHostPortLoose. *)

\* Exactly one colon, with digits behind it.
ColonDigits(s) ==
  /\ Positions(s, {"v6"}) = {}
  /\ \E i \in Positions(s, {":"}) :
       /\ Positions(s, {":"}) = {i} /\ i < Len(s)
       /\ \A j \in (i + 1)..Len(s) : s[j] \in Digits

WithPort(host, port) ==
  IF ParsePort(port) = BadPort THEN Rejected ELSE Accepted(host, ParsePort(port))

\* A plausible bug: a bare IPv6 address is split on its last colon.
SplitBareBug(s) ==
  IF Len(s) > 2 /\ s[Len(s) - 1] = ":" /\ ParsePort(<<s[Len(s)]>>) # BadPort
  THEN Accepted(SubSeq(s, 1, Len(s) - 2), ParsePort(<<s[Len(s)]>>)) ELSE Accepted(TrimBrackets(s), NoPort)

\* Whatever is left is taken for a host without a port.
SplitBare(s) == Accepted(TrimBrackets(s), NoPort)

SplitHostPortLoose(s) ==
  LET split == SplitHostPort(s)
      i     == CHOOSE i \in Positions(s, {":"}) : TRUE
  IN  IF s = <<>> THEN Rejected
      ELSE IF split.ok THEN WithPort(TrimBrackets(split.host), split.port)
      ELSE IF s[1] = "[" /\ s[Len(s)] = "]"
           THEN IF IsIP(TrimBrackets(s)) THEN Accepted(TrimBrackets(s), NoPort) ELSE Rejected
      ELSE IF ColonDigits(s) THEN WithPort(Before(s, i), From(s, i))
      ELSE SplitBare(s)

----------------------------------------------------------------------------
(* ParseTarget.  scheme is "" for a target without "://". *)

\* url.Parse, Hostname and Port: a host, in brackets if it is an IPv6 address,
\* then perhaps a colon and any number of digits.  Go 1.26 refuses all else.
SplitURLHost(s) ==
  LET ports == {i \in Positions(s, {":"}) : \A j \in (i + 1)..Len(s) : s[j] \in Digits}
      i     == CHOOSE i \in ports : TRUE
      host  == IF ports = {} THEN s ELSE Before(s, i)
      port  == IF ports = {} THEN <<>> ELSE From(s, i)
  IN  [ok   |-> \/ host # <<>> /\ host = <<"[">> \o TrimBrackets(host) \o <<"]">>
                   /\ IsIP(TrimBrackets(host)) /\ TrimBrackets(host) # <<"v4">>
                \/ Positions(host, {":", "v6"} \cup Brackets) = {},
       host |-> TrimBrackets(host), port |-> port]

ParseURL(scheme, s) ==
  LET split == SplitURLHost(s)
  IN  IF scheme \notin {"http", "https"} \/ ~split.ok \/ split.host = <<>> THEN Rejected
      ELSE IF split.port = <<>> THEN Accepted(split.host, IF scheme = "http" THEN 80 ELSE NoPort)
      ELSE WithPort(split.host, split.port)

\* The target; a port option above 0 replaces the port, whatever it is.
Parse(input, port) ==
  LET base == IF input.scheme = "" THEN SplitHostPortLoose(input.rest)
              ELSE ParseURL(input.scheme, input.rest)
  IN  IF ~base.ok \/ base.host = <<>> THEN Rejected
      ELSE Accepted(TrimBrackets(base.host),
                    IF port > 0 THEN port ELSE IF base.port = NoPort THEN 443 ELSE base.port)

----------------------------------------------------------------------------
(* Properties of one target. *)

Bare(s) == [scheme |-> "", rest |-> s]

\* The forms the documentation lists, and what they mean.
Forms ==
  LET Hosts == {<<"name">>, <<"v4">>}
  IN  {<<Bare(h), h, 443>> : h \in Hosts \cup {<<"v6">>, <<"v6", ":", "8443">>}}
        \cup {<<Bare(h \o <<":", "8443">>), h, 8443>> : h \in Hosts \cup {<<"[", "v6", "]">>}}
        \cup {<<Bare(<<"[", "v6", "]">>), <<"v6">>, 443>>}
        \cup {<<[scheme |-> s, rest |-> h], h, IF s = "http" THEN 80 ELSE 443>> :
                s \in {"http", "https"}, h \in Hosts \cup {<<"[", "v6", "]">>}}
        \cup {<<[scheme |-> s, rest |-> h \o <<":", "8443">>], h, 8443>> :
                s \in {"http", "https"}, h \in Hosts \cup {<<"[", "v6", "]">>}}

\* What the input means is what ParseTarget makes of it: each documented form
\* yields its host and port, a bare IPv6 address is never cut at a colon, and the
\* address that is dialed, typed as a target, is the same target again.  Only a
\* stray bracket can leave a host that is empty or broken.
Understood(input) ==
  LET t == Parse(input, 0)
  IN  /\ \A f \in Forms : f[1] = input => t = Accepted(TrimBrackets(f[2]), f[3])
      /\ t.ok /\ t.host # <<>> /\ Positions(t.host, Brackets) = {} =>
           Parse(Bare(JoinHostPort(t.host, t.port)), 0) = t
      /\ t.ok /\ t.host = <<>> => Positions(input.rest, Brackets) # {}
=============================================================================
