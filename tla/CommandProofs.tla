---------------------------- MODULE CommandProofs ----------------------------
(***************************************************************************)
(* What check and kube promise with their exit codes and reports, and what *)
(* ParseTarget makes of a target, for every command line, every node and   *)
(* every outcome of the checks.                                            *)
(***************************************************************************)
EXTENDS Command, SequenceTheorems, FiniteSetTheorems, WellFoundedInduction, TLAPS

Result == [target : Words, attempted : BOOLEAN, connected : BOOLEAN, verified : BOOLEAN]

FlagSet == [end : {"", "parsed", "help", "error"}, gate : BOOLEAN,
            format : {"text", "json", "xml"}, rest : Seq(Words)]

Shape ==
  /\ line \in Seq(Words) /\ stdout \in {"open", "full"}
  /\ pc \in {"main", "check", "kube", "gui", "exited", "serving"}
  /\ flags \in FlagSet /\ results \in Seq(Result)
  /\ exit \in {Running, 0, 1, 2}
  /\ pc = "exited" => exit # Running
  /\ pc # "exited" => exit = Running

\* What is left of the line, and what was taken off it.
Suffix ==
  /\ \E n \in 0..Len(line) : flags.rest = SubSeq(line, n + 1, Len(line))
  /\ Gate \in Range(line) => flags.gate \/ Gate \in Range(flags.rest)

\* The results belong to the first targets of the line.
Matched ==
  /\ Len(results) <= Len(flags.rest)
  /\ \A i \in DOMAIN results : results[i].target = flags.rest[i]
  /\ anyInvalid <=> \E i \in DOMAIN results : Invalid(results[i])

\* Where the commands are while they run.
Underway ==
  /\ pc # "exited" => printed = <<>>
  /\ pc = "main" => results = <<>> /\ ~anyInvalid /\ flags.end = ""
  /\ pc = "check" => Checks /\ line # <<>>
  /\ pc = "kube" => Kubes /\ results = <<>>
  /\ results # <<>> => Checks /\ flags.end = "parsed"
  /\ pc \in {"check", "kube", "gui"} => Suffix

\* What is known of a command that is over.
Ended ==
  /\ exit = 2 => /\ flags.gate /\ (stdout = "open" => printed # <<>>)
                 /\ anyInvalid \/ (Kubes /\ KubernetesInvalid)
  /\ exit = 0 /\ Checks /\ flags.end = "parsed" =>
       /\ Len(results) = Len(flags.rest) /\ Suffix
       /\ ~(flags.gate /\ anyInvalid)
  /\ pc = "exited" /\ Checks /\ flags.end # "help" =>
       \/ exit = 1 /\ printed = <<>>
       \/ /\ printed \in {results, <<>>} /\ Len(results) = Len(flags.rest) /\ Suffix
          /\ printed = <<>> => stdout = "full"

CommandInv == Shape /\ Matched /\ Underway /\ Ended

----------------------------------------------------------------------------
(* The words of the program. *)

\* Records and sequences of one token differ when the tokens do.
LEMMA WordsDiffer ==
  ASSUME NEW a, NEW b, Word(a) = Word(b) PROVE a = b
<1>1. Word(a).rest[1] = a /\ Word(b).rest[1] = b  BY DEF Word, Bare
<1> QED  BY <1>1

\* kube is not check.
LEMMA KubeIsNotCheck == Kubes => ~Checks
<1>1. Word("kube") # Word("check") /\ Word("kubernetes") # Word("check") /\ Word("k8s") # Word("check")
  BY WordsDiffer
<1> QED  BY <1>1 DEF Kubes, Checks, KubeNames, Commands

\* check is no flag.
LEMMA CheckIsNotGate == Word("check") # Gate
BY WordsDiffer DEF Gate

\* The rest of a suffix is a suffix.
LEMMA TailOfSuffix ==
  ASSUME NEW S, NEW w \in Seq(S), NEW n \in 0..Len(w), SubSeq(w, n + 1, Len(w)) # <<>>
  PROVE  n + 1 \in 0..Len(w) /\ Tail(SubSeq(w, n + 1, Len(w))) = SubSeq(w, (n + 1) + 1, Len(w))
<1>1. n + 1 \in 0..Len(w)
  <2>1. SUFFICES ASSUME n = Len(w) PROVE FALSE  OBVIOUS
  <2> QED  BY <2>1
<1> QED  BY <1>1

\* A word of a sequence is its first, or one of its tail.
LEMMA InTail ==
  ASSUME NEW S, NEW w \in Seq(S), w # <<>>, NEW x \in Range(w), x # Head(w)
  PROVE  x \in Range(Tail(w))
<1>1. PICK i \in 1..Len(w) : w[i] = x  BY DEF Range
<1>2. i # 1 /\ i - 1 \in 1..Len(Tail(w)) /\ Tail(w)[i - 1] = x  BY <1>1
<1>3. DOMAIN Tail(w) = 1..Len(Tail(w))  OBVIOUS
<1> QED  BY <1>2, <1>3, Zenon DEF Range

\* The results name exactly the targets once there are as many.
LEMMA TargetsComplete ==
  ASSUME results \in Seq(Result), flags.rest \in Seq(Words), Matched,
         Len(results) = Len(flags.rest)
  PROVE  Targets = flags.rest
<1>1. DOMAIN results = 1..Len(results)  OBVIOUS
<1>2. \A i \in 1..Len(results) : Targets[i] = flags.rest[i]  BY <1>1 DEF Matched, Targets
<1>3. Targets = [i \in 1..Len(results) |-> Targets[i]]  BY <1>1 DEF Targets
<1>4. flags.rest = [i \in 1..Len(results) |-> flags.rest[i]]  OBVIOUS
<1> QED  BY <1>2, <1>3, <1>4

----------------------------------------------------------------------------
(* The invariant holds at the start, and every step keeps it. *)

\* No results match any flags.
LEMMA NothingMatched ==
  ASSUME results = <<>>, ~anyInvalid, flags.rest \in Seq(Words) PROVE Matched
<1>1. DOMAIN results = {}  OBVIOUS
<1>2. Len(results) = 0 /\ 0 <= Len(flags.rest)  OBVIOUS
<1>3. Len(results) <= Len(flags.rest)  BY <1>2
<1>4. anyInvalid <=> \E i \in DOMAIN results : Invalid(results[i])  BY <1>1, Zenon
<1> QED  BY <1>1, <1>3, <1>4, Zenon DEF Matched

LEMMA CommandInitInv == Init => CommandInv
<1> SUFFICES ASSUME Init PROVE CommandInv  OBVIOUS
<1>1. line \in Seq(Words) /\ stdout \in {"open", "full"}  BY CommandAssumption DEF Init
<1>2. /\ pc = "main" /\ results = <<>> /\ anyInvalid = FALSE /\ printed = <<>> /\ exit = Running
      /\ flags = Unparsed(<<>>)
  BY DEF Init
<1>3. flags.end = "" /\ flags.rest = <<>>  BY <1>2 DEF Unparsed
<1>4. <<>> \in Seq(Words) /\ <<>> \in Seq(Result)  OBVIOUS
<1>5. flags \in FlagSet  BY <1>2, <1>4 DEF Unparsed, FlagSet
<1>6. Shape
  <2>1. exit \in {Running, 0, 1, 2} /\ pc # "exited" /\ exit = Running  BY <1>2
  <2>2. results \in Seq(Result)  BY <1>2, <1>4
  <2> QED  BY <1>1, <1>2, <1>5, <2>1, <2>2 DEF Shape
<1>7. Matched  BY <1>2, <1>3, <1>4, NothingMatched
<1>8. Underway  BY <1>2, <1>3 DEF Underway
<1>9. Ended  BY <1>2 DEF Ended, Running
<1> QED  BY <1>6, <1>7, <1>8, <1>9 DEF CommandInv

\* Facts about where the line was cut stay when line and flags do.
LEMMA SuffixStays ==
  ASSUME Suffix, line' = line, flags' = flags PROVE Suffix'
BY DEF Suffix

LEMMA MatchedStays ==
  ASSUME Matched, results' = results, flags' = flags, anyInvalid' = anyInvalid PROVE Matched'
BY DEF Matched, Invalid

LEMMA MainInv == CommandInv /\ Main => CommandInv'
<1> SUFFICES ASSUME CommandInv, Main PROVE CommandInv'  OBVIOUS
<1> USE DEF CommandInv
<1>0. /\ line' = line /\ stdout' = stdout /\ results' = results /\ anyInvalid' = anyInvalid
      /\ printed' = printed /\ pc = "main" /\ exit = Running /\ printed = <<>>
      /\ results = <<>> /\ ~anyInvalid /\ flags.end = ""
  BY DEF Main, Underway, Shape
<1>1. ASSUME pc' = "exited", exit' \in {0, 1}, flags' = flags, exit' = 0 => ~Checks
      PROVE  CommandInv'
  <2>0. exit' # Running /\ exit' # 2  BY <1>1 DEF Running
  <2>1. Shape'  BY <1>0, <1>1, <2>0 DEF Shape
  <2>2. Matched'  BY <1>0, <1>1, MatchedStays
  <2>3. Underway'  BY <1>0, <1>1 DEF Underway
  <2>4. Checks' <=> Checks  BY <1>0 DEF Checks
  <2>5. exit' = 1 => printed' = <<>>  BY <1>0
  <2>6. Ended'
    <3>1. CASE exit' = 0  BY <3>1, <1>1, <2>4 DEF Ended
    <3>2. CASE exit' = 1  BY <3>2, <1>1, <2>4, <2>5 DEF Ended
    <3> QED  BY <3>1, <3>2, <1>1
  <2> QED  BY <2>1, <2>2, <2>3, <2>6
<1>2. ASSUME NEW name \in {"check", "kube", "gui"}, NEW n \in {0, 1}, line # <<>>,
             name = "check" => Checks, name = "kube" => Kubes,
             n = 1 => Head(line) # Gate,
             pc' = name, exit' = exit, flags' = Unparsed(SubSeq(line, n + 1, Len(line)))
      PROVE  CommandInv'
  <2> DEFINE words == SubSeq(line, n + 1, Len(line))
  <2>0. line \in Seq(Words) /\ n \in 0..Len(line)  BY <1>2 DEF Shape
  <2>1. words \in Seq(Words)  BY <2>0
  <2>2. flags'.rest = words /\ flags'.end = "" /\ flags'.gate = FALSE  BY <1>2 DEF Unparsed
  <2>3. flags' \in FlagSet  BY <1>2, <2>1 DEF Unparsed, FlagSet
  <2>4. Shape'  BY <1>0, <1>2, <2>3 DEF Shape
  <2>5. Matched'
    <3>1. results' = <<>> /\ ~anyInvalid' /\ flags'.rest \in Seq(Words)  BY <1>0, <2>1, <2>2
    <3>2. DOMAIN results' = {} /\ Len(results') <= Len(flags'.rest)  BY <3>1
    <3> QED  BY <3>1, <3>2, Zenon DEF Matched
  <2>6. Gate \in Range(line) => Gate \in Range(words)
    <3>1. CASE n = 0
      <4>1. words = line  BY <2>0, <3>1
      <4> QED  BY <4>1
    <3>2. CASE n = 1
      <4>1. words = Tail(line)  BY <2>0, <3>2, <1>2
      <4> QED  BY <4>1, <3>2, <2>0, <1>2, InTail
    <3> QED  BY <3>1, <3>2
  <2>7. Suffix'  BY <1>0, <2>0, <2>2, <2>6 DEF Suffix
  <2>8. (Checks' <=> Checks) /\ (Kubes' <=> Kubes)  BY <1>0 DEF Checks, Kubes
  <2>9. pc' # "exited" /\ pc' # "main" /\ results' = <<>> /\ printed' = <<>>  BY <1>0, <1>2
  <2>10. Underway'  BY <1>2, <1>0, <2>7, <2>8, <2>9 DEF Underway
  <2>11. exit' = Running  BY <1>0, <1>2
  <2>12. Ended'  BY <2>9, <2>11 DEF Ended, Running
  <2> QED  BY <2>4, <2>5, <2>10, <2>12
<1>3. line \in Seq(Words)  BY DEF Shape
<1>8. line # <<>> => line = SubSeq(line, 0 + 1, Len(line))  BY <1>3
<1>9. line # <<>> => Tail(line) = SubSeq(line, 1 + 1, Len(line)) /\ Head(line) = line[1]  BY <1>3
<1>4. Gate \notin KubeNames /\ Gate # Word("gui") /\ Gate # Word("check")
  BY WordsDiffer DEF Gate, KubeNames
<1>10. ~(Word("gui") = Gate) /\ ~(Word("check") = Gate) /\ KubeNames \cap {Gate} = {}  BY <1>4
<1>11. Kubes => ~Checks  BY KubeIsNotCheck
<1> HIDE DEF CommandInv
<1>5. CASE line = <<>>
  <2>1. Exit(1) /\ flags' = flags  BY <1>5 DEF Main
  <2> QED  BY <2>1, <1>1 DEF Exit
<1>6. CASE line # <<>> /\ line[1] \in {Word("version"), Word("help")}
  <2>1. ~Checks
    <3>1. Word("version") # Word("check") /\ Word("help") # Word("check")  BY WordsDiffer
    <3> QED  BY <1>6, <3>1 DEF Checks, Commands
  <2>2. ~(line # <<>> /\ line[1] \in KubeNames) /\ line[1] # Word("gui") /\ line[1] # Word("check")
    BY <1>6, WordsDiffer DEF KubeNames
  <2>3. line[1] \in Commands  BY <1>6 DEF Commands
  <2> QED  BY <1>6, <2>1, <2>2, <2>3, <1>1, <1>0 DEF Main, Exit
<1>7. CASE line # <<>> /\ line[1] \notin {Word("version"), Word("help")}
  <2>1. CASE line[1] \in KubeNames
    <3>1. line[1] # Word("gui") /\ line[1] # Word("check") /\ line[1] \in Commands
      BY <2>1, WordsDiffer DEF KubeNames, Commands
    <3>2. pc' = "kube" /\ exit' = exit /\ flags' = Unparsed(Tail(line))
      BY <1>7, <2>1, <3>1 DEF Main, Goto
    <3> QED  BY <1>7, <2>1, <3>2, <1>2, <1>9, <1>10, <1>4 DEF Kubes
  <2>2. CASE line[1] = Word("gui")
    <3>1. line[1] \notin KubeNames /\ line[1] # Word("check") /\ line[1] \in Commands
      BY <2>2, WordsDiffer DEF KubeNames, Commands
    <3>2. pc' = "gui" /\ exit' = exit /\ flags' = Unparsed(Tail(line))
      BY <1>7, <2>2, <3>1 DEF Main, Goto
    <3> QED  BY <1>7, <2>2, <3>2, <1>2, <1>9, <1>10, <1>4
  <2>3. CASE line[1] = Word("check")
    <3>1. line[1] \notin KubeNames /\ line[1] # Word("gui") /\ line[1] \in Commands
      BY <2>3, WordsDiffer DEF KubeNames, Commands
    <3>2. pc' = "check" /\ exit' = exit /\ flags' = Unparsed(Tail(line))
      BY <1>7, <2>3, <3>1 DEF Main, Goto
    <3> QED  BY <1>7, <2>3, <3>2, <1>2, <1>9, <1>11, <1>4 DEF Checks
  <2>4. CASE line[1] \notin Commands
    <3>1. line[1] \notin KubeNames /\ line[1] # Word("gui") /\ line[1] # Word("check")
      BY <2>4 DEF Commands
    <3>2. pc' = "check" /\ exit' = exit /\ flags' = Unparsed(line)
      BY <1>7, <2>4, <3>1 DEF Main, Goto
    <3>3. flags' = Unparsed(SubSeq(line, 0 + 1, Len(line))) /\ Checks  BY <1>7, <1>8, <2>4, <3>2 DEF Checks
    <3>4. "check" \in {"check", "kube", "gui"} /\ 0 \in {0, 1} /\ 0 # 1  OBVIOUS
    <3> QED  BY <1>7, <3>2, <3>3, <3>4, <1>2
  <2> QED  BY <2>1, <2>2, <2>3, <2>4, <1>7 DEF Commands
<1> QED  BY <1>5, <1>6, <1>7

\* A command that ends early, with 0 only after a call for help.
LEMMA LeaveInv ==
  ASSUME CommandInv, NEW code \in {0, 1}, Exit(code), code = 0 => flags.end = "help",
         pc \in {"check", "kube", "gui"}, UNCHANGED <<line, stdout, flags, results, anyInvalid, printed>>
  PROVE  CommandInv'
<1>0. /\ line' = line /\ stdout' = stdout /\ flags' = flags /\ results' = results
      /\ anyInvalid' = anyInvalid /\ printed' = printed /\ pc' = "exited" /\ exit' = code
      /\ printed = <<>>
  BY DEF Exit, CommandInv, Underway
<1>1. exit' # Running /\ exit' # 2 /\ exit' \in {Running, 0, 1, 2}  BY <1>0 DEF Running
<1>2. Shape'  BY <1>0, <1>1 DEF CommandInv, Shape
<1>3. Matched'  BY <1>0, MatchedStays DEF CommandInv
<1>4. (Checks' <=> Checks) /\ (Kubes' <=> Kubes)  BY <1>0 DEF Checks, Kubes
<1>5. Underway'  BY <1>0, <1>4 DEF CommandInv, Underway
<1>6. Ended'
  <2>1. CASE code = 0  BY <2>1, <1>0, <1>1 DEF Ended
  <2>2. CASE code = 1  BY <2>2, <1>0, <1>1 DEF Ended
  <2> QED  BY <2>1, <2>2
<1> QED  BY <1>2, <1>3, <1>5, <1>6 DEF CommandInv

\* Nothing checked, nothing invalid.
LEMMA NoneInvalid == Matched /\ results = <<>> => ~anyInvalid
<1> SUFFICES ASSUME Matched, results = <<>> PROVE ~anyInvalid  OBVIOUS
<1>1. DOMAIN results = {}  OBVIOUS
<1> QED  BY <1>1, Zenon DEF Matched

LEMMA ParseFlagInv == CommandInv /\ ParseFlag => CommandInv'
<1> SUFFICES ASSUME CommandInv, ParseFlag PROVE CommandInv'  OBVIOUS
<1>0. /\ line' = line /\ stdout' = stdout /\ results' = results /\ anyInvalid' = anyInvalid
      /\ printed' = printed /\ pc' = pc /\ exit' = exit /\ pc \in {"check", "kube", "gui"}
      /\ flags.end = "" /\ flags' = ParseWord(flags, KnownTo(pc)) /\ exit = Running /\ printed = <<>>
  BY DEF ParseFlag, CommandInv, Shape, Underway
<1>1. results = <<>> /\ ~anyInvalid /\ Suffix  BY <1>0, NoneInvalid DEF CommandInv, Underway
<1>2. flags \in FlagSet /\ line \in Seq(Words) /\ flags.rest \in Seq(Words)
  BY DEF CommandInv, Shape, FlagSet
<1> DEFINE word == Head(flags.rest)
<1>3. flags' \in FlagSet /\ Suffix'
  <2>1. ASSUME NEW e \in {"parsed", "help", "error"}, flags' = [flags EXCEPT !.end = e]
        PROVE  flags' \in FlagSet /\ Suffix'
    <3>1. flags' \in FlagSet /\ flags'.rest = flags.rest /\ flags'.gate = flags.gate
      BY <2>1, <1>2 DEF FlagSet
    <3> QED  BY <3>1, <1>0, <1>1 DEF Suffix
  <2>2. ASSUME flags.rest # <<>>, word \in Known,
               flags' = [flags EXCEPT !.rest = Tail(@), !.gate = @ \/ word = Gate,
                                      !.format = IF word = Gate THEN @ ELSE FormatOf[word]]
        PROVE  flags' \in FlagSet /\ Suffix'
    <3>1. word # Gate => FormatOf[word] \in {"text", "json", "xml"}  BY <2>2 DEF Known, FormatOf
    <3>2. flags'.rest = Tail(flags.rest) /\ (flags'.gate <=> flags.gate \/ word = Gate)
      BY <2>2, <1>2 DEF FlagSet
    <3>3. Tail(flags.rest) \in Seq(Words)  BY <2>2, <1>2
    <3>4. flags' \in FlagSet  BY <2>2, <1>2, <3>1, <3>3 DEF FlagSet
    <3>5. PICK n \in 0..Len(line) : flags.rest = SubSeq(line, n + 1, Len(line))  BY <1>1 DEF Suffix
    <3>6. n + 1 \in 0..Len(line) /\ Tail(flags.rest) = SubSeq(line, (n + 1) + 1, Len(line))
      BY <3>5, <2>2, <1>2, TailOfSuffix
    <3>7. Gate \in Range(flags.rest) => word = Gate \/ Gate \in Range(Tail(flags.rest))
      BY <2>2, <1>2, InTail
    <3>8. Gate \in Range(line') => flags'.gate \/ Gate \in Range(flags'.rest)
      BY <1>0, <1>1, <3>2, <3>7 DEF Suffix
    <3>9. \E k \in 0..Len(line') : flags'.rest = SubSeq(line', k + 1, Len(line'))
      BY <1>0, <3>2, <3>6
    <3> QED  BY <3>4, <3>8, <3>9 DEF Suffix
  <2>3. CASE flags.rest = <<>> \/ word \notin Dashed
    <3>1. flags' = [flags EXCEPT !.end = "parsed"]  BY <2>3, <1>0 DEF ParseWord
    <3> QED  BY <3>1, <2>1
  <2>4. CASE flags.rest # <<>> /\ word \in Dashed /\ word \notin KnownTo(pc)
    <3>1. flags' = [flags EXCEPT !.end = IF word \in Help THEN "help" ELSE "error"]
      BY <2>4, <1>0 DEF ParseWord
    <3> QED  BY <3>1, <2>1
  <2>5. CASE flags.rest # <<>> /\ word \in Dashed /\ word \in KnownTo(pc)
    <3>1. word \in Known  BY <2>5 DEF KnownTo
    <3> QED  BY <3>1, <2>5, <2>2, <1>0 DEF ParseWord
  <2> QED  BY <2>3, <2>4, <2>5
<1>4. Shape'  BY <1>0, <1>3 DEF CommandInv, Shape
<1>5. Matched'
  <2>1. results' = <<>> /\ ~anyInvalid' /\ flags'.rest \in Seq(Words)  BY <1>0, <1>1, <1>3 DEF FlagSet
  <2>2. DOMAIN results' = {} /\ Len(results') <= Len(flags'.rest)  BY <2>1
  <2> QED  BY <2>1, <2>2, Zenon DEF Matched
<1>6. (Checks' <=> Checks) /\ (Kubes' <=> Kubes)  BY <1>0 DEF Checks, Kubes
<1>7. Underway'  BY <1>0, <1>1, <1>3, <1>6 DEF CommandInv, Underway
<1>8. exit' = Running /\ pc' # "exited"  BY <1>0
<1>9. Ended'  BY <1>8 DEF Ended, Running
<1> QED  BY <1>4, <1>5, <1>7, <1>9 DEF CommandInv

\* One more result of the target it was asked for.
LEMMA ResultOf ==
  ASSUME NEW word \in Words, NEW opt, NEW cas, NEW r \in Results(word, opt, cas)
  PROVE  r \in Result /\ r.target = word
BY DEF Results, Result

LEMMA CheckTargetInv == CommandInv /\ CheckTarget => CommandInv'
<1> SUFFICES ASSUME CommandInv, CheckTarget PROVE CommandInv'  OBVIOUS
<1>0. /\ line' = line /\ stdout' = stdout /\ flags' = flags /\ printed' = printed
      /\ pc' = pc /\ exit' = exit /\ pc = "check" /\ flags.end = "parsed"
      /\ Len(results) < Len(flags.rest) /\ exit = Running /\ printed = <<>>
  BY DEF CheckTarget, Looping, CommandInv, Shape, Underway
<1>1. PICK r \in Results(NextTarget, copt, copt.cas) :
        results' = Append(results, r) /\ anyInvalid' = Flags(Invalid(r))
  BY DEF CheckTarget
<1>2. flags.rest \in Seq(Words) /\ results \in Seq(Result)  BY DEF CommandInv, Shape, FlagSet
<1>3. NextTarget \in Words  BY <1>0, <1>2 DEF NextTarget
<1>4. r \in Result /\ r.target = NextTarget  BY <1>3, ResultOf
<1> DEFINE n == Len(results)
<1>5. /\ results' \in Seq(Result) /\ Len(results') = n + 1 /\ DOMAIN results = 1..n
      /\ DOMAIN results' = 1..(n + 1) /\ n \in Nat
      /\ \A i \in 1..n : results'[i] = results[i]
      /\ results'[n + 1] = r
  BY <1>1, <1>2, <1>4
<1>6. Shape'  BY <1>0, <1>5 DEF CommandInv, Shape
<1>7. Matched'
  <2>1. Len(results') <= Len(flags'.rest)  BY <1>0, <1>2, <1>5
  <2>2. \A i \in DOMAIN results' : results'[i].target = flags'.rest[i]
    <3>1. \A i \in 1..n : results'[i].target = flags.rest[i]  BY <1>5 DEF CommandInv, Matched
    <3>2. results'[n + 1].target = flags.rest[n + 1]  BY <1>4, <1>5 DEF NextTarget
    <3> QED  BY <3>1, <3>2, <1>0, <1>5
  <2>3. \A i \in 1..(n + 1) : i \in 1..n \/ i = n + 1  BY <1>5
  <2>4. \A i \in 1..n : i \in 1..(n + 1)  BY <1>5
  <2>5. n + 1 \in 1..(n + 1)  BY <1>5
  <2>6. anyInvalid' <=> anyInvalid \/ Invalid(r)  BY <1>1 DEF Flags
  <2>7. anyInvalid <=> \E i \in 1..n : Invalid(results[i])  BY <1>5, Zenon DEF CommandInv, Matched
  <2>8. (\E i \in 1..(n + 1) : Invalid(results'[i])) <=> (\E i \in 1..n : Invalid(results[i])) \/ Invalid(r)
    <3>1. \A i \in 1..n : Invalid(results'[i]) <=> Invalid(results[i])  BY <1>5
    <3>2. Invalid(results'[n + 1]) <=> Invalid(r)  BY <1>5
    <3> HIDE DEF n
    <3> QED  BY <3>1, <3>2, <2>3, <2>4, <2>5
  <2>9. anyInvalid' <=> \E i \in DOMAIN results' : Invalid(results'[i])
    BY <2>6, <2>7, <2>8, <1>5, Zenon
  <2> QED  BY <2>1, <2>2, <2>9, Zenon DEF Matched
<1>8. (Checks' <=> Checks) /\ (Kubes' <=> Kubes)  BY <1>0 DEF Checks, Kubes
<1>9. Suffix'  BY <1>0, SuffixStays DEF CommandInv, Underway
<1>10. Underway'  BY <1>0, <1>8, <1>9 DEF CommandInv, Underway
<1>11. exit' = Running /\ pc' # "exited"  BY <1>0
<1>12. Ended'  BY <1>11 DEF Ended, Running
<1> QED  BY <1>6, <1>7, <1>10, <1>12 DEF CommandInv

\* BadFlags, NoTarget and RejectTarget.
LEMMA LeavingInv == CommandInv /\ (BadFlags \/ NoTarget \/ RejectTarget) => CommandInv'
<1> SUFFICES ASSUME CommandInv, BadFlags \/ NoTarget \/ RejectTarget PROVE CommandInv'  OBVIOUS
<1>1. CASE BadFlags
  <2>1. CASE flags.end = "help"
    <3>1. Exit(0)  BY <1>1, <2>1 DEF BadFlags
    <3> QED  BY <3>1, <1>1, <2>1, LeaveInv DEF BadFlags
  <2>2. CASE flags.end # "help"
    <3>1. Exit(1)  BY <1>1, <2>2 DEF BadFlags
    <3> QED  BY <3>1, <1>1, LeaveInv DEF BadFlags
  <2> QED  BY <2>1, <2>2
<1>2. CASE NoTarget  BY <1>2, LeaveInv DEF NoTarget
<1>3. CASE RejectTarget  BY <1>3, LeaveInv DEF RejectTarget, Looping
<1> QED  BY <1>1, <1>2, <1>3

\* The verdict behind the exit code of one report.
LEMMA FinishInv ==
  ASSUME CommandInv, NEW report, NEW invalid, Finish(report, invalid),
         UNCHANGED <<line, stdout, flags, results, anyInvalid>>, UNCHANGED kubeVars,
         flags.end = "parsed", report # <<>>, printed = <<>>, Suffix,
         Checks => /\ report = results /\ Len(results) = Len(flags.rest)
                   /\ invalid => anyInvalid
                   /\ anyInvalid => invalid,
         ~Checks => Kubes /\ (invalid => KubernetesInvalid)
  PROVE  CommandInv'
<1>0. /\ line' = line /\ stdout' = stdout /\ flags' = flags /\ results' = results
      /\ anyInvalid' = anyInvalid /\ (Checks' <=> Checks) /\ (Kubes' <=> Kubes)
      /\ (KubernetesInvalid' <=> KubernetesInvalid)
  BY DEF Checks, Kubes, KubernetesInvalid, kubeVars
<1> DEFINE failed == flags.format = "json" /\ stdout = "full"
<1>1. \/ pc' = "exited" /\ exit' = 1 /\ printed' = <<>>
      \/ pc' = "exited" /\ exit' = 2 /\ printed' = Shown(report) /\ flags.gate /\ invalid
      \/ pc' = "exited" /\ exit' = 0 /\ printed' = Shown(report) /\ ~(flags.gate /\ invalid)
  <2>1. CASE flags.format = "xml"  BY <2>1 DEF Finish, Exit
  <2>2. CASE flags.format # "xml" /\ failed
    <3>1. Exit(1) /\ printed' = Shown(report)  BY <2>2 DEF Finish
    <3>2. Shown(report) = <<>>  BY <2>2 DEF Shown
    <3> QED  BY <3>1, <3>2 DEF Exit
  <2>3. CASE flags.format # "xml" /\ ~failed /\ flags.gate /\ invalid
    <3>1. Exit(2) /\ printed' = Shown(report)  BY <2>3 DEF Finish
    <3> QED  BY <3>1, <2>3 DEF Exit
  <2>4. CASE flags.format # "xml" /\ ~failed /\ ~(flags.gate /\ invalid)
    <3>1. Exit(0) /\ printed' = Shown(report)  BY <2>4 DEF Finish
    <3> QED  BY <3>1, <2>4 DEF Exit
  <2> QED  BY <2>1, <2>2, <2>3, <2>4
<1>2. pc' = "exited" /\ exit' # Running /\ exit' \in {Running, 0, 1, 2}  BY <1>1 DEF Running
<1>3. Shape'  BY <1>0, <1>2 DEF CommandInv, Shape
<1>4. Matched'  BY <1>0, MatchedStays DEF CommandInv
<1>5. Underway'  BY <1>0, <1>2 DEF CommandInv, Underway
<1>6. Suffix'  BY <1>0, SuffixStays
<1>7. /\ stdout = "open" => Shown(report) = report
      /\ Shown(report) = <<>> => stdout = "full"
      /\ Shown(report) \in {report, <<>>}
  BY DEF CommandInv, Shape, Shown
<1>8. Ended'
  <2>1. exit' = 2 => /\ flags'.gate /\ (stdout' = "open" => printed' # <<>>)
                     /\ anyInvalid' \/ (Kubes' /\ KubernetesInvalid')
    BY <1>0, <1>1, <1>7
  <2>2. exit' = 0 /\ Checks' /\ flags'.end = "parsed" =>
          Len(results') = Len(flags'.rest) /\ Suffix' /\ ~(flags'.gate /\ anyInvalid')
    BY <1>0, <1>1, <1>6
  <2>3. Checks' =>
          \/ exit' = 1 /\ printed' = <<>>
          \/ /\ printed' \in {results', <<>>} /\ Len(results') = Len(flags'.rest) /\ Suffix'
             /\ printed' = <<>> => stdout' = "full"
    BY <1>0, <1>1, <1>6, <1>7
  <2> QED  BY <2>1, <2>2, <2>3 DEF Ended
<1> QED  BY <1>3, <1>4, <1>5, <1>8 DEF CommandInv

LEMMA PrintResultsInv == CommandInv /\ PrintResults => CommandInv'
<1> SUFFICES ASSUME CommandInv, PrintResults PROVE CommandInv'  OBVIOUS
<1>1. /\ pc = "check" /\ flags.end = "parsed" /\ flags.rest # <<>> /\ Len(results) = Len(flags.rest)
      /\ Finish(results, anyInvalid)
      /\ UNCHANGED <<line, stdout, flags, results, anyInvalid>> /\ UNCHANGED kubeVars
  BY DEF PrintResults
<1>2. Checks /\ printed = <<>> /\ Suffix  BY <1>1 DEF CommandInv, Underway
<1>3. results # <<>>
  <2>1. flags.rest \in Seq(Words) /\ results \in Seq(Result)  BY DEF CommandInv, Shape, FlagSet
  <2> QED  BY <2>1, <1>1
<1>5. Checks => results = results /\ Len(results) = Len(flags.rest) /\ (anyInvalid => anyInvalid)
  BY <1>1
<1>6. ~Checks => Kubes /\ (anyInvalid => KubernetesInvalid)  BY <1>2
<1> QED  BY <1>1, <1>2, <1>3, <1>5, <1>6, FinishInv, Zenon

LEMMA PrintKubernetesInv == CommandInv /\ PrintKubernetes => CommandInv'
<1> SUFFICES ASSUME CommandInv, PrintKubernetes PROVE CommandInv'  OBVIOUS
<1>1. /\ pc = "kube" /\ flags.end = "parsed" /\ Finish(<<kreport>>, KubernetesInvalid)
      /\ UNCHANGED <<line, stdout, flags, results, anyInvalid>> /\ UNCHANGED kubeVars
  BY DEF PrintKubernetes
<1>2. Kubes /\ ~Checks /\ printed = <<>> /\ Suffix  BY <1>1, KubeIsNotCheck DEF CommandInv, Underway
<1>3. <<kreport>> # <<>>  OBVIOUS
<1> QED  BY <1>1, <1>2, <1>3, FinishInv

\* Steps inside CheckKubernetes, and steps of the server, touch nothing here.
LEMMA RunningInv == CommandInv /\ (RunKubernetes \/ Serve \/ UNCHANGED vars) => CommandInv'
<1> SUFFICES ASSUME CommandInv, RunKubernetes \/ Serve \/ UNCHANGED vars PROVE CommandInv'  OBVIOUS
<1>1. CASE Serve
  <2>1. CASE Exit(1)  BY <2>1, <1>1, LeaveInv DEF Serve
  <2>2. CASE Goto("serving")
    <3>0. /\ line' = line /\ stdout' = stdout /\ flags' = flags /\ results' = results
          /\ anyInvalid' = anyInvalid /\ printed' = printed /\ pc' = "serving" /\ exit' = exit
          /\ exit = Running /\ (Checks' <=> Checks) /\ printed = <<>>
      BY <1>1, <2>2 DEF Serve, Goto, CommandInv, Shape, Underway, Checks
    <3>1. Shape'  BY <3>0 DEF CommandInv, Shape
    <3>2. Matched'  BY <3>0, MatchedStays DEF CommandInv
    <3>3. Underway'  BY <3>0 DEF CommandInv, Underway
    <3>4. Ended'  BY <3>0 DEF Ended, Running
    <3> QED  BY <3>1, <3>2, <3>3, <3>4 DEF CommandInv
  <2> QED  BY <2>1, <2>2, <1>1 DEF Serve
<1>2. CASE RunKubernetes \/ UNCHANGED vars
  <2>0. /\ line' = line /\ stdout' = stdout /\ flags' = flags /\ results' = results
        /\ anyInvalid' = anyInvalid /\ printed' = printed /\ pc' = pc /\ exit' = exit
        /\ (Checks' <=> Checks) /\ (Kubes' <=> Kubes)
    BY <1>2 DEF RunKubernetes, vars, commandVars, Checks, Kubes
  <2>1. Shape'  BY <2>0 DEF CommandInv, Shape
  <2>2. Matched'  BY <2>0, MatchedStays DEF CommandInv
  <2>3. Suffix => Suffix'  BY <2>0, SuffixStays
  <2>4. Underway'  BY <2>0, <2>3 DEF CommandInv, Underway
  <2>5. exit = 2 => (KubernetesInvalid' <=> KubernetesInvalid)
    <3>1. exit = 2 => pc # "kube"  BY DEF CommandInv, Shape, Running
    <3>2. exit = 2 => kreport' = kreport  BY <3>1, <1>2 DEF RunKubernetes, vars, kubeVars
    <3> QED  BY <3>2 DEF KubernetesInvalid
  <2>6. Ended'  BY <2>0, <2>3, <2>5 DEF CommandInv, Ended
  <2> QED  BY <2>1, <2>2, <2>4, <2>6 DEF CommandInv
<1> QED  BY <1>1, <1>2

LEMMA CommandNextInv == CommandInv /\ [Next]_vars => CommandInv'
<1> SUFFICES ASSUME CommandInv, [Next]_vars PROVE CommandInv'  OBVIOUS
<1>1. CASE Main             BY <1>1, MainInv
<1>2. CASE ParseFlag        BY <1>2, ParseFlagInv
<1>3. CASE BadFlags         BY <1>3, LeavingInv
<1>4. CASE NoTarget         BY <1>4, LeavingInv
<1>5. CASE CheckTarget      BY <1>5, CheckTargetInv
<1>6. CASE RejectTarget     BY <1>6, LeavingInv
<1>7. CASE PrintResults     BY <1>7, PrintResultsInv
<1>8. CASE RunKubernetes    BY <1>8, RunningInv
<1>9. CASE PrintKubernetes  BY <1>9, PrintKubernetesInv
<1>10. CASE Serve           BY <1>10, RunningInv
<1>11. CASE Over            BY <1>11, RunningInv DEF Over
<1>12. CASE UNCHANGED vars  BY <1>12, RunningInv
<1> QED
  BY <1>1, <1>2, <1>3, <1>4, <1>5, <1>6, <1>7, <1>8, <1>9, <1>10, <1>11, <1>12 DEF Next

----------------------------------------------------------------------------
(* CheckKubernetes: where its report comes from. *)

ReportFields ==
  {"distro", "kubeconfig", "certDirs", "server", "apiCheck", "certs", "warnings", "errors"}

KubeShape ==
  /\ kopt \in KubeOption /\ IsNode(node) /\ Charted(node, kopt)
  /\ DOMAIN kreport = ReportFields
  /\ step \in {"resolve", "kubeconfig", "api", "scan", "reported"}
  /\ kreport.certDirs \in Seq(DOMAIN node.dirs)
  /\ scanned \in Nat /\ scanned <= Len(kreport.certDirs)
  /\ step \in {"resolve", "kubeconfig", "api"} => scanned = 0

\* The server and the CAs are those of the kubeconfig in the report.
Configured ==
  /\ step # "resolve" /\ kreport.kubeconfig # "" => kreport.kubeconfig \in DOMAIN node.configs
  /\ step \in {"api", "scan", "reported"} =>
       /\ info = IF kreport.kubeconfig = "" THEN NoInfo
                 ELSE ParseKubeconfig(node.configs[kreport.kubeconfig])
       /\ kreport.server = info.server

\* The API server was checked, or the report says why not.
ApiChecked ==
  /\ step \in {"resolve", "kubeconfig", "api"} => kreport.apiCheck = <<>>
  /\ kreport.apiCheck # <<>> =>
       /\ kreport.server # <<>> /\ kreport.apiCheck = <<kreport.apiCheck[1]>>
       /\ kreport.apiCheck[1] \in Results(kreport.server[1], NoOptions, ClusterCAs)
  /\ step \in {"scan", "reported"} =>
       \/ kopt.skipLive \/ Warned("api-server", "") \/ kreport.errors # {}
       \/ kreport.apiCheck # <<>>

\* What the directories scanned so far add is in the report.
DirsReported ==
  /\ \A i \in 1..scanned :
       LET path == kreport.certDirs[i]
       IN  /\ Scanned(node.dirs[path]) \subseteq kreport.certs
           /\ ScanWarnings(path, node.dirs[path]) \subseteq kreport.warnings
  /\ step = "reported" => kopt.skipCertScan \/ scanned = Len(kreport.certDirs)

KubeInv == KubeShape /\ Configured /\ ApiChecked /\ DirsReported

\* kube ends with 0 behind the gate only after the whole report, when it is valid.
KubeEnded ==
  exit = 0 /\ Kubes /\ flags.end = "parsed" =>
    step = "reported" /\ ~(flags.gate /\ KubernetesInvalid)

\* Two elements in a row are a sequence.
LEMMA PairIsSeq ==
  ASSUME NEW S, NEW a, NEW b, Range(<<a, b>>) \subseteq S PROVE <<a, b>> \in Seq(S)
<1>1. DOMAIN <<a, b>> = 1..2 /\ 1 \in 1..2 /\ 2 \in 1..2  OBVIOUS
<1>2. <<a, b>>[1] = a /\ <<a, b>>[2] = b  OBVIOUS
<1>3. a \in S /\ b \in S  BY <1>1, <1>2 DEF Range
<1> QED  BY <1>3

\* A sequence is one over any set that holds its elements.
LEMMA SeqInto ==
  ASSUME NEW S, NEW T, NEW w \in Seq(T), \A i \in 1..Len(w) : w[i] \in S
  PROVE  Len(w) \in Nat /\ w \in [1..Len(w) -> S]
<1>1. w = [i \in 1..Len(w) |-> w[i]]  OBVIOUS
<1>2. [i \in 1..Len(w) |-> w[i]] \in [1..Len(w) -> S]  OBVIOUS
<1>3. w \in [1..Len(w) -> S]  BY <1>1, <1>2, Zenon
<1> QED  BY <1>3

\* Where a preset points, the node has something to say.
LEMMA PresetCharted ==
  ASSUME kopt \in KubeOption, Charted(node, kopt)
  PROVE  /\ ResolvePreset.certDirs \in Seq(DOMAIN node.dirs)
         /\ ResolvePreset.kubeconfig # "" => ResolvePreset.kubeconfig \in DOMAIN node.configs
<1>1. ASSUME NEW name PROVE Preset(name, "", <<>>).certDirs = <<>> /\ Preset(name, "", <<>>).kubeconfig = ""
  BY DEF Preset
<1>2. \/ ResolvePreset = K3sPreset \/ ResolvePreset = Rke2Preset
      \/ ResolvePreset = Preset("custom", "", <<>>) \/ ResolvePreset = Preset(kopt.distro, "", <<>>)
  <2>1. kopt.distro = "auto" => kopt.distro # "k3s" /\ kopt.distro # "rke2"  OBVIOUS
  <2>2. CASE Unnamed /\ (kopt.kubeconfig # "" \/ kopt.certDirs # <<>>)
    BY <2>1, <2>2 DEF ResolvePreset, Unnamed
  <2>3. CASE Unnamed /\ kopt.kubeconfig = "" /\ kopt.certDirs = <<>>
    BY <2>1, <2>3 DEF ResolvePreset, Unnamed
  <2>4. CASE ~Unnamed
    BY <2>4 DEF ResolvePreset
  <2> QED  BY <2>2, <2>3, <2>4
<1>3. CASE ResolvePreset = K3sPreset \/ ResolvePreset = Rke2Preset
  <2>1. /\ K3sPreset.certDirs \in Seq(DOMAIN node.dirs)
        /\ Rke2Preset.certDirs \in Seq(DOMAIN node.dirs)
    <3>1. /\ K3sPreset.certDirs = <<"k3s/server/tls", "k3s/agent">>
          /\ Rke2Preset.certDirs = <<"rke2/server/tls", "rke2/agent">>
      BY DEF K3sPreset, Rke2Preset, Preset
    <3>2. /\ Range(K3sPreset.certDirs) \subseteq DOMAIN node.dirs
          /\ Range(Rke2Preset.certDirs) \subseteq DOMAIN node.dirs
      BY DEF Charted
    <3> QED  BY <3>1, <3>2, PairIsSeq, Zenon
  <2>2. /\ ResolvePreset.kubeconfig \in {K3sPreset.kubeconfig, Rke2Preset.kubeconfig}
        /\ ResolvePreset.certDirs \in {K3sPreset.certDirs, Rke2Preset.certDirs}
    BY <1>3
  <2>3. ResolvePreset.kubeconfig \in DOMAIN node.configs  BY <2>2 DEF Charted
  <2> QED  BY <2>1, <2>2, <2>3
<1>4. CASE ResolvePreset = Preset("custom", "", <<>>) \/ ResolvePreset = Preset(kopt.distro, "", <<>>)
  <2>1. ResolvePreset.certDirs = <<>> /\ ResolvePreset.kubeconfig = ""  BY <1>1, <1>4
  <2>2. <<>> \in Seq(DOMAIN node.dirs)  OBVIOUS
  <2> QED  BY <2>1, <2>2
<1> QED  BY <1>2, <1>3, <1>4

\* Nothing is reported at the start.
LEMMA KubeInitInv == Init => KubeInv
<1> SUFFICES ASSUME Init PROVE KubeInv  OBVIOUS
<1>1. step = "resolve" /\ scanned = 0 /\ kreport = EmptyReport  BY DEF Init, KubeInit
<1>2. kopt \in KubeOption /\ IsNode(node) /\ Charted(node, kopt)  BY CommandAssumption DEF Init
<1>3. /\ DOMAIN kreport = ReportFields /\ kreport.certDirs = <<>> /\ kreport.apiCheck = <<>>
  BY <1>1 DEF EmptyReport, ReportFields
<1>4. <<>> \in Seq(DOMAIN node.dirs) /\ Len(<<>>) = 0  OBVIOUS
<1>5. KubeShape  BY <1>1, <1>2, <1>3, <1>4 DEF KubeShape
<1>6. Configured /\ ApiChecked /\ DirsReported
  BY <1>1, <1>3 DEF Configured, ApiChecked, DirsReported
<1> QED  BY <1>5, <1>6 DEF KubeInv

\* The steps of main itself leave the report alone.
LEMMA KubeStays == KubeInv /\ UNCHANGED kubeVars => KubeInv'
<1> SUFFICES ASSUME KubeInv, UNCHANGED kubeVars PROVE KubeInv'  OBVIOUS
<1>1. /\ kopt' = kopt /\ node' = node /\ step' = step /\ scanned' = scanned
      /\ info' = info /\ kreport' = kreport
  BY DEF kubeVars
<1>2. KubeShape'     BY <1>1 DEF KubeInv, KubeShape
<1>3. Configured'    BY <1>1 DEF KubeInv, Configured
<1>4. ApiChecked'    BY <1>1 DEF KubeInv, ApiChecked, ClusterCAs, Warned
<1>5. DirsReported'  BY <1>1 DEF KubeInv, DirsReported
<1> QED  BY <1>2, <1>3, <1>4, <1>5 DEF KubeInv

\* Each step of CheckKubernetes keeps what is known of its report.
LEMMA ResolveInv == KubeInv /\ Resolve => KubeInv'
<1> SUFFICES ASSUME KubeInv, Resolve PROVE KubeInv'  OBVIOUS
<1>1. /\ step = "resolve" /\ step' = "kubeconfig" /\ kopt' = kopt /\ node' = node
      /\ scanned' = scanned /\ info' = info /\ scanned = 0
  BY DEF Resolve, KubeInv, KubeShape
<1>2. kopt \in KubeOption /\ IsNode(node) /\ Charted(node, kopt)  BY DEF KubeInv, KubeShape
<1>3. /\ DOMAIN kreport' = ReportFields /\ kreport'.apiCheck = kreport.apiCheck
      /\ kreport'.kubeconfig = IF kopt.kubeconfig # "" THEN kopt.kubeconfig ELSE ResolvePreset.kubeconfig
      /\ kreport'.certDirs = IF kopt.certDirs # <<>> THEN kopt.certDirs ELSE ResolvePreset.certDirs
  BY DEF Resolve, KubeInv, KubeShape, ReportFields
<1>4. kopt.certDirs \in Seq(STRING)  BY <1>2 DEF KubeOption
<1>5. /\ kopt.certDirs \in Seq(DOMAIN node.dirs)
      /\ kopt.kubeconfig # "" => kopt.kubeconfig \in DOMAIN node.configs
  <2>1. /\ Range(kopt.certDirs) \subseteq DOMAIN node.dirs
        /\ kopt.kubeconfig # "" => kopt.kubeconfig \in DOMAIN node.configs
    BY <1>2 DEF Charted
  <2>2. DOMAIN kopt.certDirs = 1..Len(kopt.certDirs)  BY <1>4
  <2>3. \A i \in 1..Len(kopt.certDirs) : kopt.certDirs[i] \in DOMAIN node.dirs
    BY <2>1, <2>2 DEF Range
  <2>4. /\ Len(kopt.certDirs) \in Nat
        /\ kopt.certDirs \in [1..Len(kopt.certDirs) -> DOMAIN node.dirs]
    BY <1>4, <2>3, SeqInto
  <2>5. kopt.certDirs \in Seq(DOMAIN node.dirs)  BY <2>4, SeqDef
  <2> QED  BY <2>1, <2>5
<1>6. /\ kreport'.certDirs \in Seq(DOMAIN node.dirs)
      /\ kreport'.kubeconfig # "" => kreport'.kubeconfig \in DOMAIN node.configs
  BY <1>2, <1>3, <1>4, <1>5, PresetCharted
<1>7. KubeShape'
  <2>1. \A dirs \in Seq(DOMAIN node.dirs) : 0 <= Len(dirs)  OBVIOUS
  <2>2. 0 <= Len(kreport'.certDirs)  BY <1>6, <2>1
  <2> QED  BY <1>1, <1>2, <1>3, <1>6, <2>2 DEF KubeShape
<1>8. Configured'  BY <1>1, <1>6 DEF Configured
<1>9. ApiChecked'  BY <1>1, <1>3 DEF KubeInv, ApiChecked
<1>10. DirsReported'  BY <1>1 DEF DirsReported
<1> QED  BY <1>7, <1>8, <1>9, <1>10 DEF KubeInv

LEMMA ReadKubeconfigInv == KubeInv /\ ReadKubeconfig => KubeInv'
<1> SUFFICES ASSUME KubeInv, ReadKubeconfig PROVE KubeInv'  OBVIOUS
<1>1. /\ step = "kubeconfig" /\ step' = "api" /\ kopt' = kopt /\ node' = node
      /\ scanned' = scanned /\ scanned = 0
      /\ info' = IF kreport.kubeconfig = "" THEN NoInfo
                 ELSE ParseKubeconfig(node.configs[kreport.kubeconfig])
  BY DEF ReadKubeconfig, KubeInv, KubeShape
<1>2. /\ DOMAIN kreport' = ReportFields /\ kreport'.apiCheck = kreport.apiCheck
      /\ kreport'.kubeconfig = kreport.kubeconfig /\ kreport'.certDirs = kreport.certDirs
      /\ kreport'.server = info'.server
  BY DEF ReadKubeconfig, KubeInv, KubeShape, ReportFields
<1>3. KubeShape'  BY <1>1, <1>2 DEF KubeInv, KubeShape
<1>4. Configured'  BY <1>1, <1>2 DEF KubeInv, Configured
<1>5. ApiChecked'  BY <1>1, <1>2 DEF KubeInv, ApiChecked
<1>6. DirsReported'
  <2>1. scanned' = 0 /\ step' # "reported"  BY <1>1
  <2>2. \A i \in 1..0 : FALSE  OBVIOUS
  <2> QED  BY <2>1, <2>2 DEF DirsReported
<1> QED  BY <1>3, <1>4, <1>5, <1>6 DEF KubeInv

LEMMA ApiInv == KubeInv /\ (CheckApi \/ NoApi) => KubeInv'
<1> SUFFICES ASSUME KubeInv, CheckApi \/ NoApi PROVE KubeInv'  OBVIOUS
<1>1. /\ step = "api" /\ step' = "scan" /\ kopt' = kopt /\ node' = node /\ scanned' = scanned
      /\ info' = info /\ scanned = 0 /\ kreport.apiCheck = <<>> /\ DOMAIN kreport = ReportFields
  BY DEF CheckApi, NoApi, KubeInv, KubeShape, ApiChecked
<1>2. /\ DOMAIN kreport' = ReportFields /\ kreport'.kubeconfig = kreport.kubeconfig
      /\ kreport'.certDirs = kreport.certDirs /\ kreport'.server = kreport.server
  BY <1>1 DEF CheckApi, NoApi, ReportFields
<1>3. KubeShape'  BY <1>1, <1>2 DEF KubeInv, KubeShape
<1>4. Configured'  BY <1>1, <1>2 DEF KubeInv, Configured
<1>5. DirsReported'  BY <1>1 DEF DirsReported
<1>6. ApiChecked'
  <2> DEFINE server == kreport.server[1]
  <2>1. CASE NoApi
    <3>1. /\ kreport'.apiCheck = kreport.apiCheck
          /\ kreport'.warnings = kreport.warnings \cup
               IF kopt.skipLive THEN {} ELSE {Warning("api-server", "")}
      BY <2>1, <1>1 DEF NoApi, ReportFields
    <3>2. kopt'.skipLive \/ Warned("api-server", "")'  BY <3>1, <1>1 DEF Warned
    <3> QED  BY <3>1, <3>2, <1>1 DEF ApiChecked
  <2>2. CASE CheckApi /\ Rejects(server, NoOptions)
    <3>1. kreport' = [kreport EXCEPT !.errors = {"api-server"}]  BY <2>2 DEF CheckApi
    <3>2. kreport'.errors # {} /\ kreport'.apiCheck = kreport.apiCheck
      BY <3>1, <1>1 DEF ReportFields
    <3> QED  BY <3>2, <1>1 DEF ApiChecked
  <2>3. CASE CheckApi /\ ~Rejects(server, NoOptions)
    <3>1. PICK r \in Results(server, NoOptions, ClusterCAs) : kreport' = [kreport EXCEPT !.apiCheck = <<r>>]
      BY <2>3 DEF CheckApi
    <3>2. kreport'.apiCheck = <<r>> /\ kreport.server # <<>>
      BY <3>1, <2>3, <1>1 DEF CheckApi, ReportFields
    <3>3. kreport'.apiCheck # <<>> /\ kreport'.apiCheck[1] = r  BY <3>2
    <3>4. ClusterCAs' = ClusterCAs  BY <1>1 DEF ClusterCAs
    <3> QED  BY <3>1, <3>2, <3>3, <3>4, <1>1, <1>2 DEF ApiChecked
  <2> QED  BY <2>1, <2>2, <2>3
<1> QED  BY <1>3, <1>4, <1>5, <1>6 DEF KubeInv

LEMMA ScanDirInv == KubeInv /\ ScanDir => KubeInv'
<1> SUFFICES ASSUME KubeInv, ScanDir PROVE KubeInv'  OBVIOUS
<1> DEFINE path == kreport.certDirs[scanned + 1]
<1>1. /\ step = "scan" /\ step' = step /\ kopt' = kopt /\ node' = node /\ info' = info
      /\ scanned' = scanned + 1 /\ scanned < Len(kreport.certDirs) /\ DOMAIN kreport = ReportFields
  BY DEF ScanDir, KubeInv, KubeShape
<1>2. kreport' = [kreport EXCEPT !.certs    = @ \cup Scanned(node.dirs[path]),
                                 !.warnings = @ \cup ScanWarnings(path, node.dirs[path])]
  BY <1>1 DEF ScanDir
<1>3. /\ DOMAIN kreport' = ReportFields /\ kreport'.kubeconfig = kreport.kubeconfig
      /\ kreport'.certDirs = kreport.certDirs /\ kreport'.server = kreport.server
      /\ kreport'.apiCheck = kreport.apiCheck /\ kreport'.errors = kreport.errors
      /\ kreport'.certs = kreport.certs \cup Scanned(node.dirs[path])
      /\ kreport'.warnings = kreport.warnings \cup ScanWarnings(path, node.dirs[path])
  BY <1>1, <1>2 DEF ReportFields
<1>4. scanned \in Nat /\ kreport.certDirs \in Seq(DOMAIN node.dirs)  BY DEF KubeInv, KubeShape
<1>5. KubeShape'
  <2>1. scanned' \in Nat /\ scanned' <= Len(kreport'.certDirs)  BY <1>1, <1>3, <1>4
  <2> QED  BY <1>1, <1>3, <2>1 DEF KubeInv, KubeShape
<1>6. Configured'  BY <1>1, <1>3 DEF KubeInv, Configured
<1>7. ApiChecked'
  <2>1. ClusterCAs' = ClusterCAs  BY <1>1 DEF ClusterCAs
  <2>2. Warned("api-server", "") => Warned("api-server", "")'  BY <1>3 DEF Warned
  <2> QED  BY <1>1, <1>3, <2>1, <2>2 DEF KubeInv, ApiChecked
<1>8. DirsReported'
  <2>1. \A i \in 1..scanned' : i \in 1..scanned \/ i = scanned + 1  BY <1>1, <1>4
  <2> QED  BY <2>1, <1>1, <1>3 DEF KubeInv, DirsReported
<1> QED  BY <1>5, <1>6, <1>7, <1>8 DEF KubeInv

LEMMA ReportedInv == KubeInv /\ Reported => KubeInv'
<1> SUFFICES ASSUME KubeInv, Reported PROVE KubeInv'  OBVIOUS
<1>1. /\ step = "scan" /\ step' = "reported" /\ kopt' = kopt /\ node' = node /\ info' = info
      /\ scanned' = scanned /\ kreport' = kreport
      /\ kopt.skipCertScan \/ scanned = Len(kreport.certDirs)
  BY DEF Reported
<1>2. KubeShape'     BY <1>1 DEF KubeInv, KubeShape
<1>3. Configured'    BY <1>1 DEF KubeInv, Configured
<1>4. ApiChecked'    BY <1>1 DEF KubeInv, ApiChecked, ClusterCAs, Warned
<1>5. DirsReported'  BY <1>1 DEF KubeInv, DirsReported
<1> QED  BY <1>2, <1>3, <1>4, <1>5 DEF KubeInv

\* Only RunKubernetes touches the report.
LEMMA KubeNextInv == KubeInv /\ [Next]_vars => KubeInv'
<1> SUFFICES ASSUME KubeInv, [Next]_vars PROVE KubeInv'  OBVIOUS
<1>1. CASE RunKubernetes
  BY <1>1, ResolveInv, ReadKubeconfigInv, ApiInv, ScanDirInv, ReportedInv
     DEF RunKubernetes, CheckKubernetes
<1>2. CASE ~RunKubernetes
  <2>1. UNCHANGED kubeVars
    BY <1>2 DEF Next, Main, ParseFlag, BadFlags, NoTarget, CheckTarget, RejectTarget, PrintResults,
                PrintKubernetes, Serve, Over, vars
  <2> QED  BY <2>1, KubeStays
<1> QED  BY <1>1, <1>2

\* kube ends with 0 by printing its report, or by asking for help.
LEMMA KubeEndedInv ==
  ASSUME CommandInv, KubeInv, KubeEnded, [Next]_vars
  PROVE  KubeEnded'
<1> SUFFICES ASSUME exit' = 0, Kubes', flags'.end = "parsed"
             PROVE  step' = "reported" /\ ~(flags'.gate /\ KubernetesInvalid')
  BY DEF KubeEnded
<1>1. line' = line
  BY DEF Next, Main, ParseFlag, BadFlags, NoTarget, CheckTarget, RejectTarget, PrintResults,
         RunKubernetes, PrintKubernetes, Serve, Over, vars, commandVars
<1>2. Kubes /\ ~Checks  BY <1>1, KubeIsNotCheck DEF Kubes
<1>3. pc # "exited" => exit # 0  BY DEF CommandInv, Shape, Running
<1>4. CASE UNCHANGED vars
  BY <1>2, <1>4 DEF KubeEnded, KubernetesInvalid, vars, commandVars, kubeVars
<1>5. CASE Main
  <2>1. line[1] \in KubeNames /\ line # <<>>  BY <1>2 DEF Kubes
  <2>2. line[1] # Word("version") /\ line[1] # Word("help")
    BY <2>1, WordsDiffer DEF KubeNames
  <2>3. pc = "main" /\ (exit' = exit \/ exit' = 1)
    BY <2>1, <2>2, <1>5 DEF Main, Exit, Goto
  <2> QED  BY <2>3, <1>3
<1>6. CASE PrintResults
  BY <1>6, <1>2 DEF PrintResults, CommandInv, Underway
<1>7. CASE PrintKubernetes
  <2>1. /\ step = "reported" /\ step' = step /\ kreport' = kreport /\ flags' = flags
        /\ Finish(<<kreport>>, KubernetesInvalid)
    BY <1>7 DEF PrintKubernetes, kubeVars
  <2>2. ~(flags.gate /\ KubernetesInvalid)
    <3> HIDE DEF KubernetesInvalid
    <3> QED  BY <2>1 DEF Finish, Exit
  <2> QED  BY <2>1, <2>2 DEF KubernetesInvalid
<1>8. CASE BadFlags
  BY <1>8, <1>3 DEF BadFlags, Exit
<1>9. CASE ParseFlag \/ NoTarget \/ CheckTarget \/ RejectTarget \/ RunKubernetes \/ Serve
  <2>1. pc # "exited" /\ (exit' = exit \/ exit' = 1)
    BY <1>9 DEF ParseFlag, NoTarget, CheckTarget, RejectTarget, RunKubernetes, Serve,
                commandVars, Exit, Goto, Looping
  <2> QED  BY <2>1, <1>3
<1> QED  BY <1>4, <1>5, <1>6, <1>7, <1>8, <1>9 DEF Next, Over

\* anyInvalid stays true or false.
LEMMA FlagStays == anyInvalid \in BOOLEAN /\ [Next]_vars => (anyInvalid \in BOOLEAN)'
BY DEF Next, Main, ParseFlag, BadFlags, NoTarget, CheckTarget, RejectTarget, PrintResults, Flags,
       RunKubernetes, PrintKubernetes, Serve, Over, vars, commandVars

\* Everything known of main and of CheckKubernetes.
KubeInvariants == CommandInv /\ KubeInv /\ KubeEnded /\ anyInvalid \in BOOLEAN

\* All of it together is an invariant of the program.
LEMMA KubeInvariant == Spec => []KubeInvariants
<1>1. Init => CommandInv /\ KubeInv  BY CommandInitInv, KubeInitInv
<1>2. Init => KubeEnded
  <2>1. 0 # Running  BY DEF Running
  <2> QED  BY <2>1 DEF Init, KubeEnded
<1>4. Init => anyInvalid \in BOOLEAN  BY DEF Init
<1>3. KubeInvariants /\ [Next]_vars => KubeInvariants'
  BY CommandNextInv, KubeNextInv, KubeEndedInv, FlagStays DEF KubeInvariants
<1> QED  BY <1>1, <1>2, <1>3, <1>4, PTL DEF Spec, KubeInvariants

\* What the invariants say of TypeOK, NothingHidden and OwnCluster.
LEMMA TypesFromInv == KubeInvariants => TypeOK
<1> SUFFICES ASSUME KubeInvariants PROVE TypeOK  OBVIOUS
<1>1. /\ flags.end \in {"", "parsed", "help", "error"} /\ flags.gate \in BOOLEAN
      /\ flags.format \in {"text", "json", "xml"} /\ anyInvalid \in BOOLEAN
  BY DEF KubeInvariants, CommandInv, Shape, FlagSet
<1>2. exit \in {Running, 0, 1, 2} /\ (exit # Running <=> pc = "exited")
  BY DEF KubeInvariants, CommandInv, Shape
<1> QED  BY <1>1, <1>2 DEF TypeOK, KubeInvariants, CommandInv, Shape, Matched, KubeInv, KubeShape

\* A sequence of one has a first element.
LEMMA FirstOfOne == ASSUME NEW x PROVE 1 \in DOMAIN <<x>>
OBVIOUS

\* A valid report says why the API server was not checked, or that it was verified.
LEMMA ApiAnswered ==
  ASSUME KubeInv, step = "reported", ~KubernetesInvalid
  PROVE  \/ kopt.skipLive \/ Warned("api-server", "")
         \/ \E r \in Range(kreport.apiCheck) : Verified(r) \/ r.target.scheme = "http"
<1> SUFFICES ASSUME ~kopt.skipLive, ~Warned("api-server", "")
             PROVE  \E r \in Range(kreport.apiCheck) : Verified(r) \/ r.target.scheme = "http"
  OBVIOUS
<1> DEFINE r == kreport.apiCheck[1]
<1> DEFINE word == kreport.server[1]
<1>1. kreport.errors = {} /\ \A i \in DOMAIN kreport.apiCheck : ~Invalid(kreport.apiCheck[i])
  BY DEF KubernetesInvalid
<1>2. /\ kreport.apiCheck = <<r>> /\ r \in Results(word, NoOptions, ClusterCAs)
  BY <1>1 DEF KubeInv, ApiChecked
<1>3. 1 \in DOMAIN kreport.apiCheck
  <2> HIDE DEF r
  <2> QED  BY <1>2, FirstOfOne
<1>4. ~Invalid(r) /\ r \in Range(kreport.apiCheck)  BY <1>1, <1>3 DEF Range
<1>5. r.target = word /\ (r.attempted <=> word.scheme # "http")
  BY <1>2 DEF Results, NoOptions, Promised
<1>6. Verified(r) \/ r.target.scheme = "http"  BY <1>4, <1>5 DEF Invalid, Verified
<1> QED  BY <1>4, <1>6

\* A file without a garbled block gives its certificates, or none.
LEMMA CertificatesOf ==
  ASSUME NEW f \in File, ReadCertificates(f) # <<>>
  PROVE  \/ /\ CertBlocks(f) = <<>> /\ f.der # <<>> /\ ReadCertificates(f) = f.der
         \/ /\ CertBlocks(f) # <<>> /\ \A i \in DOMAIN CertBlocks(f) : CertBlocks(f)[i].cert # <<>>
            /\ ReadCertificates(f) = [i \in DOMAIN CertBlocks(f) |-> CertBlocks(f)[i].cert[1]]
<1>1. CASE ~f.readable \/ Garbled(f)
  <2>1. CertBlocks(f) = <<>> => ~Garbled(f)
    <3>1. DOMAIN <<>> = {}  OBVIOUS
    <3> QED  BY <3>1, Zenon DEF Garbled
  <2>2. ReadCertificates(f) = <<>>  BY <1>1, <2>1 DEF ReadCertificates
  <2> QED  BY <2>2
<1>2. CASE f.readable /\ ~Garbled(f) /\ CertBlocks(f) = <<>>
  <2>1. ReadCertificates(f) = f.der  BY <1>2 DEF ReadCertificates
  <2> QED  BY <1>2, <2>1
<1>3. CASE f.readable /\ ~Garbled(f) /\ CertBlocks(f) # <<>>
  <2>1. ReadCertificates(f) = [i \in DOMAIN CertBlocks(f) |-> CertBlocks(f)[i].cert[1]]
    BY <1>3 DEF ReadCertificates
  <2>2. \A i \in DOMAIN CertBlocks(f) : CertBlocks(f)[i].cert # <<>>  BY <1>3 DEF Garbled
  <2> QED  BY <1>3, <2>1, <2>2
<1> QED  BY <1>1, <1>2, <1>3

\* Once a directory is scanned, each of its certificate files is listed or named.
LEMMA FileReported ==
  ASSUME NEW dir, dir.kind = "dir", NEW path, NEW f \in Files(dir), f \in File,
         Scanned(dir) \subseteq kreport.certs, ScanWarnings(path, dir) \subseteq kreport.warnings
  PROVE  Warned("file", f.path) \/ Listed(f)
<1>1. f \in dir.files /\ f.kind = "file" /\ IsCertFile(f)  BY DEF Files
<1> DEFINE Cert(i) == [path |-> f.path, index |-> i, status |-> Status(ReadCertificates(f)[i])]
<1>2. CASE ReadCertificates(f) = <<>>
  <2> DEFINE Named == {g \in dir.files : g.kind = "blocked" \/ (IsCertFile(g) /\ ReadCertificates(g) = <<>>)}
  <2>1. f \in Named  BY <1>1, <1>2
  <2>2. ScanWarnings(path, dir) = {Warning("file", g.path) : g \in Named}  BY DEF ScanWarnings
  <2>3. Warning("file", f.path) \in ScanWarnings(path, dir)
    <3> HIDE DEF Named
    <3> QED  BY <2>1, <2>2
  <2> QED  BY <2>3 DEF Warned
<1>3. CASE ReadCertificates(f) # <<>>
  <2>1. \A i \in DOMAIN ReadCertificates(f) : Cert(i) \in kreport.certs
    <3> SUFFICES ASSUME NEW i \in DOMAIN ReadCertificates(f) PROVE Cert(i) \in kreport.certs  OBVIOUS
    <3> DEFINE files == {g \in dir.files : g.kind = "file" /\ IsCertFile(g)}
    <3> DEFINE Of(g) == {[path |-> g.path, index |-> j, status |-> Status(ReadCertificates(g)[j])] :
                           j \in DOMAIN ReadCertificates(g)}
    <3>1. f \in files  BY <1>1
    <3>2. Cert(i) \in Of(f)  OBVIOUS
    <3>3. Scanned(dir) = UNION {Of(g) : g \in files}  BY DEF Scanned
    <3>4. Cert(i) \in Scanned(dir)
      <4> HIDE DEF files, Of, Cert
      <4> QED  BY <3>1, <3>2, <3>3
    <3> QED  BY <3>4
  <2>2. CASE CertBlocks(f) = <<>> /\ f.der # <<>> /\ ReadCertificates(f) = f.der
    <3>1. f.der \in Seq(Certificate)  BY DEF File
    <3>2. 1 \in DOMAIN f.der  BY <3>1, <2>2
    <3>3. Cert(1) \in kreport.certs  BY <2>1, <2>2, <3>2
    <3> QED  BY <2>2, <3>3 DEF Listed
  <2>3. CASE /\ CertBlocks(f) # <<>> /\ \A i \in DOMAIN CertBlocks(f) : CertBlocks(f)[i].cert # <<>>
             /\ ReadCertificates(f) = [i \in DOMAIN CertBlocks(f) |-> CertBlocks(f)[i].cert[1]]
    <3>1. \A i \in DOMAIN CertBlocks(f) :
            /\ i \in DOMAIN ReadCertificates(f)
            /\ ReadCertificates(f)[i] = CertBlocks(f)[i].cert[1]
      BY <2>3
    <3>2. \A i \in DOMAIN CertBlocks(f) :
            [path |-> f.path, index |-> i, status |-> Status(CertBlocks(f)[i].cert[1])] \in kreport.certs
      BY <2>1, <3>1
    <3> QED  BY <2>3, <3>2 DEF Listed
  <2> QED  BY <1>3, <2>2, <2>3, CertificatesOf
<1> QED  BY <1>2, <1>3

\* The report of a kube that ends with 0 is complete and valid.
LEMMA NothingHiddenFromInv == KubeInvariants => NothingHidden
<1> SUFFICES ASSUME KubeInvariants, exit = 0, Kubes, flags.end = "parsed", flags.gate
             PROVE  /\ \/ kopt.skipLive \/ Warned("api-server", "")
                       \/ \E r \in Range(kreport.apiCheck) : Verified(r) \/ r.target.scheme = "http"
                    /\ kopt.skipCertScan \/ \A path \in Range(kreport.certDirs) :
                         CASE node.dirs[path].kind = "dir" ->
                                \A f \in Files(node.dirs[path]) :
                                  \/ Warned("file", f.path)
                                  \/ Listed(f) /\ \A c \in kreport.certs : c.path = f.path => c.status = "valid"
                           [] node.dirs[path].kind = "link" -> TRUE
                           [] OTHER -> Warned("cert-dir", path)
  BY DEF NothingHidden
<1>1. KubeInv /\ step = "reported" /\ ~KubernetesInvalid  BY DEF KubeInvariants, KubeEnded
<1>2. \A c \in kreport.certs : c.status = "valid"  BY <1>1 DEF KubernetesInvalid
<1>3. ASSUME ~kopt.skipCertScan, NEW path \in Range(kreport.certDirs)
      PROVE  CASE node.dirs[path].kind = "dir" ->
                    \A f \in Files(node.dirs[path]) :
                      \/ Warned("file", f.path)
                      \/ Listed(f) /\ \A c \in kreport.certs : c.path = f.path => c.status = "valid"
               [] node.dirs[path].kind = "link" -> TRUE
               [] OTHER -> Warned("cert-dir", path)
  <2> DEFINE dir == node.dirs[path]
  <2>1. /\ kreport.certDirs \in Seq(DOMAIN node.dirs) /\ scanned = Len(kreport.certDirs)
        /\ IsNode(node)
    BY <1>1, <1>3 DEF KubeInv, KubeShape, DirsReported
  <2>2. DOMAIN kreport.certDirs = 1..scanned  BY <2>1
  <2>3. PICK i \in 1..scanned : kreport.certDirs[i] = path  BY <2>2 DEF Range
  <2>4. path \in DOMAIN node.dirs  BY <2>1, <2>2, <2>3
  <2>5. Scanned(dir) \subseteq kreport.certs /\ ScanWarnings(path, dir) \subseteq kreport.warnings
    BY <1>1, <2>3 DEF KubeInv, DirsReported
  <2>6. dir \in Range(node.dirs)  BY <2>4 DEF Range
  <2>7. dir.kind \in {"missing", "file", "link", "dir"} /\ \A f \in dir.files : f \in File
    BY <2>1, <2>6 DEF IsNode
  <2> HIDE DEF dir
  <2>8. CASE dir.kind = "dir"
    <3>1. \A f \in Files(dir) : f \in File  BY <2>7 DEF Files
    <3>2. \A f \in Files(dir) : Warned("file", f.path) \/ Listed(f)
      BY <2>5, <2>8, <3>1, FileReported
    <3> QED  BY <1>2, <2>8, <3>2 DEF dir
  <2>9. CASE dir.kind = "link"
    BY <2>9 DEF dir
  <2>10. CASE dir.kind \in {"missing", "file"}
    <3>1. ScanWarnings(path, dir) = {Warning("cert-dir", path)}  BY <2>10 DEF ScanWarnings
    <3>2. Warned("cert-dir", path)  BY <2>5, <3>1 DEF Warned
    <3> QED  BY <2>10, <3>2 DEF dir
  <2> QED  BY <2>7, <2>8, <2>9, <2>10
<1> QED  BY <1>1, <1>3, ApiAnswered

----------------------------------------------------------------------------
(* The lines that parseKubeconfig picks. *)

\* A set of numbers that is not empty has a least one.
LEMMA MinIsLeast ==
  ASSUME NEW S, S \subseteq Nat, S # {}
  PROVE  Min(S) \in S /\ \A y \in S : Min(S) <= y
<1> DEFINE R == {ss \in Nat \X Nat : ss[1] < ss[2]}
<1>1. R = OpToRel(<, Nat)  BY Zenon DEF OpToRel
<1>2. IsWellFoundedOn(R, Nat)  BY <1>1, NatLessThanWellFounded, Zenon
<1>3. PICK x \in S : \A y \in S : ~ (<<y, x>> \in R)
  <2> HIDE DEF R
  <2> QED  BY <1>2, WFMin
<1>4. \A y \in S : x <= y
  <2> SUFFICES ASSUME NEW y \in S PROVE x <= y  OBVIOUS
  <2>1. y \in Nat /\ x \in Nat /\ <<y, x>> \notin R  BY <1>3
  <2>2. ~(y < x)
    <3>1. <<y, x>> \in Nat \X Nat /\ <<y, x>>[1] = y /\ <<y, x>>[2] = x  BY <2>1
    <3> QED  BY <2>1, <3>1
  <2> QED  BY <2>1, <2>2
<1> QED  BY <1>4 DEF Min

\* The keys that cluster n fills in.
Filled(lines, n) == {l.key : l \in Cluster(lines, n)}

\* All clusters fill in the same keys.
SameKeys(lines) ==
  \A k, l \in Range(lines) : Filled(lines, k.cluster) = Filled(lines, l.cluster)

\* What the cluster fills in for the key.
ValuesOf(lines, n, key) == {m.value[1] : m \in {k \in Cluster(lines, n) : k.key = key}}

\* A key that a cluster fills in has a line there.
LEMMA LineOfKey ==
  ASSUME NEW lines, NEW n, NEW key \in Filled(lines, n)
  PROVE  \E i \in DOMAIN lines : lines[i].cluster = n /\ lines[i].key = key /\ lines[i].value # <<>>
<1>1. PICK l \in Cluster(lines, n) : l.key = key  BY DEF Filled
<1>2. PICK i \in DOMAIN lines : lines[i] = l  BY DEF Cluster, Range
<1> QED  BY <1>1, <1>2 DEF Cluster

\* The first line with a value for a key is one of the lines of that key.
LEMMA FirstLine ==
  ASSUME NEW config, IsConfig(config), NEW key, Valued(config.lines, key) # {}
  PROVE  LET first == Min(Valued(config.lines, key))
         IN  /\ first \in DOMAIN config.lines /\ first \in Nat
             /\ config.lines[first].key = key /\ config.lines[first].value # <<>>
             /\ FirstValue(config.lines, key) = config.lines[first].value
             /\ \A i \in DOMAIN config.lines :
                  config.lines[i].key = key /\ config.lines[i].value # <<>> => first <= i
<1> DEFINE V == Valued(config.lines, key)
<1>1. V \subseteq Nat /\ V # {}  BY DEF IsConfig, Valued
<1>2. Min(V) \in V /\ \A y \in V : Min(V) <= y
  <2> HIDE DEF V
  <2> QED  BY <1>1, MinIsLeast
<1>3. FirstValue(config.lines, key) = config.lines[Min(V)].value  BY DEF FirstValue
<1> QED  BY <1>1, <1>2, <1>3 DEF Valued

\* When the clusters fill in the same keys, the first lines of two keys are of one cluster.
LEMMA OneCluster ==
  ASSUME NEW config, IsConfig(config), NEW a, NEW b,
         Valued(config.lines, a) # {}, Valued(config.lines, b) # {},
         SameKeys(config.lines)
  PROVE  config.lines[Min(Valued(config.lines, a))].cluster
           = config.lines[Min(Valued(config.lines, b))].cluster
<1> DEFINE lines == config.lines
           i == Min(Valued(lines, a))
           j == Min(Valued(lines, b))
<1>1. /\ i \in DOMAIN lines /\ i \in Nat /\ lines[i].key = a /\ lines[i].value # <<>>
      /\ \A n \in DOMAIN lines : lines[n].key = a /\ lines[n].value # <<>> => i <= n
  BY FirstLine
<1>2. /\ j \in DOMAIN lines /\ j \in Nat /\ lines[j].key = b /\ lines[j].value # <<>>
      /\ \A n \in DOMAIN lines : lines[n].key = b /\ lines[n].value # <<>> => j <= n
  BY FirstLine
<1>3. /\ \A n \in DOMAIN lines : n \in Nat /\ lines[n].cluster \in Nat
      /\ \A m, n \in DOMAIN lines : m < n => lines[m].cluster <= lines[n].cluster
  BY DEF IsConfig, IsLine
<1> HIDE DEF i, j
<1>4. Filled(lines, lines[i].cluster) = Filled(lines, lines[j].cluster)
  BY <1>1, <1>2 DEF Range, SameKeys
<1>5. a \in Filled(lines, lines[i].cluster) /\ b \in Filled(lines, lines[j].cluster)
  BY <1>1, <1>2 DEF Filled, Cluster, Range
<1>6. PICK m \in DOMAIN lines : lines[m].cluster = lines[j].cluster /\ lines[m].key = a /\ lines[m].value # <<>>
  BY <1>4, <1>5, LineOfKey
<1>7. PICK n \in DOMAIN lines : lines[n].cluster = lines[i].cluster /\ lines[n].key = b /\ lines[n].value # <<>>
  BY <1>4, <1>5, LineOfKey
<1>8. i <= m /\ j <= n  BY <1>1, <1>2, <1>6, <1>7
<1>9. lines[i].cluster <= lines[m].cluster /\ lines[j].cluster <= lines[n].cluster
  BY <1>1, <1>2, <1>3, <1>6, <1>7, <1>8
<1>10. lines[i].cluster = lines[j].cluster  BY <1>1, <1>2, <1>3, <1>6, <1>7, <1>9
<1> QED  BY <1>10 DEF i, j

\* A cluster has one line for a key, and its values are sequences of one.
LEMMA LineOfCluster ==
  ASSUME NEW config, IsConfig(config), NEW i \in DOMAIN config.lines, NEW j \in DOMAIN config.lines,
         config.lines[i].cluster = config.lines[j].cluster, config.lines[i].key = config.lines[j].key
  PROVE  i = j
<1>1. i \in Nat /\ j \in Nat /\ ~(i < j) /\ ~(j < i)  BY DEF IsConfig
<1> QED  BY <1>1

\* A sequence of one holds that one.
LEMMA RangeOfOne == ASSUME NEW x PROVE Range(<<x>>) = {x}
<1>1. DOMAIN <<x>> = {1} /\ <<x>>[1] = x  OBVIOUS
<1> QED  BY <1>1 DEF Range

\* Every line of the picked cluster that has a value is the one parseKubeconfig takes.
LEMMA PickedFrom ==
  ASSUME NEW config, IsConfig(config), NEW a, NEW b,
         Valued(config.lines, a) # {},
         SameKeys(config.lines),
         NEW n, n = config.lines[Min(Valued(config.lines, a))].cluster
  PROVE  Range(FirstValue(config.lines, b)) = ValuesOf(config.lines, n, b)
<1> DEFINE lines == config.lines
           Own   == {k \in Cluster(lines, n) : k.key = b}
           j     == Min(Valued(lines, b))
<1>1. \A k \in Own : \E i \in DOMAIN lines :
        k = lines[i] /\ lines[i].cluster = n /\ lines[i].key = b /\ lines[i].value # <<>>
  BY DEF Cluster, Range
<1>2. CASE Valued(lines, b) = {}
  <2>1. Range(FirstValue(lines, b)) = {}
    <3>1. FirstValue(lines, b) = <<>>  BY <1>2 DEF FirstValue
    <3>2. DOMAIN <<>> = {}  OBVIOUS
    <3> QED  BY <3>1, <3>2 DEF Range
  <2>2. Own = {}
    <3> HIDE DEF Own
    <3> QED  BY <1>1, <1>2 DEF Valued
  <2> QED  BY <2>1, <2>2 DEF ValuesOf
<1>3. CASE Valued(lines, b) # {}
  <2>1. /\ j \in DOMAIN lines /\ lines[j].key = b /\ lines[j].value # <<>>
        /\ FirstValue(lines, b) = lines[j].value
    BY <1>3, FirstLine
  <2>2. lines[j].cluster = n  BY <1>3, OneCluster
  <2> HIDE DEF j
  <2>3. lines[j] \in Own  BY <2>1, <2>2 DEF Cluster, Range
  <2>4. \A k \in Own : k = lines[j]
    <3> SUFFICES ASSUME NEW k \in Own PROVE k = lines[j]  OBVIOUS
    <3>1. PICK i \in DOMAIN lines : k = lines[i] /\ lines[i].cluster = n /\ lines[i].key = b
      BY <1>1
    <3>2. i = j  BY <2>1, <2>2, <3>1, LineOfCluster
    <3> QED  BY <3>1, <3>2
  <2>5. {m.value[1] : m \in Own} = {lines[j].value[1]}
    <3> HIDE DEF Own
    <3> QED  BY <2>3, <2>4
  <2>6. lines[j].value = <<lines[j].value[1]>>  BY <2>1 DEF IsConfig, IsLine
  <2>7. Range(lines[j].value) = {lines[j].value[1]}  BY <2>6, RangeOfOne, Zenon
  <2> QED  BY <2>1, <2>5, <2>7 DEF ValuesOf
<1> QED  BY <1>2, <1>3

\* The CAs of the picked lines are those of the server's cluster.
LEMMA PickedTogether ==
  ASSUME NEW config, IsConfig(config), FirstValue(config.lines, "server") # <<>>,
         SameKeys(config.lines)
  PROVE  \E l \in Range(config.lines) :
           /\ l.key = "server" /\ l.value = FirstValue(config.lines, "server")
           /\ l.value = <<l.value[1]>>
           /\ Range(FirstValue(config.lines, "certificate-authority"))
                 \cup Range(CAData(config.lines))
               = {m.value[1] : m \in {k \in Cluster(config.lines, l.cluster) : k.key # "server"}}
<1> DEFINE lines == config.lines
           s     == Min(Valued(lines, "server"))
           Own(key) == {k \in Cluster(lines, lines[s].cluster) : k.key = key}
           Rest  == {k \in Cluster(lines, lines[s].cluster) : k.key # "server"}
<1>1. Valued(lines, "server") # {}  BY DEF FirstValue
<1>2. /\ s \in DOMAIN lines /\ lines[s].key = "server" /\ lines[s].value # <<>>
      /\ FirstValue(lines, "server") = lines[s].value
  BY <1>1, FirstLine
<1>3. lines[s].value = <<lines[s].value[1]>>  BY <1>2 DEF IsConfig, IsLine
<1>4. /\ Range(FirstValue(lines, "certificate-authority"))
            = {m.value[1] : m \in Own("certificate-authority")}
      /\ Range(CAData(lines)) = {m.value[1] : m \in Own("certificate-authority-data")}
  <2> DEFINE n == lines[s].cluster
  <2>1. n = lines[Min(Valued(lines, "server"))].cluster  OBVIOUS
  <2> HIDE DEF n
  <2>2. /\ Range(FirstValue(lines, "certificate-authority")) = ValuesOf(lines, n, "certificate-authority")
        /\ Range(CAData(lines)) = ValuesOf(lines, n, "certificate-authority-data")
    BY <1>1, <2>1, PickedFrom DEF CAData
  <2> QED  BY <2>2 DEF ValuesOf, n
<1>5. Rest = Own("certificate-authority") \cup Own("certificate-authority-data")
  <2>1. \A k \in Cluster(lines, lines[s].cluster) : k.key \in Keys
    BY DEF Cluster, Range, IsConfig, IsLine
  <2> QED  BY <2>1 DEF Keys
<1>6. {m.value[1] : m \in Own("certificate-authority") \cup Own("certificate-authority-data")}
        = {m.value[1] : m \in Own("certificate-authority")}
            \cup {m.value[1] : m \in Own("certificate-authority-data")}
  <2> HIDE DEF Own
  <2> QED  OBVIOUS
<1>7. lines[s] \in Range(lines)  BY <1>2 DEF Range
<1>8. Range(FirstValue(lines, "certificate-authority")) \cup Range(CAData(lines))
        = {m.value[1] : m \in Rest}
  <2> HIDE DEF Own, Rest, s
  <2> QED  BY <1>4, <1>5, <1>6
<1> QED  BY <1>2, <1>3, <1>7, <1>8

\* What parseKubeconfig takes for a key is nothing or one value.
LEMMA FirstValueShape ==
  ASSUME NEW config, IsConfig(config), NEW key
  PROVE  \/ FirstValue(config.lines, key) = <<>>
         \/ FirstValue(config.lines, key) = <<FirstValue(config.lines, key)[1]>>
<1> DEFINE lines == config.lines
           i     == Min(Valued(lines, key))
<1>1. CASE Valued(lines, key) = {}  BY <1>1 DEF FirstValue
<1>2. CASE Valued(lines, key) # {}
  <2>1. i \in DOMAIN lines /\ FirstValue(lines, key) = lines[i].value  BY <1>2, FirstLine
  <2> HIDE DEF i
  <2>2. IsLine(lines[i])  BY <2>1 DEF IsConfig
  <2> QED  BY <2>1, <2>2 DEF IsLine
<1> QED  BY <1>1, <1>2

\* The values of two sequences, one behind the other.
LEMMA RangeOfBoth ==
  ASSUME NEW S, NEW s \in Seq(S), NEW t \in Seq(S)
  PROVE  Range(s \o t) = Range(s) \cup Range(t)
<1> DEFINE both == s \o t
<1>1. /\ Len(s) \in Nat /\ Len(t) \in Nat
      /\ DOMAIN s = 1..Len(s) /\ DOMAIN t = 1..Len(t) /\ DOMAIN both = 1..(Len(s) + Len(t))
  <2>1. both \in Seq(S) /\ Len(both) = Len(s) + Len(t)  BY ConcatProperties
  <2> HIDE DEF both
  <2> QED  BY <2>1
<1>2. \A i \in 1..(Len(s) + Len(t)) : both[i] = IF i <= Len(s) THEN s[i] ELSE t[i - Len(s)]
  BY ConcatProperties
<1> HIDE DEF both
<1>3. Range(both) \subseteq Range(s) \cup Range(t)  BY <1>1, <1>2 DEF Range
<1>4. \A i \in DOMAIN s : i \in DOMAIN both /\ both[i] = s[i]  BY <1>1, <1>2
<1>5. ASSUME NEW i \in DOMAIN t
      PROVE  Len(s) + i \in DOMAIN both /\ both[Len(s) + i] = t[i]
  <2>1. Len(s) + i \in 1..(Len(s) + Len(t)) /\ ~(Len(s) + i <= Len(s)) /\ Len(s) + i - Len(s) = i
    BY <1>1
  <2> QED  BY <1>1, <1>2, <2>1
<1>6. Range(s) \subseteq Range(both) /\ Range(t) \subseteq Range(both)  BY <1>4, <1>5 DEF Range
<1> QED  BY <1>3, <1>6 DEF both

\* The target and the CAs of the API check are the picked lines of the kubeconfig.
LEMMA OwnClusterFromInv == KubeInvariants => OwnCluster
<1> DEFINE config == node.configs[kreport.kubeconfig]
           lines  == config.lines
           result == kreport.apiCheck[1]
           CAs(n) == {m.value[1] : m \in {k \in Cluster(lines, n) : k.key # "server"}}
<1> SUFFICES ASSUME KubeInvariants, kreport.apiCheck # <<>>,
                    SameKeys(lines)
             PROVE  \E l \in Range(lines) :
                      /\ l.key = "server" /\ l.value = <<result.target>>
                      /\ Range(ClusterCAs) = CAs(l.cluster)
                      /\ result.verified => IssuerOf(result.target) \in {"system"} \cup CAs(l.cluster)
  BY DEF OwnCluster, SameKeys, Filled
<1>1. step \in {"scan", "reported"}  BY DEF KubeInvariants, KubeInv, KubeShape, ApiChecked
<1>2. /\ kreport.server # <<>>
      /\ result \in Results(kreport.server[1], NoOptions, ClusterCAs)
  BY DEF KubeInvariants, KubeInv, ApiChecked
<1>3. /\ result.target = kreport.server[1]
      /\ result.verified => IssuerOf(result.target) \in TrustedCAs(ClusterCAs)
  BY <1>2 DEF Results, Promised
<1>4. kreport.kubeconfig # "" /\ info = ParseKubeconfig(config) /\ info # NoInfo
      /\ kreport.server = info.server
  <2>1. NoInfo.server = <<>>  BY DEF NoInfo
  <2> QED  BY <1>1, <1>2, <2>1 DEF KubeInvariants, KubeInv, Configured
<1>5. /\ info.server = FirstValue(lines, "server")
      /\ ClusterCAs = FirstValue(lines, "certificate-authority") \o CAData(lines)
  BY <1>4 DEF ParseKubeconfig, ClusterCAs
<1>6. IsConfig(config)
  <2>1. kreport.kubeconfig \in DOMAIN node.configs /\ IsNode(node)
    BY <1>1, <1>4 DEF KubeInvariants, KubeInv, KubeShape, Configured
  <2>2. config \in Range(node.configs)  BY <2>1 DEF Range
  <2> QED  BY <2>1, <2>2 DEF IsNode
<1> HIDE DEF config, result
<1>7. /\ Range(ClusterCAs) = Range(FirstValue(lines, "certificate-authority")) \cup Range(CAData(lines))
      /\ TrustedCAs(ClusterCAs) \subseteq {"system"} \cup Range(ClusterCAs)
  <2>1. Range(FirstValue(lines, "certificate-authority") \o CAData(lines))
          = Range(FirstValue(lines, "certificate-authority")) \cup Range(CAData(lines))
    <3> DEFINE f == FirstValue(lines, "certificate-authority")
               d == CAData(lines)
    <3>1. (f = <<>> \/ f = <<f[1]>>) /\ (d = <<>> \/ d = <<d[1]>>)  BY <1>6, FirstValueShape DEF CAData
    <3> HIDE DEF f, d
    <3>2. \A S : \A v \in S : <<v>> \in Seq(S) /\ <<>> \in Seq(S)  OBVIOUS
    <3>3. f \in Seq({f[1], d[1]}) /\ d \in Seq({f[1], d[1]})  BY <3>1, <3>2
    <3>4. Range(f \o d) = Range(f) \cup Range(d)  BY <3>3, RangeOfBoth
    <3> QED  BY <3>4 DEF f, d
  <2> QED  BY <1>5, <2>1 DEF TrustedCAs, Range
<1>8. PICK l \in Range(lines) :
        /\ l.key = "server" /\ l.value = FirstValue(lines, "server") /\ l.value = <<l.value[1]>>
        /\ Range(FirstValue(lines, "certificate-authority")) \cup Range(CAData(lines)) = CAs(l.cluster)
  BY <1>2, <1>4, <1>5, <1>6, PickedTogether
<1>9. l.value = <<result.target>>  BY <1>3, <1>4, <1>5, <1>8
<1> HIDE DEF CAs
<1> QED  BY <1>3, <1>7, <1>8, <1>9

----------------------------------------------------------------------------
(* Targets: what ParseTarget makes of them. *)

\* Positions have a first and a last.
LEMMA FirstExists ==
  ASSUME NEW S, S \subseteq Nat, S # {} PROVE \E i \in S : IsFirst(S, i)
BY MinIsLeast DEF IsFirst

\* The distances from the end have a least one.
LEMMA LastExists ==
  ASSUME NEW n \in Nat, NEW S, S \subseteq 1..n, S # {} PROVE \E i \in S : IsLast(S, i)
<1> DEFINE D == {n - i : i \in S}
<1>1. D \subseteq Nat /\ D # {}
  <2>1. \A i \in S : n - i \in Nat  OBVIOUS
  <2>2. D \subseteq Nat  BY <2>1
  <2> QED  BY <2>2
<1>2. PICK d \in D : \A e \in D : d <= e
  <2> HIDE DEF D
  <2> QED  BY <1>1, MinIsLeast
<1>3. PICK i \in S : d = n - i  OBVIOUS
<1>4. \A j \in S : n - i <= n - j  BY <1>2, <1>3
<1>5. \A j \in S : j <= i
  <2> SUFFICES ASSUME NEW j \in S PROVE j <= i  OBVIOUS
  <2>1. i \in Int /\ j \in Int /\ n - i <= n - j  BY <1>4
  <2> QED  BY <2>1
<1> QED  BY <1>5 DEF IsLast

\* Trim leaves a part of a sequence.
LEMMA TrimInside ==
  ASSUME NEW S, NEW s \in Seq(S)
  PROVE  TrimBrackets(s) \in Seq(S)
<1> DEFINE inner == {i \in DOMAIN s : s[i] \notin Brackets}
           a == CHOOSE i \in inner : IsFirst(inner, i)
           b == CHOOSE i \in inner : IsLast(inner, i)
<1>1. CASE inner = {}
  BY <1>1 DEF TrimBrackets
<1>2. CASE inner # {}
  <2>1. inner \subseteq 1..Len(s) /\ Len(s) \in Nat  OBVIOUS
  <2>2. a \in inner /\ b \in inner
    <3> HIDE DEF inner
    <3>0. inner \subseteq Nat  BY <2>1
    <3>1. \E i \in inner : IsFirst(inner, i)  BY <1>2, <3>0, FirstExists
    <3>2. \E i \in inner : IsLast(inner, i)  BY <1>2, <2>1, LastExists
    <3> QED  BY <3>1, <3>2
  <2>3. TrimBrackets(s) = SubSeq(s, a, b)  BY <1>2 DEF TrimBrackets
  <2> HIDE DEF a, b, inner
  <2>4. a \in 1..Len(s) /\ b \in 1..Len(s)  BY <2>1, <2>2
  <2>5. SubSeq(s, a, b) \in Seq(S)  BY <2>4
  <2> QED  BY <2>3, <2>5
<1> QED  BY <1>1, <1>2

\* Without brackets there is nothing to trim.
LEMMA TrimNothing ==
  ASSUME NEW S, NEW s \in Seq(S), Positions(s, Brackets) = {}
  PROVE  TrimBrackets(s) = s
<1> DEFINE inner == {i \in DOMAIN s : s[i] \notin Brackets}
           a == CHOOSE i \in inner : IsFirst(inner, i)
           b == CHOOSE i \in inner : IsLast(inner, i)
<1>1. inner = 1..Len(s) /\ Len(s) \in Nat  BY DEF Positions
<1>2. CASE s = <<>>
  BY <1>2 DEF TrimBrackets
<1>3. CASE s # <<>>
  <2>1. Len(s) >= 1  BY <1>3
  <2>2. TrimBrackets(s) = SubSeq(s, a, b)
    <3>1. inner # {}  BY <1>1, <2>1
    <3> QED  BY <3>1 DEF TrimBrackets
  <2>3. a = 1 /\ b = Len(s)
    <3> HIDE DEF inner
    <3>1. IsFirst(inner, 1) /\ IsLast(inner, Len(s))  BY <1>1, <2>1 DEF IsFirst, IsLast
    <3>2. 1 \in inner /\ Len(s) \in inner  BY <1>1, <2>1
    <3>3. a \in inner /\ IsFirst(inner, a) /\ b \in inner /\ IsLast(inner, b)  BY <3>1, <3>2
    <3> HIDE DEF a, b
    <3>4. a <= 1 /\ Len(s) <= b  BY <3>2, <3>3 DEF IsFirst, IsLast
    <3> QED  BY <1>1, <3>3, <3>4
  <2>4. SubSeq(s, 1, Len(s)) = s  OBVIOUS
  <2> HIDE DEF a, b
  <2> QED  BY <2>2, <2>3, <2>4
<1> QED  BY <1>2, <1>3

\* The colon at i separates host and port for SplitHostPort.
SplitsAt(s, i) ==
  /\ IsLast(Positions(s, {":", "v6"}), i) /\ s[i] = ":"
  /\ IF s[1] = "["
     THEN /\ IsFirst(Positions(s, {"]"}), i - 1)
          /\ Positions(SubSeq(s, 2, Len(s)), {"["}) = {} /\ Positions(s, {"]"}) = {i - 1}
     ELSE Positions(Before(s, i), {":", "v6"}) = {} /\ Positions(s, Brackets) = {}

\* There is at most one such colon.
LEMMA SplitOnce ==
  ASSUME NEW S, NEW s \in Seq(S), NEW n \in DOMAIN s, SplitsAt(s, n)
  PROVE  SplitHostPort(s) = [ok   |-> TRUE,
                             host |-> IF s[1] = "[" THEN SubSeq(s, 2, n - 2) ELSE Before(s, n),
                             port |-> From(s, n)]
<1> DEFINE at == {i \in Positions(s, {":"}) : SplitsAt(s, i)}
<1>1. n \in at  BY DEF SplitsAt, Positions
<1>2. ASSUME NEW i \in at PROVE i = n
  <2>1. i \in 1..Len(s) /\ n \in 1..Len(s)  BY DEF Positions
  <2>2. i <= n /\ n <= i  BY DEF SplitsAt, IsLast
  <2> QED  BY <2>1, <2>2
<1>3. SplitHostPort(s) =
        IF at = {} THEN [ok |-> FALSE, host |-> <<>>, port |-> <<>>]
        ELSE LET i == CHOOSE i \in at : TRUE
             IN  [ok   |-> TRUE,
                  host |-> IF s[1] = "[" THEN SubSeq(s, 2, i - 2) ELSE Before(s, i),
                  port |-> From(s, i)]
  BY DEF SplitHostPort, SplitsAt
<1> HIDE DEF at
<1>4. (CHOOSE i \in at : TRUE) = n  BY <1>1, <1>2
<1> QED  BY <1>1, <1>3, <1>4

\* Without such a colon nothing is split.
LEMMA SplitNever ==
  ASSUME NEW s, \A i \in Positions(s, {":"}) : ~SplitsAt(s, i)
  PROVE  SplitHostPort(s) = [ok |-> FALSE, host |-> <<>>, port |-> <<>>]
<1> DEFINE at == {i \in Positions(s, {":"}) : SplitsAt(s, i)}
<1>1. at = {}  OBVIOUS
<1> QED  BY <1>1 DEF SplitHostPort, SplitsAt

\* The ports that ParsePort yields, and the digits that spell them.
Ports == {80, 443, 8443}

\* How JoinHostPort spells a port.
Spelling(port) == CHOOSE d \in Digits : ParsePort(<<d>>) = port

\* A port has a spelling, and what is no port reads as BadPort.
LEMMA PortsSpelled ==
  ASSUME NEW p \in Ports
  PROVE  Spelling(p) \in Digits /\ ParsePort(<<Spelling(p)>>) = p
<1>1. ParsePort(<<"80">>) = 80 /\ ParsePort(<<"443">>) = 443 /\ ParsePort(<<"8443">>) = 8443
  BY DEF ParsePort
<1>2. \E d \in Digits : ParsePort(<<d>>) = p  BY <1>1 DEF Digits, Ports
<1> QED  BY <1>2 DEF Spelling

LEMMA PortsParsed == \A s : ParsePort(s) \in Ports \cup {BadPort}
BY DEF ParsePort, Ports

\* A part of a sequence, element by element.
LEMMA PartOf ==
  ASSUME NEW S, NEW s \in Seq(S), NEW a \in 1..(Len(s) + 1), NEW b \in (a - 1)..Len(s),
         NEW m, m = b - a + 1, NEW w, w = SubSeq(s, a, b)
  PROVE  w \in Seq(S) /\ Len(w) = m /\ DOMAIN w = 1..m /\ \A i \in 1..m : w[i] = s[a + i - 1]
<1>1. a \in Int /\ b \in Int /\ Len(s) \in Nat /\ a >= 1 /\ b <= Len(s) /\ b >= a - 1  OBVIOUS
<1>2. w \in Seq(S) /\ Len(w) = m  BY <1>1
<1>3. \A i \in 1..m : w[i] = s[a + i - 1]  BY <1>1
<1>4. DOMAIN w = 1..m  BY <1>2
<1> QED  BY <1>2, <1>3, <1>4

\* A sequence is known by its elements.
LEMMA SameElements ==
  ASSUME NEW S, NEW U, NEW u \in Seq(S), NEW w \in Seq(U), Len(u) = Len(w),
         \A i \in 1..Len(w) : u[i] = w[i]
  PROVE  u = w
<1>1. u = [i \in 1..Len(u) |-> u[i]] /\ w = [i \in 1..Len(w) |-> w[i]]  OBVIOUS
<1>2. [i \in 1..Len(u) |-> u[i]] = [i \in 1..Len(w) |-> w[i]]  OBVIOUS
<1> QED  BY <1>1, <1>2

\* The last element of a sequence, alone.
LEMMA LastPart ==
  ASSUME NEW S, NEW s \in Seq(S), Len(s) >= 1 PROVE SubSeq(s, Len(s), Len(s)) = <<s[Len(s)]>>
<1> DEFINE L == Len(s)
           w == SubSeq(s, L, L)
<1>1. L \in Nat /\ L \in 1..(L + 1) /\ L \in (L - 1)..L /\ 1 = L - L + 1 /\ L + 1 - 1 = L  OBVIOUS
<1>2. w \in Seq(S) /\ Len(w) = 1 /\ \A i \in 1..1 : w[i] = s[L + i - 1]
  BY <1>1, PartOf
<1> HIDE DEF w, L
<1>3. w[1] = s[L]  BY <1>1, <1>2
<1>4. s[L] \in {s[L]} /\ <<s[L]>> \in Seq({s[L]}) /\ Len(<<s[L]>>) = 1 /\ <<s[L]>>[1] = s[L]  OBVIOUS
<1>5. w = <<s[L]>>  BY <1>2, <1>3, <1>4, SameElements
<1> QED  BY <1>5 DEF w, L

\* A host in brackets, a colon and a port.
LEMMA BracketedSplits ==
  ASSUME NEW S, NEW T, NEW s \in Seq(T), NEW h \in Seq(S), NEW n \in Nat, n >= 1, Len(h) = n,
         NEW d, d \notin {":", "v6", "[", "]"}, \A i \in 1..n : h[i] \notin Brackets,
         Len(s) = n + 4, s[1] = "[", \A i \in 1..n : s[i + 1] = h[i],
         s[n + 2] = "]", s[n + 3] = ":", s[n + 4] = d
  PROVE  SplitHostPort(s) = [ok |-> TRUE, host |-> h, port |-> <<d>>]
<1>1. \A j \in 2..(n + 1) : s[j] \notin Brackets
  <2> SUFFICES ASSUME NEW j \in 2..(n + 1) PROVE s[j] \notin Brackets  OBVIOUS
  <2>1. j - 1 \in 1..n /\ s[(j - 1) + 1] = h[j - 1] /\ (j - 1) + 1 = j  OBVIOUS
  <2> QED  BY <2>1
<1>2. DOMAIN s = 1..(n + 4)  OBVIOUS
<1>3. \A j \in 1..(n + 4) : j = 1 \/ j \in 2..(n + 1) \/ j = n + 2 \/ j = n + 3 \/ j = n + 4
  OBVIOUS
<1>4. Positions(s, {"]"}) = {n + 2}
  <2>1. \A j \in 1..(n + 4) : s[j] = "]" <=> j = n + 2  BY <1>1, <1>3 DEF Brackets
  <2>2. n + 2 \in 1..(n + 4)  OBVIOUS
  <2> QED  BY <1>2, <2>1, <2>2 DEF Positions
<1>5. IsLast(Positions(s, {":", "v6"}), n + 3)
  <2>1. n + 3 \in Positions(s, {":", "v6"})  BY <1>2 DEF Positions
  <2>2. \A j \in 1..(n + 4) : s[j] \in {":", "v6"} => j <= n + 3  OBVIOUS
  <2> QED  BY <1>2, <2>1, <2>2 DEF IsLast, Positions
<1>6. Positions(SubSeq(s, 2, Len(s)), {"["}) = {}
  <2>1. PICK w : w = SubSeq(s, 2, Len(s))  OBVIOUS
  <2>2. DOMAIN w = 1..(n + 3) /\ \A j \in 1..(n + 3) : w[j] = s[j + 1]
    BY <2>1
  <2>3. \A j \in 2..(n + 4) : s[j] # "["  BY <1>1, <1>3 DEF Brackets
  <2>4. \A j \in 1..(n + 3) : w[j] # "["  BY <2>2, <2>3
  <2> QED  BY <2>1, <2>2, <2>4 DEF Positions
<1>7. SplitsAt(s, n + 3)
  <2>1. (n + 3) - 1 = n + 2 /\ n + 2 <= n + 2  OBVIOUS
  <2> QED  BY <1>4, <1>5, <1>6, <2>1 DEF SplitsAt, IsFirst
<1>8. SplitHostPort(s) = [ok |-> TRUE, host |-> SubSeq(s, 2, n + 1), port |-> From(s, n + 3)]
  <2>1. n + 3 \in DOMAIN s /\ (n + 3) - 2 = n + 1  BY <1>2
  <2> QED  BY <1>7, <2>1, SplitOnce
<1>9. SubSeq(s, 2, n + 1) = h
  <2>1. PICK w : w = SubSeq(s, 2, n + 1)  OBVIOUS
  <2>2. w \in Seq(T) /\ Len(w) = n /\ \A j \in 1..n : w[j] = s[j + 1]
    BY <2>1
  <2> QED  BY <2>1, <2>2, SameElements
<1>10. From(s, n + 3) = <<d>>
  <2>1. (n + 3) + 1 = Len(s) /\ Len(s) >= 1 /\ s[Len(s)] = d  OBVIOUS
  <2> QED  BY <2>1, LastPart DEF From
<1> QED  BY <1>8, <1>9, <1>10

\* A host without a colon, a colon and a port.
LEMMA PlainSplits ==
  ASSUME NEW S, NEW T, NEW s \in Seq(T), NEW h \in Seq(S), NEW n \in Nat, n >= 1, Len(h) = n,
         NEW d, d \notin {":", "v6", "[", "]"},
         \A i \in 1..n : h[i] \notin Brackets /\ h[i] \notin {":", "v6"},
         Len(s) = n + 2, \A i \in 1..n : s[i] = h[i], s[n + 1] = ":", s[n + 2] = d
  PROVE  SplitHostPort(s) = [ok |-> TRUE, host |-> h, port |-> <<d>>]
<1>1. DOMAIN s = 1..(n + 2)  OBVIOUS
<1>2. \A j \in 1..(n + 2) : j \in 1..n \/ j = n + 1 \/ j = n + 2  OBVIOUS
<1>3. IsLast(Positions(s, {":", "v6"}), n + 1)
  <2>1. n + 1 \in Positions(s, {":", "v6"})  BY <1>1 DEF Positions
  <2>2. \A j \in 1..(n + 2) : s[j] \in {":", "v6"} => j <= n + 1  OBVIOUS
  <2> QED  BY <1>1, <2>1, <2>2 DEF IsLast, Positions
<1>4. Positions(s, Brackets) = {}
  <2>1. \A j \in 1..(n + 2) : s[j] \notin Brackets  BY <1>2 DEF Brackets
  <2> QED  BY <1>1, <2>1 DEF Positions
<1>5. Before(s, n + 1) = h
  <2>1. PICK w : w = SubSeq(s, 1, n)  OBVIOUS
  <2>2. w \in Seq(T) /\ Len(w) = n /\ \A j \in 1..n : w[j] = s[j]
    BY <2>1
  <2>3. (n + 1) - 1 = n  OBVIOUS
  <2> QED  BY <2>1, <2>2, <2>3, SameElements DEF Before
<1>6. Positions(h, {":", "v6"}) = {}  BY DEF Positions
<1>7. s[1] # "["
  <2>1. 1 \in 1..n  OBVIOUS
  <2> QED  BY <2>1 DEF Brackets
<1>8. SplitsAt(s, n + 1)  BY <1>3, <1>4, <1>5, <1>6, <1>7 DEF SplitsAt
<1>9. SplitHostPort(s) = [ok |-> TRUE, host |-> Before(s, n + 1), port |-> From(s, n + 1)]
  <2>1. n + 1 \in DOMAIN s  BY <1>1
  <2> QED  BY <1>7, <1>8, <2>1, SplitOnce
<1>10. From(s, n + 1) = <<d>>
  <2>1. (n + 1) + 1 = Len(s) /\ Len(s) >= 1 /\ s[Len(s)] = d  OBVIOUS
  <2> QED  BY <2>1, LastPart DEF From
<1> QED  BY <1>5, <1>9, <1>10

\* What JoinHostPort joins, token by token.
LEMMA JoinedBrackets ==
  ASSUME NEW S, NEW h \in Seq(S), NEW d, NEW s, s = <<"[">> \o h \o <<"]">> \o <<":", d>>
  PROVE  /\ s \in Seq(S \cup {"[", "]", ":", d}) /\ Len(s) = Len(h) + 4
         /\ s[1] = "[" /\ \A i \in 1..Len(h) : s[i + 1] = h[i]
         /\ s[Len(h) + 2] = "]" /\ s[Len(h) + 3] = ":" /\ s[Len(h) + 4] = d
OBVIOUS

LEMMA JoinedPlain ==
  ASSUME NEW S, NEW h \in Seq(S), NEW d, NEW s, s = h \o <<":", d>>
  PROVE  /\ s \in Seq(S \cup {":", d}) /\ Len(s) = Len(h) + 2
         /\ \A i \in 1..Len(h) : s[i] = h[i]
         /\ s[Len(h) + 1] = ":" /\ s[Len(h) + 2] = d
OBVIOUS

\* What JoinHostPort joins, SplitHostPort splits.
LEMMA JoinedIsSplit ==
  ASSUME NEW S, NEW h \in Seq(S), h # <<>>, Positions(h, Brackets) = {}, NEW p \in Ports,
         NEW s, s = JoinHostPort(h, p)
  PROVE  /\ s # <<>>
         /\ \E d \in Digits : /\ ParsePort(<<d>>) = p
                              /\ SplitHostPort(s) = [ok |-> TRUE, host |-> h, port |-> <<d>>]
<1>1. PICK d : d = Spelling(p)  OBVIOUS
<1>2. d \in Digits /\ ParsePort(<<d>>) = p  BY <1>1, PortsSpelled
<1>3. s = (IF Positions(h, {":", "v6"}) # {} THEN <<"[">> \o h \o <<"]">> ELSE h) \o <<":", d>>
  BY <1>1 DEF JoinHostPort, Spelling
<1>4. d \notin {":", "v6", "[", "]"}  BY <1>2 DEF Digits
<1>5. Len(h) \in Nat /\ Len(h) >= 1  OBVIOUS
<1>6. \A i \in 1..Len(h) : h[i] \notin Brackets  BY DEF Positions
<1>7. CASE Positions(h, {":", "v6"}) # {}
  <2>1. s = <<"[">> \o h \o <<"]">> \o <<":", d>>  BY <1>3, <1>7
  <2>2. /\ s \in Seq(S \cup {"[", "]", ":", d}) /\ Len(s) = Len(h) + 4
        /\ s[1] = "[" /\ \A i \in 1..Len(h) : s[i + 1] = h[i]
        /\ s[Len(h) + 2] = "]" /\ s[Len(h) + 3] = ":" /\ s[Len(h) + 4] = d
    BY <2>1, JoinedBrackets
  <2>3. SplitHostPort(s) = [ok |-> TRUE, host |-> h, port |-> <<d>>]
    BY <1>4, <1>5, <1>6, <2>2, BracketedSplits, SMTT(20)
  <2>4. s # <<>>  BY <1>5, <2>2
  <2> QED  BY <1>2, <2>3, <2>4
<1>8. CASE Positions(h, {":", "v6"}) = {}
  <2>1. s = h \o <<":", d>>  BY <1>3, <1>8
  <2>2. /\ s \in Seq(S \cup {":", d}) /\ Len(s) = Len(h) + 2
        /\ \A i \in 1..Len(h) : s[i] = h[i]
        /\ s[Len(h) + 1] = ":" /\ s[Len(h) + 2] = d
    BY <2>1, JoinedPlain
  <2>3. \A i \in 1..Len(h) : h[i] \notin Brackets /\ h[i] \notin {":", "v6"}
    BY <1>6, <1>8 DEF Positions
  <2>4. SplitHostPort(s) = [ok |-> TRUE, host |-> h, port |-> <<d>>]
    <3>1. PICK T : T = S \cup {":", d}  OBVIOUS
    <3>2. PICK n : n = Len(h)  OBVIOUS
    <3>3. s \in Seq(T) /\ n \in Nat /\ n >= 1 /\ Len(s) = n + 2  BY <1>5, <2>2, <3>1, <3>2
    <3>4. /\ \A i \in 1..n : h[i] \notin Brackets /\ h[i] \notin {":", "v6"}
          /\ \A i \in 1..n : s[i] = h[i]
          /\ s[n + 1] = ":" /\ s[n + 2] = d
      BY <2>2, <2>3, <3>2
    <3> QED  BY <1>4, <3>2, <3>3, <3>4, PlainSplits
  <2>5. s # <<>>  BY <1>5, <2>2
  <2> QED  BY <1>2, <2>4, <2>5
<1> QED  BY <1>7, <1>8

\* No port option: 0 is not above 0.
LEMMA NoneAboveItself == ~(0 > 0)
OBVIOUS

\* Parse without a port option: no port is 443.
DialedPort(p) == IF p = NoPort THEN 443 ELSE p

LEMMA ParseOf ==
  ASSUME NEW input, NEW h, NEW p, h # <<>>, NEW base, base = Accepted(h, p),
         \/ input.scheme = "" /\ base = SplitHostPortLoose(input.rest)
         \/ input.scheme # "" /\ base = ParseURL(input.scheme, input.rest),
         NEW q, q = DialedPort(p)
  PROVE  Parse(input, 0) = Accepted(TrimBrackets(h), q)
<1> DEFINE read == IF input.scheme = "" THEN SplitHostPortLoose(input.rest)
                   ELSE ParseURL(input.scheme, input.rest)
<1>1. Parse(input, 0) =
        IF ~read.ok \/ read.host = <<>> THEN Rejected
        ELSE Accepted(TrimBrackets(read.host),
                      IF 0 > 0 THEN 0 ELSE DialedPort(read.port))
  BY DEF Parse, DialedPort
<1>2. read = base  OBVIOUS
<1>3. base.ok /\ base.host = h /\ base.port = p  BY DEF Accepted
<1>4. ~(0 > 0)  BY NoneAboveItself
<1> HIDE DEF read
<1>5. (IF 0 > 0 THEN 0 ELSE DialedPort(read.port)) = DialedPort(read.port)  BY <1>4, Zenon
<1>6. read.ok /\ read.host # <<>>  BY <1>2, <1>3
<1>7. Parse(input, 0) = Accepted(TrimBrackets(read.host), DialedPort(read.port))
  BY <1>1, <1>5, <1>6, Zenon
<1> QED  BY <1>2, <1>3, <1>7

\* A host and a port, as JoinHostPort spells them.
LEMMA PairParsed ==
  ASSUME NEW S, NEW h \in Seq(S), h # <<>>, Positions(h, Brackets) = {}, NEW p \in Ports
  PROVE  SplitHostPortLoose(JoinHostPort(h, p)) = Accepted(h, p)
<1>1. PICK s : s = JoinHostPort(h, p)  OBVIOUS
<1>2. PICK d \in Digits : /\ s # <<>> /\ ParsePort(<<d>>) = p
                          /\ SplitHostPort(s) = [ok |-> TRUE, host |-> h, port |-> <<d>>]
  BY <1>1, JoinedIsSplit
<1>3. TrimBrackets(h) = h  BY TrimNothing
<1>4. p # BadPort /\ p # NoPort  BY DEF Ports, BadPort, NoPort
<1>5. SplitHostPortLoose(s) = Accepted(h, p)
  BY <1>2, <1>3, <1>4 DEF SplitHostPortLoose, WithPort
<1> QED  BY <1>1, <1>5

\* An address that is dialed, typed as a target, is the same target again.
LEMMA RoundTrip ==
  ASSUME NEW S, NEW h \in Seq(S), h # <<>>, Positions(h, Brackets) = {}, NEW p \in Ports
  PROVE  Parse(Bare(JoinHostPort(h, p)), 0) = Accepted(h, p)
<1>1. PICK s : s = JoinHostPort(h, p)  OBVIOUS
<1>2. SplitHostPortLoose(s) = Accepted(h, p)  BY <1>1, PairParsed
<1>3. TrimBrackets(h) = h  BY TrimNothing
<1>4. p = DialedPort(p)  BY DEF Ports, NoPort, DialedPort
<1>5. PICK input : input = Bare(s)  OBVIOUS
<1>6. input.scheme = "" /\ input.rest = s  BY <1>5 DEF Bare
<1>7. Parse(input, 0) = Accepted(TrimBrackets(h), p)  BY <1>2, <1>4, <1>6, ParseOf
<1> QED  BY <1>1, <1>3, <1>5, <1>7

\* The host and the port behind it come from the input, whatever it looks like.
LEMMA SplitInside ==
  ASSUME NEW S, NEW s \in Seq(S), SplitHostPort(s).ok
  PROVE  SplitHostPort(s).host \in Seq(S)
<1>1. PICK i \in Positions(s, {":"}) : SplitsAt(s, i)
  <2> SUFFICES ASSUME \A i \in Positions(s, {":"}) : ~SplitsAt(s, i) PROVE FALSE  OBVIOUS
  <2> QED  BY SplitNever
<1>2. i \in 1..Len(s) /\ Len(s) \in Nat  BY DEF Positions
<1>3. SplitHostPort(s).host = IF s[1] = "[" THEN SubSeq(s, 2, i - 2) ELSE Before(s, i)
  <2>1. SplitHostPort(s) = [ok   |-> TRUE,
                            host |-> IF s[1] = "[" THEN SubSeq(s, 2, i - 2) ELSE Before(s, i),
                            port |-> From(s, i)]
    <3>1. i \in DOMAIN s  BY DEF Positions
    <3> QED  BY <1>1, <3>1, SplitOnce, Zenon
  <2> QED  BY <2>1
<1>4. CASE s[1] = "["
  <2>1. i - 1 \in Positions(s, {"]"})  BY <1>1, <1>4 DEF SplitsAt, IsFirst
  <2>2. i - 1 \in 1..Len(s) /\ s[i - 1] = "]"  BY <1>2, <2>1 DEF Positions
  <2>3. i - 2 \in 1..Len(s)
    <3>1. i - 1 # 1  BY <1>4, <2>2
    <3> QED  BY <1>2, <2>2, <3>1
  <2>4. SubSeq(s, 2, i - 2) \in Seq(S)  BY <1>2, <2>3
  <2> QED  BY <1>3, <1>4, <2>4
<1>5. CASE s[1] # "["
  <2>1. SubSeq(s, 1, i - 1) \in Seq(S)  BY <1>2
  <2> QED  BY <1>3, <1>5, <2>1 DEF Before
<1> QED  BY <1>4, <1>5

\* What stands before a position comes from the input.
LEMMA BeforeInside ==
  ASSUME NEW S, NEW s \in Seq(S), NEW i \in DOMAIN s
  PROVE  Before(s, i) \in Seq(S)
<1>1. i \in 1..Len(s) /\ Len(s) \in Nat  OBVIOUS
<1>2. SubSeq(s, 1, i - 1) \in Seq(S)  BY <1>1
<1> QED  BY <1>2 DEF Before

\* The same of splitHostPortLoose, of a URL, and of ParseTarget.
LEMMA LooseInside ==
  ASSUME NEW S, NEW s \in Seq(S), SplitHostPortLoose(s).ok
  PROVE  /\ SplitHostPortLoose(s).host \in Seq(S)
         /\ SplitHostPortLoose(s).port \in Ports \cup {NoPort}
<1> DEFINE split == SplitHostPort(s)
           i     == CHOOSE i \in Positions(s, {":"}) : TRUE
           loose == SplitHostPortLoose(s)
<1>0. ~Rejected.ok  BY DEF Rejected
<1>1. s # <<>>  BY <1>0 DEF SplitHostPortLoose
<1>2. ASSUME NEW h \in Seq(S), NEW port, loose = WithPort(h, port)
      PROVE  loose.host \in Seq(S) /\ loose.port \in Ports
  BY <1>0, <1>2, PortsParsed DEF WithPort, Accepted
<1>3. ASSUME NEW h \in Seq(S), loose = Accepted(h, NoPort)
      PROVE  loose.host \in Seq(S) /\ loose.port = NoPort
  BY <1>3 DEF Accepted
<1>4. TrimBrackets(s) \in Seq(S)  BY TrimInside
<1>5. CASE split.ok
  <2>1. TrimBrackets(split.host) \in Seq(S)  BY <1>5, SplitInside, TrimInside
  <2>2. loose = WithPort(TrimBrackets(split.host), split.port)
    BY <1>1, <1>5 DEF SplitHostPortLoose
  <2> QED  BY <1>2, <2>1, <2>2
<1>6. CASE ~split.ok /\ s[1] = "[" /\ s[Len(s)] = "]"
  <2>1. loose = Accepted(TrimBrackets(s), NoPort)
    BY <1>0, <1>1, <1>6 DEF SplitHostPortLoose
  <2> QED  BY <1>3, <1>4, <2>1
<1>7. CASE ~split.ok /\ ~(s[1] = "[" /\ s[Len(s)] = "]") /\ ColonDigits(s)
  <2>1. i \in Positions(s, {":"})  BY <1>7 DEF ColonDigits
  <2>2. Before(s, i) \in Seq(S)
    <3>1. i \in DOMAIN s  BY <2>1 DEF Positions
    <3> HIDE DEF i
    <3> QED  BY <3>1, BeforeInside
  <2>3. loose = WithPort(Before(s, i), From(s, i))
    BY <1>1, <1>7 DEF SplitHostPortLoose
  <2> QED  BY <1>2, <2>2, <2>3
<1>8. CASE ~split.ok /\ ~(s[1] = "[" /\ s[Len(s)] = "]") /\ ~ColonDigits(s)
  <2>1. loose = Accepted(TrimBrackets(s), NoPort)
    BY <1>1, <1>8 DEF SplitHostPortLoose, SplitBare
  <2> QED  BY <1>3, <1>4, <2>1
<1> QED  BY <1>5, <1>6, <1>7, <1>8

LEMMA URLInside ==
  ASSUME NEW S, NEW s \in Seq(S), NEW scheme, ParseURL(scheme, s).ok
  PROVE  /\ ParseURL(scheme, s).host \in Seq(S)
         /\ ParseURL(scheme, s).port \in Ports \cup {NoPort}
<1> DEFINE split == SplitURLHost(s)
           url   == ParseURL(scheme, s)
           ports == {i \in Positions(s, {":"}) : \A j \in (i + 1)..Len(s) : s[j] \in Digits}
           i     == CHOOSE i \in ports : TRUE
           host  == IF ports = {} THEN s ELSE Before(s, i)
<1>0. ~Rejected.ok  BY DEF Rejected
<1>1. host \in Seq(S)
  <2>1. CASE ports = {}
    BY <2>1
  <2>2. CASE ports # {}
    <3>1. i \in ports  BY <2>2
    <3>2. i \in DOMAIN s  BY <3>1 DEF Positions
    <3> HIDE DEF i, ports
    <3>3. Before(s, i) \in Seq(S)  BY <3>2, BeforeInside
    <3> QED  BY <2>2, <3>3
  <2> QED  BY <2>1, <2>2
<1>2. split.host = TrimBrackets(host)  BY DEF SplitURLHost
<1>3. split.host \in Seq(S)
  <2> HIDE DEF host, split
  <2> QED  BY <1>1, <1>2, TrimInside
<1>4. \/ url = Accepted(split.host, IF scheme = "http" THEN 80 ELSE NoPort)
      \/ url = WithPort(split.host, split.port)
  BY <1>0 DEF ParseURL
<1> HIDE DEF split, url
<1>5. CASE url = Accepted(split.host, IF scheme = "http" THEN 80 ELSE NoPort)
  BY <1>3, <1>5 DEF Accepted, Ports, url
<1>6. CASE url = WithPort(split.host, split.port)
  <2>1. url.ok  BY DEF url
  <2>2. url = Accepted(split.host, ParsePort(split.port)) /\ ParsePort(split.port) \in Ports
    BY <1>0, <1>6, <2>1, PortsParsed DEF WithPort
  <2> QED  BY <1>3, <2>2 DEF Accepted, url
<1> QED  BY <1>4, <1>5, <1>6

LEMMA ParseInside ==
  ASSUME NEW S, NEW input, input.rest \in Seq(S), Parse(input, 0).ok
  PROVE  \E h \in Seq(S), p \in Ports :
           h # <<>> /\ Parse(input, 0) = Accepted(TrimBrackets(h), p)
<1> DEFINE base == IF input.scheme = "" THEN SplitHostPortLoose(input.rest)
                   ELSE ParseURL(input.scheme, input.rest)
<1>1. Parse(input, 0) =
        IF ~base.ok \/ base.host = <<>> THEN Rejected
        ELSE Accepted(TrimBrackets(base.host),
                      IF 0 > 0 THEN 0 ELSE IF base.port = NoPort THEN 443 ELSE base.port)
  BY DEF Parse
<1>2. ~Rejected.ok  BY DEF Rejected
<1>3. base.ok => base.host \in Seq(S) /\ base.port \in Ports \cup {NoPort}
  BY LooseInside, URLInside
<1> HIDE DEF base
<1>4. base.ok /\ base.host # <<>>  BY <1>1, <1>2
<1> DEFINE p == IF base.port = NoPort THEN 443 ELSE base.port
<1>5. Parse(input, 0) = Accepted(TrimBrackets(base.host), p)
  BY <1>1, <1>4, NoneAboveItself, Zenon
<1>6. p \in Ports  BY <1>3, <1>4 DEF Ports
<1> QED  BY <1>3, <1>4, <1>5, <1>6

\* The address that is dialed is the same target again.
LEMMA UnderstoodAgain ==
  ASSUME NEW S, NEW input, input.rest \in Seq(S),
         NEW t, t = Parse(input, 0), t.ok, t.host # <<>>, Positions(t.host, Brackets) = {}
  PROVE  Parse(Bare(JoinHostPort(t.host, t.port)), 0) = t
<1>1. PICK h \in Seq(S), p \in Ports : t = Accepted(TrimBrackets(h), p)
  BY ParseInside
<1>2. TrimBrackets(h) \in Seq(S)  BY TrimInside
<1>3. t.host = TrimBrackets(h) /\ t.port = p  BY <1>1 DEF Accepted
<1>4. Parse(Bare(JoinHostPort(t.host, t.port)), 0) = Accepted(t.host, t.port)
  BY <1>2, <1>3, RoundTrip
<1> QED  BY <1>1, <1>3, <1>4

\* Only a bracket in the input leaves no host.
LEMMA NoHostHasBrackets ==
  ASSUME NEW S, NEW input, input.rest \in Seq(S), Positions(input.rest, Brackets) = {},
         Parse(input, 0).ok
  PROVE  Parse(input, 0).host # <<>>
<1> DEFINE s == input.rest
           U == S \ Brackets
<1>1. \A i \in 1..Len(s) : s[i] \in U  BY DEF Positions
<1>2. Len(s) \in Nat /\ s \in [1..Len(s) -> U]
  <2> HIDE DEF s, U
  <2>1. s \in Seq(S)  BY DEF s
  <2> QED  BY <1>1, <2>1, SeqInto
<1>3. s \in Seq(U)  BY <1>2, SeqDef
<1>4. PICK h \in Seq(U), p \in Ports : h # <<>> /\ Parse(input, 0) = Accepted(TrimBrackets(h), p)
  <2> HIDE DEF U
  <2> QED  BY <1>3, ParseInside
<1>5. Positions(h, Brackets) = {}
  <2>1. \A i \in DOMAIN h : h[i] \in U  BY <1>4
  <2> QED  BY <2>1 DEF Positions
<1>6. TrimBrackets(h) = h  BY <1>5, TrimNothing
<1> QED  BY <1>4, <1>6 DEF Accepted

----------------------------------------------------------------------------
(* The documented forms of a target. *)

\* Sequences of one and of three tokens.
LEMMA OneToken == ASSUME NEW w, w \notin Brackets
  PROVE /\ <<w>> # <<>> /\ DOMAIN <<w>> = {1} /\ <<w>>[1] = w /\ Len(<<w>>) = 1
        /\ <<w>> \in Seq({w}) /\ Positions(<<w>>, Brackets) = {}
        /\ TrimBrackets(<<w>>) = <<w>>
<1>1. <<w>> # <<>> /\ DOMAIN <<w>> = {1} /\ <<w>>[1] = w /\ Len(<<w>>) = 1 /\ <<w>> \in Seq({w})
  OBVIOUS
<1>2. PICK s : s = <<w>>  OBVIOUS
<1>3. Positions(s, Brackets) = {}  BY <1>1, <1>2 DEF Positions
<1>4. TrimBrackets(s) = s  BY <1>1, <1>2, <1>3, TrimNothing
<1> QED  BY <1>1, <1>2, <1>3, <1>4

LEMMA ThreeTokens == ASSUME NEW a, NEW b, NEW c, NEW s, s = <<a, b, c>>
  PROVE /\ s # <<>> /\ DOMAIN s = 1..3 /\ Len(s) = 3 /\ s[1] = a /\ s[2] = b /\ s[3] = c
        /\ s \in Seq({a, b, c})
OBVIOUS

\* The address in brackets is the address.
LEMMA BracketsTrimmed ==
  ASSUME NEW w, w \notin Brackets, NEW s, s = <<"[", w, "]">>
  PROVE  TrimBrackets(s) = <<w>>
<1>1. DOMAIN s = 1..3 /\ s[1] = "[" /\ s[2] = w /\ s[3] = "]" /\ s \in Seq({"[", w, "]"}) /\ Len(s) = 3
  BY ThreeTokens
<1> DEFINE inner == {i \in DOMAIN s : s[i] \notin Brackets}
           a == CHOOSE i \in inner : IsFirst(inner, i)
           b == CHOOSE i \in inner : IsLast(inner, i)
<1>2. inner = {2}
  <2>1. \A i \in 1..3 : s[i] \notin Brackets <=> i = 2  BY <1>1 DEF Brackets
  <2> QED  BY <1>1, <2>1
<1>3. TrimBrackets(s) = SubSeq(s, a, b)
  <2>1. inner # {}  BY <1>2
  <2> QED  BY <2>1 DEF TrimBrackets
<1>4. a = 2 /\ b = 2
  <2> HIDE DEF inner
  <2>1. IsFirst(inner, 2) /\ IsLast(inner, 2) /\ 2 \in inner  BY <1>2 DEF IsFirst, IsLast
  <2> QED  BY <1>2, <2>1
<1> HIDE DEF a, b
<1>5. SubSeq(s, 2, 2) = <<w>>
  <2>1. PICK t : t = SubSeq(s, 2, 2)  OBVIOUS
  <2>2. t \in Seq({"[", w, "]"}) /\ Len(t) = 1 /\ t[1] = w  BY <1>1, <2>1
  <2>3. PICK u : u = <<w>>  OBVIOUS
  <2>4. u \in Seq({w}) /\ Len(u) = 1 /\ u[1] = w  BY <2>3
  <2>5. t = u  BY <2>2, <2>4, SameElements
  <2> QED  BY <2>1, <2>3, <2>5
<1> QED  BY <1>3, <1>4, <1>5

\* An IPv6 address is an address.
LEMMA V6IsIP == IsIP(<<"v6">>)
<1>1. PICK s : s = <<"v6">>  OBVIOUS
<1>2. DOMAIN s = {1} /\ s[1] = "v6" /\ Len(s) = 1 /\ 1..(Len(s) - 1) = {}
  BY <1>1
<1> DEFINE Doubles == {i \in 1..(Len(s) - 1) : s[i] = ":" /\ s[i + 1] = ":"}
<1>3. Doubles = {} /\ Cardinality(Doubles) = 0
  <2>1. Doubles = {}  BY <1>2
  <2> HIDE DEF Doubles
  <2> QED  BY <2>1, FS_EmptySet
<1>4. Positions(s, {"v6"}) = {1} /\ Cardinality(Positions(s, {"v6"})) = 1
  <2>1. Positions(s, {"v6"}) = {1}  BY <1>2 DEF Positions
  <2> QED  BY <2>1, FS_Singleton
<1>5. Cardinality(Doubles) + Cardinality(Positions(s, {"v6"})) = 1
  <2> HIDE DEF Doubles
  <2> QED  BY <1>3, <1>4
<1>6. /\ \A i \in DOMAIN s : \/ s[i] \in ({"v6"} \cup (Digits \ {"70000"})) \cup {":"}
                             \/ s[i] = "v4" /\ i = Len(s)
      /\ \A i \in 1..(Len(s) - 1) : ":" \in {s[i], s[i + 1]}
      /\ s[1] # ":" /\ s[Len(s)] # ":"
  BY <1>2
<1>7. IsIP(s)  BY <1>5, <1>6, Zenon DEF IsIP
<1> QED  BY <1>1, <1>7

\* A word alone is a host.
LEMMA WordParsed ==
  ASSUME NEW w, w \notin Brackets \cup {":"} PROVE SplitHostPortLoose(<<w>>) = Accepted(<<w>>, NoPort)
<1>1. PICK s : s = <<w>>  OBVIOUS
<1>2. s # <<>> /\ DOMAIN s = {1} /\ s[1] = w /\ TrimBrackets(s) = s  BY <1>1, OneToken
<1>3. Positions(s, {":"}) = {}  BY <1>2 DEF Positions
<1>4. ~SplitHostPort(s).ok
  <2>1. SplitHostPort(s) = [ok |-> FALSE, host |-> <<>>, port |-> <<>>]  BY <1>3, SplitNever
  <2> QED  BY <2>1
<1>5. ~ColonDigits(s)  BY <1>3 DEF ColonDigits
<1>6. s[1] # "["  BY <1>2 DEF Brackets
<1>7. SplitHostPortLoose(s) = SplitBare(s)  BY <1>2, <1>4, <1>5, <1>6 DEF SplitHostPortLoose
<1> QED  BY <1>1, <1>2, <1>7 DEF SplitBare

\* A bare address is not cut at its last colon.
LEMMA AddressParsed ==
  SplitHostPortLoose(<<"v6", ":", "8443">>) = Accepted(<<"v6", ":", "8443">>, NoPort)
<1>1. PICK s : s = <<"v6", ":", "8443">>  OBVIOUS
<1>2. /\ s # <<>> /\ DOMAIN s = 1..3 /\ s[1] = "v6" /\ s[2] = ":" /\ s[3] = "8443" /\ Len(s) = 3
      /\ s \in Seq({"v6", ":", "8443"})
  BY <1>1, ThreeTokens
<1>3. \A i \in 1..3 : s[i] \notin Brackets  BY <1>2 DEF Brackets
<1>4. TrimBrackets(s) = s
  <2>1. Positions(s, Brackets) = {}  BY <1>2, <1>3 DEF Positions
  <2> QED  BY <1>2, <2>1, TrimNothing
<1>5. ~SplitHostPort(s).ok
  <2>1. ASSUME NEW i \in Positions(s, {":"}) PROVE ~SplitsAt(s, i)
    <3>1. i = 2  BY <1>2 DEF Positions
    <3>2. PICK t : t = Before(s, 2)  OBVIOUS
    <3>3. DOMAIN t = {1} /\ t[1] = "v6"  BY <1>2, <3>2 DEF Before
    <3>4. Positions(t, {":", "v6"}) # {}  BY <3>3 DEF Positions
    <3> QED  BY <1>2, <3>1, <3>2, <3>4 DEF SplitsAt
  <2>2. SplitHostPort(s) = [ok |-> FALSE, host |-> <<>>, port |-> <<>>]  BY <2>1, SplitNever
  <2> QED  BY <2>2
<1>6. ~ColonDigits(s)
  <2>1. 1 \in Positions(s, {"v6"})  BY <1>2 DEF Positions
  <2> QED  BY <2>1 DEF ColonDigits
<1>7. SplitHostPortLoose(s) = SplitBare(s)  BY <1>2, <1>5, <1>6 DEF SplitHostPortLoose
<1> QED  BY <1>1, <1>4, <1>7 DEF SplitBare

\* Brackets mark an address.
LEMMA BracketsParsed ==
  SplitHostPortLoose(<<"[", "v6", "]">>) = Accepted(<<"v6">>, NoPort)
<1>1. PICK s : s = <<"[", "v6", "]">>  OBVIOUS
<1>2. s # <<>> /\ DOMAIN s = 1..3 /\ s[1] = "[" /\ s[2] = "v6" /\ s[3] = "]" /\ Len(s) = 3
  BY <1>1, ThreeTokens
<1>3. TrimBrackets(s) = <<"v6">>
  <2>1. "v6" \notin Brackets  BY DEF Brackets
  <2> QED  BY <1>1, <2>1, BracketsTrimmed
<1>4. Positions(s, {":"}) = {}  BY <1>2 DEF Positions
<1>5. ~SplitHostPort(s).ok
  <2>1. SplitHostPort(s) = [ok |-> FALSE, host |-> <<>>, port |-> <<>>]  BY <1>4, SplitNever
  <2> QED  BY <2>1
<1>6. SplitHostPortLoose(s) = Accepted(TrimBrackets(s), NoPort)
  BY <1>2, <1>3, <1>5, V6IsIP DEF SplitHostPortLoose
<1> QED  BY <1>1, <1>3, <1>6

\* Tuples put together token by token.
LEMMA OneMore ==
  ASSUME NEW S, NEW v \in Seq(S), NEW c \in S, NEW u, u = v \o <<c>>
  PROVE  /\ u \in Seq(S) /\ Len(u) = Len(v) + 1 /\ u[Len(v) + 1] = c
         /\ \A i \in 1..Len(v) : u[i] = v[i]
OBVIOUS

LEMMA TupleOfThree == ASSUME NEW a, NEW b, NEW c
  PROVE <<a>> \o <<b, c>> = <<a, b, c>> /\ <<a>> \o <<b>> \o <<c>> = <<a, b, c>>
<1>1. PICK s : s = <<a>> \o <<b, c>>  OBVIOUS
<1>2. PICK t : t = <<a, b, c>>  OBVIOUS
<1>3. PICK u : u = <<a>> \o <<b>> \o <<c>>  OBVIOUS
<1>4. t \in Seq({a, b, c}) /\ Len(t) = 3 /\ t[1] = a /\ t[2] = b /\ t[3] = c  BY <1>2
<1>5. s \in Seq({a, b, c}) /\ Len(s) = 3 /\ s[1] = a /\ s[2] = b /\ s[3] = c  BY <1>1
<1>6. u \in Seq({a, b, c}) /\ Len(u) = 3 /\ u[1] = a /\ u[2] = b /\ u[3] = c
  <2>1. PICK v : v = <<a>> \o <<b>>  OBVIOUS
  <2>2. v \in Seq({a, b, c}) /\ Len(v) = 2 /\ v[1] = a /\ v[2] = b  BY <2>1
  <2>3. u = v \o <<c>>  BY <1>3, <2>1
  <2>4. /\ u \in Seq({a, b, c}) /\ Len(u) = Len(v) + 1 /\ u[Len(v) + 1] = c
        /\ \A i \in 1..Len(v) : u[i] = v[i]
    BY <2>2, <2>3, OneMore
  <2> QED  BY <2>2, <2>4
<1>7. \A i \in 1..3 : i = 1 \/ i = 2 \/ i = 3  OBVIOUS
<1>8. s = t  BY <1>4, <1>5, <1>7, SameElements
<1>9. u = t  BY <1>4, <1>6, <1>7, SameElements
<1> QED  BY <1>1, <1>2, <1>3, <1>8, <1>9

LEMMA TupleOfFive == ASSUME NEW a, NEW b, NEW c, NEW d, NEW e
  PROVE <<a, b, c>> \o <<d, e>> = <<a, b, c, d, e>>
<1>1. PICK s : s = <<a, b, c>> \o <<d, e>>  OBVIOUS
<1>2. PICK t : t = <<a, b, c, d, e>>  OBVIOUS
<1>3. /\ t \in Seq({a, b, c, d, e}) /\ Len(t) = 5
      /\ t[1] = a /\ t[2] = b /\ t[3] = c /\ t[4] = d /\ t[5] = e
  BY <1>2
<1>4. /\ s \in Seq({a, b, c, d, e}) /\ Len(s) = 5
      /\ s[1] = a /\ s[2] = b /\ s[3] = c /\ s[4] = d /\ s[5] = e
  BY <1>1
<1>5. \A i \in 1..5 : i = 1 \/ i = 2 \/ i = 3 \/ i = 4 \/ i = 5  OBVIOUS
<1>6. s = t  BY <1>3, <1>4, <1>5, SameElements
<1> QED  BY <1>1, <1>2, <1>6

\* What JoinHostPort joins.
LEMMA JoinedAs ==
  ASSUME NEW h, NEW p, NEW d, d = Spelling(p)
  PROVE  /\ Positions(h, {":", "v6"}) = {} => JoinHostPort(h, p) = h \o <<":", d>>
         /\ Positions(h, {":", "v6"}) # {} =>
              JoinHostPort(h, p) = <<"[">> \o h \o <<"]">> \o <<":", d>>
<1> DEFINE host == IF Positions(h, {":", "v6"}) # {} THEN <<"[">> \o h \o <<"]">> ELSE h
<1>1. JoinHostPort(h, p) = host \o <<":", Spelling(p)>>
  BY DEF JoinHostPort, Spelling
<1>2. /\ Positions(h, {":", "v6"}) = {} => host = h
      /\ Positions(h, {":", "v6"}) # {} => host = <<"[">> \o h \o <<"]">>
  OBVIOUS
<1> HIDE DEF host
<1>3. JoinHostPort(h, p) = host \o <<":", d>>  BY <1>1, Zenon
<1> QED  BY <1>2, <1>3, Zenon

\* JoinHostPort of a word, or of an address, and 8443.
LEMMA Joined8443 ==
  /\ \A w : w \notin {":", "v6"} => JoinHostPort(<<w>>, 8443) = <<w, ":", "8443">>
  /\ JoinHostPort(<<"v6">>, 8443) = <<"[", "v6", "]", ":", "8443">>
<1>1. PICK d : d = Spelling(8443)  OBVIOUS
<1>2. d = "8443"
  <2>1. d \in Digits /\ ParsePort(<<d>>) = 8443
    <3>1. 8443 \in Ports  BY DEF Ports
    <3> QED  BY <1>1, <3>1, PortsSpelled
  <2>2. d \in {"8443", "70000", "443", "80"}  BY <2>1 DEF Digits
  <2>3. ParsePort(<<"80">>) # 8443  BY DEF ParsePort
  <2>4. ParsePort(<<"443">>) # 8443  BY DEF ParsePort
  <2>5. ParsePort(<<"70000">>) # 8443  BY DEF ParsePort, BadPort
  <2> QED  BY <2>1, <2>2, <2>3, <2>4, <2>5
<1>3. ASSUME NEW w, w \notin {":", "v6"} PROVE JoinHostPort(<<w>>, 8443) = <<w, ":", "8443">>
  <2>1. PICK h : h = <<w>>  OBVIOUS
  <2>2. DOMAIN h = {1} /\ h[1] = w  BY <2>1
  <2>3. Positions(h, {":", "v6"}) = {}  BY <1>3, <2>2 DEF Positions
  <2>4. JoinHostPort(h, 8443) = h \o <<":", d>>  BY <1>1, <2>3, JoinedAs
  <2>5. <<w>> \o <<":", "8443">> = <<w, ":", "8443">>  BY TupleOfThree
  <2> QED  BY <1>2, <2>1, <2>4, <2>5
<1>4. JoinHostPort(<<"v6">>, 8443) = <<"[", "v6", "]", ":", "8443">>
  <2>1. PICK h : h = <<"v6">>  OBVIOUS
  <2>2. DOMAIN h = {1} /\ h[1] = "v6"  BY <2>1
  <2>3. Positions(h, {":", "v6"}) # {}  BY <2>2 DEF Positions
  <2>4. JoinHostPort(h, 8443) = <<"[">> \o h \o <<"]">> \o <<":", d>>  BY <1>1, <2>3, JoinedAs
  <2>5. <<"[">> \o <<"v6">> \o <<"]">> \o <<":", "8443">> = <<"[", "v6", "]", ":", "8443">>
    <3>1. PICK v : v = <<"[">> \o <<"v6">> \o <<"]">>  OBVIOUS
    <3>2. v = <<"[", "v6", "]">>  BY <3>1, TupleOfThree
    <3>3. v \o <<":", "8443">> = <<"[", "v6", "]", ":", "8443">>  BY <3>2, TupleOfFive
    <3> QED  BY <3>1, <3>3
  <2> QED  BY <1>2, <2>1, <2>4, <2>5
<1> QED  BY <1>3, <1>4

\* A URL whose host is w: the port is the one behind the only colon, if there is one.
LEMMA URLWord ==
  ASSUME NEW w, w \notin Brackets \cup {":", "v6"}
  PROVE  SplitURLHost(<<w>>) = [ok |-> TRUE, host |-> <<w>>, port |-> <<>>]
<1>1. PICK s : s = <<w>>  OBVIOUS
<1>2. DOMAIN s = {1} /\ s[1] = w /\ TrimBrackets(s) = s  BY <1>1, OneToken
<1>3. Positions(s, {":", "v6"} \cup Brackets) = {}  BY <1>2 DEF Positions
<1>4. {i \in Positions(s, {":"}) : \A j \in (i + 1)..Len(s) : s[j] \in Digits} = {}
  BY <1>2 DEF Positions
<1>5. SplitURLHost(s) = [ok |-> TRUE, host |-> s, port |-> <<>>]
  BY <1>2, <1>3, <1>4 DEF SplitURLHost
<1> QED  BY <1>1, <1>5

LEMMA URLAddress ==
  SplitURLHost(<<"[", "v6", "]">>) = [ok |-> TRUE, host |-> <<"v6">>, port |-> <<>>]
<1>1. PICK s : s = <<"[", "v6", "]">>  OBVIOUS
<1>2. DOMAIN s = 1..3 /\ s[1] = "[" /\ s[2] = "v6" /\ s[3] = "]" /\ s # <<>>
  BY <1>1, ThreeTokens
<1>3. TrimBrackets(s) = <<"v6">>
  <2>1. "v6" \notin Brackets  BY DEF Brackets
  <2> QED  BY <1>1, <2>1, BracketsTrimmed
<1>4. {i \in Positions(s, {":"}) : \A j \in (i + 1)..Len(s) : s[j] \in Digits} = {}
  BY <1>2 DEF Positions
<1>5. s = <<"[">> \o <<"v6">> \o <<"]">>
  <2>1. <<"[">> \o <<"v6">> \o <<"]">> = <<"[", "v6", "]">>  BY TupleOfThree
  <2> QED  BY <1>1, <2>1
<1>6. <<"v6">> # <<"v4">>
  <2>1. <<"v6">>[1] = "v6" /\ <<"v4">>[1] = "v4"  OBVIOUS
  <2> QED  BY <2>1
<1>7. SplitURLHost(s) = [ok |-> TRUE, host |-> <<"v6">>, port |-> <<>>]
  BY <1>2, <1>3, <1>4, <1>5, <1>6, V6IsIP DEF SplitURLHost
<1> QED  BY <1>1, <1>7

\* Digits behind the only colon of a URL's host are its port.
LEMMA URLPort ==
  ASSUME NEW S, NEW h \in Seq(S), h # <<>>, Positions(h, {":"}) = {}, NEW d \in Digits,
         NEW s, s = h \o <<":", d>>
  PROVE  SplitURLHost(s) = [ok |-> \/ h # <<>> /\ h = <<"[">> \o TrimBrackets(h) \o <<"]">>
                                      /\ IsIP(TrimBrackets(h)) /\ TrimBrackets(h) # <<"v4">>
                                   \/ Positions(h, {":", "v6"} \cup Brackets) = {},
                            host |-> TrimBrackets(h), port |-> <<d>>]
<1> DEFINE n == Len(h)
           T == S \cup {":", d}
           ports == {i \in Positions(s, {":"}) : \A j \in (i + 1)..Len(s) : s[j] \in Digits}
           i     == CHOOSE i \in ports : TRUE
<1>1. /\ n \in Nat /\ s \in Seq(T) /\ Len(s) = n + 2
      /\ \A j \in 1..n : s[j] = h[j]
      /\ s[n + 1] = ":" /\ s[n + 2] = d
  BY JoinedPlain
<1> HIDE DEF T
<1>2. \A j \in 1..n : h[j] # ":"  BY DEF Positions
<1>3. d # ":"  BY DEF Digits
<1>4. DOMAIN s = 1..(n + 2)  BY <1>1
<1>5. \A j \in 1..(n + 2) : j \in 1..n \/ j = n + 1 \/ j = n + 2  BY <1>1
<1>6. \A j \in 1..(n + 2) : s[j] = ":" <=> j = n + 1  BY <1>1, <1>2, <1>3, <1>5
<1>7. Positions(s, {":"}) = {n + 1}
  <2>1. n + 1 \in 1..(n + 2)  BY <1>1
  <2> QED  BY <1>4, <1>6, <2>1 DEF Positions
<1>8. ports = {n + 1}
  <2>1. \A j \in ((n + 1) + 1)..Len(s) : s[j] \in Digits  BY <1>1
  <2> QED  BY <1>7, <2>1
<1>9. i = n + 1
  <2> HIDE DEF ports
  <2> QED  BY <1>8
<1>10. Before(s, n + 1) = h
  <2>1. PICK w : w = SubSeq(s, 1, n)  OBVIOUS
  <2>2. w \in Seq(T) /\ Len(w) = n /\ \A j \in 1..n : w[j] = s[j]
    BY <1>1, <2>1
  <2>3. (n + 1) - 1 = n  BY <1>1
  <2>4. w = h  BY <1>1, <2>2, SameElements
  <2> QED  BY <2>1, <2>3, <2>4 DEF Before
<1>11. From(s, n + 1) = <<d>>
  <2>1. (n + 1) + 1 = Len(s) /\ Len(s) >= 1 /\ s[Len(s)] = d  BY <1>1
  <2> QED  BY <1>1, <2>1, LastPart DEF From
<1>12. SplitURLHost(s) =
         LET host == IF ports = {} THEN s ELSE Before(s, i)
             port == IF ports = {} THEN <<>> ELSE From(s, i)
         IN  [ok |-> \/ host # <<>> /\ host = <<"[">> \o TrimBrackets(host) \o <<"]">>
                        /\ IsIP(TrimBrackets(host)) /\ TrimBrackets(host) # <<"v4">>
                     \/ Positions(host, {":", "v6"} \cup Brackets) = {},
              host |-> TrimBrackets(host), port |-> port]
  BY DEF SplitURLHost
<1> HIDE DEF i, ports
<1>13. ports # {}  BY <1>8
<1> QED  BY <1>9, <1>10, <1>11, <1>12, <1>13

LEMMA URLPair ==
  /\ \A w : w \notin Brackets \cup {":", "v6"} =>
       SplitURLHost(<<w, ":", "8443">>) = [ok |-> TRUE, host |-> <<w>>, port |-> <<"8443">>]
  /\ SplitURLHost(<<"[", "v6", "]", ":", "8443">>) = [ok |-> TRUE, host |-> <<"v6">>, port |-> <<"8443">>]
<1>1. "8443" \in Digits  BY DEF Digits
<1>2. ASSUME NEW w, w \notin Brackets \cup {":", "v6"}
      PROVE  SplitURLHost(<<w, ":", "8443">>) = [ok |-> TRUE, host |-> <<w>>, port |-> <<"8443">>]
  <2>1. PICK h : h = <<w>>  OBVIOUS
  <2>2. PICK s : s = h \o <<":", "8443">>  OBVIOUS
  <2>3. h # <<>> /\ h \in Seq({w}) /\ DOMAIN h = {1} /\ h[1] = w /\ TrimBrackets(h) = h
    BY <1>2, <2>1, OneToken
  <2>4. Positions(h, {":"}) = {} /\ Positions(h, {":", "v6"} \cup Brackets) = {}
    BY <1>2, <2>3 DEF Positions
  <2>5. SplitURLHost(s) = [ok |-> TRUE, host |-> h, port |-> <<"8443">>]
    BY <1>1, <2>2, <2>3, <2>4, URLPort
  <2>6. s = <<w, ":", "8443">>  BY <2>1, <2>2, TupleOfThree
  <2> QED  BY <2>1, <2>5, <2>6
<1>3. SplitURLHost(<<"[", "v6", "]", ":", "8443">>) = [ok |-> TRUE, host |-> <<"v6">>, port |-> <<"8443">>]
  <2>1. PICK h : h = <<"[", "v6", "]">>  OBVIOUS
  <2>2. PICK s : s = h \o <<":", "8443">>  OBVIOUS
  <2>3. h # <<>> /\ h \in Seq({"[", "v6", "]"}) /\ DOMAIN h = 1..3 /\ h[1] = "[" /\ h[2] = "v6" /\ h[3] = "]"
    BY <2>1, ThreeTokens
  <2>4. Positions(h, {":"}) = {}  BY <2>3 DEF Positions
  <2>5. TrimBrackets(h) = <<"v6">>
    <3>1. "v6" \notin Brackets  BY DEF Brackets
    <3> QED  BY <2>1, <3>1, BracketsTrimmed
  <2>6. h = <<"[">> \o <<"v6">> \o <<"]">>  BY <2>1, TupleOfThree
  <2>7. <<"v6">> # <<"v4">>
    <3>1. <<"v6">>[1] = "v6" /\ <<"v4">>[1] = "v4"  OBVIOUS
    <3> QED  BY <3>1
  <2>8. SplitURLHost(s) = [ok |-> TRUE, host |-> <<"v6">>, port |-> <<"8443">>]
    BY <1>1, <2>2, <2>3, <2>4, <2>5, <2>6, <2>7, V6IsIP, URLPort
  <2>9. s = <<"[", "v6", "]", ":", "8443">>  BY <2>1, <2>2, TupleOfFive
  <2> QED  BY <2>8, <2>9
<1> QED  BY <1>2, <1>3

\* A target without a scheme, and a URL.
LEMMA BareParsed ==
  ASSUME NEW s, NEW h, NEW p, h # <<>>, SplitHostPortLoose(s) = Accepted(h, p),
         NEW q, q = DialedPort(p),
         NEW input, input = Bare(s)
  PROVE  Parse(input, 0) = Accepted(TrimBrackets(h), q)
<1>1. input.scheme = "" /\ input.rest = s  BY DEF Bare
<1>2. PICK base : base = Accepted(h, p)  OBVIOUS
<1>3. base = SplitHostPortLoose(input.rest)  BY <1>1, <1>2
<1> QED  BY <1>1, <1>2, <1>3, ParseOf

LEMMA URLParsed ==
  ASSUME NEW scheme \in {"http", "https"}, NEW s, NEW h, h # <<>>, NEW p, NEW q,
         NEW input, input = [scheme |-> scheme, rest |-> s],
         ParseURL(scheme, s) = Accepted(h, p), q = DialedPort(p)
  PROVE  Parse(input, 0) = Accepted(TrimBrackets(h), q)
<1>1. input.scheme = scheme /\ input.rest = s /\ scheme # ""  OBVIOUS
<1>2. PICK base : base = Accepted(h, p)  OBVIOUS
<1>3. base = ParseURL(input.scheme, input.rest)  BY <1>1, <1>2
<1> QED  BY <1>1, <1>2, <1>3, ParseOf

\* The port of a URL is that of its scheme, or the one it names.
LEMMA URLDefault ==
  ASSUME NEW scheme \in {"http", "https"}, NEW s, NEW h, h # <<>>,
         SplitURLHost(s) = [ok |-> TRUE, host |-> h, port |-> <<>>],
         NEW input, input = [scheme |-> scheme, rest |-> s],
         NEW q, q = IF scheme = "http" THEN 80 ELSE 443
  PROVE  Parse(input, 0) = Accepted(TrimBrackets(h), q)
<1>1. ParseURL(scheme, s) = Accepted(h, IF scheme = "http" THEN 80 ELSE NoPort)
  BY DEF ParseURL
<1>2. CASE scheme = "http"
  <2>1. ParseURL(scheme, s) = Accepted(h, 80) /\ q = 80  BY <1>1, <1>2
  <2>2. q = DialedPort(80)  BY <2>1 DEF NoPort, DialedPort
  <2> QED  BY <2>1, <2>2, URLParsed
<1>3. CASE scheme # "http"
  <2>1. ParseURL(scheme, s) = Accepted(h, NoPort) /\ q = 443  BY <1>1, <1>3
  <2>2. q = DialedPort(NoPort)  BY <2>1 DEF DialedPort
  <2> QED  BY <2>1, <2>2, URLParsed
<1> QED  BY <1>2, <1>3

LEMMA URLNamed ==
  ASSUME NEW scheme \in {"http", "https"}, NEW s, NEW h, h # <<>>,
         SplitURLHost(s) = [ok |-> TRUE, host |-> h, port |-> <<"8443">>],
         NEW input, input = [scheme |-> scheme, rest |-> s]
  PROVE  Parse(input, 0) = Accepted(TrimBrackets(h), 8443)
<1>1. ParsePort(<<"8443">>) = 8443 /\ <<"8443">> # <<>> /\ 8443 # BadPort
  BY DEF ParsePort, BadPort
<1>2. ParseURL(scheme, s) = Accepted(h, 8443)  BY <1>1 DEF ParseURL, WithPort
<1>3. 8443 = DialedPort(8443)  BY DEF NoPort, DialedPort
<1> QED  BY <1>2, <1>3, URLParsed

\* A documented form, and what ParseTarget makes of it.
LEMMA FormParsed ==
  ASSUME NEW input, NEW h, NEW p, Parse(input, 0) = Accepted(TrimBrackets(h), p),
         NEW f, f = <<input, h, p>>
  PROVE  Parse(f[1], 0) = Accepted(TrimBrackets(f[2]), f[3])
<1>1. f[1] = input /\ f[2] = h /\ f[3] = p  OBVIOUS
<1> QED  BY <1>1

LEMMA FormsUnderstood ==
  ASSUME NEW f \in Forms PROVE Parse(f[1], 0) = Accepted(TrimBrackets(f[2]), f[3])
<1> DEFINE Hosts   == {<<"name">>, <<"v4">>}
           Alone   == {<<Bare(h), h, 443>> : h \in Hosts \cup {<<"v6">>, <<"v6", ":", "8443">>}}
           Paired  == {<<Bare(h \o <<":", "8443">>), h, 8443>> : h \in Hosts \cup {<<"[", "v6", "]">>}}
           Bracket == {<<Bare(<<"[", "v6", "]">>), <<"v6">>, 443>>}
           URLs    == {<<[scheme |-> s, rest |-> h], h, IF s = "http" THEN 80 ELSE 443>> :
                         s \in {"http", "https"}, h \in Hosts \cup {<<"[", "v6", "]">>}}
           Pairs   == {<<[scheme |-> s, rest |-> h \o <<":", "8443">>], h, 8443>> :
                         s \in {"http", "https"}, h \in Hosts \cup {<<"[", "v6", "]">>}}
           Right   == Parse(f[1], 0) = Accepted(TrimBrackets(f[2]), f[3])
<1>1. f \in Alone \/ f \in Paired \/ f \in Bracket \/ f \in URLs \/ f \in Pairs  BY DEF Forms
<1>2. \A w \in {"name", "v4"} : w \notin Brackets \cup {":", "v6"}  BY DEF Brackets
<1>3. "v6" \notin Brackets  BY DEF Brackets
<1>4. /\ \A w : <<w>> # <<>>
      /\ <<"[", "v6", "]">> # <<>> /\ <<"v6", ":", "8443">> # <<>>
  OBVIOUS
<1>5. /\ \A w \in {"name", "v4", "v6"} : TrimBrackets(<<w>>) = <<w>>
      /\ TrimBrackets(<<"[", "v6", "]">>) = <<"v6">>
  BY <1>2, <1>3, OneToken, BracketsTrimmed
<1>6. 443 = DialedPort(NoPort) /\ 8443 = DialedPort(8443)  BY DEF NoPort, DialedPort
<1>7. CASE f \in Alone
  <2>1. PICK h \in Hosts \cup {<<"v6">>, <<"v6", ":", "8443">>} : f = <<Bare(h), h, 443>>  BY <1>7
  <2>2. CASE h \in Hosts \cup {<<"v6">>}
    <3>1. PICK w \in {"name", "v4", "v6"} : h = <<w>>  BY <2>2
    <3>2. w \notin Brackets \cup {":"}  BY <1>2, <1>3
    <3>3. SplitHostPortLoose(h) = Accepted(h, NoPort) /\ h # <<>>  BY <1>4, <3>1, <3>2, WordParsed
    <3>4. Parse(Bare(h), 0) = Accepted(TrimBrackets(h), 443)  BY <1>6, <3>3, BareParsed
    <3> QED  BY <2>1, <3>4, FormParsed
  <2>3. CASE h = <<"v6", ":", "8443">>
    <3>1. SplitHostPortLoose(h) = Accepted(h, NoPort) /\ h # <<>>  BY <1>4, <2>3, AddressParsed
    <3>2. Parse(Bare(h), 0) = Accepted(TrimBrackets(h), 443)  BY <1>6, <3>1, BareParsed
    <3> QED  BY <2>1, <3>2, FormParsed
  <2> QED  BY <2>2, <2>3
<1>8. CASE f \in Paired
  <2>1. PICK h \in Hosts \cup {<<"[", "v6", "]">>} : f = <<Bare(h \o <<":", "8443">>), h, 8443>>
    BY <1>8
  <2>2. PICK j : j = h \o <<":", "8443">>  OBVIOUS
  <2>3. PICK input : input = Bare(j)  OBVIOUS
  <2>4. f = <<input, h, 8443>>  BY <2>1, <2>2, <2>3
  <2>5. 8443 \in Ports  BY DEF Ports
  <2>6. ASSUME NEW w, w \notin Brackets, NEW u, u = <<w>>, u = TrimBrackets(h),
               j = JoinHostPort(u, 8443)
        PROVE  Right
    <3>1. u # <<>> /\ u \in Seq({w}) /\ Positions(u, Brackets) = {} /\ TrimBrackets(u) = u
      BY <2>6, OneToken
    <3>2. SplitHostPortLoose(JoinHostPort(u, 8443)) = Accepted(u, 8443)  BY <2>5, <3>1, PairParsed
    <3>3. SplitHostPortLoose(j) = Accepted(u, 8443)  BY <2>6, <3>2
    <3>4. Parse(input, 0) = Accepted(TrimBrackets(u), 8443)  BY <1>6, <2>3, <3>1, <3>3, BareParsed
    <3>5. Parse(input, 0) = Accepted(TrimBrackets(h), 8443)  BY <2>6, <3>1, <3>4
    <3> QED  BY <2>4, <3>5, FormParsed
  <2>7. CASE h \in Hosts
    <3>1. PICK w \in {"name", "v4"} : h = <<w>>  BY <2>7
    <3>2. j = <<w, ":", "8443">>  BY <2>2, <3>1, TupleOfThree
    <3>3. JoinHostPort(<<w>>, 8443) = <<w, ":", "8443">>  BY <1>2, Joined8443
    <3> QED  BY <1>2, <1>5, <2>6, <3>1, <3>2, <3>3
  <2>8. CASE h = <<"[", "v6", "]">>
    <3>1. j = JoinHostPort(<<"v6">>, 8443)  BY <2>2, <2>8, TupleOfFive, Joined8443
    <3> QED  BY <1>3, <1>5, <2>6, <2>8, <3>1
  <2> QED  BY <2>7, <2>8
<1>9. CASE f \in Bracket
  <2>1. PICK s : s = <<"[", "v6", "]">>  OBVIOUS
  <2>2. PICK h : h = <<"v6">>  OBVIOUS
  <2>3. PICK input : input = Bare(s)  OBVIOUS
  <2>4. h # <<>> /\ SplitHostPortLoose(s) = Accepted(h, NoPort)  BY <1>4, <2>1, <2>2, BracketsParsed
  <2>5. Parse(input, 0) = Accepted(TrimBrackets(h), 443)  BY <1>6, <2>3, <2>4, BareParsed
  <2>6. f = <<input, h, 443>>  BY <1>9, <2>1, <2>2, <2>3
  <2> QED  BY <2>5, <2>6, FormParsed
<1>10. ASSUME NEW h \in Hosts \cup {<<"[", "v6", "]">>}
       PROVE  \E k : /\ k # <<>> /\ TrimBrackets(k) = TrimBrackets(h)
                     /\ SplitURLHost(h) = [ok |-> TRUE, host |-> k, port |-> <<>>]
                     /\ SplitURLHost(h \o <<":", "8443">>) = [ok |-> TRUE, host |-> k, port |-> <<"8443">>]
  <2>1. CASE h \in Hosts
    <3>1. PICK w \in {"name", "v4"} : h = <<w>>  BY <2>1
    <3>2. h \o <<":", "8443">> = <<w, ":", "8443">>  BY <3>1, TupleOfThree
    <3> QED  BY <1>2, <1>4, <3>1, <3>2, URLWord, URLPair
  <2>2. CASE h = <<"[", "v6", "]">>
    <3>1. h \o <<":", "8443">> = <<"[", "v6", "]", ":", "8443">>  BY <2>2, TupleOfFive
    <3>2. TrimBrackets(<<"v6">>) = TrimBrackets(h)  BY <1>5, <2>2
    <3> QED  BY <1>4, <2>2, <3>1, <3>2, URLAddress, URLPair
  <2> QED  BY <1>10, <2>1, <2>2
<1>11. CASE f \in URLs
  <2>1. PICK s \in {"http", "https"}, h \in Hosts \cup {<<"[", "v6", "]">>} :
          f = <<[scheme |-> s, rest |-> h], h, IF s = "http" THEN 80 ELSE 443>>
    BY <1>11
  <2>2. PICK k : /\ k # <<>> /\ TrimBrackets(k) = TrimBrackets(h)
                 /\ SplitURLHost(h) = [ok |-> TRUE, host |-> k, port |-> <<>>]
    BY <1>10
  <2>3. PICK input : input = [scheme |-> s, rest |-> h]  OBVIOUS
  <2>4. PICK q : q = IF s = "http" THEN 80 ELSE 443  OBVIOUS
  <2>5. Parse(input, 0) = Accepted(TrimBrackets(k), q)  BY <2>2, <2>3, <2>4, URLDefault
  <2>6. Parse(input, 0) = Accepted(TrimBrackets(h), q)  BY <2>2, <2>5
  <2>7. f = <<input, h, q>>  BY <2>1, <2>3, <2>4
  <2> QED  BY <2>6, <2>7, FormParsed
<1>12. CASE f \in Pairs
  <2>1. PICK s \in {"http", "https"}, h \in Hosts \cup {<<"[", "v6", "]">>} :
          f = <<[scheme |-> s, rest |-> h \o <<":", "8443">>], h, 8443>>
    BY <1>12
  <2>2. PICK k : /\ k # <<>> /\ TrimBrackets(k) = TrimBrackets(h)
                 /\ SplitURLHost(h \o <<":", "8443">>) = [ok |-> TRUE, host |-> k, port |-> <<"8443">>]
    BY <1>10
  <2>3. PICK j : j = h \o <<":", "8443">>  OBVIOUS
  <2>4. PICK input : input = [scheme |-> s, rest |-> j]  OBVIOUS
  <2>5. SplitURLHost(j) = [ok |-> TRUE, host |-> k, port |-> <<"8443">>]  BY <2>2, <2>3
  <2>6. Parse(input, 0) = Accepted(TrimBrackets(k), 8443)  BY <2>2, <2>4, <2>5, URLNamed
  <2>7. Parse(input, 0) = Accepted(TrimBrackets(h), 8443)  BY <2>2, <2>6
  <2>8. f = <<input, h, 8443>>  BY <2>1, <2>3, <2>4
  <2> QED  BY <2>7, <2>8, FormParsed
<1> QED  BY <1>1, <1>7, <1>8, <1>9, <1>11, <1>12

\* Every target is understood.
LEMMA EveryTargetUnderstood ==
  ASSUME NEW S, NEW input, input.rest \in Seq(S) PROVE Understood(input)
<1> DEFINE t == Parse(input, 0)
<1>1. \A f \in Forms : f[1] = input => t = Accepted(TrimBrackets(f[2]), f[3])
  BY FormsUnderstood
<1>2. t.ok /\ t.host # <<>> /\ Positions(t.host, Brackets) = {} =>
        Parse(Bare(JoinHostPort(t.host, t.port)), 0) = t
  BY UnderstoodAgain
<1>3. t.ok /\ t.host = <<>> => Positions(input.rest, Brackets) # {}
  BY NoHostHasBrackets
<1> QED  BY <1>1, <1>2, <1>3, Zenon DEF Understood

----------------------------------------------------------------------------
(* The theorems. *)

LEMMA GateFromInv == CommandInv => GateSound
<1> SUFFICES ASSUME CommandInv, exit = 0, Checks, flags.end = "parsed", Gate \in Range(line)
             PROVE  /\ Targets = flags.rest
                    /\ \/ \A i \in DOMAIN results : results[i].attempted => Verified(results[i])
                       \/ Gate \in Range(Targets)
  BY DEF GateSound
<1>1. Len(results) = Len(flags.rest) /\ Suffix /\ ~(flags.gate /\ anyInvalid)
  BY DEF CommandInv, Ended
<1>2. Targets = flags.rest
  BY <1>1, TargetsComplete DEF CommandInv, Shape, FlagSet
<1>3. CASE flags.gate
  <2>1. \A i \in DOMAIN results : ~Invalid(results[i])  BY <1>3, <1>1, Zenon DEF CommandInv, Matched
  <2> QED  BY <2>1, <1>2 DEF Invalid, Verified
<1>4. CASE ~flags.gate  BY <1>4, <1>1, <1>2 DEF Suffix
<1> QED  BY <1>3, <1>4

LEMMA ExitFromInv == CommandInv => ExitJustified
<1> SUFFICES ASSUME CommandInv, exit = 2 PROVE ExitJustified  BY DEF ExitJustified
<1>1. /\ flags.gate /\ (stdout = "open" => printed # <<>>)
      /\ anyInvalid \/ (Kubes /\ KubernetesInvalid)
  BY DEF CommandInv, Ended
<1>2. anyInvalid => \E i \in DOMAIN results : results[i].attempted /\ ~Verified(results[i])
  <2>1. anyInvalid => \E i \in DOMAIN results : Invalid(results[i])  BY Zenon DEF CommandInv, Matched
  <2> QED  BY <2>1 DEF Invalid, Verified
<1>3. KubernetesInvalid =>
        \/ kreport.errors # {} \/ \E c \in kreport.certs : c.status # "valid"
        \/ \E r \in Range(kreport.apiCheck) : r.attempted /\ ~Verified(r)
  BY DEF KubernetesInvalid, Invalid, Verified, Range
<1> QED  BY <1>1, <1>2, <1>3 DEF ExitJustified

LEMMA AllFromInv == CommandInv => AllOrNothing
<1> SUFFICES ASSUME CommandInv, pc = "exited", Checks, flags.end # "help", ~(exit = 1 /\ printed = <<>>)
             PROVE  /\ printed \in {results, <<>>} /\ Targets = flags.rest
                    /\ \E n \in DOMAIN line \cup {0} : Targets = SubSeq(line, n + 1, Len(line))
                    /\ printed = <<>> => stdout = "full"
  BY DEF AllOrNothing
<1>1. /\ printed \in {results, <<>>} /\ Len(results) = Len(flags.rest) /\ Suffix
      /\ printed = <<>> => stdout = "full"
  BY DEF CommandInv, Ended
<1>2. Targets = flags.rest  BY <1>1, TargetsComplete DEF CommandInv, Shape, FlagSet
<1>3. PICK n \in 0..Len(line) : flags.rest = SubSeq(line, n + 1, Len(line))  BY <1>1 DEF Suffix
<1>4. n \in DOMAIN line \cup {0}
  <2>1. line \in Seq(Words)  BY DEF CommandInv, Shape
  <2> QED  BY <2>1
<1> QED  BY <1>1, <1>2, <1>3, <1>4

\* The exit code of check (main.go:80-150) is sound under --fail-on-invalid, for
\* every command line and every outcome of its checks.
THEOREM CommandGateSound == Spec => []GateSound
BY CommandInitInv, CommandNextInv, GateFromInv, PTL DEF Spec

\* Exit code 2 of check and kube has its reason in the report (main.go:146, 212).
THEOREM CommandExitJustified == Spec => []ExitJustified
BY CommandInitInv, CommandNextInv, ExitFromInv, PTL DEF Spec

\* check prints the results of all its targets or nothing (main.go:110-144).
THEOREM CommandAllOrNothing == Spec => []AllOrNothing
BY CommandInitInv, CommandNextInv, AllFromInv, PTL DEF Spec

\* The variables of main and of CheckKubernetes keep their types, and the exit code is
\* set exactly when main is over (main.go:23-236, kubernetes.go:59-104).
THEOREM CommandTypeCorrect == Spec => []TypeOK
BY KubeInvariant, TypesFromInv, PTL

\* kube behind --fail-on-invalid ends with 0 only when nothing was left out of the
\* report without a word, whatever is on the node (main.go:166-236, kubernetes.go:59-104).
THEOREM CommandNothingHidden == Spec => []NothingHidden
BY KubeInvariant, NothingHiddenFromInv, PTL

\* Clusters that fill in the same keys give the API server its own CA, however many
\* clusters and lines the kubeconfig has (parseKubeconfig, kubernetes.go:230-258).
THEOREM CommandOwnCluster == Spec => []OwnCluster
BY KubeInvariant, OwnClusterFromInv, PTL

\* ParseTarget understands every word of every command line as its documentation says,
\* and the address it dials is read back as the same target (parse.go:12-127).
THEOREM CommandTargetsUnderstood == Spec => []TargetsUnderstood
<1>1. CommandInv => TargetsUnderstood
  <2> SUFFICES ASSUME CommandInv, NEW i \in DOMAIN line PROVE Understood(line[i])
    BY DEF TargetsUnderstood
  <2>1. line \in Seq(Words)  BY DEF CommandInv, Shape
  <2>2. line[i] \in Words  BY <2>1
  <2>3. line[i].rest \in Seq(STRING)  BY <2>2 DEF Words
  <2> QED  BY <2>3, EveryTargetUnderstood
<1> QED  BY <1>1, CommandInitInv, CommandNextInv, PTL DEF Spec
----------------------------------------------------------------------------
(* The end of a command. *)

\* main picks a command, or a command ends or starts to serve.
Moves == \/ pc = "main" /\ pc' # "main"
         \/ pc \in {"check", "kube", "gui"} /\ pc' \in {"exited", "serving"}

\* A word less to parse, or no more words to parse.
Parses ==
  /\ pc' = pc /\ results' = results /\ kubeVars' = kubeVars /\ flags.end = ""
  /\ flags'.end # "" \/ Len(flags'.rest) < Len(flags.rest)

\* One more target, of those of the line.
Answers ==
  /\ pc' = pc /\ flags' = flags /\ kubeVars' = kubeVars
  /\ Len(results') = Len(results) + 1 /\ Len(results') <= Len(flags.rest)

\* The next part of CheckKubernetes, or one more of its directories.
KubeMoves ==
  /\ pc' = pc /\ flags' = flags /\ results' = results
  /\ \/ <<step, step'>> \in {<<"resolve", "kubeconfig">>, <<"kubeconfig", "api">>,
                             <<"api", "scan">>, <<"scan", "reported">>}
     \/ /\ step = "scan" /\ step' = "scan" /\ kreport'.certDirs = kreport.certDirs
        /\ scanned' = scanned + 1 /\ scanned' <= Len(kreport.certDirs)

LEMMA MainMoves == Main => Moves
<1> SUFFICES ASSUME Main PROVE pc' # "main"  BY DEF Main, Moves
<1>1. CASE line = <<>>
  <2>1. Exit(1)  BY <1>1 DEF Main
  <2> QED  BY <2>1 DEF Exit
<1>2. CASE line # <<>> /\ line[1] \in {Word("version"), Word("help")}
  <2>1. line[1] \notin KubeNames /\ line[1] # Word("gui") /\ line[1] # Word("check")
    BY <1>2, WordsDiffer DEF KubeNames
  <2>2. line[1] \in Commands  BY <1>2 DEF Commands
  <2> QED  BY <1>2, <2>1, <2>2 DEF Main, Exit
<1>3. CASE line # <<>> /\ line[1] \notin {Word("version"), Word("help")}
  <2>1. CASE line[1] \in KubeNames
    <3>1. line[1] # Word("gui") /\ line[1] # Word("check") /\ line[1] \in Commands
      BY <2>1, WordsDiffer DEF KubeNames, Commands
    <3> QED  BY <1>3, <2>1, <3>1 DEF Main, Goto
  <2>2. CASE line[1] \in {Word("gui"), Word("check")}
    <3>1. line[1] \notin KubeNames /\ Word("gui") # Word("check") /\ line[1] \in Commands
      BY <2>2, WordsDiffer DEF KubeNames, Commands
    <3> QED  BY <1>3, <2>2, <3>1 DEF Main, Goto
  <2>3. CASE line[1] \notin Commands
    <3>1. line[1] \notin KubeNames /\ line[1] # Word("gui") /\ line[1] # Word("check")
      BY <2>3 DEF Commands
    <3> QED  BY <1>3, <2>3, <3>1 DEF Main, Goto
  <2> QED  BY <1>3, <2>1, <2>2, <2>3 DEF Commands
<1> QED  BY <1>1, <1>2, <1>3

LEMMA ParseMoves == CommandInv /\ ParseFlag => Parses
<1> SUFFICES ASSUME CommandInv, ParseFlag PROVE Parses  OBVIOUS
<1>1. flags \in FlagSet /\ flags.rest \in Seq(Words)  BY DEF CommandInv, Shape, FlagSet
<1>2. /\ pc' = pc /\ results' = results /\ kubeVars' = kubeVars /\ flags.end = ""
      /\ flags' = ParseWord(flags, KnownTo(pc))
  BY DEF ParseFlag, kubeVars
<1> DEFINE word == Head(flags.rest)
<1>3. CASE flags.rest = <<>> \/ word \notin Dashed
  <2>1. flags' = [flags EXCEPT !.end = "parsed"]  BY <1>2, <1>3 DEF ParseWord
  <2>2. flags'.end = "parsed"  BY <2>1, <1>1 DEF FlagSet
  <2> QED  BY <2>2, <1>2 DEF Parses
<1>4. CASE ~(flags.rest = <<>> \/ word \notin Dashed) /\ word \notin KnownTo(pc)
  <2>1. flags' = [flags EXCEPT !.end = IF word \in Help THEN "help" ELSE "error"]
    BY <1>2, <1>4 DEF ParseWord
  <2>2. flags'.end \in {"help", "error"}  BY <2>1, <1>1 DEF FlagSet
  <2> QED  BY <2>2, <1>2 DEF Parses
<1>5. CASE ~(flags.rest = <<>> \/ word \notin Dashed) /\ word \in KnownTo(pc)
  <2>1. flags' = [flags EXCEPT !.rest = Tail(@), !.gate = @ \/ word = Gate,
                               !.format = IF word = Gate THEN @ ELSE FormatOf[word]]
    BY <1>2, <1>5 DEF ParseWord
  <2>2. flags'.rest = Tail(flags.rest)  BY <2>1, <1>1 DEF FlagSet
  <2>3. Len(Tail(flags.rest)) < Len(flags.rest)  BY <1>1, <1>5
  <2> QED  BY <2>2, <2>3, <1>2 DEF Parses
<1> QED  BY <1>3, <1>4, <1>5

LEMMA CheckAnswers == CommandInv /\ CheckTarget => Answers
<1> SUFFICES ASSUME CommandInv, CheckTarget PROVE Answers  OBVIOUS
<1>1. results \in Seq(Result) /\ flags.rest \in Seq(Words)  BY DEF CommandInv, Shape, FlagSet
<1>2. PICK r \in Results(NextTarget, copt, copt.cas) : results' = Append(results, r)
  BY DEF CheckTarget
<1>3. /\ pc' = pc /\ flags' = flags /\ kubeVars' = kubeVars
      /\ Len(results) < Len(flags.rest)
  BY DEF CheckTarget, Looping, kubeVars
<1>4. Len(results') = Len(results) + 1  BY <1>1, <1>2
<1>5. Len(results) \in Nat /\ Len(flags.rest) \in Nat  BY <1>1
<1> QED  BY <1>3, <1>4, <1>5 DEF Answers

LEMMA KubeOnward == KubeInv /\ RunKubernetes => KubeMoves
<1> SUFFICES ASSUME KubeInv, RunKubernetes PROVE KubeMoves  OBVIOUS
<1>1. pc' = pc /\ flags' = flags /\ results' = results  BY DEF RunKubernetes, commandVars
<1>2. CASE ScanDir
  <2>1. /\ step = "scan" /\ step' = step /\ scanned' = scanned + 1
        /\ scanned < Len(kreport.certDirs)
        /\ DOMAIN kreport = ReportFields /\ scanned \in Nat
        /\ kreport.certDirs \in Seq(DOMAIN node.dirs)
    BY <1>2 DEF ScanDir, KubeInv, KubeShape
  <2>2. kreport'.certDirs = kreport.certDirs  BY <1>2, <2>1 DEF ScanDir, ReportFields
  <2>3. scanned' <= Len(kreport.certDirs)
    <3>1. Len(kreport.certDirs) \in Nat  BY <2>1
    <3> QED  BY <3>1, <2>1
  <2> QED  BY <1>1, <2>1, <2>2, <2>3 DEF KubeMoves
<1>3. CASE Resolve \/ ReadKubeconfig  BY <1>1, <1>3 DEF Resolve, ReadKubeconfig, KubeMoves
<1>4. CASE CheckApi \/ NoApi \/ Reported  BY <1>1, <1>4 DEF CheckApi, NoApi, Reported, KubeMoves
<1> QED  BY <1>2, <1>3, <1>4 DEF RunKubernetes, CheckKubernetes

\* Every step of a command leads to its end: the words of the line, the targets among
\* them and the parts and directories of CheckKubernetes are taken one by one, none
\* twice, and a command that is over or serves does not move again, for lines and
\* nodes of any length (main.go:23-236, kubernetes.go:59-104).
THEOREM CommandAdvances == Spec => [][Moves \/ Parses \/ Answers \/ KubeMoves]_vars
<1>1. KubeInvariants /\ [Next]_vars => [Moves \/ Parses \/ Answers \/ KubeMoves]_vars
  <2> SUFFICES ASSUME KubeInvariants, Next, ~UNCHANGED vars
               PROVE  Moves \/ Parses \/ Answers \/ KubeMoves
    OBVIOUS
  <2>1. CommandInv /\ KubeInv  BY DEF KubeInvariants
  <2>2. CASE Main  BY <2>2, MainMoves
  <2>3. CASE ParseFlag  BY <2>1, <2>3, ParseMoves
  <2>4. CASE CheckTarget  BY <2>1, <2>4, CheckAnswers
  <2>5. CASE RunKubernetes  BY <2>1, <2>5, KubeOnward
  <2>6. CASE PrintResults \/ PrintKubernetes
    BY <2>6 DEF PrintResults, PrintKubernetes, Finish, Exit, Moves
  <2>7. CASE BadFlags \/ NoTarget \/ RejectTarget \/ Serve
    BY <2>7 DEF BadFlags, NoTarget, RejectTarget, Looping, Serve, Exit, Goto, Moves
  <2> QED  BY <2>2, <2>3, <2>4, <2>5, <2>6, <2>7 DEF Next, Over
<1> QED  BY <1>1, KubeInvariant, PTL DEF Spec
=============================================================================
