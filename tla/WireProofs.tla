----------------------------- MODULE WireProofs -----------------------------
(***************************************************************************)
(* Proofs about DnsWire: whatever datagram arrives, no index leaves it, the *)
(* work is bounded by its size, and it is parsed exactly when it is whole.  *)
(***************************************************************************)
EXTENDS DnsWire, SequenceTheorems, WellFoundedInduction, TLAPS

----------------------------------------------------------------------------
(* Reading. *)

\* A read yields a byte, wherever it is.
LEMMA AtByte ==
  ASSUME msg \in Seq(Byte), NEW i \in Nat
  PROVE  At(i) \in Byte
<1>1. CASE i < Size
  <2>1. i + 1 \in 1..Len(msg)
    BY <1>1 DEF Size
  <2>2. msg[i + 1] \in Byte
    BY <2>1
  <2> QED
    BY <1>1, <2>2 DEF At
<1>2. CASE ~(i < Size)
  <2>1. At(i) = 0
    BY <1>2 DEF At
  <2> QED
    BY <2>1 DEF Byte
<1> QED
  BY <1>1, <1>2

\* The numbers of 16 bits.
LEMMA InWord ==
  ASSUME NEW n \in Int, 0 <= n, n <= 65535
  PROVE  n \in Word
BY DEF Word

\* Two bytes make a number of 16 bits.
LEMMA U16Range ==
  ASSUME msg \in Seq(Byte), NEW i \in Nat
  PROVE  U16(i) \in Word
<1> DEFINE a == At(i)
           b == At(i + 1)
<1>1. U16(i) = 256 * a + b
  BY DEF U16
<1>2. /\ a \in Nat /\ a <= 255
      /\ b \in Nat /\ b <= 255
  <2>1. i + 1 \in Nat
    OBVIOUS
  <2> QED
    BY <2>1, AtByte DEF Byte
<1> HIDE DEF a, b
<1> DEFINE c == 256 * a + b
<1>3. c \in Int /\ 0 <= c /\ c <= 65535
  BY <1>2
<1> HIDE DEF c
<1>4. c \in Word
  BY <1>3, InWord
<1> QED
  BY <1>1, <1>4 DEF c

\* Counting down stays in 16 bits.
LEMMA WordDown ==
  ASSUME NEW n \in Word
  PROVE  n \in Nat /\ (n > 0 => n - 1 \in Word)
<1>1. n \in Nat
  BY DEF Word
<1>2. n <= 65535
  BY DEF Word
<1>3. ASSUME n > 0 PROVE n - 1 \in Word
  <2>1. n - 1 \in Int /\ 0 <= n - 1 /\ n - 1 <= 65535
    BY <1>1, <1>2, <1>3
  <2> QED
    BY <2>1, InWord
<1> QED
  BY <1>1, <1>3

\* A slice is a sequence of bytes.
LEMMA SliceBytes ==
  ASSUME msg \in Seq(Byte), NEW from \in Nat, NEW to \in Nat, from <= to
  PROVE  Slice(from, to) \in Seq(Byte)
<1> DEFINE n == to - from
<1>1. n \in Nat
  OBVIOUS
<1>2. ASSUME NEW i \in 1..n PROVE At(from + i - 1) \in Byte
  <2>1. from + i - 1 \in Nat
    OBVIOUS
  <2> QED
    BY <2>1, AtByte
<1>3. Slice(from, to) = [i \in 1..n |-> At(from + i - 1)]
  BY DEF Slice
<1> HIDE DEF n
<1>4. [i \in 1..n |-> At(from + i - 1)] \in [1..n -> Byte]
  BY <1>2
<1>5. [1..n -> Byte] \subseteq Seq(Byte)
  BY <1>1, SeqDef, Zenon
<1> QED
  BY <1>3, <1>4, <1>5, Zenon

\* What is taken for a CAA record is one.
LEMMA CAARecordBytes ==
  ASSUME msg \in Seq(Byte), NEW a \in Nat, NEW n \in Nat, IsCAARData(a, n)
  PROVE  CAARecord(a, n) \in CAARecordType
<1>1. At(a) \in Byte
  BY AtByte
<1> DEFINE t == At(a + 1)
<1>2. t \in Nat
  <2>1. a + 1 \in Nat
    OBVIOUS
  <2> QED
    BY <2>1, AtByte DEF Byte
<1>3. 2 + t <= n
  BY DEF IsCAARData
<1>4. CAARecord(a, n) = [flag |-> At(a), tag |-> Slice(a + 2, a + 2 + t),
                         value |-> Slice(a + 2 + t, a + n)]
  BY DEF CAARecord
<1> HIDE DEF t
<1>5. Slice(a + 2, a + 2 + t) \in Seq(Byte)
  BY <1>2, SliceBytes
<1>6. Slice(a + 2 + t, a + n) \in Seq(Byte)
  BY <1>2, <1>3, SliceBytes
<1> QED
  BY <1>1, <1>4, <1>5, <1>6 DEF CAARecordType

----------------------------------------------------------------------------
(* The inductive invariant.  WorkBounded speaks of the places between two   *)
(* items; inside an item the same bound holds, and its name has taken a     *)
(* byte once it is read.                                                    *)

Taken == 12 + 5 * QuestionsRead + 11 * AnswersRead

Inside ==
  /\ pc \in {"item", "name", "rest"} => Size >= 12
  /\ pc \in {"name", "rest"} => questions > 0 \/ answers > 0
  /\ pc = "item" => offset <= Size
  /\ pc \in {"item", "name"} => Taken <= offset
  /\ pc = "rest" => Taken + 1 <= offset
  /\ high <= Size

IInv == TypeOK /\ Inside

\* The datagram is a sequence of bytes, its counts are numbers of 16 bits.
LEMMA Numbers ==
  ASSUME TypeOK
  PROVE  /\ msg \in Seq(Byte) /\ Size \in Nat
         /\ U16(4) \in Word /\ U16(6) \in Word
         /\ QuestionsRead \in Int /\ AnswersRead \in Int
<1>1. msg \in Seq(Byte)
  BY MessageAssumption DEF TypeOK
<1>2. U16(4) \in Word /\ U16(6) \in Word
  BY <1>1, U16Range
<1>3. U16(4) \in Nat /\ U16(6) \in Nat /\ questions \in Nat /\ answers \in Nat
  BY <1>2, WordDown DEF TypeOK
<1>4. QuestionsRead \in Int /\ AnswersRead \in Int
  BY <1>3 DEF QuestionsRead, AnswersRead
<1> QED
  BY <1>1, <1>2, <1>4 DEF Size

\* A datagram does not change while it is parsed, nor do the reads of it.
LEMMA SameDatagram ==
  ASSUME UNCHANGED msg
  PROVE  /\ Size' = Size
         /\ QuestionsRead' = IF pc' = "header" THEN 0 ELSE U16(4) - questions'
         /\ AnswersRead' = IF pc' = "header" THEN 0 ELSE U16(6) - answers'
BY DEF Size, QuestionsRead, AnswersRead, U16, At

LEMMA HigherBound ==
  ASSUME high \in Nat, Size \in Nat, high <= Size, NEW n \in Nat, n <= Size
  PROVE  Higher(n) \in Nat /\ Higher(n) <= Size
BY DEF Higher

LEMMA InitIInv == Init => IInv
<1> SUFFICES ASSUME Init PROVE IInv
  OBVIOUS
<1>1. PICK m \in Messages : expectedID = m[1] /\ msg = m[2]
  BY DEF Init
<1>2. TypeOK
  <2>1. 0 \in Word
    BY DEF Word
  <2> QED
    BY <1>1, <2>1 DEF Init, TypeOK
<1>3. Size \in Nat
  BY <1>2, Numbers
<1> QED
  BY <1>2, <1>3 DEF Init, IInv, Inside

----------------------------------------------------------------------------
(* The steps. *)

\* What a step of the parser leaves alone.
LEMMA StepFrame ==
  ASSUME IInv, UNCHANGED <<expectedID, msg>>
  PROVE  /\ Size \in Nat /\ Size' = Size /\ high <= Size
         /\ \E m \in Messages : expectedID' = m[1] /\ msg' = m[2]
         /\ offset \in Nat /\ high \in Nat /\ questions \in Word /\ answers \in Word
         /\ records \in Seq(CAARecordType)
BY Numbers, SameDatagram DEF IInv, TypeOK, Inside

\* The invariant of the next state, from what a step did to each variable.
LEMMA NextIInv ==
  ASSUME IInv, UNCHANGED <<expectedID, msg>>,
         pc' \in {"item", "name", "rest", "parsed", "failed"},
         offset' \in Nat, high' \in Nat, questions' \in Word, answers' \in Word,
         records' \in Seq(CAARecordType),
         pc' # "failed" => Size >= 12, high' <= Size,
         pc' \in {"name", "rest"} => questions' > 0 \/ answers' > 0,
         pc' = "item" => offset' <= Size,
         pc' \in {"item", "name"} => Taken' <= offset',
         pc' = "rest" => Taken' + 1 <= offset'
  PROVE  IInv'
<1>1. Size' = Size /\ \E m \in Messages : expectedID' = m[1] /\ msg' = m[2]
  BY StepFrame
<1>2. TypeOK'
  BY <1>1 DEF TypeOK
<1>3. Inside'
  BY <1>1 DEF Inside
<1> QED
  BY <1>2, <1>3 DEF IInv

\* What the step leaves of the bound, from the counts before and after.
LEMMA TakenStep ==
  ASSUME IInv, UNCHANGED <<expectedID, msg>>, pc # "header", pc' # "header",
         questions' \in Word, answers' \in Word
  PROVE  Taken' = Taken + 5 * (questions - questions') + 11 * (answers - answers')
<1>1. TypeOK
  BY DEF IInv
<1>2. /\ U16(4) \in Nat /\ U16(6) \in Nat
      /\ questions \in Nat /\ answers \in Nat /\ questions' \in Nat /\ answers' \in Nat
  BY <1>1, Numbers, WordDown DEF TypeOK
<1>3. /\ QuestionsRead = U16(4) - questions /\ QuestionsRead' = U16(4) - questions'
      /\ AnswersRead = U16(6) - answers /\ AnswersRead' = U16(6) - answers'
  BY SameDatagram DEF QuestionsRead, AnswersRead
<1> QED
  BY <1>2, <1>3 DEF Taken

\* Every error of the parser keeps the invariant.
LEMMA FailIInv ==
  ASSUME IInv, Fail, UNCHANGED <<expectedID, msg>>, high' \in Nat, high' <= Size
  PROVE  IInv'
<1> USE StepFrame DEF Fail
<1>1. /\ pc' = "failed" /\ offset' \in Nat /\ questions' \in Word /\ answers' \in Word
      /\ records' \in Seq(CAARecordType)
  OBVIOUS
<1> QED
  BY <1>1, NextIInv

----------------------------------------------------------------------------
(* The steps. *)

LEMMA ReadHeaderIInv == IInv /\ ReadHeader => IInv'
<1> SUFFICES ASSUME IInv, ReadHeader PROVE IInv'
  OBVIOUS
<1>1. UNCHANGED <<expectedID, msg>>
  BY DEF ReadHeader
<1>2. /\ Size \in Nat /\ high \in Nat /\ high <= Size /\ records \in Seq(CAARecordType)
      /\ U16(4) \in Word /\ U16(6) \in Word
  BY <1>1, StepFrame, Numbers DEF IInv
<1>3. CASE Size < 12
  BY <1>1, <1>2, <1>3, FailIInv DEF ReadHeader
<1>4. CASE Size >= 12 /\ ~IsAnswer
  <2>1. Fail /\ high' = Higher(4)
    BY <1>2, <1>4 DEF ReadHeader
  <2>2. high' \in Nat /\ high' <= Size
    BY <1>2, <1>4, <2>1, HigherBound
  <2> QED
    BY <1>1, <2>1, <2>2, FailIInv
<1>5. CASE Size >= 12 /\ IsAnswer
  <2>1. /\ Size >= 12 /\ questions' = U16(4) /\ answers' = U16(6)
        /\ offset' = 12 /\ pc' = "item" /\ high' = Higher(8) /\ UNCHANGED records
    BY <1>2, <1>5 DEF ReadHeader
  <2>2. high' \in Nat /\ high' <= Size
    BY <1>2, <2>1, HigherBound
  <2>3. questions' \in Nat /\ answers' \in Nat
    BY <1>2, <2>1, WordDown
  <2>4. QuestionsRead' = 0 /\ AnswersRead' = 0
    BY <1>1, <2>1, <2>3, SameDatagram
  <2>5. Taken' = 12
    BY <2>4 DEF Taken
  <2> QED
    BY <1>1, <1>2, <2>1, <2>2, <2>5, NextIInv
<1> QED
  BY <1>2, <1>3, <1>4, <1>5

LEMMA NextItemIInv == IInv /\ NextItem => IInv'
<1> SUFFICES ASSUME IInv, NextItem PROVE IInv'
  OBVIOUS
<1>1. /\ pc = "item" /\ pc' \in {"name", "parsed"}
      /\ UNCHANGED <<expectedID, msg, offset, questions, answers, records, high>>
      /\ pc' = "name" => questions > 0 \/ answers > 0
  BY DEF NextItem, MoreItems
<1>2. Size >= 12 /\ Taken <= offset
  BY <1>1 DEF IInv, Inside
<1>3. Taken' = Taken
  BY <1>1, SameDatagram DEF Taken, QuestionsRead, AnswersRead
<1> QED
  BY <1>1, <1>2, <1>3, StepFrame, NextIInv

\* Facts about the position that the steps inside an item share.
LEMMA InItem ==
  ASSUME IInv, UNCHANGED <<expectedID, msg>>, pc \in {"name", "rest"}
  PROVE  /\ Size >= 12 /\ offset \in Nat /\ Size \in Nat /\ high \in Nat /\ high <= Size
         /\ Taken \in Int /\ Taken <= offset /\ (pc = "rest" => Taken + 1 <= offset)
         /\ questions > 0 \/ answers > 0
         /\ questions \in Nat /\ answers \in Nat /\ records \in Seq(CAARecordType)
         /\ msg \in Seq(Byte)
<1>1. TypeOK
  BY DEF IInv
<1>2. Taken \in Int
  BY <1>1, Numbers DEF Taken
<1>3. questions \in Nat /\ answers \in Nat
  BY <1>1, WordDown DEF TypeOK
<1>4. msg \in Seq(Byte)
  BY <1>1, Numbers
<1> QED
  BY <1>2, <1>3, <1>4, StepFrame DEF IInv, Inside

LEMMA SkipLabelIInv == IInv /\ SkipLabel => IInv'
<1> SUFFICES ASSUME IInv, SkipLabel PROVE IInv'
  OBVIOUS
<1>1. UNCHANGED <<expectedID, msg>> /\ pc = "name"
  BY DEF SkipLabel
<1> USE <1>1, InItem, StepFrame
<1>2. CASE offset >= Size
  <2>1. Fail /\ high' = high
    BY <1>2 DEF SkipLabel
  <2> QED
    BY <2>1, FailIInv
<1>3. CASE offset < Size
  <2> DEFINE length == At(offset)
  <2>1. length \in Nat
    BY AtByte DEF Byte
  <2> HIDE DEF length
  <2>2. Higher(offset + 1) \in Nat /\ Higher(offset + 1) <= Size
    <3>1. offset + 1 \in Nat /\ offset + 1 <= Size
      BY <1>3
    <3> QED
      BY <3>1, HigherBound
  <2>3. high' = Higher(offset + 1)
    BY <1>3 DEF SkipLabel
  <2>4. \/ Fail
        \/ /\ UNCHANGED <<questions, answers, records>>
           /\ \/ offset' = offset + 2 /\ pc' = "rest"
              \/ /\ length < 64 /\ offset' = offset + 1 + length
                 /\ pc' = IF length = 0 THEN "rest" ELSE pc
    BY <1>3 DEF SkipLabel, PassPointer, length
  <2>5. CASE Fail
    BY <2>2, <2>3, <2>5, FailIInv
  <2>6. CASE ~Fail
    <3>1. /\ UNCHANGED <<questions, answers, records>>
          /\ offset' \in Nat /\ offset' > offset /\ pc' \in {"name", "rest"}
      BY <2>1, <2>4, <2>6
    <3>2. Taken' = Taken
      BY <3>1, TakenStep
    <3> QED
      BY <2>2, <2>3, <3>1, <3>2, NextIInv
  <2> QED
    BY <2>5, <2>6
<1> QED
  BY <1>2, <1>3

LEMMA EndQuestionIInv == IInv /\ EndQuestion => IInv'
<1> SUFFICES ASSUME IInv, EndQuestion PROVE IInv'
  OBVIOUS
<1>1. /\ UNCHANGED <<expectedID, msg, high>>
      /\ pc = "rest" /\ questions > 0
  BY DEF EndQuestion
<1> USE <1>1, InItem, StepFrame
<1>2. CASE offset + 4 > Size
  BY <1>2, FailIInv DEF EndQuestion
<1>3. CASE offset + 4 <= Size
  <2>1. /\ offset' = offset + 4 /\ questions' = questions - 1 /\ pc' = "item"
        /\ UNCHANGED <<answers, records>>
    BY <1>3 DEF EndQuestion
  <2>2. questions' \in Word /\ answers' \in Word
    BY <2>1, WordDown
  <2>3. Taken' = Taken + 5
    BY <2>1, <2>2, TakenStep, SMTT(30)
  <2> QED
    BY <1>3, <2>1, <2>2, <2>3, NextIInv
<1> QED
  BY <1>2, <1>3

LEMMA EndAnswerIInv == IInv /\ EndAnswer => IInv'
<1> SUFFICES ASSUME IInv, EndAnswer PROVE IInv'
  OBVIOUS
<1>1. /\ UNCHANGED <<expectedID, msg>>
      /\ pc = "rest" /\ questions = 0
  BY DEF EndAnswer
<1> USE <1>1, InItem, StepFrame
<1> DEFINE rdlen == DataLength
<1>2. rdlen \in Nat
  <2>1. offset + 8 \in Nat
    OBVIOUS
  <2> QED
    BY <2>1, U16Range, WordDown DEF DataLength
<1> HIDE DEF rdlen
<1>3. CASE offset + 10 > Size
  BY <1>3, FailIInv DEF EndAnswer
<1>4. CASE offset + 10 <= Size /\ ~DataFits
  <2>1. Fail /\ high' = Higher(offset + 10)
    BY <1>4 DEF EndAnswer
  <2> QED
    BY <1>4, <2>1, FailIInv, HigherBound
<1>5. CASE offset + 10 <= Size /\ DataFits
  <2>1. offset + 10 + rdlen <= Size
    BY <1>5 DEF DataFits, rdlen
  <2>2. /\ offset' = offset + 10 + rdlen /\ answers' = answers - 1 /\ pc' = "item"
        /\ UNCHANGED questions
        /\ \/ UNCHANGED records
           \/ /\ IsCAARData(offset + 10, rdlen)
              /\ records' = Append(records, CAARecord(offset + 10, rdlen))
        /\ high' \in {Higher(offset + 10 + rdlen), Higher(offset + 10)}
    BY <1>5 DEF EndAnswer, rdlen
  <2>3. high' \in Nat /\ high' <= Size
    <3>1. /\ offset + 10 + rdlen \in Nat /\ offset + 10 + rdlen <= Size
          /\ offset + 10 \in Nat /\ offset + 10 <= Size
      BY <1>2, <1>5, <2>1
    <3>2. CASE high' = Higher(offset + 10 + rdlen)
      BY <3>1, <3>2, HigherBound
    <3>3. CASE high' = Higher(offset + 10)
      BY <3>1, <3>3, HigherBound
    <3> QED
      BY <2>2, <3>2, <3>3
  <2>4. records' \in Seq(CAARecordType)
    <3>1. CASE IsCAARData(offset + 10, rdlen)
      <4>1. CAARecord(offset + 10, rdlen) \in CAARecordType
        <5>1. offset + 10 \in Nat
          OBVIOUS
        <5> QED
          BY <1>2, <3>1, <5>1, CAARecordBytes
      <4>2. Append(records, CAARecord(offset + 10, rdlen)) \in Seq(CAARecordType)
        BY <4>1, AppendProperties
      <4> QED
        BY <2>2, <4>2
    <3> QED
      BY <2>2, <3>1
  <2>5. answers > 0 /\ questions' \in Word /\ answers' \in Word
    BY <2>2, WordDown
  <2>6. Taken' = Taken + 11
    BY <2>2, <2>5, TakenStep
  <2> QED
    BY <1>2, <2>1, <2>2, <2>3, <2>4, <2>5, <2>6, NextIInv, SMTT(30)
<1> QED
  BY <1>3, <1>4, <1>5

LEMMA NextIInvariant == IInv /\ [Next]_vars => IInv'
<1> SUFFICES ASSUME IInv, [Next]_vars PROVE IInv'
  OBVIOUS
<1>1. CASE UNCHANGED vars
  BY <1>1 DEF vars, IInv, TypeOK, Inside, Taken, QuestionsRead, AnswersRead, Size, U16, At
<1> QED
  BY <1>1, ReadHeaderIInv, NextItemIInv, SkipLabelIInv, EndQuestionIInv, EndAnswerIInv
     DEF Next, Step, Terminated

----------------------------------------------------------------------------
(* What a datagram says, without the parser: where its names and items lie. *)

\* The labels of a name that starts at a: m of them, l[k] is the position behind the
\* first k.
Labels(a, m, l) ==
  /\ l \in [0..m -> Nat] /\ l[0] = a
  /\ \A k \in 0..(m - 1) : /\ l[k] < Size /\ 0 < At(l[k]) /\ At(l[k]) < 64
                           /\ l[k + 1] = l[k] + 1 + At(l[k])

\* Position b is reached from a by labels alone.
Reached(a, b) == \E m \in Nat : \E l : Labels(a, m, l) /\ l[m] = b

\* The name that is at b after its labels ends there, with a 0 or a pointer; e is behind it.
Ends(b, e) ==
  /\ b < Size
  /\ \/ At(b) = 0 /\ e = b + 1
     \/ At(b) >= 192 /\ b + 1 < Size /\ e = b + 2

Name(a, e) == \E b \in Nat : Reached(a, b) /\ Ends(b, e)

\* A question from a to b, and an answer: their names end at e.
Question(a, e, b) == Name(a, e) /\ b = e + 4 /\ b <= Size

Answer(a, e, b) == Name(a, e) /\ e + 10 <= Size /\ b = e + 10 + U16(e + 8) /\ b <= Size

\* The records with that of the answer whose name ends at e, if it is CAA of the
\* internet class and well formed.
With(recs, e) ==
  IF U16(e) = CaaType /\ U16(e + 2) = InClass /\ IsCAARData(e + 10, U16(e + 8))
  THEN Append(recs, CAARecord(e + 10, U16(e + 8))) ELSE recs

\* The first n items of the datagram: item k lies from p[k - 1] to p[k], its name ends at
\* e[k], and r[k] are the records of the first k.
Item(k, p, e, r) ==
  IF k <= U16(4) THEN Question(p[k - 1], e[k], p[k]) /\ r[k] = r[k - 1]
  ELSE Answer(p[k - 1], e[k], p[k]) /\ r[k] = With(r[k - 1], e[k])

Layout(n, p, e, r) ==
  /\ p \in [0..n -> Nat] /\ e \in [1..n -> Nat] /\ DOMAIN r = 0..n
  /\ p[0] = 12 /\ r[0] = <<>>
  /\ \A k \in 1..n : Item(k, p, e, r)

All == U16(4) + U16(6)

\* A reply to the query, all of whose items are there.
Whole == Size >= 12 /\ IsAnswer /\ \E p, e, r : Layout(All, p, e, r)

\* What is parsed is whole, and yields the records of its answers in their order; what is
\* refused is not whole.
ParsedIfWhole ==
  /\ pc = "parsed" => Whole /\ \A p, e, r : Layout(All, p, e, r) => records = r[All]
  /\ pc = "failed" => ~Whole

----------------------------------------------------------------------------
(* The parser has found the layout of the items behind it. *)

Done == QuestionsRead + AnswersRead

\* The parser is where the item p has come to.
Within(a) ==
  /\ pc \in {"item", "parsed"} => offset = a
  /\ pc = "name" => Reached(a, offset)
  /\ pc = "rest" => Name(a, offset)

Found ==
  /\ pc \in {"item", "name", "rest", "parsed"} =>
       /\ Size >= 12 /\ IsAnswer
       /\ questions <= U16(4) /\ answers <= U16(6)
       /\ questions > 0 => answers = U16(6)
       /\ \E p, e, r : Layout(Done, p, e, r) /\ records = r[Done] /\ Within(p[Done])
  /\ pc = "parsed" => questions = 0 /\ answers = 0
  /\ pc = "header" => records = <<>>

\* The datagram stays, and with it all that is said of it.
LEMMA DatagramStays ==
  ASSUME UNCHANGED <<expectedID, msg>>
  PROVE  /\ Size' = Size /\ IsAnswer' = IsAnswer /\ U16(4)' = U16(4) /\ U16(6)' = U16(6)
         /\ \A a, b : Reached(a, b)' <=> Reached(a, b)
         /\ \A a, b : Name(a, b)' <=> Name(a, b)
         /\ \A n, p, e, r : Layout(n, p, e, r)' <=> Layout(n, p, e, r)
<1>1. Size' = Size
  BY DEF Size
<1>2. \A i : At(i)' = At(i)
  BY <1>1 DEF At
<1>3. \A i : U16(i)' = U16(i)
  BY <1>2 DEF U16
<1>4. IsAnswer' = IsAnswer
  BY <1>2, <1>3 DEF IsAnswer
<1>5. \A a, m, l : Labels(a, m, l)' <=> Labels(a, m, l)
  BY <1>1, <1>2 DEF Labels
<1>6. \A a, b : Reached(a, b)' <=> Reached(a, b)
  BY <1>5 DEF Reached
<1>7. \A b, e : Ends(b, e)' <=> Ends(b, e)
  BY <1>1, <1>2 DEF Ends
<1>8. \A a, b : Name(a, b)' <=> Name(a, b)
  BY <1>6, <1>7 DEF Name
<1>9. /\ \A a, e, b : Question(a, e, b)' <=> Question(a, e, b)
      /\ \A a, e, b : Answer(a, e, b)' <=> Answer(a, e, b)
  BY <1>1, <1>3, <1>8 DEF Question, Answer
<1>10. \A a, n : CAARecord(a, n)' = CAARecord(a, n)
  <2>1. \A from, to : Slice(from, to)' = Slice(from, to)
    BY <1>2 DEF Slice
  <2> QED
    BY <1>2, <2>1 DEF CAARecord
<1>11. \A recs, e : With(recs, e)' = With(recs, e)
  <2>1. \A a, n : IsCAARData(a, n)' <=> IsCAARData(a, n)
    BY <1>2 DEF IsCAARData
  <2> QED
    BY <1>3, <1>10, <2>1 DEF With
<1>12. \A k, p, e, r : Item(k, p, e, r)' <=> Item(k, p, e, r)
  BY <1>3, <1>9, <1>11 DEF Item
<1>13. \A n, p, e, r : Layout(n, p, e, r)' <=> Layout(n, p, e, r)
  BY <1>12 DEF Layout
<1> QED
  BY <1>1, <1>3, <1>4, <1>6, <1>8, <1>13

\* A name starts without labels, and goes on with one more.
LEMMA ReachedStart ==
  ASSUME NEW a \in Nat PROVE Reached(a, a)
<1>1. PICK l : l = [k \in 0..0 |-> a]
  OBVIOUS
<1>2. Labels(a, 0, l) /\ l[0] = a
  BY <1>1 DEF Labels
<1> QED
  BY <1>2 DEF Reached

LEMMA ReachedMore ==
  ASSUME NEW a \in Nat, NEW b \in Nat, Reached(a, b), b < Size, 0 < At(b), At(b) < 64,
         NEW c \in Nat, c = b + 1 + At(b)
  PROVE  Reached(a, c)
<1>1. PICK m \in Nat : \E l : Labels(a, m, l) /\ l[m] = b
  BY DEF Reached
<1>2. PICK l : Labels(a, m, l) /\ l[m] = b
  BY <1>1
<1>3. PICK q : q = [k \in 0..(m + 1) |-> IF k = m + 1 THEN c ELSE l[k]]
  OBVIOUS
<1>4. q \in [0..(m + 1) -> Nat] /\ q[m + 1] = c /\ \A k \in 0..m : q[k] = l[k]
  BY <1>2, <1>3 DEF Labels
<1>5. q[0] = a
  BY <1>2, <1>4 DEF Labels
<1>6. ASSUME NEW k \in 0..m
      PROVE  /\ q[k] < Size /\ 0 < At(q[k]) /\ At(q[k]) < 64
             /\ q[k + 1] = q[k] + 1 + At(q[k])
  <2>1. CASE k = m
    BY <1>2, <1>4, <2>1
  <2>2. CASE k # m
    <3>1. k \in 0..(m - 1) /\ k + 1 \in 0..m
      BY <2>2
    <3> QED
      BY <1>2, <1>4, <3>1 DEF Labels
  <2> QED
    BY <2>1, <2>2
<1>7. Labels(a, m + 1, q)
  <2>1. (m + 1) - 1 = m
    OBVIOUS
  <2> QED
    BY <1>4, <1>5, <1>6, <2>1 DEF Labels
<1> QED
  BY <1>4, <1>7 DEF Reached

\* Item n + 1 lies from a to b, its name ends at f, and it makes recs of the records seen.
ItemBehind(n, a, f, b, seen, recs) ==
  \/ n + 1 <= U16(4) /\ Question(a, f, b) /\ recs = seen
  \/ ~(n + 1 <= U16(4)) /\ Answer(a, f, b) /\ recs = With(seen, f)

\* A layout goes on with one more item.
LEMMA OneMoreItem ==
  ASSUME NEW n \in Nat, NEW p, NEW e, NEW r, Layout(n, p, e, r),
         NEW f \in Nat, NEW b \in Nat, NEW recs,
         ItemBehind(n, p[n], f, b, r[n], recs)
  PROVE  \E pp, ee, rr : Layout(n + 1, pp, ee, rr) /\ rr[n + 1] = recs /\ pp[n + 1] = b
<1>1. PICK pp : pp = [k \in 0..(n + 1) |-> IF k = n + 1 THEN b ELSE p[k]]
  OBVIOUS
<1>2. PICK ee : ee = [k \in 1..(n + 1) |-> IF k = n + 1 THEN f ELSE e[k]]
  OBVIOUS
<1>3. PICK rr : rr = [k \in 0..(n + 1) |-> IF k = n + 1 THEN recs ELSE r[k]]
  OBVIOUS
<1>4. /\ pp \in [0..(n + 1) -> Nat] /\ pp[n + 1] = b /\ \A k \in 0..n : pp[k] = p[k]
      /\ ee \in [1..(n + 1) -> Nat] /\ ee[n + 1] = f /\ \A k \in 1..n : ee[k] = e[k]
      /\ DOMAIN rr = 0..(n + 1) /\ rr[n + 1] = recs /\ \A k \in 0..n : rr[k] = r[k]
  BY <1>1, <1>2, <1>3 DEF Layout
<1>5. pp[0] = 12 /\ rr[0] = <<>>
  BY <1>4 DEF Layout
<1>6. ASSUME NEW k \in 1..(n + 1) PROVE Item(k, pp, ee, rr)
  <2>1. k - 1 \in 0..n /\ pp[k - 1] = p[k - 1] /\ rr[k - 1] = r[k - 1]
    BY <1>4
  <2>2. CASE k = n + 1
    <3>1. k - 1 = n
      BY <2>2
    <3> QED
      BY <1>4, <2>1, <2>2, <3>1 DEF Item, ItemBehind
  <2>3. CASE k # n + 1
    <3>1. k \in 1..n /\ k \in 0..n
      BY <2>3
    <3>2. Item(k, p, e, r)
      BY <3>1 DEF Layout
    <3>3. pp[k] = p[k] /\ ee[k] = e[k] /\ rr[k] = r[k]
      BY <1>4, <3>1
    <3> QED
      BY <2>1, <3>2, <3>3 DEF Item
  <2> QED
    BY <2>2, <2>3
<1> QED
  BY <1>4, <1>5, <1>6 DEF Layout

\* Found in the next state, from what a step did.
LEMMA FoundNext ==
  ASSUME UNCHANGED <<expectedID, msg>>, Size >= 12, IsAnswer,
         questions' <= U16(4), answers' <= U16(6), questions' > 0 => answers' = U16(6),
         pc' # "header", pc' = "parsed" => questions' = 0 /\ answers' = 0,
         NEW n, n = Done', NEW p, NEW e, NEW r, Layout(n, p, e, r), records' = r[n],
         pc' \in {"item", "parsed"} => offset' = p[n],
         pc' = "name" => Reached(p[n], offset'),
         pc' = "rest" => Name(p[n], offset')
  PROVE  Found'
<1>1. Within(p[Done])'
  BY DatagramStays DEF Within
<1> QED
  BY <1>1, DatagramStays DEF Found

\* A step to "failed" has nothing to keep.
LEMMA FoundFailed == pc' = "failed" => Found'
BY DEF Found

\* What a step inside an item starts from.
Here ==
  /\ msg \in Seq(Byte) /\ Size \in Nat /\ Size >= 12 /\ IsAnswer /\ offset \in Nat
  /\ questions \in Nat /\ answers \in Nat /\ U16(4) \in Nat /\ U16(6) \in Nat
  /\ questions <= U16(4) /\ answers <= U16(6)
  /\ questions > 0 => answers = U16(6)
  /\ Done \in Nat /\ Done = (U16(4) - questions) + (U16(6) - answers)

LEMMA FoundHere ==
  ASSUME IInv, Found, pc \in {"item", "name", "rest"}
  PROVE  Here /\ \E p, e, r : Layout(Done, p, e, r) /\ records = r[Done] /\ Within(p[Done])
<1>1. TypeOK
  BY DEF IInv
<1>2. questions \in Nat /\ answers \in Nat /\ U16(4) \in Nat /\ U16(6) \in Nat
  BY <1>1, Numbers, WordDown DEF TypeOK
<1>3. Done = (U16(4) - questions) + (U16(6) - answers)
  BY DEF Done, QuestionsRead, AnswersRead
<1>4. questions <= U16(4) /\ answers <= U16(6)
  BY DEF Found
<1>5. Done \in Nat
  BY <1>2, <1>3, <1>4
<1>6. offset \in Nat /\ Size \in Nat /\ msg \in Seq(Byte)
  BY <1>1, Numbers DEF TypeOK
<1> QED
  BY <1>2, <1>3, <1>4, <1>5, <1>6 DEF Found, Here

LEMMA ReadHeaderFound == IInv /\ Found /\ ReadHeader => Found'
<1> SUFFICES ASSUME IInv, Found, ReadHeader PROVE Found'
  OBVIOUS
<1>1. /\ UNCHANGED <<expectedID, msg>>
      /\ \/ pc' = "failed"
         \/ /\ ~(Size < 12) /\ IsAnswer /\ pc' = "item" /\ offset' = 12
            /\ questions' = U16(4) /\ answers' = U16(6) /\ records' = records
  BY DEF ReadHeader, Fail
<1>2. CASE pc' = "failed"
  BY <1>2, FoundFailed
<1>3. CASE pc' # "failed"
  <2>1. TypeOK
    BY DEF IInv
  <2>2. U16(4) \in Nat /\ U16(6) \in Nat /\ Size >= 12
    BY <1>1, <1>3, <2>1, Numbers, WordDown
  <2>3. Done' = 0
    BY <1>1, <1>3, <2>2, SameDatagram DEF Done
  <2>4. PICK p : p = [k \in 0..0 |-> 12]
    OBVIOUS
  <2>5. PICK e : e \in [1..0 -> Nat]
    <3>1. [k \in 1..0 |-> 0] \in [1..0 -> Nat]
      OBVIOUS
    <3> QED
      BY <3>1
  <2>6. PICK r : r = [k \in 0..0 |-> <<>>]
    OBVIOUS
  <2>7. Layout(0, p, e, r) /\ r[0] = <<>> /\ p[0] = 12
    BY <2>4, <2>5, <2>6 DEF Layout
  <2>8. records = <<>>
    BY DEF ReadHeader, Found
  <2> QED
    BY <1>1, <1>3, <2>2, <2>3, <2>7, <2>8, FoundNext
<1> QED
  BY <1>2, <1>3

LEMMA NextItemFound == IInv /\ Found /\ NextItem => Found'
<1> SUFFICES ASSUME IInv, Found, NextItem PROVE Found'
  OBVIOUS
<1>1. /\ UNCHANGED <<expectedID, msg, offset, questions, answers, records>>
      /\ pc = "item" /\ pc' \in {"name", "parsed"}
      /\ pc' = "parsed" => ~MoreItems
  BY DEF NextItem
<1>here. Here /\ \E p, e, r : Layout(Done, p, e, r) /\ records = r[Done] /\ Within(p[Done])
  BY <1>1, FoundHere
<1>typed. Here
  BY <1>here
<1> USE <1>1, <1>typed DEF Here
<1>2. PICK p, e, r : Layout(Done, p, e, r) /\ records = r[Done] /\ Within(p[Done])
  BY <1>here
<1>3. Done' = Done
  BY SameDatagram DEF Done, QuestionsRead, AnswersRead
<1>4. offset = p[Done] /\ Reached(offset, offset)
  BY <1>2, ReachedStart DEF Within
<1>5. pc' = "parsed" => questions' = 0 /\ answers' = 0
  BY DEF MoreItems
<1> QED
  BY <1>2, <1>3, <1>4, <1>5, FoundNext

LEMMA SkipLabelFound == IInv /\ Found /\ SkipLabel => Found'
<1> SUFFICES ASSUME IInv, Found, SkipLabel PROVE Found'
  OBVIOUS
<1>1. /\ UNCHANGED <<expectedID, msg>> /\ pc = "name"
      /\ \/ pc' = "failed"
         \/ /\ ~(offset >= Size) /\ At(offset) >= 192 /\ offset + 1 < Size
            /\ offset' = offset + 2 /\ pc' = "rest"
            /\ UNCHANGED <<questions, answers, records>>
         \/ /\ ~(offset >= Size) /\ At(offset) < 64 /\ offset' = offset + 1 + At(offset)
            /\ pc' = IF At(offset) = 0 THEN "rest" ELSE pc
            /\ UNCHANGED <<questions, answers, records>>
  BY DEF SkipLabel, Fail, PassPointer, PointerFits
<1>here. Here /\ \E p, e, r : Layout(Done, p, e, r) /\ records = r[Done] /\ Within(p[Done])
  BY <1>1, FoundHere
<1>typed. Here
  BY <1>here
<1> USE <1>1, <1>typed DEF Here
<1>2. CASE pc' = "failed"
  BY <1>2, FoundFailed
<1>3. CASE pc' # "failed"
  <2>1. PICK p, e, r : Layout(Done, p, e, r) /\ records = r[Done] /\ Within(p[Done])
    BY <1>here
  <2>2. Reached(p[Done], offset)
    BY <2>1 DEF Within
  <2>3. Done' = Done
    BY <1>3, SameDatagram DEF Done, QuestionsRead, AnswersRead
  <2>4. At(offset) \in Nat
    BY AtByte DEF Byte
  <2>5. p[Done] \in Nat
    BY <2>1 DEF Layout
  <2>6. pc' \in {"name", "rest"}
    BY <1>3
  <2>7. ASSUME pc' = "name" PROVE Reached(p[Done], offset')
    <3>1. /\ offset < Size /\ 0 < At(offset) /\ At(offset) < 64
          /\ offset' = offset + 1 + At(offset) /\ offset' \in Nat
      BY <1>3, <2>4, <2>7
    <3>2. PICK c : c = offset'
      OBVIOUS
    <3> QED
      BY <2>2, <2>5, <3>1, <3>2, ReachedMore
  <2>8. pc' = "rest" => Name(p[Done], offset')
    <3>1. ASSUME pc' = "rest" PROVE Ends(offset, offset')
      BY <1>3, <2>4, <3>1 DEF Ends
    <3> QED
      BY <2>2, <3>1 DEF Name
  <2>9. UNCHANGED <<questions, answers, records>>
    BY <1>3
  <2> QED
    BY <2>1, <2>3, <2>6, <2>7, <2>8, <2>9, FoundNext
<1> QED
  BY <1>2, <1>3

\* Counting an item: Q questions and A answers, of which q and a are left, d are done.
LEMMA CountDown ==
  ASSUME NEW Q \in Nat, NEW A \in Nat, NEW q \in Nat, NEW a \in Nat, NEW d,
         d = (Q - q) + (A - a), q <= Q, a <= A, q > 0 => a = A
  PROVE  /\ q > 0 => (Q - (q - 1)) + (A - a) = d + 1
         /\ q = 0 /\ a > 0 => (Q - q) + (A - (a - 1)) = d + 1
         /\ q > 0 \/ a > 0 => d + 1 \in 1..(Q + A) /\ d <= Q + A /\ (d + 1 <= Q <=> q > 0)
OBVIOUS

LEMMA HereCounts ==
  ASSUME Here
  PROVE  /\ questions > 0 => (U16(4) - (questions - 1)) + (U16(6) - answers) = Done + 1
         /\ questions = 0 /\ answers > 0 =>
              (U16(4) - questions) + (U16(6) - (answers - 1)) = Done + 1
         /\ questions > 0 \/ answers > 0 =>
              Done + 1 \in 1..All /\ Done <= All /\ (Done + 1 <= U16(4) <=> questions > 0)
<1>1. PICK Q, A, q, a, d : /\ Q = U16(4) /\ A = U16(6) /\ q = questions /\ a = answers
                           /\ d = Done
  OBVIOUS
<1>2. /\ Q \in Nat /\ A \in Nat /\ q \in Nat /\ a \in Nat /\ d = (Q - q) + (A - a)
      /\ q <= Q /\ a <= A /\ (q > 0 => a = A)
  BY <1>1 DEF Here
<1>3. /\ q > 0 => (Q - (q - 1)) + (A - a) = d + 1
      /\ q = 0 /\ a > 0 => (Q - q) + (A - (a - 1)) = d + 1
      /\ q > 0 \/ a > 0 => d + 1 \in 1..(Q + A) /\ d <= Q + A /\ (d + 1 <= Q <=> q > 0)
  BY <1>2, CountDown
<1> QED
  BY <1>1, <1>3 DEF All

\* The next state after an item that was read whole.
LEMMA FoundMore ==
  ASSUME UNCHANGED <<expectedID, msg>>, Here, questions > 0 \/ answers > 0,
         NEW p, NEW e, NEW r, Layout(Done, p, e, r), offset' \in Nat,
         pc' = "item", Done' = Done + 1,
         questions' <= U16(4), answers' <= U16(6), questions' > 0 => answers' = U16(6),
         ItemBehind(Done, p[Done], offset, offset', r[Done], records')
  PROVE  Found'
<1>1. PICK n, b, f, recs : n = Done /\ b = offset' /\ f = offset /\ recs = records'
  OBVIOUS
<1>2. n \in Nat /\ b \in Nat /\ f \in Nat /\ Layout(n, p, e, r)
  BY <1>1 DEF Here
<1>3. ItemBehind(n, p[n], f, b, r[n], recs)
  BY <1>1
<1>4. PICK pp, ee, rr : Layout(n + 1, pp, ee, rr) /\ rr[n + 1] = recs /\ pp[n + 1] = b
  BY <1>2, <1>3, OneMoreItem
<1>5. Size >= 12 /\ IsAnswer
  BY DEF Here
<1> QED
  BY <1>1, <1>4, <1>5, FoundNext

LEMMA EndQuestionFound == IInv /\ Found /\ EndQuestion => Found'
<1> SUFFICES ASSUME IInv, Found, EndQuestion PROVE Found'
  OBVIOUS
<1>1. /\ UNCHANGED <<expectedID, msg>> /\ pc = "rest" /\ questions > 0
      /\ \/ pc' = "failed"
         \/ /\ ~(offset + 4 > Size) /\ offset' = offset + 4 /\ questions' = questions - 1
            /\ pc' = "item" /\ UNCHANGED <<answers, records>>
  BY DEF EndQuestion, Fail
<1>2. CASE pc' = "failed"
  BY <1>2, FoundFailed
<1>3. CASE pc' # "failed"
  <2>1. Here
    BY <1>1, FoundHere
  <2>2. PICK p, e, r : Layout(Done, p, e, r) /\ records = r[Done] /\ Within(p[Done])
    BY <1>1, FoundHere
  <2>3. /\ offset' = offset + 4 /\ ~(offset + 4 > Size) /\ questions' = questions - 1
        /\ pc' = "item" /\ answers' = answers /\ records' = records
    BY <1>1, <1>3
  <2>4. offset' \in Nat /\ offset' <= Size
    BY <2>1, <2>3 DEF Here
  <2>5. /\ questions' <= U16(4) /\ answers' <= U16(6) /\ (questions' > 0 => answers' = U16(6))
    BY <1>1, <2>1, <2>3 DEF Here
  <2>6. Done' = (U16(4) - (questions - 1)) + (U16(6) - answers)
    BY <1>1, <2>3, SameDatagram DEF Done
  <2>7. Done' = Done + 1 /\ Done + 1 <= U16(4)
    BY <1>1, <2>1, <2>6, HereCounts
  <2>8. Name(p[Done], offset)
    BY <1>1, <2>2 DEF Within
  <2>9. ItemBehind(Done, p[Done], offset, offset', r[Done], records')
    BY <2>2, <2>3, <2>4, <2>7, <2>8 DEF ItemBehind, Question
  <2> QED
    BY <1>1, <2>1, <2>2, <2>3, <2>4, <2>5, <2>7, <2>9, FoundMore
<1> QED
  BY <1>2, <1>3

LEMMA EndAnswerFound == IInv /\ Found /\ EndAnswer => Found'
<1> SUFFICES ASSUME IInv, Found, EndAnswer PROVE Found'
  OBVIOUS
<1>1. /\ UNCHANGED <<expectedID, msg>> /\ pc = "rest" /\ questions = 0
      /\ \/ pc' = "failed"
         \/ /\ ~(offset + 10 > Size) /\ offset + 10 + U16(offset + 8) <= Size
            /\ offset' = offset + 10 + U16(offset + 8) /\ answers' = answers - 1
            /\ pc' = "item" /\ questions' = questions /\ records' = With(records, offset)
  BY DEF EndAnswer, Fail, DataFits, DataLength, IsCaa, With
<1>2. CASE pc' = "failed"
  BY <1>2, FoundFailed
<1>3. CASE pc' # "failed"
  <2>1. Here
    BY <1>1, FoundHere
  <2>2. PICK p, e, r : Layout(Done, p, e, r) /\ records = r[Done] /\ Within(p[Done])
    BY <1>1, FoundHere
  <2>3. /\ ~(offset + 10 > Size) /\ offset' = offset + 10 + U16(offset + 8) /\ offset' <= Size
        /\ pc' = "item" /\ answers' = answers - 1 /\ questions' = questions
        /\ records' = With(records, offset)
    BY <1>1, <1>3
  <2>4. offset' \in Nat /\ offset + 10 <= Size
    <3>1. U16(offset + 8) \in Nat
      <4>1. msg \in Seq(Byte) /\ offset + 8 \in Nat
        BY <2>1 DEF Here
      <4> QED
        BY <4>1, U16Range, WordDown
    <3>2. offset \in Nat /\ Size \in Nat
      BY <2>1 DEF Here
    <3>3. offset + 10 \in Nat /\ offset + 10 + U16(offset + 8) \in Nat
      BY <3>1, <3>2
    <3> QED
      BY <2>3, <3>2, <3>3
  <2>5. answers > 0
    <3>1. questions > 0 \/ answers > 0
      BY <1>1 DEF IInv, Inside
    <3> QED
      BY <1>1, <3>1
  <2>6. questions' <= U16(4) /\ answers' <= U16(6) /\ ~(questions' > 0)
    BY <1>1, <2>1, <2>3 DEF Here
  <2>7. Done' = (U16(4) - questions) + (U16(6) - (answers - 1))
    BY <1>1, <2>3, SameDatagram DEF Done
  <2>8. Done' = Done + 1 /\ ~(Done + 1 <= U16(4))
    <3>1. ~(questions > 0)
      BY <1>1
    <3> QED
      BY <1>1, <2>1, <2>5, <2>7, <3>1, HereCounts
  <2>9. Name(p[Done], offset)
    BY <1>1, <2>2 DEF Within
  <2>10. ItemBehind(Done, p[Done], offset, offset', r[Done], records')
    BY <2>2, <2>3, <2>4, <2>8, <2>9 DEF ItemBehind, Answer
  <2> QED
    BY <1>1, <2>1, <2>2, <2>3, <2>4, <2>5, <2>6, <2>8, <2>10, FoundMore
<1> QED
  BY <1>2, <1>3

LEMMA NextFound == IInv /\ Found /\ [Next]_vars => Found'
<1>1. ASSUME Found, UNCHANGED vars PROVE Found'
  <2>1. /\ UNCHANGED <<expectedID, msg>>
        /\ UNCHANGED <<pc, offset, questions, answers, records>>
    BY <1>1 DEF vars
  <2>2. Done' = Done
    BY <2>1, SameDatagram DEF Done, QuestionsRead, AnswersRead
  <2>3. \A a : Within(a)' <=> Within(a)
    BY <2>1, DatagramStays DEF Within
  <2> QED
    BY <1>1, <2>1, <2>2, <2>3, DatagramStays DEF Found
<1> QED
  BY <1>1, ReadHeaderFound, NextItemFound, SkipLabelFound, EndQuestionFound, EndAnswerFound
     DEF Next, Step, Terminated

----------------------------------------------------------------------------
(* A datagram has one layout, so where the parser is stuck there is none.   *)

\* A set of numbers that is not empty has a least one.
LEMMA LeastNumber ==
  ASSUME NEW S, S \subseteq Nat, S # {}
  PROVE  \E x \in S : \A y \in S : x <= y
<1> DEFINE R == {ss \in Nat \X Nat : ss[1] < ss[2]}
<1>1. R = OpToRel(<, Nat)
  BY Zenon DEF OpToRel
<1>2. IsWellFoundedOn(R, Nat)
  BY <1>1, NatLessThanWellFounded, Zenon
<1>3. PICK x \in S : \A y \in S : ~(<<y, x>> \in R)
  <2> HIDE DEF R
  <2> QED
    BY <1>2, WFMin
<1>4. ASSUME NEW y \in S PROVE x <= y
  <2>1. y \in Nat /\ x \in Nat /\ <<y, x>> \notin R
    BY <1>3
  <2>2. <<y, x>> \in Nat \X Nat /\ <<y, x>>[1] = y /\ <<y, x>>[2] = x
    BY <2>1
  <2> QED
    BY <2>1, <2>2
<1> QED
  BY <1>4

\* Two ways along the labels of a name agree as far as both go.
LEMMA LabelsAgree ==
  ASSUME NEW a, NEW m \in Nat, NEW n \in Nat, NEW l, NEW q, Labels(a, m, l), Labels(a, n, q),
         NEW k \in Nat, k <= m, k <= n
  PROVE  l[k] = q[k]
<1> DEFINE Apart == {i \in Nat : i <= m /\ i <= n /\ l[i] # q[i]}
<1>1. SUFFICES ASSUME Apart # {} PROVE FALSE
  OBVIOUS
<1>2. PICK i \in Apart : \A j \in Apart : i <= j
  <2>1. Apart \subseteq Nat
    OBVIOUS
  <2> HIDE DEF Apart
  <2> QED
    BY <1>1, <2>1, LeastNumber
<1>3. i \in Nat /\ i <= m /\ i <= n /\ l[i] # q[i]
  OBVIOUS
<1>4. i # 0
  BY <1>3 DEF Labels
<1>5. PICK j : j = i - 1
  OBVIOUS
<1>6. j \in Nat /\ j <= m /\ j <= n /\ j + 1 = i /\ j \notin Apart
  <2>1. j \in Nat /\ j <= m /\ j <= n /\ j + 1 = i /\ ~(i <= j)
    BY <1>3, <1>4, <1>5
  <2> HIDE DEF Apart
  <2> QED
    BY <1>2, <2>1
<1>7. l[j] = q[j]
  BY <1>6
<1>8. j \in 0..(m - 1) /\ j \in 0..(n - 1)
  BY <1>3, <1>6
<1>9. l[j + 1] = l[j] + 1 + At(l[j]) /\ q[j + 1] = q[j] + 1 + At(q[j])
  BY <1>8 DEF Labels
<1> HIDE DEF Apart
<1> QED
  BY <1>3, <1>6, <1>7, <1>9

\* No label is at b.
Stop(b) == ~(b < Size /\ 0 < At(b) /\ At(b) < 64)

\* A way that has come to a stop is at least as long as any other.
LEMMA StopIsLast ==
  ASSUME NEW a, NEW m \in Nat, NEW n \in Nat, NEW l, NEW q, Labels(a, m, l), Labels(a, n, q),
         Stop(l[m])
  PROVE  n <= m
<1>1. SUFFICES ASSUME m < n PROVE FALSE
  OBVIOUS
<1>2. m \in 0..(n - 1)
  BY <1>1
<1>3. q[m] = l[m]
  BY <1>1, LabelsAgree
<1> QED
  BY <1>2, <1>3 DEF Labels, Stop

\* The labels of a name stop at one place only.
LEMMA OneStop ==
  ASSUME NEW a, NEW b, NEW c, Reached(a, b), Stop(b), Reached(a, c), Stop(c)
  PROVE  b = c
<1>1. PICK m \in Nat : \E l : Labels(a, m, l) /\ l[m] = b
  BY DEF Reached
<1>2. PICK l : Labels(a, m, l) /\ l[m] = b
  BY <1>1
<1>3. PICK n \in Nat : \E q : Labels(a, n, q) /\ q[n] = c
  BY DEF Reached
<1>4. PICK q : Labels(a, n, q) /\ q[n] = c
  BY <1>3
<1>5. n <= m /\ m <= n
  BY <1>2, <1>4, StopIsLast
<1>6. m = n
  BY <1>5
<1> QED
  BY <1>2, <1>4, <1>6, LabelsAgree

LEMMA EndsStop ==
  ASSUME msg \in Seq(Byte), NEW b \in Nat, NEW e, Ends(b, e)
  PROVE  Stop(b)
<1>1. At(b) \in Nat
  BY AtByte DEF Byte
<1> QED
  BY <1>1 DEF Ends, Stop

\* A name that stops at b ends there or not at all.
LEMMA NameAtStop ==
  ASSUME msg \in Seq(Byte), NEW a, NEW b, Reached(a, b), Stop(b), NEW e, Name(a, e)
  PROVE  Ends(b, e)
<1>1. PICK c \in Nat : Reached(a, c) /\ Ends(c, e)
  BY DEF Name
<1>2. Stop(c)
  BY <1>1, EndsStop
<1> QED
  BY <1>1, <1>2, OneStop

LEMMA OneName ==
  ASSUME msg \in Seq(Byte), NEW a, NEW e, NEW f, Name(a, e), Name(a, f)
  PROVE  e = f
<1>1. PICK c \in Nat : Reached(a, c) /\ Ends(c, e)
  BY DEF Name
<1>2. Stop(c)
  BY <1>1, EndsStop
<1>3. Ends(c, f)
  BY <1>1, <1>2, NameAtStop
<1>4. At(c) \in Nat
  BY AtByte DEF Byte
<1> QED
  BY <1>1, <1>3, <1>4 DEF Ends

\* Two layouts agree as far as both go.
LEMMA LayoutsAgree ==
  ASSUME msg \in Seq(Byte), NEW m \in Nat, NEW n \in Nat,
         NEW p, NEW e, NEW r, Layout(m, p, e, r), NEW q, NEW f, NEW s, Layout(n, q, f, s),
         NEW k \in Nat, k <= m, k <= n
  PROVE  p[k] = q[k] /\ r[k] = s[k]
<1> DEFINE Apart == {i \in Nat : i <= m /\ i <= n /\ ~(p[i] = q[i] /\ r[i] = s[i])}
<1>1. SUFFICES ASSUME Apart # {} PROVE FALSE
  OBVIOUS
<1>2. PICK i \in Apart : \A j \in Apart : i <= j
  <2>1. Apart \subseteq Nat
    OBVIOUS
  <2> HIDE DEF Apart
  <2> QED
    BY <1>1, <2>1, LeastNumber
<1>3. i \in Nat /\ i <= m /\ i <= n /\ ~(p[i] = q[i] /\ r[i] = s[i])
  OBVIOUS
<1>4. i # 0
  BY <1>3 DEF Layout
<1>5. PICK j : j = i - 1
  OBVIOUS
<1>6. j \in Nat /\ j <= m /\ j <= n /\ j = i - 1 /\ j \notin Apart
  <2>1. j \in Nat /\ j <= m /\ j <= n /\ j = i - 1 /\ ~(i <= j)
    BY <1>3, <1>4, <1>5
  <2> HIDE DEF Apart
  <2> QED
    BY <1>2, <2>1
<1>7. p[j] = q[j] /\ r[j] = s[j]
  BY <1>6
<1> HIDE DEF Apart
<1>8. Item(i, p, e, r) /\ Item(i, q, f, s)
  <2>1. i \in 1..m /\ i \in 1..n
    BY <1>3, <1>4
  <2> QED
    BY <2>1 DEF Layout
<1>9. Name(p[j], e[i]) /\ Name(q[j], f[i])
  BY <1>6, <1>8 DEF Item, Question, Answer
<1>10. e[i] = f[i]
  BY <1>7, <1>9, OneName
<1> QED
  BY <1>3, <1>6, <1>7, <1>8, <1>10 DEF Item, Question, Answer

\* When the datagram is whole, the parser is where the next item lies.
LEMMA NextLaid ==
  ASSUME IInv, Found, pc \in {"name", "rest"}, Whole
  PROVE  \E a, b, e : /\ Within(a)
                      /\ Name(a, e)
                      /\ IF questions > 0 THEN Question(a, e, b) ELSE Answer(a, e, b)
<1>here. Here /\ \E p, e, r : Layout(Done, p, e, r) /\ records = r[Done] /\ Within(p[Done])
  BY FoundHere
<1>typed. Here
  BY <1>here
<1> USE <1>typed DEF Here
<1>1. PICK p, e, r : Layout(Done, p, e, r) /\ records = r[Done] /\ Within(p[Done])
  BY <1>here
<1>2. PICK q, f, s : Layout(All, q, f, s)
  BY DEF Whole
<1>3. questions > 0 \/ answers > 0
  BY DEF IInv, Inside
<1>4. All \in Nat /\ Done + 1 \in 1..All /\ (Done + 1) - 1 = Done /\ Done <= All
  <2>1. Done + 1 \in 1..All /\ Done <= All
    BY <1>3, HereCounts
  <2> QED
    BY <2>1 DEF All
<1>5. Done + 1 <= U16(4) <=> questions > 0
  BY <1>3, HereCounts
<1>6. q[Done] = p[Done]
  <2>1. msg \in Seq(Byte) /\ Done \in Nat /\ Done <= Done
    OBVIOUS
  <2> QED
    BY <1>1, <1>2, <1>4, <2>1, LayoutsAgree
<1>7. Item(Done + 1, q, f, s)
  BY <1>2, <1>4 DEF Layout
<1>8. IF questions > 0 THEN Question(q[Done], f[Done + 1], q[Done + 1])
      ELSE Answer(q[Done], f[Done + 1], q[Done + 1])
  BY <1>4, <1>5, <1>7 DEF Item
<1>9. Name(q[Done], f[Done + 1])
  BY <1>8 DEF Question, Answer
<1> QED
  BY <1>1, <1>6, <1>8, <1>9

\* The parser fails only on a datagram that is not whole.
LEMMA SkipLabelFails == IInv /\ Found /\ SkipLabel /\ pc' = "failed" => ~Whole
<1> SUFFICES ASSUME IInv, Found, SkipLabel, pc' = "failed", Whole PROVE FALSE
  OBVIOUS
<1>1. pc = "name" /\ \/ offset >= Size
                     \/ At(offset) >= 192 /\ ~(offset + 1 < Size)
                     \/ 64 <= At(offset) /\ At(offset) < 192
  BY DEF SkipLabel, Fail, PassPointer, PointerFits
<1>2. offset \in Nat /\ Size \in Nat /\ msg \in Seq(Byte)
  BY <1>1, FoundHere DEF Here
<1>3. At(offset) \in Nat
  BY <1>2, AtByte DEF Byte
<1>4. PICK a, e : Reached(a, offset) /\ Name(a, e)
  BY <1>1, NextLaid DEF Within
<1>5. Stop(offset)
  BY <1>1, <1>2, <1>3 DEF Stop
<1>6. Ends(offset, e)
  BY <1>2, <1>4, <1>5, NameAtStop
<1> QED
  BY <1>1, <1>2, <1>3, <1>6 DEF Ends

LEMMA EndQuestionFails == IInv /\ Found /\ EndQuestion /\ pc' = "failed" => ~Whole
<1> SUFFICES ASSUME IInv, Found, EndQuestion, pc' = "failed", Whole PROVE FALSE
  OBVIOUS
<1>1. pc = "rest" /\ questions > 0 /\ offset + 4 > Size
  BY DEF EndQuestion
<1>2. offset \in Nat /\ Size \in Nat /\ msg \in Seq(Byte)
  BY <1>1, FoundHere DEF Here
<1>3. PICK a, b, e : Name(a, offset) /\ Name(a, e) /\ Question(a, e, b)
  BY <1>1, NextLaid DEF Within
<1>4. e = offset
  BY <1>2, <1>3, OneName
<1> QED
  BY <1>1, <1>2, <1>3, <1>4 DEF Question

LEMMA EndAnswerFails == IInv /\ Found /\ EndAnswer /\ pc' = "failed" => ~Whole
<1> SUFFICES ASSUME IInv, Found, EndAnswer, pc' = "failed", Whole PROVE FALSE
  OBVIOUS
<1>1. pc = "rest" /\ questions = 0 /\ (offset + 10 > Size \/ ~(offset + 10 + U16(offset + 8) <= Size))
  BY DEF EndAnswer, DataFits, DataLength
<1>2. offset \in Nat /\ Size \in Nat /\ msg \in Seq(Byte)
  BY <1>1, FoundHere DEF Here
<1>3. PICK a, b, e : Name(a, offset) /\ Name(a, e) /\ Answer(a, e, b)
  BY <1>1, NextLaid DEF Within
<1>4. e = offset
  BY <1>2, <1>3, OneName
<1> QED
  BY <1>1, <1>2, <1>3, <1>4 DEF Answer

LEMMA WholeStays ==
  ASSUME UNCHANGED <<expectedID, msg>> PROVE Whole' <=> Whole
BY DatagramStays DEF Whole, All

LEMMA NextFails ==
  IInv /\ Found /\ (pc = "failed" => ~Whole) /\ [Next]_vars => (pc = "failed" => ~Whole)'
<1> SUFFICES ASSUME IInv, Found, pc = "failed" => ~Whole, [Next]_vars, pc' = "failed"
             PROVE  ~Whole'
  OBVIOUS
<1>1. UNCHANGED <<expectedID, msg>>
  BY DEF Next, Step, Terminated, vars, ReadHeader, NextItem, SkipLabel, EndQuestion, EndAnswer
<1>2. CASE ReadHeader
  <2>1. Size \in Nat
    BY Numbers DEF IInv
  <2>2. Size < 12 \/ ~IsAnswer
    BY <1>2 DEF ReadHeader
  <2>3. ~Whole
    BY <2>1, <2>2 DEF Whole
  <2> QED
    BY <1>1, <2>3, WholeStays
<1>3. CASE SkipLabel \/ EndQuestion \/ EndAnswer
  BY <1>1, <1>3, SkipLabelFails, EndQuestionFails, EndAnswerFails, WholeStays
<1>4. CASE pc = "failed"
  BY <1>1, <1>4, WholeStays
<1> QED
  BY <1>2, <1>3, <1>4 DEF Next, Step, Terminated, vars, NextItem

----------------------------------------------------------------------------

\* For every datagram, the state of parseCAAResponse keeps its types.
THEOREM WireTypeCorrect == Spec => []TypeOK
<1>1. IInv => TypeOK
  BY DEF IInv
<1> QED
  BY <1>1, InitIInv, NextIInvariant, PTL DEF Spec

\* For every datagram, parseCAAResponse reads no byte behind its end
\* (dns.go:186-232).
THEOREM WireInside == Spec => []IndexInside
<1>1. IInv => IndexInside
  BY DEF IInv, Inside, IndexInside
<1> QED
  BY <1>1, InitIInv, NextIInvariant, PTL DEF Spec

\* What it has read of the datagram bounds the items it went through, whatever
\* the counts in the header promise (dns.go:198-230).
THEOREM WireWorkBounded == Spec => []WorkBounded
<1>1. IInv => WorkBounded
  BY DEF IInv, Inside, WorkBounded, Taken
<1> QED
  BY <1>1, InitIInv, NextIInvariant, PTL DEF Spec

\* parseCAAResponse accepts a datagram exactly when it is a reply to the query, without an
\* error, whose items are all there, and then returns the well-formed CAA records of its
\* answers in their order (dns.go:188-240).
THEOREM WireParsesWhole == Spec => []ParsedIfWhole
<1>1. Init => IInv /\ Found /\ (pc = "failed" => ~Whole)
  <2>1. Init => Found /\ pc # "failed"
    BY DEF Init, Found
  <2> QED
    BY <2>1, InitIInv
<1>2. IInv /\ Found /\ (pc = "failed" => ~Whole) => ParsedIfWhole
  <2> SUFFICES ASSUME IInv, Found, pc = "parsed"
               PROVE  Whole /\ \A p, e, r : Layout(All, p, e, r) => records = r[All]
    BY DEF ParsedIfWhole
  <2>1. msg \in Seq(Byte) /\ U16(4) \in Nat /\ U16(6) \in Nat
    BY Numbers, WordDown DEF IInv
  <2>2. /\ Size >= 12 /\ IsAnswer /\ questions = 0 /\ answers = 0
        /\ \E p, e, r : Layout(Done, p, e, r) /\ records = r[Done] /\ Within(p[Done])
    BY DEF Found
  <2>3. Done = All /\ All \in Nat /\ All <= All
    BY <2>1, <2>2 DEF Done, All, QuestionsRead, AnswersRead
  <2>4. PICK q, f, s : Layout(All, q, f, s) /\ records = s[All]
    BY <2>2, <2>3
  <2>5. Whole
    BY <2>2, <2>4 DEF Whole
  <2>6. ASSUME NEW p, NEW e, NEW r, Layout(All, p, e, r) PROVE records = r[All]
    BY <2>1, <2>3, <2>4, <2>6, LayoutsAgree
  <2> QED
    BY <2>5, <2>6
<1> QED
  BY <1>1, <1>2, NextIInvariant, NextFound, NextFails, PTL DEF Spec
=============================================================================
