------------------------------ MODULE DnsWire ------------------------------
(***************************************************************************)
(* The wire format of the CAA lookup (internal/checker/dns.go): the query  *)
(* it builds and parseCAAResponse, one action per round of its loops.      *)
(*                                                                         *)
(* Messages are sequences of bytes; offsets count from 0 as in the code.   *)
(* A read behind the end would panic in Go.  Here it yields 0 and shows in *)
(* high, so that the property, not the evaluation, says that it happened.  *)
(***************************************************************************)
EXTENDS Integers, Sequences

CONSTANTS
  Messages   \* what may arrive: <<the ID asked for, the datagram>>

Byte == {n \in Nat : n <= 255}
Word == {n \in Nat : n <= 65535}

CAARecordType == [flag : Byte, tag : Seq(Byte), value : Seq(Byte)]

ASSUME MessageAssumption ==
  \A m \in Messages : m[1] \in Nat /\ m[2] \in Seq(Byte)

VARIABLES
  expectedID, msg,   \* the arguments of parseCAAResponse
  pc,                \* "header", "item", "name", "rest", "parsed" or "failed"
  offset,            \* the position in the message
  questions, answers,\* items left of either section
  records,           \* the CAA records collected
  high               \* bytes of the message up to the last one read

vars == <<expectedID, msg, pc, offset, questions, answers, records, high>>

----------------------------------------------------------------------------
(* The query. *)

U16Bytes(n) == <<n \div 256, n % 256>>

\* A plausible bug: a label of 64 bytes has the bits of an extended label.
LabelFitsBug(label) == Len(label) \in 1..64

LabelFits(label) == Len(label) \in 1..63

Encodable(labels) == labels # <<>> /\ \A i \in DOMAIN labels : LabelFits(labels[i])

\* The labels of a host, each with its length, and a final 0.
EncodeDNSName(labels) ==
  LET upTo[i \in 0..Len(labels)] ==
        IF i = 0 THEN <<>> ELSE upTo[i - 1] \o <<Len(labels[i])>> \o labels[i]
  IN  upTo[Len(labels)] \o <<0>>

CaaType == 257
InClass == 1

Header(id, flags, qd, an) ==
  U16Bytes(id) \o U16Bytes(flags) \o U16Bytes(qd) \o U16Bytes(an) \o <<0, 0, 0, 0>>

BuildCAAQuery(id, labels) ==
  Header(id, 256, 1, 0) \o EncodeDNSName(labels) \o U16Bytes(CaaType) \o U16Bytes(InClass)

----------------------------------------------------------------------------
(* Reading. *)

Size == Len(msg)

At(i) == IF i < Size THEN msg[i + 1] ELSE 0

U16(i) == 256 * At(i) + At(i + 1)

Slice(from, to) == [i \in 1..(to - from) |-> At(from + i - 1)]

Higher(n) == IF n > high THEN n ELSE high

\* parseCAARData of the n bytes at position a: the tag must be there and fit.
IsCAARData(a, n) == n >= 2 /\ At(a + 1) # 0 /\ 2 + At(a + 1) <= n

CAARecord(a, n) ==
  [flag  |-> At(a),
   tag   |-> Slice(a + 2, a + 2 + At(a + 1)),
   value |-> Slice(a + 2 + At(a + 1), a + n)]

----------------------------------------------------------------------------

Init ==
  /\ \E m \in Messages : expectedID = m[1] /\ msg = m[2]
  /\ pc = "header" /\ offset = 0 /\ questions = 0 /\ answers = 0
  /\ records = <<>> /\ high = 0

Fail ==
  /\ pc' = "failed"
  /\ UNCHANGED <<offset, questions, answers, records>>

\* The ID asked for, and a response code that is 0 or 3 ("no such name").
IsAnswer == U16(0) = expectedID /\ At(3) % 16 \in {0, 3}

\* The length, the ID and the response code, then the counts of the sections.
ReadHeader ==
  /\ pc = "header"
  /\ IF Size < 12 THEN Fail /\ high' = high
     ELSE IF ~IsAnswer THEN Fail /\ high' = Higher(4)
     ELSE /\ questions' = U16(4) /\ answers' = U16(6)
          /\ offset' = 12 /\ pc' = "item" /\ high' = Higher(8)
          /\ UNCHANGED records
  /\ UNCHANGED <<expectedID, msg>>

\* A plausible bug: the last answer is asked for once too often.
MoreItemsBug == questions > 0 \/ answers >= 0

MoreItems == questions > 0 \/ answers > 0

NextItem ==
  /\ pc = "item"
  /\ pc' = IF MoreItems THEN "name" ELSE "parsed"
  /\ UNCHANGED <<expectedID, msg, offset, questions, answers, records, high>>

PointerFits == offset + 1 < Size

\* A plausible bug: the name is read on where the pointer leads.
FollowPointer == offset' = 256 * (At(offset) % 64) + At(offset + 1) /\ pc' = "name"

\* The name a pointer stands for is not needed, so the pointer is not followed.
PassPointer == offset' = offset + 2 /\ pc' = "rest"

\* One round of skipDNSName: a compression pointer or a final 0 ends the name.
SkipLabel ==
  /\ pc = "name"
  /\ IF offset >= Size THEN Fail /\ high' = high
     ELSE LET length == At(offset)
          IN  \/ /\ length >= 192 /\ ~PointerFits
                 /\ Fail /\ high' = Higher(offset + 1)
              \/ /\ length >= 192 /\ PointerFits
                 /\ PassPointer /\ high' = Higher(offset + 1)
                 /\ UNCHANGED <<questions, answers, records>>
              \/ /\ 64 <= length /\ length < 192
                 /\ Fail /\ high' = Higher(offset + 1)
              \/ /\ length < 64
                 /\ offset' = offset + 1 + length /\ high' = Higher(offset + 1)
                 /\ pc' = IF length = 0 THEN "rest" ELSE pc
                 /\ UNCHANGED <<questions, answers, records>>
  /\ UNCHANGED <<expectedID, msg>>

\* The type and class of a question.
EndQuestion ==
  /\ pc = "rest" /\ questions > 0
  /\ IF offset + 4 > Size THEN Fail
     ELSE /\ offset' = offset + 4 /\ questions' = questions - 1 /\ pc' = "item"
          /\ UNCHANGED <<answers, records>>
  /\ UNCHANGED <<expectedID, msg, high>>

\* The data of the answer at this offset; a plausible bug takes any type for CAA.
DataLength == U16(offset + 8)
IsCaaBug == TRUE
IsCaa == U16(offset) = CaaType /\ U16(offset + 2) = InClass

\* A plausible bug: only the length of the fixed part of an answer is tested.
DataFitsBug == TRUE

DataFits == offset + 10 + DataLength <= Size

\* The fixed part of an answer and its data.  A CAA record that is malformed is
\* left out, whatever follows it is read.
EndAnswer ==
  /\ pc = "rest" /\ questions = 0
  /\ IF offset + 10 > Size THEN Fail /\ high' = high
     ELSE IF ~DataFits THEN Fail /\ high' = Higher(offset + 10)
     ELSE LET data == offset + 10
              caa  == IsCaa /\ IsCAARData(data, DataLength)
          IN  /\ records' = IF caa THEN Append(records, CAARecord(data, DataLength)) ELSE records
              /\ high' = Higher(IF IsCaa /\ DataLength >= 2 THEN data + DataLength ELSE data)
              /\ offset' = data + DataLength /\ answers' = answers - 1 /\ pc' = "item"
              /\ UNCHANGED questions
  /\ UNCHANGED <<expectedID, msg>>

Terminated == pc \in {"parsed", "failed"} /\ UNCHANGED vars

Step == ReadHeader \/ NextItem \/ SkipLabel \/ EndQuestion \/ EndAnswer

Next == Step \/ Terminated

\* The parser is a sequential function.
Spec == Init /\ [][Next]_vars /\ WF_vars(Step)

----------------------------------------------------------------------------
(* Properties. *)

\* The counts stay those of 16 bits, the records are made of bytes.
TypeOK ==
  /\ \E m \in Messages : expectedID = m[1] /\ msg = m[2]
  /\ pc \in {"header", "item", "name", "rest", "parsed", "failed"}
  /\ offset \in Nat /\ high \in Nat
  /\ questions \in Word /\ answers \in Word
  /\ records \in Seq(CAARecordType)

\* No byte behind the end of the datagram is read, whatever lengths, counts and
\* pointers it holds: parseCAAResponse never panics.
IndexInside == high <= Size

QuestionsRead == IF pc = "header" THEN 0 ELSE U16(4) - questions
AnswersRead   == IF pc = "header" THEN 0 ELSE U16(6) - answers

\* Between items the position is inside the datagram, and each item read has
\* taken at least its smallest size (5 bytes for a question, 11 for an answer):
\* the work is bounded by what arrived, not by the counts of the header, and no
\* byte is read as part of two items.
WorkBounded ==
  pc = "item" => /\ 12 + 5 * QuestionsRead + 11 * AnswersRead <= offset
                 /\ offset <= Size

\* The parser stops on every datagram.
Finishes == <>(pc \in {"parsed", "failed"})
=============================================================================
