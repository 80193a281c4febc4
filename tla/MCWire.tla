------------------------------- MODULE MCWire -------------------------------
(***************************************************************************)
(* Small instances of the two parsers of bytes from outside.  For DnsWire: *)
(* replies a DNS server sends, encoded by the rules of the protocol and    *)
(* not by those of the code, every way to cut them short, and datagrams    *)
(* that are no reply.  For SctList: the lists of SctValues, spelled right  *)
(* and wrong.                                                              *)
(***************************************************************************)
EXTENDS DnsWire, SctList, SctValues

\* The two do not interact: a behaviour is one of either, and the other one
\* finds nothing to read.
BothInit == Init /\ SctInit /\ (msg = <<>> \/ raw = <<>>)

BothNext ==
  \/ Next /\ UNCHANGED sctVars
  \/ SctNext /\ UNCHANGED vars

BothSpec ==
  /\ BothInit /\ [][BothNext]_<<vars, sctVars>>
  /\ WF_vars(Step) /\ WF_sctVars(SctStep)

\* A name: its labels, then a 0 or a pointer to the name at byte 12.
EncodeName(name) ==
  FlattenSeq([i \in DOMAIN name.labels |-> <<Len(name.labels[i])>> \o name.labels[i]])
    \o (IF name.pointer THEN <<192, 12>> ELSE <<0>>)

\* An answer: a name, a type, a class, four bytes of lifetime, the data.
EncodeAnswer(a) ==
  EncodeName(a.name) \o U16Bytes(a.type) \o U16Bytes(a.class) \o <<0, 0, 1, 44>>
    \o U16Bytes(Len(a.data)) \o a.data

EncodeReply(r) ==
  Header(r.id, 32768 + r.rcode, 1, Len(r.items))
    \o EncodeName([labels |-> r.question, pointer |-> FALSE])
    \o U16Bytes(257) \o U16Bytes(1)
    \o FlattenSeq([i \in DOMAIN r.items |-> EncodeAnswer(r.items[i])])

----------------------------------------------------------------------------
(* The answers tried: CAA, an alias, CAA of another class. *)

Issue == [flag |-> 128, tag |-> <<105, 115>>, value |-> <<99, 97>>]
Empty == [flag |-> 0, tag |-> <<105>>, value |-> <<>>]

CaaData(record) == <<record.flag, Len(record.tag)>> \o record.tag \o record.value

Same  == [labels |-> <<>>, pointer |-> TRUE]
Under == [labels |-> <<<<97, 98>>>>, pointer |-> TRUE]
Plain == [labels |-> <<<<98>>>>, pointer |-> FALSE]

Caa(name, record) == [name |-> name, type |-> 257, class |-> 1, data |-> CaaData(record)]
Other(type, class, data) == [name |-> Same, type |-> type, class |-> class, data |-> data]

\* CAA data without a tag, with a tag that does not fit, and of one byte.
Malformed == {Other(257, 1, <<0, 0, 99>>), Other(257, 1, <<0, 3, 105, 115>>), Other(257, 1, <<0>>)}

Answers ==
  {Caa(Under, Issue), Caa(Plain, Empty), Other(5, 1, <<192, 12>>), Other(5, 1, CaaData(Issue)),
   Other(257, 3, CaaData(Issue))} \cup Malformed

AnswerLists == {<<>>} \cup {<<a>> : a \in Answers} \cup {<<a, Caa(Same, Issue)>> : a \in Answers}

\* What the answers say: the records of those that are CAA of the internet class
\* and well formed.
Meant(items) ==
  LET IsOf(a, r) == a.type = 257 /\ a.class = 1 /\ a.data = CaaData(r)
  IN  FlattenSeq([i \in DOMAIN items |->
        SetToSeq({r \in {Issue, Empty} : IsOf(items[i], r)})])

MCReplies == {[id |-> i, rcode |-> c, question |-> q, items |-> a] :
                i \in {258, 513}, c \in {0, 2, 3}, q \in {<<<<97>>>>}, a \in AnswerLists}

Encoded == [r \in MCReplies |-> EncodeReply(r)]

----------------------------------------------------------------------------
(* Datagrams that are no reply: counts that promise more than there is, a name
   that points to itself, label types of no meaning, labels without an end. *)

Body == <<1, 97, 0, 1, 1, 0, 1>>

Junk ==
  {Header(258, 32768, q, a) \o b :
     q \in {1, 2, 65535}, a \in {0, 1, 65535},
     b \in {Body, <<192, 12, 1, 1, 0, 1>>, <<64>> \o Body, <<128>> \o Body, <<255>> \o Body,
            <<63, 97>>, <<192>>, Repeat(0, 32), Repeat(192, 31)}}

\* The names asked about, one label each: the query itself, sent back.
Hosts == {<<Repeat(97, n)>> : n \in {0, 1, 63, 64}} \cup {<<>>, <<Repeat(97, 2), Repeat(98, 63)>>}

Queries == {BuildCAAQuery(258, h) : h \in {h \in Hosts : Encodable(h)}}

Cuts(m) == {SubSeq(m, 1, n) : n \in 0..(Len(m) - 1)}

MCMessages ==
  {258} \X ({Encoded[r] : r \in MCReplies} \cup Junk \cup Queries
            \cup UNION {Cuts(Encoded[r]) : r \in {r \in MCReplies : r.id = 258 /\ r.rcode = 0}}
            \cup {Encoded[r] \o <<0>> : r \in MCReplies})

----------------------------------------------------------------------------
(* Properties. *)

RepliesIn == {r \in MCReplies : Len(Encoded[r]) <= Size /\ Encoded[r] = SubSeq(msg, 1, Len(Encoded[r]))}

Accepted(r) == r.id = expectedID /\ r.rcode \in {0, 3}

\* parseCAAResponse agrees with the protocol: what a server sent, under the ID
\* of the query and with a code that is no error, is read whole and yields the
\* CAA records it holds, in order; nothing cut short, of another query or
\* refused yields any.  Bytes behind the last answer are not looked at.
ParseExact ==
  /\ \A r \in IF pc \in {"parsed", "failed"} THEN RepliesIn ELSE {} :
       IF Accepted(r) THEN pc = "parsed" /\ records = Meant(r.items) ELSE pc = "failed"
  /\ pc = "parsed" /\ records # <<>> => \E r \in RepliesIn : Accepted(r)
  /\ pc = "failed" => msg \notin Queries

\* countSCTList counts the entries that lie inside the length the list claims
\* and inside what is there, and no other.
SctCountExact == sctPc = "counted" => Counts(raw, count)
=============================================================================
