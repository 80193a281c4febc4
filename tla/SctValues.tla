----------------------------- MODULE SctValues -----------------------------
(***************************************************************************)
(* Lists of timestamps as RFC 6962 spells them, with lengths that are      *)
(* wrong and ends that are missing; and the extension of real              *)
(* certificates, where the list is wrapped once more.                      *)
(***************************************************************************)
EXTENDS Integers, FiniteSets, SequencesExt

Repeat(byte, n) == [i \in 1..n |-> byte]

TwoBytes(n) == <<n \div 256, n % 256>>

\* The entries of a list, from their sizes.
Entries(sizes) == FlattenSeq([i \in DOMAIN sizes |-> TwoBytes(sizes[i]) \o Repeat(7, sizes[i])])

SizeLists == UNION {[1..n -> {0, 1, 256}] : n \in 0..2} \cup [1..3 -> {0, 1}]

Claims(n) == {n, n + 1, 65535} \cup (IF n > 0 THEN {0, n - 1} ELSE {})

\* A list: its entries, the length it claims, the bytes that arrive of it.
Arrived(bytes) ==
  {SubSeq(bytes, 1, n) : n \in {n \in 0..Len(bytes) : n < 9 \/ n > Len(bytes) - 4}}

Lists == UNION {{[sizes |-> s, raw |-> r] :
                   r \in UNION {Arrived(TwoBytes(c) \o Entries(s) \o tail) :
                                  c \in Claims(Len(Entries(s))), tail \in {<<>>, <<0, 0, 0>>}}} :
                s \in SizeLists}

ListValues == {l.raw : l \in Lists}

\* How much of the value its list may use: what it claims, as far as it is there.
Room(value) ==
  IF Len(value) < 2 THEN 0
  ELSE LET claim == 256 * value[1] + value[2]
       IN  IF claim < Len(value) - 2 THEN claim ELSE Len(value) - 2

\* n is the number of the entries of the list that lie inside its room.
Counts(value, n) ==
  \A l \in Lists : l.raw = value /\ Room(value) <= Len(Entries(l.sizes)) =>
    n = Cardinality({k \in DOMAIN l.sizes : Len(Entries(SubSeq(l.sizes, 1, k))) <= Room(value)})

----------------------------------------------------------------------------
(* Certificates.  The value of the extension is the list inside a DER octet
   string: a tag, the length in one to three bytes, the list. *)

OctetString(bytes) ==
  LET n == Len(bytes)
  IN  <<4>> \o (IF n < 128 THEN <<n>> ELSE IF n < 256 THEN <<129, n>> ELSE <<130>> \o TwoBytes(n)) \o bytes

EncodeList(sizes) == TwoBytes(Len(Entries(sizes))) \o Entries(sizes)

\* A timestamp signed with ECDSA has 117 to 119 bytes; certificates embed one to
\* three of them.
CertificateValues ==
  {OctetString(EncodeList(sizes)) : sizes \in UNION {[1..n -> {117, 118, 119}] : n \in 1..3}}
=============================================================================
