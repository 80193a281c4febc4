------------------------------ MODULE SctProofs ------------------------------
(***************************************************************************)
(* countSCTList stays inside the value of the extension and counts the     *)
(* entries of its list, whatever bytes the certificate holds.              *)
(***************************************************************************)
EXTENDS SctList, WellFoundedInduction, TLAPS

Numbers == /\ raw \in Seq(Nat) /\ sctPc \in {"length", "entries", "counted"}
           /\ sctOffset \in Nat /\ end \in Nat /\ count \in Nat /\ sctHigh \in Nat

\* The entries counted lie before the position of the loop, which lies before
\* the end of the list, which lies inside the value.
Inside ==
  /\ sctHigh <= RawSize /\ 2 * count <= RawSize
  /\ sctPc = "length" => count = 0
  /\ sctPc = "entries" => 2 * count + 2 <= sctOffset /\ sctOffset <= end /\ end <= RawSize

IInv == Numbers /\ Inside

----------------------------------------------------------------------------
(* Reading. *)

LEMMA U16Natural ==
  ASSUME raw \in Seq(Nat), NEW i \in Nat
  PROVE  RawU16(i) \in Nat
<1>1. \A k \in Nat : RawAt(k) \in Nat
  <2> SUFFICES ASSUME NEW k \in Nat PROVE RawAt(k) \in Nat
    OBVIOUS
  <2>1. CASE k < RawSize
    <3>1. k + 1 \in 1..Len(raw)
      BY <2>1 DEF RawSize
    <3> QED
      BY <2>1, <3>1 DEF RawAt
  <2>2. CASE ~(k < RawSize)
    BY <2>2 DEF RawAt
  <2> QED
    BY <2>1, <2>2
<1>2. RawAt(i) \in Nat /\ RawAt(i + 1) \in Nat
  BY <1>1
<1> QED
  BY <1>2 DEF RawU16

\* A read inside the value leaves the mark inside it.
LEMMA HigherInside ==
  ASSUME IInv, NEW n \in Nat, n <= RawSize
  PROVE  SctHigher(n) \in Nat /\ SctHigher(n) <= RawSize
BY DEF IInv, Numbers, Inside, SctHigher

----------------------------------------------------------------------------
(* The steps. *)

LEMMA ReadLengthIInv == IInv /\ ReadLength => IInv'
<1> SUFFICES ASSUME IInv, ReadLength PROVE IInv'
  OBVIOUS
<1>1. RawSize \in Nat /\ RawSize' = RawSize /\ raw' = raw /\ count' = count
  BY DEF IInv, Numbers, ReadLength, RawSize
<1>2. CASE RawSize < 2
  BY <1>1, <1>2 DEF ReadLength, IInv, Numbers, Inside
<1>3. CASE RawSize >= 2
  <2>1. Total \in Nat /\ 2 + Total <= RawSize
    BY <1>1, <1>3, U16Natural DEF Total, IInv, Numbers
  <2>2. SctHigher(2) \in Nat /\ SctHigher(2) <= RawSize
    BY <1>3, HigherInside
  <2>3. sctPc = "length" /\ sctPc' = "entries" /\ sctOffset' = 2 /\ end' = 2 + Total /\ sctHigh' = SctHigher(2)
    BY <1>1, <1>3 DEF ReadLength
  <2> QED
    BY <1>1, <2>1, <2>2, <2>3 DEF IInv, Numbers, Inside
<1> QED
  BY <1>1, <1>2, <1>3

LEMMA ReadEntryIInv == IInv /\ ReadEntry => IInv'
<1> SUFFICES ASSUME IInv, ReadEntry PROVE IInv'
  OBVIOUS
<1>1. /\ RawSize \in Nat /\ RawSize' = RawSize /\ raw' = raw /\ end' = end
      /\ 2 * count + 2 <= sctOffset /\ sctOffset <= end /\ end <= RawSize
  BY DEF IInv, Numbers, Inside, ReadEntry, RawSize
<1>2. CASE sctOffset + 2 > end
  BY <1>1, <1>2 DEF ReadEntry, IInv, Numbers, Inside
<1>3. CASE sctOffset + 2 <= end
  <2> DEFINE next == sctOffset + 2 + RawU16(sctOffset)
  <2>1. next \in Nat /\ sctOffset + 2 <= next
    <3>1. sctOffset \in Nat /\ RawU16(sctOffset) \in Nat
      BY U16Natural DEF IInv, Numbers
    <3> QED
      BY <3>1
  <2>2. /\ sctHigh' = SctHigher(sctOffset + 2)
        /\ \/ next <= end /\ sctOffset' = next /\ count' = count + 1 /\ sctPc' = sctPc
           \/ sctOffset' = sctOffset + 2 /\ sctPc' = "counted" /\ count' = count
    BY <1>1, <1>3 DEF ReadEntry, EntryFits, Misfit, IInv, Numbers
  <2> HIDE DEF next
  <2>3. sctHigh' \in Nat /\ sctHigh' <= RawSize
    <3>1. sctOffset + 2 \in Nat /\ sctOffset + 2 <= RawSize
      BY <1>1, <1>3 DEF IInv, Numbers
    <3> QED
      BY <2>2, <3>1, HigherInside
  <2>4. CASE next <= end /\ sctOffset' = next /\ count' = count + 1 /\ sctPc' = sctPc
    BY <1>1, <1>3, <2>1, <2>3, <2>4 DEF IInv, Numbers, Inside, ReadEntry
  <2>5. CASE sctOffset' = sctOffset + 2 /\ sctPc' = "counted" /\ count' = count
    BY <1>1, <1>3, <2>3, <2>5 DEF IInv, Numbers, Inside
  <2> QED
    BY <2>2, <2>4, <2>5
<1> QED
  BY <1>1, <1>2, <1>3 DEF IInv, Numbers

LEMMA NextIInv == IInv /\ [SctNext]_sctVars => IInv'
<1> SUFFICES ASSUME IInv, [SctNext]_sctVars PROVE IInv'
  OBVIOUS
<1>1. CASE ReadLength
  BY <1>1, ReadLengthIInv
<1>2. CASE ReadEntry
  BY <1>2, ReadEntryIInv
<1>3. CASE UNCHANGED sctVars
  BY <1>3 DEF sctVars, IInv, Numbers, Inside, RawSize
<1> QED
  BY <1>1, <1>2, <1>3 DEF SctNext, SctStep, SctTerminated

----------------------------------------------------------------------------

\* For every extension of bytes, countSCTList reads none behind its end and counts
\* no more entries than have room in it (cert.go:284-305).
THEOREM SctsStayInside == SctSpec => []SctsInside
<1>1. SctInit => IInv
  <2> SUFFICES ASSUME SctInit PROVE IInv
    OBVIOUS
  <2>1. raw \in Seq(Nat)
    BY SctAssumption DEF SctInit
  <2> QED
    BY <2>1 DEF SctInit, IInv, Numbers, Inside, RawSize
<1>2. IInv => SctsInside
  BY DEF IInv, Inside, SctsInside
<1> QED
  BY <1>1, <1>2, NextIInv, PTL DEF SctSpec

----------------------------------------------------------------------------
(* The count. *)

\* The n entries that lie one behind the other from the start of the list, each of them
\* before its end, when p[k] is the position behind the first k.
Chain(n, p) ==
  /\ p \in [0..n -> Nat] /\ p[0] = 2
  /\ \A k \in 1..n : p[k] = p[k - 1] + 2 + RawU16(p[k - 1]) /\ p[k] <= 2 + Total

\* No entry fits behind position i.
NoneBehind(i) == i + 2 > 2 + Total \/ i + 2 + RawU16(i) > 2 + Total

\* What was counted are the entries of the list, the last of them included.
EntriesCounted ==
  sctPc = "counted" => IF RawSize < 2 THEN count = 0 ELSE \E p : Chain(count, p) /\ NoneBehind(p[count])

\* No other number of entries fits the list.
NoOtherCount ==
  sctPc = "counted" /\ RawSize >= 2 =>
    \A n \in Nat : \A q : Chain(n, q) /\ NoneBehind(q[n]) => n = count

Chained ==
  /\ sctPc = "length" => count = 0
  /\ sctPc = "entries" => RawSize >= 2 /\ end = 2 + Total /\ \E p : Chain(count, p) /\ p[count] = sctOffset
  /\ EntriesCounted

\* A chain of one more entry.
LEMMA OneMoreEntry ==
  ASSUME NEW n \in Nat, NEW p, Chain(n, p), NEW next \in Nat,
         next = p[n] + 2 + RawU16(p[n]), next <= 2 + Total
  PROVE  \E q : Chain(n + 1, q) /\ q[n + 1] = next
<1> DEFINE q == [k \in 0..(n + 1) |-> IF k = n + 1 THEN next ELSE p[k]]
<1>1. q \in [0..(n + 1) -> Nat] /\ q[0] = 2 /\ q[n + 1] = next
  BY DEF Chain
<1>2. \A k \in 0..n : q[k] = p[k]
  OBVIOUS
<1>3. ASSUME NEW k \in 1..(n + 1)
      PROVE  q[k] = q[k - 1] + 2 + RawU16(q[k - 1]) /\ q[k] <= 2 + Total
  <2>1. k - 1 \in 0..n
    OBVIOUS
  <2>2. q[k - 1] = p[k - 1]
    BY <1>2, <2>1
  <2>3. CASE k = n + 1
    BY <1>1, <2>2, <2>3
  <2>4. CASE k # n + 1
    <3>1. k \in 1..n /\ k \in 0..n
      BY <2>4
    <3> QED
      BY <1>2, <2>2, <3>1 DEF Chain
  <2> QED
    BY <2>3, <2>4
<1> QED
  BY <1>1, <1>3 DEF Chain

\* The value stays, and with it its numbers, its list and the chains of that.
LEMMA ValueStays ==
  ASSUME raw' = raw
  PROVE  /\ RawSize' = RawSize /\ Total' = Total
         /\ \A n, p : Chain(n, p)' <=> Chain(n, p)
         /\ \A i : NoneBehind(i)' <=> NoneBehind(i)
<1>1. RawSize' = RawSize
  BY DEF RawSize
<1>2. \A i : RawU16(i)' = RawU16(i)
  BY <1>1 DEF RawU16, RawAt
<1>3. Total' = Total
  BY <1>1, <1>2 DEF Total
<1> QED
  BY <1>1, <1>2, <1>3 DEF Chain, NoneBehind

LEMMA ReadLengthChained == IInv /\ Chained /\ ReadLength => Chained'
<1> SUFFICES ASSUME IInv, Chained, ReadLength PROVE Chained'
  OBVIOUS
<1>1. raw' = raw /\ count' = count /\ count = 0 /\ RawSize \in Nat
  BY DEF ReadLength, Chained, IInv, Numbers, RawSize
<1>2. CASE RawSize < 2
  BY <1>1, <1>2, ValueStays DEF ReadLength, Chained, EntriesCounted
<1>3. CASE RawSize >= 2
  <2>1. sctPc' = "entries" /\ sctOffset' = 2 /\ end' = 2 + Total
    BY <1>1, <1>3 DEF ReadLength
  <2>2. PICK p : p = [k \in 0..0 |-> 2]
    OBVIOUS
  <2>3. Chain(0, p) /\ p[0] = 2
    BY <2>2 DEF Chain
  <2> QED
    BY <1>1, <1>3, <2>1, <2>3, ValueStays DEF Chained, EntriesCounted
<1> QED
  BY <1>1, <1>2, <1>3

LEMMA ReadEntryChained == IInv /\ Chained /\ ReadEntry => Chained'
<1> SUFFICES ASSUME IInv, Chained, ReadEntry PROVE Chained'
  OBVIOUS
<1>1. /\ raw' = raw /\ end' = end /\ sctPc = "entries"
      /\ RawSize \in Nat /\ RawSize >= 2 /\ end = 2 + Total /\ sctOffset \in Nat /\ count \in Nat
  BY DEF ReadEntry, Chained, IInv, Numbers, RawSize
<1>2. PICK p : Chain(count, p) /\ p[count] = sctOffset
  BY <1>1 DEF Chained
<1>3. RawU16(sctOffset) \in Nat
  BY <1>1, U16Natural DEF IInv, Numbers
<1>4. ASSUME NoneBehind(sctOffset), sctPc' = "counted", count' = count
      PROVE  Chained'
  BY <1>1, <1>2, <1>4, ValueStays DEF Chained, EntriesCounted
<1>5. CASE sctOffset + 2 > end
  <2>1. NoneBehind(sctOffset)
    BY <1>1, <1>5 DEF NoneBehind
  <2> QED
    BY <1>4, <1>5, <2>1 DEF ReadEntry
<1>6. CASE sctOffset + 2 <= end
  <2> DEFINE next == sctOffset + 2 + RawU16(sctOffset)
  <2>1. next \in Nat
    BY <1>1, <1>3
  <2>2. \/ next <= end /\ sctOffset' = next /\ count' = count + 1 /\ sctPc' = sctPc
        \/ next > end /\ sctPc' = "counted" /\ count' = count
    <3>1. ~(sctOffset + 2 > end)
      BY <1>1, <1>6 DEF IInv, Numbers
    <3>2. next <= end \/ next > end
      BY <2>1 DEF IInv, Numbers
    <3> QED
      BY <3>1, <3>2 DEF ReadEntry, EntryFits, Misfit
  <2>3. CASE next <= end /\ sctOffset' = next /\ count' = count + 1 /\ sctPc' = sctPc
    <3>1. PICK q : Chain(count + 1, q) /\ q[count + 1] = next
      <4> HIDE DEF next
      <4>1. next = p[count] + 2 + RawU16(p[count])
        BY <1>2 DEF next
      <4> QED
        BY <1>1, <1>2, <2>1, <2>3, <4>1, OneMoreEntry
    <3> QED
      BY <1>1, <2>3, <3>1, ValueStays DEF Chained, EntriesCounted
  <2>4. CASE next > end /\ sctPc' = "counted" /\ count' = count
    <3>1. NoneBehind(sctOffset)
      BY <1>1, <2>4 DEF NoneBehind
    <3> QED
      BY <1>4, <2>4, <3>1
  <2> QED
    BY <2>2, <2>3, <2>4
<1> QED
  BY <1>1, <1>5, <1>6 DEF IInv, Numbers

LEMMA NextChained == IInv /\ Chained /\ [SctNext]_sctVars => Chained'
<1>1. IInv /\ Chained /\ UNCHANGED sctVars => Chained'
  <2> SUFFICES ASSUME Chained, UNCHANGED sctVars PROVE Chained'
    OBVIOUS
  <2>1. /\ raw' = raw /\ sctPc' = sctPc /\ sctOffset' = sctOffset /\ end' = end /\ count' = count
    BY DEF sctVars
  <2> QED
    BY <2>1, ValueStays DEF Chained, EntriesCounted
<1> QED
  BY <1>1, ReadLengthChained, ReadEntryChained DEF SctNext, SctStep, SctTerminated

\* A set of numbers that is not empty has a least one.
LEMMA LeastNumber ==
  ASSUME NEW S, S \subseteq Nat, S # {}
  PROVE  \E x \in S : \A y \in S : x <= y
<1> DEFINE R == {ss \in Nat \X Nat : ss[1] < ss[2]}
<1>1. R = OpToRel(<, Nat)
  BY Zenon DEF OpToRel
<1>2. IsWellFoundedOn(R, Nat)
  BY <1>1, NatLessThanWellFounded, Zenon
<1>3. PICK x \in S : \A y \in S : ~(<<y, x>> \in R)
  <2> HIDE DEF R
  <2> QED
    BY <1>2, WFMin
<1>4. ASSUME NEW y \in S PROVE x <= y
  <2>1. y \in Nat /\ x \in Nat /\ <<y, x>> \notin R
    BY <1>3
  <2>2. <<y, x>> \in Nat \X Nat /\ <<y, x>>[1] = y /\ <<y, x>>[2] = x
    BY <2>1
  <2> QED
    BY <2>1, <2>2
<1> QED
  BY <1>4

\* Two chains have the positions in common that both reach: at the first that differed,
\* the entry before it would have had two lengths.
LEMMA ChainsAgree ==
  ASSUME NEW m \in Nat, NEW n \in Nat, NEW p, NEW q, Chain(m, p), Chain(n, q),
         NEW k \in Nat, k <= m, k <= n
  PROVE  p[k] = q[k]
<1> DEFINE Apart == {i \in Nat : i <= m /\ i <= n /\ p[i] # q[i]}
<1>1. SUFFICES ASSUME Apart # {} PROVE FALSE
  OBVIOUS
<1>2. PICK i \in Apart : \A j \in Apart : i <= j
  <2>1. Apart \subseteq Nat
    OBVIOUS
  <2> HIDE DEF Apart
  <2> QED
    BY <1>1, <2>1, LeastNumber
<1>3. i \in Nat /\ i <= m /\ i <= n /\ p[i] # q[i]
  OBVIOUS
<1>4. i # 0
  BY <1>3 DEF Chain
<1>5. i - 1 \in Nat /\ i - 1 <= m /\ i - 1 <= n /\ i - 1 \notin Apart
  <2>1. i - 1 \in Nat /\ i - 1 <= m /\ i - 1 <= n /\ ~(i <= i - 1)
    BY <1>3, <1>4
  <2> HIDE DEF Apart
  <2> QED
    BY <1>2, <2>1
<1>6. p[i - 1] = q[i - 1]
  BY <1>5
<1>7. i \in 1..m /\ i \in 1..n
  BY <1>3, <1>4
<1>8. p[i] = p[i - 1] + 2 + RawU16(p[i - 1]) /\ q[i] = q[i - 1] + 2 + RawU16(q[i - 1])
  BY <1>7 DEF Chain
<1> HIDE DEF Apart
<1> QED
  BY <1>3, <1>6, <1>8

\* A chain with no entry behind it is as long as any other chain.
LEMMA LongestChain ==
  ASSUME NEW m \in Nat, NEW n \in Nat, NEW p, NEW q, Chain(m, p), Chain(n, q),
         NoneBehind(p[m]), raw \in Seq(Nat)
  PROVE  n <= m
<1>1. SUFFICES ASSUME m < n PROVE FALSE
  OBVIOUS
<1>2. m + 1 \in 1..n /\ (m + 1) - 1 = m
  BY <1>1
<1>3. q[m + 1] = q[m] + 2 + RawU16(q[m]) /\ q[m + 1] <= 2 + Total
  BY <1>2 DEF Chain
<1>4. p[m] = q[m]
  BY <1>1, ChainsAgree
<1>5. p[m] \in Nat
  BY DEF Chain
<1>6. RawU16(p[m]) \in Nat
  BY <1>5, U16Natural
<1>7. RawSize \in Nat /\ RawU16(0) \in Nat
  BY U16Natural DEF RawSize
<1>8. Total \in Int
  BY <1>7 DEF Total
<1> QED
  BY <1>3, <1>4, <1>5, <1>6, <1>8 DEF NoneBehind

\* For every extension of bytes, countSCTList counts the entries that follow one another
\* from the start of the list and end inside it, and stops at the first that does not
\* (cert.go:284-305).
THEOREM SctsAllCounted == SctSpec => [](EntriesCounted /\ NoOtherCount)
<1>1. SctInit => IInv /\ Chained
  <2> SUFFICES ASSUME SctInit PROVE IInv /\ Chained
    OBVIOUS
  <2>1. raw \in Seq(Nat)
    BY SctAssumption DEF SctInit
  <2> QED
    BY <2>1 DEF SctInit, IInv, Numbers, Inside, RawSize, Chained, EntriesCounted
<1>2. IInv /\ Chained => EntriesCounted /\ NoOtherCount
  <2> SUFFICES ASSUME IInv, Chained PROVE EntriesCounted /\ NoOtherCount
    OBVIOUS
  <2>1. raw \in Seq(Nat) /\ count \in Nat /\ RawSize \in Nat /\ EntriesCounted
    BY DEF IInv, Numbers, Chained, RawSize
  <2>2. ASSUME sctPc = "counted", RawSize >= 2, NEW n \in Nat, NEW q, Chain(n, q), NoneBehind(q[n])
        PROVE  n = count
    <3>1. PICK p : Chain(count, p) /\ NoneBehind(p[count])
      BY <2>1, <2>2 DEF EntriesCounted
    <3>2. n <= count
      BY <2>1, <2>2, <3>1, LongestChain
    <3>3. count <= n
      BY <2>1, <2>2, <3>1, LongestChain
    <3> QED
      BY <2>1, <2>2, <3>2, <3>3
  <2> QED
    BY <2>1, <2>2 DEF NoOtherCount
<1> QED
  BY <1>1, <1>2, NextIInv, NextChained, PTL DEF SctSpec
=============================================================================
