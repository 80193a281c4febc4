------------------------------ MODULE SctList ------------------------------
(***************************************************************************)
(* The count of the certificate transparency timestamps (SCTs) a           *)
(* certificate embeds (internal/checker/cert.go): countSCTList, called     *)
(* with the value of the extension as crypto/x509 hands it out.            *)
(*                                                                         *)
(* raw is a sequence of bytes the server chose; offsets count from 0.  As  *)
(* in DnsWire, a read behind the end yields 0 and shows in sctHigh.        *)
(***************************************************************************)
EXTENDS Integers, Sequences

CONSTANTS
  Values   \* values the extension of a certificate can have: sequences of bytes

ASSUME SctAssumption == Values \subseteq Seq(Nat)

VARIABLES
  raw,        \* the value of the extension
  sctPc,      \* "length", "entries" or "counted"
  sctOffset, end, count,
  sctHigh     \* bytes of raw up to the last one read

sctVars == <<raw, sctPc, sctOffset, end, count, sctHigh>>

----------------------------------------------------------------------------

RawSize == Len(raw)

RawAt(i) == IF i < RawSize THEN raw[i + 1] ELSE 0

RawU16(i) == 256 * RawAt(i) + RawAt(i + 1)

SctHigher(n) == IF n > sctHigh THEN n ELSE sctHigh

SctInit ==
  /\ raw \in Values
  /\ sctPc = "length" /\ sctOffset = 0 /\ end = 0 /\ count = 0 /\ sctHigh = 0

\* A plausible bug: the length the list claims is believed.
TotalBelieved == RawU16(0)

Total == IF RawU16(0) > RawSize - 2 THEN RawSize - 2 ELSE RawU16(0)

ReadLength ==
  /\ sctPc = "length"
  /\ IF RawSize < 2 THEN sctPc' = "counted" /\ UNCHANGED <<sctOffset, end, sctHigh>>
     ELSE sctPc' = "entries" /\ sctOffset' = 2 /\ end' = 2 + Total /\ sctHigh' = SctHigher(2)
  /\ UNCHANGED <<raw, count>>

\* A plausible bug: an entry that ends with the list is not counted.
EntryFitsBug(next) == next < end

EntryFits(next) == next <= end

\* A plausible bug: the loop goes on with the entry that does not fit.
MisfitBug == UNCHANGED <<sctOffset, sctPc>>

\* An entry that does not fit ends the loop, its length read.
Misfit == sctOffset' = sctOffset + 2 /\ sctPc' = "counted"

\* One round of the loop: the entry's length, and the entry if it fits.
ReadEntry ==
  /\ sctPc = "entries"
  /\ IF sctOffset + 2 > end THEN sctPc' = "counted" /\ UNCHANGED <<sctOffset, count, sctHigh>>
     ELSE LET next == sctOffset + 2 + RawU16(sctOffset)
          IN  /\ sctHigh' = SctHigher(sctOffset + 2)
              /\ IF EntryFits(next)
                 THEN sctOffset' = next /\ count' = count + 1 /\ UNCHANGED sctPc
                 ELSE Misfit /\ UNCHANGED count
  /\ UNCHANGED <<raw, end>>

SctTerminated == sctPc = "counted" /\ UNCHANGED sctVars

SctStep == ReadLength \/ ReadEntry

SctNext == SctStep \/ SctTerminated

\* countSCTList is a sequential function.
SctSpec == SctInit /\ [][SctNext]_sctVars /\ WF_sctVars(SctStep)

----------------------------------------------------------------------------
(* Properties. *)

\* Whatever bytes the certificate holds, countSCTList reads none behind their
\* end, and no entry it counts is shorter than its length field.
SctsInside ==
  /\ sctHigh <= RawSize
  /\ 2 * count <= RawSize

\* The loop stops on every value.
SctFinishes == <>(sctPc = "counted")
=============================================================================
