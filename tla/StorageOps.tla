----------------------------- MODULE StorageOps -----------------------------
(***************************************************************************)
(* The value history of one property: CStorage::m_history of               *)
(* src/src/homed/value/cstorage.h, as operators on a sequence whose first  *)
(* element is the newest (the code pushes at the front of a std::deque).   *)
(* An element is a record [id, value]; id is the number of the set() that  *)
(* stored it and stands for the identity of the CValue object.             *)
(***************************************************************************)
EXTENDS Naturals, Sequences

CONSTANT HistorySize    \* m_historySize: scripting.values_history_count

ASSUME HistorySizeAssumption == HistorySize \in Nat

\* Mutant: the limit is compared with >=, one element too few is kept.
PushOneShort(h, x) ==
  LET longer == <<x>> \o h
  IN  IF Len(longer) >= HistorySize
      THEN SubSeq(longer, 1, Len(longer) - 1)
      ELSE longer

\* CStorage::setValue, the locked part: emplace_front, then at most one pop_back.
Push(h, x) ==
  LET longer == <<x>> \o h
  IN  IF Len(longer) > HistorySize
      THEN SubSeq(longer, 1, Len(longer) - 1)
      ELSE longer

\* Mutant: changed() is trusted alone, so an equal value counts as a change because
\* the timestamps differ.
DiffersByTimestamp(h) == h[1].id # h[2].id

\* CValue::compareValue on last() and at(1): the contained values differ.  changed(),
\* which valueChanged() asks first, also compares the timestamps and so is TRUE
\* whenever this is.
Differs(h) == h[1].value # h[2].value

\* Mutant: the only value of a history is not taken for a change.
ChangedNeedsTwo(h) == Len(h) > 1 /\ Differs(h)

\* CStorage::valueChanged when nothing interferes between its reads.
ValueChanged(h) == Len(h) = 1 \/ (Len(h) > 1 /\ Differs(h))

=============================================================================
