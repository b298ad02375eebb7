------------------------------ MODULE MCEngine ------------------------------
(***************************************************************************)
(* Every call of reconcile on a subset of a small catalogue.  The amounts  *)
(* and dates make each rule fire, candidates contend across rules, scores  *)
(* tie, and a group of rights add up to one left.                          *)
(***************************************************************************)
EXTENDS Engine, Batch

Rec(side, id, account, amount, day, ref) ==
  [side |-> side, id |-> id, account |-> account, currency |-> None,
   amount |-> amount, value_date |-> day, reference |-> ref]

MCRecords == {
  Rec(LEFT, 1, "A", 20, 2, None),  Rec(LEFT, 2, "A", 21, 1, "TX"),
  Rec(LEFT, 3, "A", 20, 3, None),  Rec(LEFT, 4, "B", 20, 2, "TX"),
  Rec(RIGHT, 1, "A", 20, 2, None), Rec(RIGHT, 2, "A", 20, 2, None),
  Rec(RIGHT, 3, "A", 12, 1, None), Rec(RIGHT, 4, "A", 8, 2, None),
  Rec(RIGHT, 5, "A", 1, 3, "TX"),  Rec(RIGHT, 6, "B", 20, 2, None),
  Rec(RIGHT, 7, "A", 21, 4, None)}

(* Python's < on tuples. *)
TupleBefore(s, t) ==
  \E k \in 1 .. Len(t) :
    /\ \A j \in 1 .. k - 1 : j <= Len(s) /\ s[j] = t[j]
    /\ k > Len(s) \/ s[k] < t[k]

(* IdsBefore is that order on the sorted identifiers, for sets of up to     *)
(* five records, more than an aggregate of this instance has.              *)
ASSUME IdsBeforeIsTupleOrder ==
  \A S, T \in SUBSET (1 .. 5) :
    IdsBefore({[id |-> n] : n \in S}, {[id |-> n] : n \in T})
      <=> TupleBefore(SetToSortSeq(S, <), SetToSortSeq(T, <))

(* The operator and the loops of one call return the same matches and the *)
(* same rejects.                                                          *)
BatchAgrees ==
  Returned => /\ matches = reconcile(left, right).matches
              /\ rejects = reconcile(left, right).rejects
=============================================================================
