------------------------------- MODULE Domain -------------------------------
(***************************************************************************)
(* Normalised records, as models.Record, and the two relations the engine  *)
(* and the stream build on: the date window and the shared reference.      *)
(*                                                                         *)
(* A record is a TLA+ record.  Its id is a number, so that identifiers are *)
(* ordered as the code's sorts need; amounts and dates are integers        *)
(* (cents, days).  The marker "None" stands for a missing reference or     *)
(* currency.                                                               *)
(***************************************************************************)
EXTENDS Integers, FiniteSets

CONSTANTS Records,   \* every record a source may deliver in this instance
          DateDays   \* Tolerance.date_days, the date window

None == "None"
NO_CANDIDATE == "NO_CANDIDATE"
LEFT == "left"
RIGHT == "right"
SIDES == {LEFT, RIGHT}
OtherSide(side) == IF side = LEFT THEN RIGHT ELSE LEFT

ASSUME RecordsAssumption ==
  \A r \in Records : /\ r.side \in SIDES
                     /\ r.id \in Nat
                     /\ r.amount \in Int
                     /\ r.value_date \in Nat

ASSUME DateDaysAssumption == DateDays \in Nat

Lefts == {r \in Records : r.side = LEFT}
Rights == {r \in Records : r.side = RIGHT}

(* The identity of a record across deliveries: (side, record id). *)
BusinessKey(r) == <<r.side, r.id>>

(* No FX matching: a record without a currency stays in a block of its own. *)
blocking_key(r) ==
  IF r.currency = None THEN <<r.account>> ELSE <<r.account, r.currency>>

Blocks == {blocking_key(r) : r \in Records}

Abs(n) == IF n < 0 THEN -n ELSE n

date_gap(a, b) == Abs(a.value_date - b.value_date)

Near(a, b) == date_gap(a, b) <= DateDays

SameReference(a, b) == a.reference # None /\ a.reference = b.reference

(* A record of each side that a rule may bring together. *)
Linked(a, b) == /\ a.side # b.side
                /\ blocking_key(a) = blocking_key(b)
                /\ Near(a, b) \/ SameReference(a, b)
=============================================================================
