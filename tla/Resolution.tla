----------------------------- MODULE Resolution -----------------------------
(***************************************************************************)
(* The pure parts of engine.py: the total order over candidates, the bound *)
(* on a block, and the justification of an unmatched record.               *)
(***************************************************************************)
EXTENDS Rules

DATE_OUT_OF_WINDOW == "DATE_OUT_OF_WINDOW"
AMOUNT_OUT_OF_TOLERANCE == "AMOUNT_OUT_OF_TOLERANCE"
LOST_TO_BETTER_CANDIDATE == "LOST_TO_BETTER_CANDIDATE"
AGGREGATE_NOT_FOUND == "AGGREGATE_NOT_FOUND"
BLOCK_TOO_LARGE == "BLOCK_TOO_LARGE"

RejectReasons == {NO_CANDIDATE, DATE_OUT_OF_WINDOW, AMOUNT_OUT_OF_TOLERANCE,
                  LOST_TO_BETTER_CANDIDATE, AGGREGATE_NOT_FOUND, BLOCK_TOO_LARGE}

(* The tuples of sorted right ids, compared as Python compares tuples: up  *)
(* to the smallest id in which two sets differ the tuples agree; the one   *)
(* that has it is the smaller, unless the other has ended there.           *)
IdsBefore(S, T) ==
  LET ids(U) == {r.id : r \in U}
      differ == (ids(S) \ ids(T)) \cup (ids(T) \ ids(S))
      goesOn(U, n) == \E m \in ids(U) : n < m
  IN  \E n \in differ :
        /\ \A m \in differ : n <= m
        /\ IF n \in ids(S) THEN goesOn(T, n) ELSE ~ goesOn(S, n)

(* Mutant: equal scores are not separated by the right identifiers. *)
score_order(c, d) ==
  \/ c.score > d.score
  \/ c.score = d.score /\ c.left.id < d.left.id

(* The engine's order: descending score, then identifiers. *)
candidate_order(c, d) ==
  \/ c.score > d.score
  \/ c.score = d.score /\ c.left.id < d.left.id
  \/ c.score = d.score /\ c.left.id = d.left.id /\ IdsBefore(c.rights, d.rights)

InBlock(S, b) == {r \in S : blocking_key(r) = b}

(* Past the bound M3 is not enumerated. *)
Oversized(R) == Cardinality(R) > MaxBlockCandidates

(* Why r was not matched to l; the last case is the code's None. *)
pair_reject_reason(l, r, taken) ==
  CASE taken -> LOST_TO_BETTER_CANDIDATE
    [] ~ taken /\ ~ Near(l, r) -> DATE_OUT_OF_WINDOW
    [] ~ taken /\ Near(l, r) /\ ~ WithinTolerance(l, l.amount - r.amount)
         -> AMOUNT_OUT_OF_TOLERANCE
    [] OTHER -> None

(* The code's right_id, or None, is the set of that record, or {}. *)
Reject(l, r, reason) == [left |-> l, right |-> r, reason |-> reason]

(* The justification of one unmatched left record among its block's rights. *)
audit_unmatched(l, R, takenR) ==
  IF R = {} THEN {Reject(l, {}, NO_CANDIDATE)}
  ELSE IF Oversized(R) THEN {Reject(l, {}, BLOCK_TOO_LARGE)}
  ELSE {j \in {Reject(l, {r}, pair_reject_reason(l, r, r \in takenR)) : r \in R} :
          j.reason # None}
       \cup {Reject(l, {}, AGGREGATE_NOT_FOUND) :
               x \in {x \in {1} :
                 /\ MaxAggregateSize >= 2
                 /\ Cardinality({r \in R \ takenR : Near(l, r)}) >= 2}}
=============================================================================
