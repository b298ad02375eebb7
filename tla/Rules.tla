-------------------------------- MODULE Rules -------------------------------
(***************************************************************************)
(* Candidate generation, rule by rule (rules.py).  A rule proposes the set *)
(* of its candidate matches between the records still available on each    *)
(* side; it consumes nothing.                                              *)
(*                                                                         *)
(* Scores are integers in units of 10^-6, the quantum of the code.         *)
(***************************************************************************)
EXTENDS Domain, Sequences, FiniteSetsExt

CONSTANTS AmountAbs,          \* Tolerance.amount_abs, in cents
          AmountRel,          \* Tolerance.amount_rel, in percent
          MaxAggregateSize,   \* Tolerance.max_aggregate_size
          MaxBlockCandidates  \* Tolerance.max_block_candidates

ASSUME ToleranceAssumption ==
  /\ AmountAbs \in Nat
  /\ AmountRel \in Nat
  /\ MaxAggregateSize \in Nat
  /\ MaxBlockCandidates \in Nat

M0_REFERENCE == 0
M1_EXACT == 1
M2_TOLERANT == 2
M3_AGGREGATE == 3
RuleIds == M0_REFERENCE .. M3_AGGREGATE

BaseScore(rule) == CASE rule = M0_REFERENCE -> 1000000
                     [] rule = M1_EXACT     -> 900000
                     [] rule = M2_TOLERANT  -> 800000
                     [] rule = M3_AGGREGATE -> 600000

AmountPenalty == 50000
DatePenalty == 50000
SizePenalty == 10000

(* The limit on the residual of a left record, times 100. *)
amount_tolerance(left) == 100 * AmountAbs + Abs(left.amount) * AmountRel

WithinTolerance(left, residual) == 100 * Abs(residual) <= amount_tolerance(left)

(* n / d to the nearest integer, a tie to the even one. *)
RoundHalfEven(n, d) ==
  LET q == n \div d
      twice == 2 * (n % d)
  IN  IF twice < d \/ (twice = d /\ q % 2 = 0) THEN q ELSE q + 1

(* A part of a penalty: full * value / bound, none when the bound is zero. *)
Part(full, value, bound) ==
  IF bound > 0 THEN [num |-> full * value, den |-> bound] ELSE [num |-> 0, den |-> 1]

(* Base and size penalty are even integers, so rounding the two fractional *)
(* penalties rounds the score.                                             *)
score(rule, residual, limit, gap, size) ==
  LET a == Part(AmountPenalty, 100 * Abs(residual), limit)
      d == Part(DatePenalty, gap, DateDays)
  IN  BaseScore(rule) - SizePenalty * (size - 1)
        - RoundHalfEven(a.num * d.den + d.num * a.den, a.den * d.den)

Candidate(left, rights, rule, points) ==
  [left |-> left, rights |-> rights, rule |-> rule, score |-> points]

(* The same reference: the amount and the dates play no part. *)
m0_reference(L, R) ==
  {Candidate(p[1], {p[2]}, M0_REFERENCE, BaseScore(M0_REFERENCE)) :
     p \in {p \in L \X R : SameReference(p[1], p[2])}}

(* Mutant: M1 without the date window. *)
m1_exact_anydate(L, R) ==
  {Candidate(p[1], {p[2]}, M1_EXACT, score(M1_EXACT, 0, 0, date_gap(p[1], p[2]), 1)) :
     p \in {p \in L \X R : p[1].amount = p[2].amount}}

m1_exact(L, R) ==
  {Candidate(p[1], {p[2]}, M1_EXACT, score(M1_EXACT, 0, 0, date_gap(p[1], p[2]), 1)) :
     p \in {p \in L \X R : p[1].amount = p[2].amount /\ Near(p[1], p[2])}}

(* Mutant: M2 stops short of the tolerance itself. *)
m2_tolerant_strict(L, R) ==
  {LET residual == p[1].amount - p[2].amount
   IN  Candidate(p[1], {p[2]}, M2_TOLERANT,
         score(M2_TOLERANT, residual, amount_tolerance(p[1]), date_gap(p[1], p[2]), 1)) :
     p \in {p \in L \X R : /\ 100 * Abs(p[1].amount - p[2].amount) < amount_tolerance(p[1])
                           /\ Near(p[1], p[2])}}

m2_tolerant(L, R) ==
  {LET residual == p[1].amount - p[2].amount
   IN  Candidate(p[1], {p[2]}, M2_TOLERANT,
         score(M2_TOLERANT, residual, amount_tolerance(p[1]), date_gap(p[1], p[2]), 1)) :
     p \in {p \in L \X R : /\ WithinTolerance(p[1], p[1].amount - p[2].amount)
                           /\ Near(p[1], p[2])}}

Residual(left, combo) == left.amount - MapThenSumSet(LAMBDA r : r.amount, combo)

(* Every group of two to MaxAggregateSize rights in one left's window whose *)
(* amounts add up, within the tolerance.                                    *)
m3_aggregate(L, R) ==
  {LET left == p[1]
       combo == p[2]
   IN  Candidate(left, combo, M3_AGGREGATE,
         score(M3_AGGREGATE, Residual(left, combo), amount_tolerance(left),
               Max({date_gap(left, r) : r \in combo}), Cardinality(combo))) :
     p \in {p \in L \X SUBSET R :
              /\ Cardinality(p[2]) \in 2 .. MaxAggregateSize
              /\ \A r \in p[2] : Near(p[1], r)
              /\ WithinTolerance(p[1], Residual(p[1], p[2]))}}

GENERATORS(rule, L, R) == CASE rule = M0_REFERENCE -> m0_reference(L, R)
                            [] rule = M1_EXACT     -> m1_exact(L, R)
                            [] rule = M2_TOLERANT  -> m2_tolerant(L, R)
                            [] rule = M3_AGGREGATE -> m3_aggregate(L, R)
=============================================================================
