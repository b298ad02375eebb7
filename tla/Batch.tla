-------------------------------- MODULE Batch -------------------------------
(***************************************************************************)
(* engine.reconcile as an operator: what one call returns for two sets of  *)
(* records.  The stream calls the engine at every evaluation, so its model *)
(* uses this form; the run of MCEngine checks it against the loops.        *)
(***************************************************************************)
EXTENDS Resolution, SequencesExt

(* sorted(candidates, key=_candidate_order) *)
SortedCandidates(C) ==
  [i \in 1 .. Cardinality(C) |->
     CHOOSE c \in C : Cardinality({d \in C : candidate_order(d, c)}) = i - 1]

TakenLeft(M) == {m.left : m \in M}
TakenRight(M) == UNION {m.rights : m \in M}

Take(M, c) ==
  IF c.left \in TakenLeft(M) \/ c.rights \cap TakenRight(M) # {} THEN M ELSE M \cup {c}

(* Mutant: M3 enumerated past the bound. *)
WithRuleUnbounded(M, L, R, k) ==
  FoldLeft(Take, M,
    SortedCandidates(GENERATORS(k, L \ TakenLeft(M), R \ TakenRight(M))))

(* The matches M of the earlier rules, extended by one more rule. *)
WithRule(M, L, R, k) ==
  IF k = M3_AGGREGATE /\ Oversized(R) THEN M
  ELSE FoldLeft(Take, M,
         SortedCandidates(GENERATORS(k, L \ TakenLeft(M), R \ TakenRight(M))))

reconcile_block(L, R) ==
  LET M == FoldLeft(LAMBDA m, k : WithRule(m, L, R, k), {},
                    <<M0_REFERENCE, M1_EXACT, M2_TOLERANT, M3_AGGREGATE>>)
  IN  [matches |-> M,
       rejects |-> UNION {audit_unmatched(l, R, TakenRight(M)) : l \in L \ TakenLeft(M)}]

reconcile(L, R) ==
  LET results == {reconcile_block(InBlock(L, b), InBlock(R, b)) :
                    b \in {blocking_key(r) : r \in L \cup R}}
  IN  [matches |-> UNION {x.matches : x \in results},
       rejects |-> UNION {x.rejects : x \in results}]
=============================================================================
