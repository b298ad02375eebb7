------------------------------ MODULE MCStream ------------------------------
(***************************************************************************)
(* The stream over the engine, on small catalogues of records.             *)
(***************************************************************************)
EXTENDS Stream, Batch

CONSTANT Table   \* the calls of the engine, tabulated

Rec(side, id, account, amount, day, ref) ==
  [side |-> side, id |-> id, account |-> account, currency |-> None,
   amount |-> amount, value_date |-> day, reference |-> ref]

(* The stream keeps the name of a match's rule. *)
RuleName == [k \in RuleIds |->
  CASE k = M0_REFERENCE -> "M0_REFERENCE" [] k = M1_EXACT -> "M1_EXACT"
    [] k = M2_TOLERANT -> "M2_TOLERANT"   [] k = M3_AGGREGATE -> "M3_AGGREGATE"]

(* The calls of the engine, tabulated once (@@ makes TLC evaluate it). *)
EngineTable ==
  LET call(L, R) ==
        LET result == reconcile(L, R)
        IN  [matches |-> {[left |-> m.left, rights |-> m.rights, rule |-> RuleName[m.rule]] :
                            m \in result.matches},
             rejects |-> result.rejects]
  IN  [p \in (SUBSET Lefts) \X (SUBSET Rights) |-> call(p[1], p[2])] @@ << >>

(* Table, evaluated once. *)
EngineCalls == Table

MCReconcile(L, R) == EngineCalls[<<L, R>>]

(* A chain L2 - R1 - L1 - R2 - L3 of neighbours in time, along which the  *)
(* arrival of one end changes the match of the other: R2 is nearer in     *)
(* amount to L1 than R1 is, and is L3's only counterpart.                 *)
ChainRecords == {
  Rec(LEFT, 2, "A", 104, 1, None), Rec(RIGHT, 1, "A", 102, 2, None),
  Rec(LEFT, 3, "A", 100, 3, None), Rec(RIGHT, 2, "A", 100, 4, None),
  Rec(LEFT, 1, "A", 100, 5, None)}

(* Block A is a shorter chain, L1 - R1 - L2 - R2.  Block B has references *)
(* within and beyond their horizon.  One key has two contents (left 1).   *)
BlockRecords == {
  Rec(LEFT, 1, "A", 104, 1, None), Rec(RIGHT, 1, "A", 102, 2, None),
  Rec(LEFT, 2, "A", 101, 3, None), Rec(RIGHT, 2, "A", 101, 4, None),
  Rec(RIGHT, 3, "B", 100, 1, "TX"), Rec(LEFT, 3, "B", 100, 4, "TX"),
  Rec(LEFT, 1, "B", 100, 5, "TX")}
=============================================================================
