------------------------------- MODULE Engine -------------------------------
(***************************************************************************)
(* engine.reconcile: blocking, the rules in order, greedy resolution and   *)
(* the audit of what stays unmatched (engine.py).                          *)
(*                                                                         *)
(* The call is a run of this state machine: Init chooses the two input     *)
(* collections, StartBlock takes the next block, and the two nested loops  *)
(* of _reconcile_block advance one step at a time (stage is the program    *)
(* counter).  Inputs are sets: one record per (side, id), which is what    *)
(* the stream and the store hand over.                                     *)
(***************************************************************************)
EXTENDS Resolution

VARIABLES left, right,      \* the two input collections
          todo,             \* blocks not yet reconciled
          block,            \* the block in hand
          stage,            \* "block", "rule", "resolve", "audit"
          rule,             \* the rule the outer loop has reached
          candidates,       \* its candidates not yet examined
          taken_left, taken_right,
          matches, rejects

vars == <<left, right, todo, block, stage, rule, candidates,
          taken_left, taken_right, matches, rejects>>

NoBlock == <<>>

BlockLefts == InBlock(left, block)
BlockRights == InBlock(right, block)

Init == /\ left \in SUBSET Lefts
        /\ right \in SUBSET Rights
        /\ todo = {blocking_key(r) : r \in left \cup right}
        /\ block = NoBlock
        /\ stage = "block"
        /\ rule = M0_REFERENCE
        /\ candidates = {}
        /\ taken_left = {}
        /\ taken_right = {}
        /\ matches = {}
        /\ rejects = {}

(* Blocks share nothing, so the order of the sort by key is left open. *)
StartBlock(b) == /\ stage = "block"
                 /\ b \in todo
                 /\ todo' = todo \ {b}
                 /\ block' = b
                 /\ stage' = "rule"
                 /\ rule' = M0_REFERENCE
                 /\ taken_left' = {}
                 /\ taken_right' = {}
                 /\ UNCHANGED <<left, right, candidates, matches, rejects>>

AvailableLeft == BlockLefts \ taken_left
AvailableRight == BlockRights \ taken_right

SkipRule == rule = M3_AGGREGATE /\ Oversized(BlockRights)

(* One turn of the loop over RuleId: skip, break, or generate candidates. *)
ApplyRule == /\ stage = "rule"
             /\ rule \in RuleIds
             /\ ~ SkipRule
             /\ AvailableLeft # {} /\ AvailableRight # {}
             /\ candidates' = GENERATORS(rule, AvailableLeft, AvailableRight)
             /\ stage' = "resolve"
             /\ UNCHANGED <<left, right, todo, block, rule, taken_left, taken_right,
                            matches, rejects>>

EndRules == /\ stage = "rule"
            /\ \/ rule \notin RuleIds
               \/ SkipRule
               \/ AvailableLeft = {} \/ AvailableRight = {}
            /\ stage' = "audit"
            /\ UNCHANGED <<left, right, todo, block, rule, candidates, taken_left,
                           taken_right, matches, rejects>>

(* Mutant: candidates in the order of iteration. *)
IsAny(c) == c \in candidates

IsFirst(c) == c \in candidates /\ \A d \in candidates \ {c} : candidate_order(c, d)

Free(c) == c.left \notin taken_left /\ c.rights \cap taken_right = {}

(* The inner loop takes the first candidate and keeps it if still free. *)
Resolve(c) == /\ stage = "resolve"
              /\ IsFirst(c)
              /\ candidates' = candidates \ {c}
              /\ IF Free(c)
                 THEN /\ taken_left' = taken_left \cup {c.left}
                      /\ taken_right' = taken_right \cup c.rights
                      /\ matches' = matches \cup {c}
                 ELSE UNCHANGED <<taken_left, taken_right, matches>>
              /\ UNCHANGED <<left, right, todo, block, stage, rule, rejects>>

NextRule == /\ stage = "resolve"
            /\ candidates = {}
            /\ rule' = rule + 1
            /\ stage' = "rule"
            /\ UNCHANGED <<left, right, todo, block, candidates, taken_left,
                           taken_right, matches, rejects>>

Audit == /\ stage = "audit"
         /\ rejects' = rejects \cup
              UNION {audit_unmatched(l, BlockRights, taken_right) : l \in AvailableLeft}
         /\ stage' = "block"
         /\ UNCHANGED <<left, right, todo, block, rule, candidates, taken_left,
                        taken_right, matches>>

Next == \/ \E b \in todo : StartBlock(b)
        \/ ApplyRule
        \/ EndRules
        \/ \E c \in candidates : Resolve(c)
        \/ NextRule
        \/ Audit

Spec == Init /\ [][Next]_vars /\ WF_vars(Next)

Returned == stage = "block" /\ todo = {}

-----------------------------------------------------------------------------
(* Properties *)

(* Across the rules and the blocks of one call no record is given away    *)
(* twice; a match never leaves its block, and each of its pairs shares a  *)
(* reference or lies in the date window: the links that the stream closes *)
(* its components over are all the links the engine can use.              *)
MatchesAreSound ==
  /\ \A m, n \in matches : m # n => m.left # n.left /\ m.rights \cap n.rights = {}
  /\ \A m \in matches :
       /\ m.left \in left /\ m.rights \subseteq right /\ m.rights # {}
       /\ \A r \in m.rights : Linked(m.left, r)

Audited(l) == blocking_key(l) \notin todo /\ \A m \in matches : m.left # l

(* "A rejected pair always carries exactly one reason": when the call     *)
(* returns, every pair of an unmatched left record and a right record of  *)
(* its block has one reject, unless the block is reported as too large.   *)
(* It rests on M2 leaving no free pair inside both bounds.                *)
EveryPairHasOneReason ==
  Returned =>
    \A l \in left : Audited(l) =>
      LET R == InBlock(right, blocking_key(l))
          of(r) == {j \in rejects : j.left = l /\ j.right = r}
      IN  IF R = {} \/ Oversized(R) THEN of({}) # {}
          ELSE \A r \in R : Cardinality(of({r})) = 1

Conflict(c, d) == c.left = d.left \/ c.rights \cap d.rights # {}

Precedes(c, d) == c.rule < d.rule \/ (c.rule = d.rule /\ candidate_order(c, d))

AllCandidates(L, R) ==
  UNION {GENERATORS(k, L, R) :
           k \in {k \in RuleIds : k # M3_AGGREGATE \/ ~ Oversized(R)}}

(* The greedy result in one line, without its loops: a candidate built    *)
(* from the whole block is a match exactly when no other match that comes *)
(* before it, by rule and then candidate order, contends for one of its   *)
(* records.  So the result is a function of the records alone.            *)
ResultIsStable ==
  Returned =>
    \A b \in Blocks :
      \A c \in AllCandidates(InBlock(left, b), InBlock(right, b)) :
        c \in matches <=> ~ \E m \in matches \ {c} : Conflict(m, c) /\ Precedes(m, c)

(* The loops end: in particular the candidate order always has a first    *)
(* element to examine.                                                    *)
CallReturns == <>Returned
=============================================================================
