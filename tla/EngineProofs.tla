---------------------------- MODULE EngineProofs ----------------------------
(***************************************************************************)
(* Proofs about Engine, for every catalogue of records and every           *)
(* tolerance: the matches of a call are disjoint and inside the links that *)
(* the stream closes over, every pair that stays unmatched has one reason, *)
(* and the result does not depend on the loops.                            *)
(***************************************************************************)
EXTENDS Engine, FiniteSetTheorems, TLAPS

(* A match between records that a rule may bring together. *)
Brings(c, L, R) ==
  /\ c.left \in L /\ c.rights \subseteq R /\ c.rights # {}
  /\ \A r \in c.rights : Near(c.left, r) \/ SameReference(c.left, r)

LEMMA GeneratorCases ==
  ASSUME NEW L, NEW R
  PROVE  /\ GENERATORS(M0_REFERENCE, L, R) = m0_reference(L, R)
         /\ GENERATORS(M1_EXACT, L, R) = m1_exact(L, R)
         /\ GENERATORS(M2_TOLERANT, L, R) = m2_tolerant(L, R)
         /\ GENERATORS(M3_AGGREGATE, L, R) = m3_aggregate(L, R)
BY DEF GENERATORS, M0_REFERENCE, M1_EXACT, M2_TOLERANT, M3_AGGREGATE

LEMMA GeneratorFacts ==
  ASSUME NEW k \in RuleIds, NEW L, NEW R, NEW c \in GENERATORS(k, L, R)
  PROVE  Brings(c, L, R) /\ c.rule = k
<1>1. CASE k = M0_REFERENCE
  <2>0. c \in m0_reference(L, R)
    BY <1>1, GeneratorCases
  <2>1. PICK p \in L \X R : /\ SameReference(p[1], p[2])
                            /\ c = Candidate(p[1], {p[2]}, M0_REFERENCE, BaseScore(M0_REFERENCE))
    BY <2>0 DEF m0_reference
  <2>2. c.left = p[1] /\ c.rights = {p[2]} /\ c.rule = k
    BY <1>1, <2>1 DEF Candidate
  <2> QED
    BY <2>1, <2>2 DEF Brings
<1>2. CASE k = M1_EXACT
  <2>0. c \in m1_exact(L, R)
    BY <1>2, GeneratorCases
  <2>1. PICK p \in L \X R : /\ Near(p[1], p[2])
                            /\ c = Candidate(p[1], {p[2]}, M1_EXACT, score(M1_EXACT, 0, 0, date_gap(p[1], p[2]), 1))
    BY <2>0 DEF m1_exact
  <2>2. c.left = p[1] /\ c.rights = {p[2]} /\ c.rule = k
    BY <1>2, <2>1 DEF Candidate
  <2> QED
    BY <2>1, <2>2 DEF Brings
<1>3. CASE k = M2_TOLERANT
  <2>0. c \in m2_tolerant(L, R)
    BY <1>3, GeneratorCases
  <2>1. PICK p \in L \X R : /\ Near(p[1], p[2])
                            /\ c = Candidate(p[1], {p[2]}, M2_TOLERANT,
                                     score(M2_TOLERANT, p[1].amount - p[2].amount, amount_tolerance(p[1]),
                                           date_gap(p[1], p[2]), 1))
    BY <2>0 DEF m2_tolerant
  <2>2. c.left = p[1] /\ c.rights = {p[2]} /\ c.rule = k
    BY <1>3, <2>1 DEF Candidate
  <2> QED
    BY <2>1, <2>2 DEF Brings
<1>4. CASE k = M3_AGGREGATE
  <2>0. c \in m3_aggregate(L, R)
    BY <1>4, GeneratorCases
  <2>1. PICK p \in L \X SUBSET R :
          /\ Cardinality(p[2]) \in 2 .. MaxAggregateSize
          /\ \A r \in p[2] : Near(p[1], r)
          /\ c = Candidate(p[1], p[2], M3_AGGREGATE,
                   score(M3_AGGREGATE, Residual(p[1], p[2]), amount_tolerance(p[1]),
                         Max({date_gap(p[1], r) : r \in p[2]}), Cardinality(p[2])))
    BY <2>0 DEF m3_aggregate
  <2>2. c.left = p[1] /\ c.rights = p[2] /\ c.rule = k
    BY <1>4, <2>1 DEF Candidate
  <2>3. p[2] # {}
    BY <2>1, FS_EmptySet, ToleranceAssumption
  <2> QED
    BY <2>1, <2>2, <2>3 DEF Brings
<1> QED
  BY <1>1, <1>2, <1>3, <1>4 DEF RuleIds, M0_REFERENCE, M1_EXACT, M2_TOLERANT, M3_AGGREGATE

(* A candidate does not depend on the records it leaves aside. *)
LEMMA GeneratorRestricts ==
  ASSUME NEW k \in RuleIds, NEW L, NEW R, NEW c \in GENERATORS(k, L, R),
         NEW L1, NEW R1, c.left \in L1, c.rights \subseteq R1
  PROVE  c \in GENERATORS(k, L1, R1)
<1>1. CASE k = M0_REFERENCE
  <2>0. c \in m0_reference(L, R)
    BY <1>1, GeneratorCases
  <2>1. PICK p \in L \X R : /\ SameReference(p[1], p[2])
                            /\ c = Candidate(p[1], {p[2]}, M0_REFERENCE, BaseScore(M0_REFERENCE))
    BY <2>0 DEF m0_reference
  <2>2. p \in L1 \X R1
    BY <2>1 DEF Candidate
  <2>3. c \in m0_reference(L1, R1)
    BY <2>1, <2>2 DEF m0_reference
  <2> QED
    BY <1>1, <2>3, GeneratorCases
<1>2. CASE k = M1_EXACT
  <2>0. c \in m1_exact(L, R)
    BY <1>2, GeneratorCases
  <2>1. PICK p \in L \X R : /\ p[1].amount = p[2].amount /\ Near(p[1], p[2])
                            /\ c = Candidate(p[1], {p[2]}, M1_EXACT, score(M1_EXACT, 0, 0, date_gap(p[1], p[2]), 1))
    BY <2>0 DEF m1_exact
  <2>2. p \in L1 \X R1
    BY <2>1 DEF Candidate
  <2>3. c \in m1_exact(L1, R1)
    BY <2>1, <2>2 DEF m1_exact
  <2> QED
    BY <1>2, <2>3, GeneratorCases
<1>3. CASE k = M2_TOLERANT
  <2>0. c \in m2_tolerant(L, R)
    BY <1>3, GeneratorCases
  <2>1. PICK p \in L \X R : /\ WithinTolerance(p[1], p[1].amount - p[2].amount) /\ Near(p[1], p[2])
                            /\ c = Candidate(p[1], {p[2]}, M2_TOLERANT,
                                     score(M2_TOLERANT, p[1].amount - p[2].amount, amount_tolerance(p[1]),
                                           date_gap(p[1], p[2]), 1))
    BY <2>0 DEF m2_tolerant
  <2>2. p \in L1 \X R1
    BY <2>1 DEF Candidate
  <2>3. c \in m2_tolerant(L1, R1)
    BY <2>1, <2>2 DEF m2_tolerant
  <2> QED
    BY <1>3, <2>3, GeneratorCases
<1>4. CASE k = M3_AGGREGATE
  <2>0. c \in m3_aggregate(L, R)
    BY <1>4, GeneratorCases
  <2>1. PICK p \in L \X SUBSET R :
          /\ Cardinality(p[2]) \in 2 .. MaxAggregateSize
          /\ \A r \in p[2] : Near(p[1], r)
          /\ WithinTolerance(p[1], Residual(p[1], p[2]))
          /\ c = Candidate(p[1], p[2], M3_AGGREGATE,
                   score(M3_AGGREGATE, Residual(p[1], p[2]), amount_tolerance(p[1]),
                         Max({date_gap(p[1], r) : r \in p[2]}), Cardinality(p[2])))
    BY <2>0 DEF m3_aggregate
  <2>2. p \in L1 \X SUBSET R1
    BY <2>1 DEF Candidate
  <2>3. c \in m3_aggregate(L1, R1)
    BY <2>1, <2>2 DEF m3_aggregate
  <2> QED
    BY <1>4, <2>3, GeneratorCases
<1> QED
  BY <1>1, <1>2, <1>3, <1>4 DEF RuleIds, M0_REFERENCE, M1_EXACT, M2_TOLERANT, M3_AGGREGATE

(* M2 proposes every pair within both bounds. *)
IsPair(c, l, r) == c.left = l /\ c.rights = {r}
Tolerable(l, r) == Near(l, r) /\ WithinTolerance(l, l.amount - r.amount)

LEMMA TolerantPairs ==
  ASSUME NEW L, NEW R, NEW l \in L, NEW r \in R,
         Tolerable(l, r)
  PROVE  \E c \in GENERATORS(M2_TOLERANT, L, R) : IsPair(c, l, r)
<1> DEFINE c == Candidate(l, {r}, M2_TOLERANT,
                  score(M2_TOLERANT, l.amount - r.amount, amount_tolerance(l), date_gap(l, r), 1))
           p == <<l, r>>
<1>1. p \in L \X R /\ p[1] = l /\ p[2] = r
  OBVIOUS
<1>2. c \in m2_tolerant(L, R)
  BY <1>1 DEF m2_tolerant, Tolerable
<1>3. c \in GENERATORS(M2_TOLERANT, L, R)
  BY <1>2, GeneratorCases
<1>4. IsPair(c, l, r)
  BY DEF Candidate, IsPair
<1> QED
  BY <1>3, <1>4
-----------------------------------------------------------------------------
(* The inductive invariant *)

KeyOf(c) == blocking_key(c.left)

(* The block in hand is neither to do nor done. *)
InHand(b) == stage # "block" /\ b = block

EngineType ==
  /\ left \subseteq Lefts /\ right \subseteq Rights
  /\ stage \in {"block", "rule", "resolve", "audit"}
  /\ stage # "block" => block \notin todo
  /\ stage # "resolve" => candidates = {}
  /\ rule \in 0 .. 4
  /\ stage = "resolve" => rule \in RuleIds

(* Candidates and matches are what their rules propose for the block. *)
Proposed(c, k, b) == c \in GENERATORS(k, InBlock(left, b), InBlock(right, b))

CandidatesAreProposed == \A c \in candidates : Proposed(c, rule, block)

MatchesAreProposed ==
  \A m \in matches : m.rule \in RuleIds /\ Proposed(m, m.rule, KeyOf(m)) /\ KeyOf(m) \notin todo

(* What is taken is what the matches of the block in hand hold. *)
TakenIsMatched ==
  /\ \A m \in matches : InHand(KeyOf(m)) => m.left \in taken_left /\ m.rights \subseteq taken_right
  /\ \A l \in taken_left : \E m \in matches : m.left = l /\ KeyOf(m) = block
  /\ \A r \in taken_right : \E m \in matches : r \in m.rights /\ KeyOf(m) = block

MatchesAreDisjoint ==
  \A m, n \in matches : m # n => m.left # n.left /\ m.rights \cap n.rights = {}

(* The matches of the block in hand come from the rules so far, and those  *)
(* of this rule come before the candidates that are left.                  *)
RulesInOrder ==
  \A m \in matches : InHand(KeyOf(m)) =>
    /\ m.rule <= rule
    /\ stage = "rule" => m.rule < rule
    /\ m.rule = rule => \A c \in candidates : candidate_order(m, c)

(* Past M2 no free pair is within both bounds. *)
TolerantIsExhausted ==
  stage # "block" =>
    \A l \in AvailableLeft, r \in AvailableRight : Tolerable(l, r) =>
      \/ stage = "rule" /\ rule <= M2_TOLERANT
      \/ stage = "resolve" /\ rule < M2_TOLERANT
      \/ stage = "resolve" /\ rule = M2_TOLERANT /\ \E c \in candidates : IsPair(c, l, r)

(* Rejects belong to blocks that are done, whose pairs all have one. *)
RejectsAreAudited ==
  \A j \in rejects : j.left \in left /\ blocking_key(j.left) \notin todo /\ ~ InHand(blocking_key(j.left))

HasReasons(l) ==
  LET R == InBlock(right, blocking_key(l))
      of(r) == {j \in rejects : j.left = l /\ j.right = r}
  IN  IF R = {} \/ Oversized(R) THEN of({}) # {}
      ELSE \A r \in R : Cardinality(of({r})) = 1

PairsHaveReasons ==
  \A l \in left : Audited(l) /\ ~ InHand(blocking_key(l)) => HasReasons(l)

(* A candidate that has had its turn is a match or lost to one before it. *)
HadItsTurn(c) == c \in matches \/ \E m \in matches \ {c} : Conflict(m, c) /\ Precedes(m, c)

TurnsAreTaken ==
  \A b \in Blocks \ todo : \A c \in AllCandidates(InBlock(left, b), InBlock(right, b)) :
    \/ HadItsTurn(c)
    \/ b = block /\ stage = "rule" /\ c.rule >= rule
    \/ b = block /\ stage = "resolve" /\ (c.rule > rule \/ c \in candidates)

EngineInv ==
  /\ EngineType /\ CandidatesAreProposed /\ MatchesAreProposed /\ TakenIsMatched
  /\ MatchesAreDisjoint /\ RulesInOrder /\ TolerantIsExhausted
  /\ RejectsAreAudited /\ PairsHaveReasons /\ TurnsAreTaken
-----------------------------------------------------------------------------
(* Facts about the audit and about blocks *)

LEMMA AuditIsOf ==
  ASSUME NEW l, NEW R, NEW T, NEW j \in audit_unmatched(l, R, T)
  PROVE  j.left = l
<1>1. CASE R = {}
  BY <1>1 DEF audit_unmatched, Reject
<1>2. CASE R # {} /\ Oversized(R)
  BY <1>2 DEF audit_unmatched, Reject
<1>3. CASE R # {} /\ ~ Oversized(R)
  <2>1. \/ \E r \in R : j = Reject(l, {r}, pair_reject_reason(l, r, r \in T))
        \/ j = Reject(l, {}, AGGREGATE_NOT_FOUND)
    BY <1>3 DEF audit_unmatched
  <2> QED
    BY <2>1 DEF Reject
<1> QED
  BY <1>1, <1>2, <1>3

LEMMA AuditOfNone ==
  ASSUME NEW l, NEW R, NEW T, R = {} \/ Oversized(R)
  PROVE  \E j \in audit_unmatched(l, R, T) : j.left = l /\ j.right = {}
<1>1. Reject(l, {}, NO_CANDIDATE).right = {} /\ Reject(l, {}, BLOCK_TOO_LARGE).right = {}
  BY DEF Reject
<1>2. Reject(l, {}, NO_CANDIDATE).left = l /\ Reject(l, {}, BLOCK_TOO_LARGE).left = l
  BY DEF Reject
<1>3. \/ Reject(l, {}, NO_CANDIDATE) \in audit_unmatched(l, R, T)
      \/ Reject(l, {}, BLOCK_TOO_LARGE) \in audit_unmatched(l, R, T)
  BY DEF audit_unmatched
<1> QED
  BY <1>1, <1>2, <1>3

LEMMA ReasonIsGiven ==
  ASSUME NEW l, NEW r, NEW T, r \in T \/ ~ Near(l, r) \/ ~ WithinTolerance(l, l.amount - r.amount)
  PROVE  pair_reject_reason(l, r, r \in T) # None
<1>1. CASE r \in T
  BY <1>1 DEF pair_reject_reason, None, LOST_TO_BETTER_CANDIDATE
<1>2. CASE r \notin T /\ ~ Near(l, r)
  BY <1>2 DEF pair_reject_reason, None, DATE_OUT_OF_WINDOW
<1>3. CASE r \notin T /\ Near(l, r) /\ ~ WithinTolerance(l, l.amount - r.amount)
  BY <1>3 DEF pair_reject_reason, None, AMOUNT_OUT_OF_TOLERANCE
<1> QED
  BY <1>1, <1>2, <1>3

(* The rejects that one audit gives a pair it has a reason for: exactly one. *)
LEMMA AuditOfPair ==
  ASSUME NEW l, NEW R, NEW T, NEW r \in R, ~ Oversized(R),
         r \in T \/ ~ Near(l, r) \/ ~ WithinTolerance(l, l.amount - r.amount)
  PROVE  \E j \in audit_unmatched(l, R, T) :
           /\ j.left = l /\ j.right = {r}
           /\ \A i \in audit_unmatched(l, R, T) : i.right = {r} => i = j
<1> DEFINE j == Reject(l, {r}, pair_reject_reason(l, r, r \in T))
<1>1. pair_reject_reason(l, r, r \in T) # None
  BY ReasonIsGiven
<1>2. j.left = l /\ j.right = {r} /\ j.reason = pair_reject_reason(l, r, r \in T)
  BY DEF Reject
<1>3. j \in audit_unmatched(l, R, T)
  BY <1>1, <1>2 DEF audit_unmatched
<1>4. ASSUME NEW i \in audit_unmatched(l, R, T), i.right = {r}
      PROVE  i = j
  <2>1. \/ \E q \in R : i = Reject(l, {q}, pair_reject_reason(l, q, q \in T))
        \/ i = Reject(l, {}, AGGREGATE_NOT_FOUND)
    BY <1>4 DEF audit_unmatched
  <2>2. CASE i = Reject(l, {}, AGGREGATE_NOT_FOUND)
    <3>1. i.right = {}
      BY <2>2 DEF Reject
    <3> QED
      BY <3>1, <1>4
  <2>3. ASSUME NEW q \in R, i = Reject(l, {q}, pair_reject_reason(l, q, q \in T))
        PROVE  i = j
    <3>1. i.right = {q}
      BY <2>3 DEF Reject
    <3>2. q = r
      BY <3>1, <1>4
    <3> QED
      BY <2>3, <3>2
  <2> QED
    BY <2>1, <2>2, <2>3
<1> QED
  BY <1>2, <1>3, <1>4

(* A candidate of a block holds records of that block, of both sides. *)
LEMMA ProposedFacts ==
  ASSUME NEW k \in RuleIds, NEW b, NEW c, Proposed(c, k, b)
  PROVE  /\ c.rule = k /\ KeyOf(c) = b
         /\ c.left \in InBlock(left, b) /\ c.rights \subseteq InBlock(right, b) /\ c.rights # {}
         /\ \A r \in c.rights : Near(c.left, r) \/ SameReference(c.left, r)
<1>1. Brings(c, InBlock(left, b), InBlock(right, b)) /\ c.rule = k
  BY GeneratorFacts DEF Proposed
<1> QED
  BY <1>1 DEF Brings, KeyOf, InBlock

LEMMA AllCandidatesFacts ==
  ASSUME NEW L, NEW R, NEW c \in AllCandidates(L, R)
  PROVE  /\ c.rule \in RuleIds /\ c \in GENERATORS(c.rule, L, R)
         /\ c.rule = M3_AGGREGATE => ~ Oversized(R)
<1>1. PICK k \in RuleIds : c \in GENERATORS(k, L, R) /\ (k # M3_AGGREGATE \/ ~ Oversized(R))
  BY DEF AllCandidates
<1>2. c.rule = k
  BY <1>1, GeneratorFacts
<1> QED
  BY <1>1, <1>2

(* What a turn lost stays lost as matches are added. *)
LEMMA TurnsAreKept ==
  ASSUME NEW c, HadItsTurn(c), matches \subseteq matches'
  PROVE  HadItsTurn(c)'
BY DEF HadItsTurn

(* A candidate of the rule that is not free lost to an earlier match. *)
LEMMA NotFreeLost ==
  ASSUME EngineInv, stage # "block", NEW c, Proposed(c, c.rule, block), c.rule \in RuleIds,
         ~ Free(c),
         \A m \in matches : KeyOf(m) = block => m = c \/ Precedes(m, c)
  PROVE  HadItsTurn(c)
<1>1. \E m \in matches : KeyOf(m) = block /\ Conflict(m, c)
  BY DEF Free, EngineInv, TakenIsMatched, Conflict
<1> QED
  BY <1>1 DEF HadItsTurn
-----------------------------------------------------------------------------
(* Init and the steps *)

LEMMA EngineInitInv ==
  ASSUME Init
  PROVE  EngineInv
<1> USE DEF Init
<1>1. EngineType
  BY DEF EngineType, RuleIds, M0_REFERENCE, M3_AGGREGATE
<1>2. CandidatesAreProposed /\ MatchesAreProposed /\ TakenIsMatched /\ MatchesAreDisjoint
      /\ RulesInOrder /\ TolerantIsExhausted /\ RejectsAreAudited
  BY DEF CandidatesAreProposed, MatchesAreProposed, TakenIsMatched, MatchesAreDisjoint,
         RulesInOrder, TolerantIsExhausted, RejectsAreAudited
<1>3. PairsHaveReasons
  BY DEF PairsHaveReasons, Audited
<1>4. TurnsAreTaken
  <2> SUFFICES ASSUME NEW b \in Blocks \ todo,
                      NEW c \in AllCandidates(InBlock(left, b), InBlock(right, b))
               PROVE  FALSE
    BY DEF TurnsAreTaken
  <2>1. c.rule \in RuleIds /\ Proposed(c, c.rule, b)
    BY AllCandidatesFacts DEF Proposed
  <2>2. c.left \in InBlock(left, b)
    BY <2>1, ProposedFacts
  <2> QED
    BY <2>2 DEF InBlock
<1> QED
  BY <1>1, <1>2, <1>3, <1>4 DEF EngineInv

LEMMA StartBlockInv ==
  ASSUME EngineInv, NEW b \in todo, StartBlock(b)
  PROVE  EngineInv'
<1> USE DEF StartBlock
<1>1. EngineType'
  BY DEF EngineInv, EngineType, M0_REFERENCE, RuleIds, M3_AGGREGATE
<1>2. CandidatesAreProposed'
  BY DEF EngineInv, EngineType, CandidatesAreProposed
<1>3. MatchesAreProposed'
  BY DEF EngineInv, MatchesAreProposed, Proposed
<1>4. TakenIsMatched' /\ RulesInOrder'
  <2>1. \A m \in matches : ~ InHand(KeyOf(m))'
    BY DEF EngineInv, MatchesAreProposed, InHand
  <2> QED
    BY <2>1 DEF TakenIsMatched, RulesInOrder
<1>5. MatchesAreDisjoint'
  BY DEF EngineInv, MatchesAreDisjoint
<1>6. TolerantIsExhausted'
  BY DEF TolerantIsExhausted, M0_REFERENCE, M2_TOLERANT
<1>7. RejectsAreAudited'
  BY DEF EngineInv, RejectsAreAudited, InHand
<1>8. PairsHaveReasons'
  <2> SUFFICES ASSUME NEW l \in left, Audited(l)', ~ InHand(blocking_key(l))'
               PROVE  HasReasons(l)'
    BY DEF PairsHaveReasons
  <2>1. Audited(l) /\ ~ InHand(blocking_key(l))
    BY DEF Audited, InHand
  <2>2. HasReasons(l)
    BY <2>1 DEF EngineInv, PairsHaveReasons
  <2> QED
    BY <2>2 DEF HasReasons
<1>9. TurnsAreTaken'
  <2> SUFFICES ASSUME NEW k \in Blocks \ todo',
                      NEW c \in AllCandidates(InBlock(left, k), InBlock(right, k))
               PROVE  \/ HadItsTurn(c)'
                      \/ k = block' /\ stage' = "rule" /\ c.rule >= rule'
    BY DEF TurnsAreTaken
  <2>1. CASE k = b
    <3>1. c.rule \in RuleIds
      BY AllCandidatesFacts
    <3> QED
      BY <2>1, <3>1 DEF RuleIds, M0_REFERENCE, M3_AGGREGATE
  <2>2. CASE k # b
    <3>1. HadItsTurn(c)
      BY <2>2 DEF EngineInv, TurnsAreTaken
    <3> QED
      BY <3>1, TurnsAreKept
  <2> QED
    BY <2>1, <2>2
<1> QED
  BY <1>1, <1>2, <1>3, <1>4, <1>5, <1>6, <1>7, <1>8, <1>9 DEF EngineInv

LEMMA ApplyRuleInv ==
  ASSUME EngineInv, ApplyRule
  PROVE  EngineInv'
<1> USE DEF ApplyRule
<1>1. EngineType'
  BY DEF EngineInv, EngineType
<1>0. AvailableLeft \subseteq BlockLefts /\ AvailableRight \subseteq BlockRights
  BY DEF AvailableLeft, AvailableRight
<1>2. CandidatesAreProposed'
  <2> SUFFICES ASSUME NEW c \in candidates'
               PROVE  Proposed(c, rule, block)
    BY DEF CandidatesAreProposed, Proposed
  <2>1. c \in GENERATORS(rule, AvailableLeft, AvailableRight)
    OBVIOUS
  <2>2. c.left \in BlockLefts /\ c.rights \subseteq BlockRights
    BY <1>0, <2>1, GeneratorFacts DEF Brings
  <2>3. c \in GENERATORS(rule, BlockLefts, BlockRights)
    BY <2>1, <2>2, GeneratorRestricts
  <2> QED
    BY <2>3 DEF Proposed, BlockLefts, BlockRights
<1>3. MatchesAreProposed'
  BY DEF EngineInv, MatchesAreProposed, Proposed
<1>4. TakenIsMatched'
  BY DEF EngineInv, TakenIsMatched, InHand
<1>5. RulesInOrder'
  <2>1. \A m \in matches : m.rule \in Int
    BY DEF EngineInv, MatchesAreProposed, RuleIds, M0_REFERENCE, M3_AGGREGATE
  <2>2. rule \in Int
    BY DEF EngineInv, EngineType
  <2> QED
    BY <2>1, <2>2 DEF EngineInv, RulesInOrder, InHand
<1>6. MatchesAreDisjoint'
  BY DEF EngineInv, MatchesAreDisjoint
<1>7. TolerantIsExhausted'
  <2>0. AvailableLeft' = AvailableLeft /\ AvailableRight' = AvailableRight
    BY DEF AvailableLeft, AvailableRight, BlockLefts, BlockRights
  <2> SUFFICES ASSUME NEW l \in AvailableLeft, NEW r \in AvailableRight, Tolerable(l, r)
               PROVE  \/ rule < M2_TOLERANT
                      \/ rule = M2_TOLERANT /\ \E c \in candidates' : IsPair(c, l, r)
    BY <2>0 DEF TolerantIsExhausted
  <2>1. rule <= M2_TOLERANT
    BY DEF EngineInv, TolerantIsExhausted
  <2>2. CASE rule < M2_TOLERANT
    BY <2>2
  <2>3. CASE rule = M2_TOLERANT
    <3>1. \E c \in GENERATORS(M2_TOLERANT, AvailableLeft, AvailableRight) : IsPair(c, l, r)
      BY TolerantPairs
    <3> QED
      BY <2>3, <3>1
  <2>4. rule \in Int /\ M2_TOLERANT \in Int
    BY DEF EngineInv, EngineType, M2_TOLERANT
  <2> QED
    BY <2>1, <2>2, <2>3, <2>4
<1>8. RejectsAreAudited'
  BY DEF EngineInv, RejectsAreAudited, InHand
<1>9. PairsHaveReasons'
  <2> SUFFICES ASSUME NEW l \in left, Audited(l)', ~ InHand(blocking_key(l))'
               PROVE  HasReasons(l)'
    BY DEF PairsHaveReasons
  <2>1. Audited(l) /\ ~ InHand(blocking_key(l))
    BY DEF Audited, InHand
  <2>2. HasReasons(l)
    BY <2>1 DEF EngineInv, PairsHaveReasons
  <2> QED
    BY <2>2 DEF HasReasons
<1>10. TurnsAreTaken'
  <2> SUFFICES ASSUME NEW b \in Blocks \ todo,
                      NEW c \in AllCandidates(InBlock(left, b), InBlock(right, b)),
                      ~ HadItsTurn(c)
               PROVE  b = block /\ (c.rule > rule \/ c \in candidates')
    BY TurnsAreKept DEF TurnsAreTaken
  <2>1. b = block /\ c.rule >= rule
    BY DEF EngineInv, TurnsAreTaken
  <2>2. c.rule \in RuleIds /\ c \in GENERATORS(c.rule, BlockLefts, BlockRights)
    BY <2>1, AllCandidatesFacts DEF BlockLefts, BlockRights
  <2>3. c.rule \in Int /\ rule \in Int
    BY <2>2 DEF RuleIds, M0_REFERENCE, M3_AGGREGATE
  <2>4. CASE c.rule = rule
    <3>1. Proposed(c, c.rule, block)
      BY <2>2 DEF Proposed, BlockLefts, BlockRights
    <3>2. \A m \in matches : KeyOf(m) = block => Precedes(m, c)
      BY <2>4 DEF EngineInv, RulesInOrder, InHand, Precedes
    <3>3. Free(c)
      BY <2>2, <3>1, <3>2, NotFreeLost
    <3>4. c.left \in BlockLefts /\ c.rights \subseteq BlockRights
      BY <2>2, GeneratorFacts DEF Brings
    <3>5. c.left \in AvailableLeft /\ c.rights \subseteq AvailableRight
      BY <3>3, <3>4 DEF Free, AvailableLeft, AvailableRight
    <3>6. c \in GENERATORS(c.rule, AvailableLeft, AvailableRight)
      BY <2>2, <3>5, GeneratorRestricts
    <3> QED
      BY <2>1, <2>4, <3>6
  <2> QED
    BY <2>1, <2>3, <2>4
<1> QED
  BY <1>1, <1>2, <1>3, <1>4, <1>5, <1>6, <1>7, <1>8, <1>9, <1>10 DEF EngineInv

LEMMA EndRulesInv ==
  ASSUME EngineInv, EndRules
  PROVE  EngineInv'
<1> USE DEF EndRules
<1>1. EngineType'
  BY DEF EngineInv, EngineType
<1>2. CandidatesAreProposed'
  BY DEF EngineInv, EngineType, CandidatesAreProposed
<1>3. MatchesAreProposed'
  BY DEF EngineInv, MatchesAreProposed, Proposed
<1>4. TakenIsMatched' /\ RulesInOrder' /\ MatchesAreDisjoint'
  <2>1. candidates' = {}
    BY DEF EngineInv, EngineType
  <2> QED
    BY <2>1 DEF EngineInv, TakenIsMatched, RulesInOrder, MatchesAreDisjoint, InHand
<1>5. rule \in 0 .. 4 /\ block \notin todo
  BY DEF EngineInv, EngineType
<1>6. TolerantIsExhausted'
  <2>0. AvailableLeft' = AvailableLeft /\ AvailableRight' = AvailableRight
    BY DEF AvailableLeft, AvailableRight, BlockLefts, BlockRights
  <2> SUFFICES ASSUME NEW l \in AvailableLeft, NEW r \in AvailableRight, Tolerable(l, r)
               PROVE  FALSE
    BY <2>0 DEF TolerantIsExhausted
  <2>1. rule <= M2_TOLERANT
    BY DEF EngineInv, TolerantIsExhausted
  <2>2. rule \notin RuleIds \/ rule = M3_AGGREGATE
    BY DEF SkipRule
  <2> QED
    BY <1>5, <2>1, <2>2 DEF RuleIds, M0_REFERENCE, M2_TOLERANT, M3_AGGREGATE
<1>7. RejectsAreAudited'
  BY DEF EngineInv, RejectsAreAudited, InHand
<1>8. PairsHaveReasons'
  <2> SUFFICES ASSUME NEW l \in left, Audited(l)', ~ InHand(blocking_key(l))'
               PROVE  HasReasons(l)'
    BY DEF PairsHaveReasons
  <2>1. Audited(l) /\ ~ InHand(blocking_key(l))
    BY DEF Audited, InHand
  <2>2. HasReasons(l)
    BY <2>1 DEF EngineInv, PairsHaveReasons
  <2> QED
    BY <2>2 DEF HasReasons
<1>9. TurnsAreTaken'
  <2> SUFFICES ASSUME NEW b \in Blocks \ todo,
                      NEW c \in AllCandidates(InBlock(left, b), InBlock(right, b)),
                      ~ HadItsTurn(c)
               PROVE  FALSE
    BY TurnsAreKept DEF TurnsAreTaken
  <2>1. b = block /\ c.rule >= rule
    BY DEF EngineInv, TurnsAreTaken
  <2>2. c.rule \in RuleIds /\ c \in GENERATORS(c.rule, BlockLefts, BlockRights)
        /\ (c.rule = M3_AGGREGATE => ~ Oversized(BlockRights))
    BY <2>1, AllCandidatesFacts DEF BlockLefts, BlockRights
  <2>3. CASE rule \notin RuleIds
    BY <1>5, <2>1, <2>2, <2>3 DEF RuleIds, M0_REFERENCE, M3_AGGREGATE
  <2>4. CASE SkipRule
    BY <2>1, <2>2, <2>4 DEF RuleIds, M0_REFERENCE, M3_AGGREGATE, SkipRule
  <2>5. CASE AvailableLeft = {} \/ AvailableRight = {}
    <3>1. Proposed(c, c.rule, block)
      BY <2>2 DEF Proposed, BlockLefts, BlockRights
    <3>2. \A m \in matches : KeyOf(m) = block => Precedes(m, c)
      <4> SUFFICES ASSUME NEW m \in matches, KeyOf(m) = block
                   PROVE  m.rule < c.rule
        BY DEF Precedes
      <4>1. m.rule < rule /\ m.rule \in RuleIds
        BY DEF EngineInv, RulesInOrder, InHand, MatchesAreProposed
      <4> QED
        BY <1>5, <2>1, <2>2, <4>1 DEF RuleIds, M0_REFERENCE, M3_AGGREGATE
    <3>3. Free(c)
      BY <2>2, <3>1, <3>2, NotFreeLost
    <3>4. c.left \in BlockLefts /\ c.rights \subseteq BlockRights /\ c.rights # {}
      BY <2>2, GeneratorFacts DEF Brings
    <3>5. c.left \in AvailableLeft /\ c.rights \subseteq AvailableRight
      BY <3>3, <3>4 DEF Free, AvailableLeft, AvailableRight
    <3> QED
      BY <2>5, <3>4, <3>5
  <2> QED
    BY <2>3, <2>4, <2>5
<1> QED
  BY <1>1, <1>2, <1>3, <1>4, <1>6, <1>7, <1>8, <1>9 DEF EngineInv

LEMMA ResolveInv ==
  ASSUME EngineInv, NEW c \in candidates, Resolve(c)
  PROVE  EngineInv'
<1> USE DEF Resolve
<1>1. EngineType'
  BY DEF EngineInv, EngineType
<1>0. rule \in RuleIds /\ Proposed(c, rule, block) /\ block \notin todo
  BY DEF EngineInv, EngineType, CandidatesAreProposed
<1>a. /\ c.rule = rule /\ KeyOf(c) = block
      /\ c.left \in InBlock(left, block) /\ c.rights \subseteq InBlock(right, block) /\ c.rights # {}
  BY <1>0, ProposedFacts
<1>b. matches \subseteq matches' /\ matches' \subseteq matches \cup {c}
  OBVIOUS
<1>2. CandidatesAreProposed'
  BY DEF EngineInv, CandidatesAreProposed, Proposed
<1>3. MatchesAreProposed'
  BY <1>0, <1>a, <1>b DEF EngineInv, MatchesAreProposed, Proposed
<1>4. TakenIsMatched'
  <2>1. CASE Free(c)
    BY <1>a, <2>1 DEF EngineInv, TakenIsMatched, InHand
  <2>2. CASE ~ Free(c)
    BY <2>2 DEF EngineInv, TakenIsMatched, InHand
  <2> QED
    BY <2>1, <2>2
<1>5. MatchesAreDisjoint'
  <2>1. CASE Free(c)
    <3>1. ASSUME NEW m \in matches
          PROVE  m.left # c.left /\ m.rights \cap c.rights = {}
      <4>1. CASE KeyOf(m) = block
        <5>1. m.left \in taken_left /\ m.rights \subseteq taken_right
          BY <4>1 DEF EngineInv, TakenIsMatched, InHand
        <5> QED
          BY <2>1, <5>1 DEF Free
      <4>2. CASE KeyOf(m) # block
        <5>1. m.left \in InBlock(left, KeyOf(m)) /\ m.rights \subseteq InBlock(right, KeyOf(m))
          BY ProposedFacts DEF EngineInv, MatchesAreProposed
        <5> QED
          BY <1>a, <4>2, <5>1 DEF InBlock
      <4> QED
        BY <4>1, <4>2
    <3>2. matches' = matches \cup {c}
      BY <2>1
    <3> QED
      BY <3>1, <3>2 DEF EngineInv, MatchesAreDisjoint
  <2>2. CASE ~ Free(c)
    BY <2>2 DEF EngineInv, MatchesAreDisjoint
  <2> QED
    BY <2>1, <2>2
<1>6. RulesInOrder'
  <2> SUFFICES ASSUME NEW m \in matches', KeyOf(m) = block
               PROVE  /\ m.rule <= rule
                      /\ m.rule = rule => \A d \in candidates \ {c} : candidate_order(m, d)
    BY DEF RulesInOrder, InHand
  <2>1. CASE m = c
    <3>1. \A d \in candidates \ {c} : candidate_order(m, d)
      BY <2>1 DEF IsFirst
    <3> QED
      BY <1>0, <1>a, <2>1, <3>1 DEF RuleIds, M0_REFERENCE, M3_AGGREGATE
  <2>2. CASE m \in matches
    BY <2>2 DEF EngineInv, RulesInOrder, InHand
  <2> QED
    BY <1>b, <2>1, <2>2
<1>7. TolerantIsExhausted'
  <2>0. AvailableLeft' \subseteq AvailableLeft /\ AvailableRight' \subseteq AvailableRight
    BY DEF AvailableLeft, AvailableRight, BlockLefts, BlockRights
  <2>1. ASSUME Free(c)
        PROVE  c.left \notin AvailableLeft' /\ c.rights \cap AvailableRight' = {}
    BY <2>1 DEF AvailableLeft, AvailableRight
  <2>2. ASSUME ~ Free(c), c.left \in AvailableLeft', c.rights \subseteq AvailableRight'
        PROVE  FALSE
    BY <2>0, <2>2 DEF Free, AvailableLeft, AvailableRight
  <2> SUFFICES ASSUME NEW l \in AvailableLeft', NEW r \in AvailableRight', Tolerable(l, r)
               PROVE  \/ rule < M2_TOLERANT
                      \/ rule = M2_TOLERANT /\ \E d \in candidates \ {c} : IsPair(d, l, r)
    BY DEF TolerantIsExhausted
  <2>3. \/ rule < M2_TOLERANT
        \/ rule = M2_TOLERANT /\ \E d \in candidates : IsPair(d, l, r)
    BY <2>0 DEF EngineInv, TolerantIsExhausted
  <2>4. ~ IsPair(c, l, r)
    BY <2>1, <2>2 DEF IsPair
  <2> QED
    BY <2>3, <2>4
<1>8. RejectsAreAudited'
  BY DEF EngineInv, RejectsAreAudited, InHand
<1>9. PairsHaveReasons'
  <2> SUFFICES ASSUME NEW l \in left, Audited(l)', ~ InHand(blocking_key(l))'
               PROVE  HasReasons(l)'
    BY DEF PairsHaveReasons
  <2>1. Audited(l) /\ ~ InHand(blocking_key(l))
    BY <1>b DEF Audited, InHand
  <2>2. HasReasons(l)
    BY <2>1 DEF EngineInv, PairsHaveReasons
  <2> QED
    BY <2>2 DEF HasReasons
<1>10. TurnsAreTaken'
  <2> SUFFICES ASSUME NEW b \in Blocks \ todo,
                      NEW d \in AllCandidates(InBlock(left, b), InBlock(right, b)),
                      ~ HadItsTurn(d)'
               PROVE  b = block /\ (d.rule > rule \/ d \in candidates \ {c})
    BY DEF TurnsAreTaken
  <2>0. ~ HadItsTurn(d)
    BY <1>b, TurnsAreKept
  <2>1. b = block /\ (d.rule > rule \/ d \in candidates)
    BY <2>0 DEF EngineInv, TurnsAreTaken
  <2>2. ASSUME d = c
        PROVE  FALSE
    <3>1. ~ Free(c)
      BY <2>2 DEF HadItsTurn
    <3>2. \A m \in matches : KeyOf(m) = block => Precedes(m, c)
      <4> SUFFICES ASSUME NEW m \in matches, KeyOf(m) = block
                   PROVE  Precedes(m, c)
        OBVIOUS
      <4>1. /\ m.rule <= rule /\ m.rule \in RuleIds
            /\ m.rule = rule => candidate_order(m, c)
        BY DEF EngineInv, RulesInOrder, InHand, MatchesAreProposed
      <4> QED
        BY <1>0, <1>a, <4>1 DEF Precedes, RuleIds, M0_REFERENCE, M3_AGGREGATE
    <3> QED
      BY <1>0, <1>a, <2>0, <2>2, <3>1, <3>2, NotFreeLost
  <2> QED
    BY <2>1, <2>2
<1> QED
  BY <1>1, <1>2, <1>3, <1>4, <1>5, <1>6, <1>7, <1>8, <1>9, <1>10 DEF EngineInv

LEMMA NextRuleInv ==
  ASSUME EngineInv, NextRule
  PROVE  EngineInv'
<1> USE DEF NextRule
<1>0. rule \in RuleIds /\ rule \in Int /\ rule < rule + 1
  BY DEF EngineInv, EngineType, RuleIds, M0_REFERENCE, M3_AGGREGATE
<1>1. EngineType'
  BY <1>0 DEF EngineInv, EngineType, RuleIds, M0_REFERENCE, M3_AGGREGATE
<1>2. CandidatesAreProposed'
  BY DEF CandidatesAreProposed
<1>3. MatchesAreProposed'
  BY DEF EngineInv, MatchesAreProposed, Proposed
<1>4. TakenIsMatched' /\ MatchesAreDisjoint'
  BY DEF EngineInv, TakenIsMatched, MatchesAreDisjoint, InHand
<1>5. RulesInOrder'
  <2> SUFFICES ASSUME NEW m \in matches, KeyOf(m) = block
               PROVE  m.rule <= rule + 1 /\ m.rule < rule + 1
    BY DEF RulesInOrder, InHand
  <2>1. m.rule <= rule /\ m.rule \in RuleIds
    BY DEF EngineInv, RulesInOrder, InHand, MatchesAreProposed
  <2> QED
    BY <1>0, <2>1 DEF RuleIds, M0_REFERENCE, M3_AGGREGATE
<1>6. TolerantIsExhausted'
  <2>0. AvailableLeft' = AvailableLeft /\ AvailableRight' = AvailableRight
    BY DEF AvailableLeft, AvailableRight, BlockLefts, BlockRights
  <2> SUFFICES ASSUME NEW l \in AvailableLeft, NEW r \in AvailableRight, Tolerable(l, r)
               PROVE  rule + 1 <= M2_TOLERANT
    BY <2>0 DEF TolerantIsExhausted
  <2>1. rule < M2_TOLERANT
    BY DEF EngineInv, TolerantIsExhausted
  <2> QED
    BY <1>0, <2>1 DEF M2_TOLERANT
<1>7. RejectsAreAudited'
  BY DEF EngineInv, RejectsAreAudited, InHand
<1>8. PairsHaveReasons'
  <2> SUFFICES ASSUME NEW l \in left, Audited(l)', ~ InHand(blocking_key(l))'
               PROVE  HasReasons(l)'
    BY DEF PairsHaveReasons
  <2>1. Audited(l) /\ ~ InHand(blocking_key(l))
    BY DEF Audited, InHand
  <2>2. HasReasons(l)
    BY <2>1 DEF EngineInv, PairsHaveReasons
  <2> QED
    BY <2>2 DEF HasReasons
<1>9. TurnsAreTaken'
  <2> SUFFICES ASSUME NEW b \in Blocks \ todo,
                      NEW c \in AllCandidates(InBlock(left, b), InBlock(right, b)),
                      ~ HadItsTurn(c)
               PROVE  b = block /\ c.rule >= rule + 1
    BY TurnsAreKept DEF TurnsAreTaken
  <2>1. b = block /\ c.rule > rule
    BY DEF EngineInv, TurnsAreTaken
  <2>2. c.rule \in RuleIds
    BY AllCandidatesFacts
  <2> QED
    BY <1>0, <2>1, <2>2 DEF RuleIds, M0_REFERENCE, M3_AGGREGATE
<1> QED
  BY <1>1, <1>2, <1>3, <1>4, <1>5, <1>6, <1>7, <1>8, <1>9 DEF EngineInv

LEMMA AuditInv ==
  ASSUME EngineInv, Audit
  PROVE  EngineInv'
<1> USE DEF Audit
<1>0. block \notin todo
  BY DEF EngineInv, EngineType
<1>1. EngineType'
  BY DEF EngineInv, EngineType
<1>2. CandidatesAreProposed'
  BY DEF EngineInv, EngineType, CandidatesAreProposed
<1>3. MatchesAreProposed'
  BY DEF EngineInv, MatchesAreProposed, Proposed
<1>4. TakenIsMatched' /\ RulesInOrder' /\ MatchesAreDisjoint' /\ TolerantIsExhausted'
  BY DEF EngineInv, TakenIsMatched, RulesInOrder, MatchesAreDisjoint, TolerantIsExhausted, InHand
<1>5. ASSUME NEW j \in rejects'
      PROVE  \/ j \in rejects
             \/ \E l \in AvailableLeft : j.left = l /\ j \in audit_unmatched(l, BlockRights, taken_right)
  BY <1>5, AuditIsOf
<1>6. RejectsAreAudited'
  <2> SUFFICES ASSUME NEW j \in rejects'
               PROVE  j.left \in left /\ blocking_key(j.left) \notin todo
    BY DEF RejectsAreAudited, InHand
  <2>1. CASE j \in rejects
    BY <2>1 DEF EngineInv, RejectsAreAudited
  <2>2. CASE j.left \in AvailableLeft
    BY <1>0, <2>2 DEF AvailableLeft, BlockLefts, InBlock
  <2> QED
    BY <1>5, <2>1, <2>2
<1>7. PairsHaveReasons'
  <2> SUFFICES ASSUME NEW l \in left, Audited(l)
               PROVE  HasReasons(l)'
    BY DEF PairsHaveReasons, Audited
  <2>1. CASE blocking_key(l) = block
    <3>1. l \in AvailableLeft
      BY <2>1 DEF EngineInv, TakenIsMatched, Audited, AvailableLeft, BlockLefts, InBlock
    <3>2. \A j \in rejects : j.left # l
      BY <2>1 DEF EngineInv, RejectsAreAudited, InHand
    <3>3. \A j \in rejects' : j.left = l => j \in audit_unmatched(l, BlockRights, taken_right)
      BY <1>5, <3>2
    <3>4. audit_unmatched(l, BlockRights, taken_right) \subseteq rejects'
      BY <3>1
    <3>5. InBlock(right', blocking_key(l)) = BlockRights
      BY <2>1 DEF BlockRights
    <3>6. CASE BlockRights = {} \/ Oversized(BlockRights)
      <4>1. PICK j \in audit_unmatched(l, BlockRights, taken_right) : j.left = l /\ j.right = {}
        BY <3>6, AuditOfNone
      <4>2. j \in rejects'
        BY <3>4, <4>1
      <4> QED
        BY <3>5, <3>6, <4>1, <4>2 DEF HasReasons
    <3>7. CASE ~ (BlockRights = {} \/ Oversized(BlockRights))
      <4>1. ASSUME NEW r \in BlockRights
            PROVE  Cardinality({j \in rejects' : j.left = l /\ j.right = {r}}) = 1
        <5>1. r \in taken_right \/ ~ Near(l, r) \/ ~ WithinTolerance(l, l.amount - r.amount)
          <6>1. CASE r \notin taken_right
            <7>1. r \in AvailableRight
              BY <6>1 DEF AvailableRight
            <7>2. ~ Tolerable(l, r)
              BY <3>1, <7>1 DEF EngineInv, TolerantIsExhausted
            <7> QED
              BY <7>2 DEF Tolerable
          <6> QED
            BY <6>1
        <5>2. PICK j \in audit_unmatched(l, BlockRights, taken_right) :
                /\ j.left = l /\ j.right = {r}
                /\ \A i \in audit_unmatched(l, BlockRights, taken_right) : i.right = {r} => i = j
          BY <3>7, <5>1, AuditOfPair
        <5>3. {i \in rejects' : i.left = l /\ i.right = {r}} = {j}
          BY <3>3, <3>4, <5>2
        <5>4. Cardinality({j}) = 1
          BY FS_Singleton
        <5> QED
          BY <5>3, <5>4
      <4> QED
        BY <3>5, <3>7, <4>1 DEF HasReasons
    <3> QED
      BY <3>6, <3>7
  <2>2. CASE blocking_key(l) # block
    <3>1. HasReasons(l)
      BY <2>2 DEF EngineInv, PairsHaveReasons, InHand
    <3>2. \A j \in rejects' : j.left = l => j \in rejects
      BY <1>5, <2>2 DEF AvailableLeft, BlockLefts, InBlock
    <3>3. \A r : {j \in rejects' : j.left = l /\ j.right = r} = {j \in rejects : j.left = l /\ j.right = r}
      BY <3>2
    <3>4. right' = right
      OBVIOUS
    <3> HIDE DEF Audit
    <3> QED
      BY <3>1, <3>3, <3>4 DEF HasReasons
  <2> QED
    BY <2>1, <2>2
<1>8. TurnsAreTaken'
  <2> SUFFICES ASSUME NEW b \in Blocks \ todo,
                      NEW c \in AllCandidates(InBlock(left, b), InBlock(right, b))
               PROVE  HadItsTurn(c)'
    BY DEF TurnsAreTaken
  <2>1. HadItsTurn(c)
    BY DEF EngineInv, TurnsAreTaken
  <2> QED
    BY <2>1, TurnsAreKept
<1> QED
  BY <1>1, <1>2, <1>3, <1>4, <1>6, <1>7, <1>8 DEF EngineInv

LEMMA EngineStutterInv ==
  ASSUME EngineInv, UNCHANGED vars
  PROVE  EngineInv'
<1> USE DEF vars
<1>1. EngineType' /\ CandidatesAreProposed' /\ MatchesAreProposed' /\ TakenIsMatched'
  BY DEF EngineInv, EngineType, CandidatesAreProposed, MatchesAreProposed, TakenIsMatched, Proposed, InHand
<1>2. MatchesAreDisjoint' /\ RulesInOrder' /\ RejectsAreAudited'
  BY DEF EngineInv, MatchesAreDisjoint, RulesInOrder, RejectsAreAudited, InHand
<1>3. TolerantIsExhausted'
  BY DEF EngineInv, TolerantIsExhausted, AvailableLeft, AvailableRight, BlockLefts, BlockRights
<1>4. PairsHaveReasons'
  BY DEF EngineInv, PairsHaveReasons, HasReasons, Audited, InHand
<1>5. TurnsAreTaken'
  BY DEF EngineInv, TurnsAreTaken, HadItsTurn
<1> QED
  BY <1>1, <1>2, <1>3, <1>4, <1>5 DEF EngineInv

LEMMA EngineInvHolds == Spec => []EngineInv
<1>1. EngineInv /\ [Next]_vars => EngineInv'
  BY StartBlockInv, ApplyRuleInv, EndRulesInv, ResolveInv, NextRuleInv, AuditInv, EngineStutterInv
     DEF Next
<1> QED
  BY <1>1, EngineInitInv, PTL DEF Spec
-----------------------------------------------------------------------------
(* The theorems *)

(* A record is in at most one match of a call, whichever rules and blocks  *)
(* proposed it, and every pair of a match is one that the stream's         *)
(* components are closed over.                                             *)
THEOREM MatchesStaySound == Spec => []MatchesAreSound
<1>1. EngineInv => MatchesAreSound
  <2> SUFFICES ASSUME EngineInv, NEW m \in matches
               PROVE  /\ m.left \in left /\ m.rights \subseteq right /\ m.rights # {}
                      /\ \A r \in m.rights : Linked(m.left, r)
    BY DEF MatchesAreSound, EngineInv, MatchesAreDisjoint
  <2>1. /\ m.left \in InBlock(left, KeyOf(m)) /\ m.rights \subseteq InBlock(right, KeyOf(m))
        /\ m.rights # {}
        /\ \A r \in m.rights : Near(m.left, r) \/ SameReference(m.left, r)
    BY ProposedFacts DEF EngineInv, MatchesAreProposed
  <2>2. m.left \in left /\ m.rights \subseteq right
    BY <2>1 DEF InBlock
  <2>3. ASSUME NEW r \in m.rights
        PROVE  Linked(m.left, r)
    <3>1. m.left.side = LEFT /\ r.side = RIGHT
      BY <2>2, <2>3 DEF EngineInv, EngineType, Lefts, Rights
    <3>2. blocking_key(r) = blocking_key(m.left)
      BY <2>1, <2>3 DEF InBlock, KeyOf
    <3> QED
      BY <2>1, <3>1, <3>2 DEF Linked, LEFT, RIGHT
  <2> QED
    BY <2>1, <2>2, <2>3
<1> QED
  BY <1>1, EngineInvHolds, PTL

(* When the call returns, audit_unmatched has given every pair of an       *)
(* unmatched left record exactly one reject: pair_reject_reason never      *)
(* answers None there, since M2 has left no free pair within both bounds.  *)
THEOREM ReasonsAreUnique == Spec => []EveryPairHasOneReason
<1>1. EngineInv => EveryPairHasOneReason
  <2> SUFFICES ASSUME EngineInv, Returned, NEW l \in left, Audited(l)
               PROVE  HasReasons(l)
    BY DEF EveryPairHasOneReason, HasReasons
  <2> QED
    BY DEF EngineInv, PairsHaveReasons, InHand, Returned
<1> QED
  BY <1>1, EngineInvHolds, PTL

(* The rules in order, the resolution of each and the break out of the     *)
(* loop together give the stable result: whichever candidates were never   *)
(* generated, because their records were taken, had lost to an earlier     *)
(* match.                                                                  *)
THEOREM ResultStaysStable == Spec => []ResultIsStable
<1>1. EngineInv => ResultIsStable
  <2> SUFFICES ASSUME EngineInv, Returned, NEW b \in Blocks,
                      NEW c \in AllCandidates(InBlock(left, b), InBlock(right, b))
               PROVE  c \in matches <=> ~ \E m \in matches \ {c} : Conflict(m, c) /\ Precedes(m, c)
    BY DEF ResultIsStable
  <2>1. HadItsTurn(c)
    BY DEF EngineInv, TurnsAreTaken, Returned
  <2>2. ASSUME c \in matches, NEW m \in matches \ {c}
        PROVE  ~ Conflict(m, c)
    BY <2>2 DEF EngineInv, MatchesAreDisjoint, Conflict
  <2> QED
    BY <2>1, <2>2 DEF HadItsTurn
<1> QED
  BY <1>1, EngineInvHolds, PTL
=============================================================================
