---------------------------- MODULE StreamProofs ----------------------------
(***************************************************************************)
(* Proofs about Stream, for every catalogue of records, every setting of   *)
(* the stream and every engine that keeps EngineContract: open decisions   *)
(* are up to date, final ones are for ever, the ledger is implemented, one *)
(* decision of each record is effective, and, from the watermarks on, what *)
(* a closed component, a cut and a reference break may be.                 *)
(***************************************************************************)
EXTENDS Stream, TLAPS

-----------------------------------------------------------------------------
(* The engine's output, read record by record. *)

(* The result of the engine on the open records O. *)
Result(O) == Reconcile(O \cap Lefts, O \cap Rights)

Mine(O, r) == {m \in Result(O).matches : r = m.left \/ r \in m.rights}

Inputs(m) == {m.left} \cup m.rights

(* A record of the open set is in at most one match, whose records are    *)
(* all in the open set.                                                   *)
LEMMA MineFacts ==
  ASSUME NEW O \in SUBSET Records, NEW r \in O
  PROVE  /\ \A m, n \in Mine(O, r) : m = n
         /\ \A m \in Mine(O, r) :
              /\ m.left \in O \cap Lefts /\ m.rights \subseteq O \cap Rights
              /\ r \in Inputs(m) /\ Inputs(m) \subseteq O
              /\ \A x \in m.rights : Linked(m.left, x)
              /\ \A x \in Inputs(m) : x \in O /\ Mine(O, x) = Mine(O, r)
<1> DEFINE L == O \cap Lefts
           R == O \cap Rights
<1>1. L \in SUBSET Lefts /\ R \in SUBSET Rights
  OBVIOUS
<1> HIDE DEF L, R
<1>2. /\ \A m \in Reconcile(L, R).matches :
           /\ m.left \in L /\ m.rights \subseteq R /\ m.rights # {}
           /\ \A x \in m.rights : Linked(m.left, x)
      /\ \A m, n \in Reconcile(L, R).matches :
           m # n => m.left # n.left /\ m.rights \cap n.rights = {}
  <2>1. /\ \A m \in Reconcile(L, R).matches :
             /\ m.left \in L /\ m.rights \subseteq R /\ m.rights # {}
             /\ \A r1 \in m.rights : Linked(m.left, r1)
             /\ m.rule \notin ArrivalReasons
        /\ \A m, n \in Reconcile(L, R).matches :
             m # n => m.left # n.left /\ m.rights \cap n.rights = {}
        /\ \A j \in Reconcile(L, R).rejects : j.reason \notin ArrivalReasons
    BY <1>1, EngineContract, Zenon
  <2> QED
    BY <2>1
<1>3. Lefts \cap Rights = {}
  BY DEF Lefts, Rights, LEFT, RIGHT
<1>4. \A x \in O : \A m, n \in Mine(O, x) : m = n
  BY <1>2, <1>3 DEF Mine, Result, L, R
<1>5. ASSUME NEW m \in Mine(O, r)
      PROVE  /\ m.left \in O \cap Lefts /\ m.rights \subseteq O \cap Rights
             /\ r \in Inputs(m) /\ Inputs(m) \subseteq O
             /\ \A x \in m.rights : Linked(m.left, x)
  BY <1>2 DEF Mine, Result, Inputs, L, R
<1>6. ASSUME NEW m \in Mine(O, r), NEW x \in Inputs(m)
      PROVE  x \in O /\ Mine(O, x) = Mine(O, r)
  <2>1. x \in O
    BY <1>5
  <2>2. m \in Mine(O, x)
    BY DEF Mine, Inputs
  <2>3. Mine(O, x) = {m} /\ Mine(O, r) = {m}
    BY <1>4, <2>1, <2>2
  <2> QED
    BY <2>1, <2>3
<1> QED
  BY <1>4, <1>5, <1>6

(* A proposal is a whole match, the same for each of its records, or a    *)
(* break of one record.                                                   *)
LEMMA ProposalFacts ==
  ASSUME NEW O \in SUBSET Records, NEW r \in O
  PROVE  /\ DOMAIN Proposals[O] = O
         /\ Proposals[O][r] = Content(Proposals[O][r].type, Proposals[O][r].inputs,
                                      Proposals[O][r].reason)
         /\ Proposals[O][r].type \in {MATCH, BREAK}
         /\ Proposals[O][r].inputs \subseteq O
         /\ r \in Proposals[O][r].inputs
         /\ Proposals[O][r].type = MATCH <=> Mine(O, r) # {}
         /\ Proposals[O][r].type = BREAK => Proposals[O][r].inputs = {r}
         /\ \A m \in Mine(O, r) : Proposals[O][r].inputs = Inputs(m)
<1> DEFINE m == CHOOSE m \in Mine(O, r) : TRUE
           reasons == BreakReasons(r, Result(O).rejects)
<1>1. Proposals[O] = [x \in O |->
        IF Mine(O, x) # {}
        THEN LET n == CHOOSE n \in Mine(O, x) : TRUE
             IN  Content(MATCH, {n.left} \cup n.rights,
                         IF x = n.left THEN {n.rule} ELSE {AS_COUNTERPART})
        ELSE Break(x, IF BreakReasons(x, Result(O).rejects) = {} THEN {NO_CANDIDATE}
                      ELSE BreakReasons(x, Result(O).rejects))]
  BY Zenon DEF Proposals, Mine, Result
<1>2. CASE Mine(O, r) # {}
  <2>1. Proposals[O][r] = Content(MATCH, Inputs(m),
                            IF r = m.left THEN {m.rule} ELSE {AS_COUNTERPART})
    BY <1>1, <1>2 DEF Inputs
  <2>2. m \in Mine(O, r)
    BY <1>2
  <2>3. r \in Inputs(m) /\ Inputs(m) \subseteq O /\ \A n \in Mine(O, r) : n = m
    BY <2>2, MineFacts
  <2> DEFINE reason == IF r = m.left THEN {m.rule} ELSE {AS_COUNTERPART}
             P == Proposals[O][r]
  <2>4. P = [type |-> MATCH, inputs |-> Inputs(m), reason |-> reason]
    BY <2>1 DEF Content
  <2>5. DOMAIN Proposals[O] = O
    BY <1>1
  <2> HIDE DEF m, reason, P
  <2>6. P.type = MATCH /\ P.inputs = Inputs(m) /\ P = Content(P.type, P.inputs, P.reason)
    BY <2>4 DEF Content
  <2>7. MATCH # BREAK
    BY DEF MATCH, BREAK
  <2> QED
    BY <1>2, <2>3, <2>5, <2>6, <2>7 DEF P
<1>3. CASE Mine(O, r) = {}
  <2>1. Proposals[O][r] = Break(r, IF reasons = {} THEN {NO_CANDIDATE} ELSE reasons)
    BY <1>1, <1>3
  <2> DEFINE reason == IF reasons = {} THEN {NO_CANDIDATE} ELSE reasons
             P == Proposals[O][r]
  <2>2. P = [type |-> BREAK, inputs |-> {r}, reason |-> reason]
    BY <2>1 DEF Break, Content
  <2>3. DOMAIN Proposals[O] = O
    BY <1>1
  <2> HIDE DEF reasons, reason, P
  <2>4. P.type = BREAK /\ P.inputs = {r} /\ P = Content(P.type, P.inputs, P.reason)
    BY <2>2 DEF Content
  <2>5. MATCH # BREAK
    BY DEF MATCH, BREAK
  <2> QED
    BY <1>3, <2>3, <2>4, <2>5 DEF P
<1> QED
  BY <1>2, <1>3

-----------------------------------------------------------------------------
(* Links and components. *)

LEMMA LinkedIsSymmetric ==
  ASSUME NEW x \in Records, NEW y \in Records, Linked(x, y)
  PROVE  Linked(y, x)
<1>1. x.value_date \in Nat /\ y.value_date \in Nat
  BY RecordsAssumption
<1>2. date_gap(x, y) = date_gap(y, x)
  BY <1>1 DEF date_gap, Abs
<1> QED
  BY <1>2 DEF Linked, Near, SameReference

(* The component of r is the least linked-closed set that holds r. *)
LEMMA ComponentFacts ==
  ASSUME NEW O \in SUBSET Records, NEW r \in O
  PROVE  /\ r \in Component[O][r]
         /\ Component[O][r] \subseteq O
         /\ LinkClosed(Component[O][r], O)
         /\ \A x \in Component[O][r] : Component[O][x] \subseteq Component[O][r]
<1> DEFINE closed == {S \in SUBSET O : LinkClosed(S, O)}
<1>1. \A x \in O : Component[O][x] = {y \in O : \A S \in closed : x \in S => y \in S}
  BY DEF Component
<1>2. r \in Component[O][r] /\ Component[O][r] \subseteq O
  BY <1>1
<1>3. LinkClosed(Component[O][r], O)
  <2> SUFFICES ASSUME NEW x \in Component[O][r], NEW y \in O, Linked(x, y)
               PROVE  y \in Component[O][r]
    BY DEF LinkClosed
  <2>1. ASSUME NEW S \in closed, r \in S
        PROVE  y \in S
    BY <1>1, <2>1 DEF LinkClosed
  <2> QED
    BY <1>1, <2>1
<1>4. Component[O][r] \in closed
  BY <1>2, <1>3
<1>5. ASSUME NEW x \in Component[O][r]
      PROVE  Component[O][x] \subseteq Component[O][r]
  BY <1>1, <1>2, <1>4
<1> QED
  BY <1>2, <1>3, <1>5

LEMMA LinkedShareComponent ==
  ASSUME NEW O \in SUBSET Records, NEW x \in O, NEW y \in O, Linked(x, y)
  PROVE  Component[O][x] = Component[O][y]
<1>1. Linked(y, x)
  BY LinkedIsSymmetric
<1>2. y \in Component[O][x]
  BY ComponentFacts DEF LinkClosed
<1>3. x \in Component[O][y]
  BY <1>1, ComponentFacts DEF LinkClosed
<1>4. Component[O][y] \subseteq Component[O][x]
  BY <1>2, ComponentFacts
<1>5. Component[O][x] \subseteq Component[O][y]
  BY <1>3, ComponentFacts
<1> QED
  BY <1>4, <1>5

(* A match lies inside one component. *)
LEMMA MatchInComponent ==
  ASSUME NEW O \in SUBSET Records, NEW r \in O, NEW m \in Mine(O, r)
  PROVE  \A x \in Inputs(m) : Component[O][x] = Component[O][r]
<1>1. /\ m.left \in O /\ m.rights \subseteq O /\ r \in Inputs(m)
      /\ \A x \in m.rights : Linked(m.left, x)
  BY MineFacts
<1>2. \A x \in m.rights : Component[O][m.left] = Component[O][x]
  BY <1>1, LinkedShareComponent
<1> QED
  BY <1>1, <1>2 DEF Inputs

-----------------------------------------------------------------------------
(* Type correctness. *)

(* What Emit builds, field by field. *)
LEMMA EmitFacts ==
  ASSUME NEW r, NEW c, NEW finality, NEW pos
  PROVE  LET d == Emit(r, c, finality, pos)
         IN  /\ d.record = r
             /\ d.chain_version = (IF r \in DOMAIN current
                                   THEN current[r].chain_version + 1 ELSE 1)
             /\ d.finality = finality
             /\ d.type = c.type /\ d.inputs = c.inputs /\ d.reason = c.reason
             /\ d.decided_at = pos
             /\ ContentOf(d) = Content(c.type, c.inputs, c.reason)
BY DEF Emit, ContentOf, Content

(* The shape of one decision about r made by position p among records S. *)
Shape(d, r, S, p) ==
  /\ d.record = r
  /\ d.chain_version \in Nat \ {0}
  /\ d.finality \in Finalities
  /\ d.type \in {MATCH, BREAK}
  /\ d.inputs \subseteq S
  /\ d.decided_at \in 0 .. p

LEMMA EmitShape ==
  ASSUME TypeOK, NEW r, NEW c, NEW finality \in Finalities, NEW p \in Nat, NEW S,
         c.type \in {MATCH, BREAK}, c.inputs \subseteq S
  PROVE  Shape(Emit(r, c, finality, p), r, S, p)
<1>1. r \in DOMAIN current => current[r].chain_version \in Nat \ {0}
  BY DEF TypeOK
<1>2. (IF r \in DOMAIN current THEN current[r].chain_version + 1 ELSE 1) \in Nat \ {0}
  BY <1>1
<1> QED
  BY <1>2, EmitFacts DEF Shape

(* Publishing decisions of the right shape keeps the history typed. *)
LEMMA PublishTyped ==
  ASSUME TypeOK, NEW E, Publish(E), NEW p \in Nat, position <= p,
         DOMAIN E \subseteq seen', seen \subseteq seen', seen' \subseteq seen \cup DOMAIN E,
         position' = p,
         \A r \in DOMAIN E : Shape(E[r], r, seen', p)
  PROVE  /\ DOMAIN current' = seen'
         /\ \A r \in seen' : current'[r] \in decisions' /\ Shape(current'[r], r, seen', p)
<1>1. DOMAIN current' = seen'
  BY DEF Publish, TypeOK
<1>2. ASSUME NEW r \in seen'
      PROVE  current'[r] \in decisions' /\ Shape(current'[r], r, seen', p)
  <2>1. CASE r \in DOMAIN E
    BY <2>1 DEF Publish
  <2>2. CASE r \notin DOMAIN E
    <3>1. r \in seen /\ current'[r] = current[r]
      BY <2>2 DEF Publish, TypeOK
    <3>2. Shape(current[r], r, seen, position) /\ current[r] \in decisions
      BY <3>1 DEF TypeOK, Shape
    <3>3. position \in Int
      BY StreamConfigAssumption DEF TypeOK
    <3> QED
      BY <3>1, <3>2, <3>3 DEF Publish, Shape
  <2> QED
    BY <2>1, <2>2
<1> QED
  BY <1>1, <1>2
(* Open records re-evaluated at position p: one decision per record whose *)
(* content changed, each of the right shape.                              *)
LEMMA RevisionsFacts ==
  ASSUME NEW O \in SUBSET Records, NEW p
  PROVE  /\ DOMAIN Revisions(O, p) \subseteq O
         /\ O \subseteq DOMAIN current \cup DOMAIN Revisions(O, p)
         /\ \A r \in DOMAIN Revisions(O, p) :
              Revisions(O, p)[r] = Emit(r, Proposals[O][r], PROVISIONAL, p)
         /\ \A r \in O \ DOMAIN Revisions(O, p) : ContentOf(current[r]) = Proposals[O][r]
BY DEF Revisions

LEMMA RevisionsShape ==
  ASSUME TypeOK, NEW O \in SUBSET Records, NEW p \in Nat, NEW S, O \subseteq S
  PROVE  \A r \in DOMAIN Revisions(O, p) : Shape(Revisions(O, p)[r], r, S, p)
<1> TAKE r \in DOMAIN Revisions(O, p)
<1>1. r \in O
  BY RevisionsFacts
<1>2. Proposals[O][r].type \in {MATCH, BREAK} /\ Proposals[O][r].inputs \subseteq S
  BY <1>1, ProposalFacts
<1>3. Revisions(O, p)[r] = Emit(r, Proposals[O][r], PROVISIONAL, p)
  BY RevisionsFacts
<1>4. PROVISIONAL \in Finalities
  BY DEF Finalities
<1> QED
  BY <1>2, <1>3, <1>4, EmitShape

LEMMA BlockOfRecord ==
  ASSUME NEW r \in Records
  PROVE  blocking_key(r) \in Blocks
BY DEF Blocks

RoundFinality(b, r) == IF r \in ForcedNow(b) THEN FORCED ELSE FINAL

(* The decisions one round of settling publishes. *)
RoundDecisions(b) ==
  [r \in Closing(b) \cup DOMAIN Revisions(Open(b) \ Closing(b), position) |->
     IF r \in Closing(b)
     THEN Emit(r, ContentOf(current[r]), RoundFinality(b, r), position)
     ELSE Revisions(Open(b) \ Closing(b), position)[r]]

LEMMA RoundFacts ==
  ASSUME NEW b, SettleRound(b)
  PROVE  /\ Closing(b) # {}
         /\ pool' = pool \ Closing(b)
         /\ final_references' = final_references \cup References(Closing(b))
         /\ Publish(RoundDecisions(b))
         /\ UNCHANGED <<seen, latest, progress, duplicates, position, settling, refused>>
BY DEF SettleRound, Finalise, RoundDecisions, RoundFinality

LEMMA ClosingIsOpen ==
  ASSUME NEW b
  PROVE  /\ Closing(b) \subseteq Open(b) /\ Open(b) \subseteq pool
         /\ ClosedNow(b) \cap ForcedNow(b) = {}
BY DEF Closing, ClosedNow, ForcedNow, Open

LEMMA InitType == Init => TypeOK
<1> SUFFICES ASSUME Init
             PROVE  TypeOK
  OBVIOUS
<1>1. latest \in [Blocks -> [SIDES -> Nat \cup {NoDate}]]
  BY DEF Init
<1>2. progress \in [SIDES -> Nat \cup {NoDate}]
  BY DEF Init
<1>3. DOMAIN current = {} /\ seen = {}
  BY DEF Init
<1>4. position \in -1 .. MaxPosition /\ duplicates \in 0 .. MaxDuplicates
  BY StreamConfigAssumption DEF Init
<1> QED
  BY <1>1, <1>2, <1>3, <1>4 DEF Init, TypeOK

LEMMA ArriveType ==
  ASSUME TypeOK, NEW r \in Records, Arrive(r)
  PROVE  TypeOK'
<1>1. /\ position \in -1 .. MaxPosition /\ MaxPosition \in Nat /\ position + 1 \in Nat
      /\ position' = position + 1 /\ position < MaxPosition
  BY StreamConfigAssumption DEF TypeOK, Arrive
<1>2. seen' = seen \cup {r} /\ r \notin seen
  BY DEF Arrive, KeySeen
<1>3. ASSUME NEW reason, ArriveFinal(r, reason)
      PROVE  TypeOK'
  <2> DEFINE E == [x \in {r} |-> Emit(r, Break(r, {reason}), FINAL, position + 1)]
  <2>1. Publish(E)
    BY <1>3 DEF ArriveFinal, Publish
  <2>2. /\ Break(r, {reason}).type = BREAK /\ Break(r, {reason}).inputs = {r}
        /\ FINAL \in Finalities
    BY DEF Break, Content, Finalities
  <2>3. Shape(E[r], r, seen', position + 1)
    BY <1>1, <1>2, <2>2, EmitShape
  <2>4. /\ DOMAIN current' = seen'
        /\ \A x \in seen' : current'[x] \in decisions' /\ Shape(current'[x], x, seen', position + 1)
    BY <1>1, <1>2, <2>1, <2>3, PublishTyped
  <2>5. pool' \subseteq seen' /\ seen' \subseteq Records
    BY <1>2, <1>3 DEF TypeOK, ArriveFinal
  <2>6. UNCHANGED <<latest, progress, duplicates, settling, refused>>
    BY <1>3 DEF ArriveFinal, Arrive
  <2> QED
    BY <1>1, <2>4, <2>5, <2>6 DEF TypeOK, Shape
<1>4. ASSUME ArriveOpen(r)
      PROVE  TypeOK'
  <2> DEFINE b == blocking_key(r)
             O == Open(b) \cup {r}
             E == Revisions(O, position + 1)
  <2>1. O \in SUBSET Records /\ O \subseteq seen'
    BY <1>2 DEF TypeOK, Open
  <2>2. \A x \in DOMAIN E : Shape(E[x], x, seen', position + 1)
    BY <1>1, <2>1, RevisionsShape
  <2>3. DOMAIN E \subseteq seen' /\ r \in DOMAIN E
    BY <1>2, <2>1, RevisionsFacts DEF TypeOK
  <2>4. Publish(E)
    BY <1>4 DEF ArriveOpen
  <2> HIDE DEF E
  <2>5. /\ DOMAIN current' = seen'
        /\ \A x \in seen' : current'[x] \in decisions' /\ Shape(current'[x], x, seen', position + 1)
    BY <1>1, <1>2, <2>2, <2>3, <2>4, PublishTyped
  <2>6. pool' \subseteq seen' /\ seen' \subseteq Records /\ settling' \subseteq Blocks
    BY <1>2, <1>4, BlockOfRecord DEF TypeOK, ArriveOpen
  <2>7. latest' \in [Blocks -> [SIDES -> Nat \cup {NoDate}]]
    BY <1>4, RecordsAssumption, BlockOfRecord DEF TypeOK, ArriveOpen, Greater
  <2>8. UNCHANGED <<progress, duplicates, refused>>
    BY DEF Arrive
  <2> QED
    BY <1>1, <2>5, <2>6, <2>7, <2>8 DEF TypeOK, Shape
<1> QED
  BY <1>3, <1>4 DEF Arrive

LEMMA ProgressType ==
  ASSUME TypeOK, NEW side \in SIDES, NEW until \in Days, Progress(side, until)
  PROVE  TypeOK'
<1>1. position' \in -1 .. MaxPosition /\ position' = position + 1 /\ position \in Int
  BY StreamConfigAssumption DEF TypeOK, Progress
<1>2. progress' \in [SIDES -> Nat \cup {NoDate}]
  BY StreamConfigAssumption DEF TypeOK, Progress, Greater
<1>3. settling' \subseteq Blocks
  BY DEF TypeOK, Progress, KnownBlocks, Blocks
<1>4. UNCHANGED <<seen, pool, latest, current, decisions, duplicates, refused>>
  BY DEF Progress
<1>5. \A r \in seen : current[r].decided_at \in 0 .. position'
  BY <1>1 DEF TypeOK
<1> QED
  BY <1>1, <1>2, <1>3, <1>4, <1>5 DEF TypeOK

LEMMA SettleRoundType ==
  ASSUME TypeOK, NEW b, SettleRound(b)
  PROVE  TypeOK'
<1> DEFINE E == RoundDecisions(b)
           rest == Open(b) \ Closing(b)
<1>1. PICK r0 : r0 \in Closing(b)
  BY RoundFacts
<1>2. r0 \in seen /\ position \in Nat
  BY <1>1, ClosingIsOpen, StreamConfigAssumption DEF TypeOK
<1>3. rest \in SUBSET Records /\ rest \subseteq seen /\ Closing(b) \subseteq seen
  BY ClosingIsOpen DEF TypeOK
<1>4. ASSUME NEW r \in DOMAIN E
      PROVE  r \in seen /\ Shape(E[r], r, seen, position)
  <2>1. CASE r \in Closing(b)
    <3>1. E[r] = Emit(r, ContentOf(current[r]), RoundFinality(b, r), position)
      BY <2>1 DEF RoundDecisions
    <3>2. ContentOf(current[r]).type \in {MATCH, BREAK} /\ ContentOf(current[r]).inputs \subseteq seen
      BY <1>3, <2>1 DEF TypeOK, ContentOf, Content
    <3>3. RoundFinality(b, r) \in Finalities
      BY DEF RoundFinality, Finalities
    <3> QED
      BY <1>2, <1>3, <2>1, <3>1, <3>2, <3>3, EmitShape
  <2>2. CASE r \notin Closing(b)
    <3>1. r \in DOMAIN Revisions(rest, position) /\ E[r] = Revisions(rest, position)[r]
      BY <2>2 DEF RoundDecisions
    <3> QED
      BY <1>2, <1>3, <3>1, RevisionsFacts, RevisionsShape
  <2> QED
    BY <2>1, <2>2
<1>5. /\ Publish(E) /\ pool' \subseteq pool
      /\ UNCHANGED <<seen, latest, progress, duplicates, position, settling, refused>>
  BY RoundFacts
<1>6. /\ DOMAIN current' = seen'
      /\ \A x \in seen' : current'[x] \in decisions' /\ Shape(current'[x], x, seen', position)
  BY <1>2, <1>4, <1>5, PublishTyped
<1> QED
  BY <1>5, <1>6 DEF TypeOK, Shape

LEMMA NextType == TypeOK /\ [Next]_vars => TypeOK'
<1> SUFFICES ASSUME TypeOK, [Next]_vars
             PROVE  TypeOK'
  OBVIOUS
<1>1. ASSUME NEW r \in Records, Redeliver(r)
      PROVE  TypeOK'
  BY <1>1, StreamConfigAssumption DEF TypeOK, Redeliver
<1>2. ASSUME NEW r \in Records, Refuse(r)
      PROVE  TypeOK'
  BY <1>2 DEF TypeOK, Refuse
<1>3. ASSUME NEW b \in settling, SettleDone(b)
      PROVE  TypeOK'
  BY <1>3 DEF TypeOK, SettleDone
<1>4. CASE UNCHANGED vars
  BY <1>4 DEF TypeOK, vars
<1> QED
  BY <1>1, <1>2, <1>3, <1>4, ArriveType, ProgressType, SettleRoundType DEF Next, Settle

(* Every state of a replay is well typed: in particular every record that  *)
(* was delivered has a current decision, kept in the history.              *)
THEOREM TypeCorrect == Spec => []TypeOK
<1>1. Init => TypeOK
  BY InitType
<1>2. TypeOK /\ [Next]_vars => TypeOK'
  BY NextType
<1> QED
  BY <1>1, <1>2, PTL DEF Spec

-----------------------------------------------------------------------------
(* Open records are up to date, and matches are whole. *)

LEMMA ProposalWhole ==
  ASSUME NEW O \in SUBSET Records, NEW r \in O, Proposals[O][r].type = MATCH,
         NEW x \in Proposals[O][r].inputs
  PROVE  /\ x \in O
         /\ Proposals[O][x].type = MATCH
         /\ Proposals[O][x].inputs = Proposals[O][r].inputs
         /\ Component[O][x] = Component[O][r]
<1>1. PICK m \in Mine(O, r) : TRUE
  BY ProposalFacts
<1>2. Proposals[O][r].inputs = Inputs(m)
  BY ProposalFacts
<1>3. x \in O /\ Mine(O, x) = Mine(O, r)
  <2>1. x \in Inputs(m)
    BY <1>2
  <2> QED
    BY <1>1, <2>1, MineFacts
<1>4. m \in Mine(O, x)
  BY <1>3
<1>5. Proposals[O][x].type = MATCH /\ Proposals[O][x].inputs = Inputs(m)
  BY <1>3, <1>4, ProposalFacts
<1> QED
  BY <1>2, <1>3, <1>5, MatchInComponent

(* What publishing the revisions of O leaves as the decisions of O. *)
LEMMA Revised ==
  ASSUME NEW O \in SUBSET Records, NEW p, NEW E, Publish(E),
         \A r \in O : r \in DOMAIN current => current[r].finality = PROVISIONAL,
         DOMAIN E \cap O = DOMAIN Revisions(O, p),
         \A r \in DOMAIN Revisions(O, p) : E[r] = Revisions(O, p)[r]
  PROVE  \A r \in O : /\ r \in DOMAIN current'
                      /\ ContentOf(current'[r]) = Proposals[O][r]
                      /\ current'[r].finality = PROVISIONAL
<1> TAKE r \in O
<1>1. CASE r \in DOMAIN Revisions(O, p)
  <2>1. current'[r] = Emit(r, Proposals[O][r], PROVISIONAL, p) /\ r \in DOMAIN current'
    BY <1>1, RevisionsFacts DEF Publish
  <2>2. Proposals[O][r] = Content(Proposals[O][r].type, Proposals[O][r].inputs,
                                  Proposals[O][r].reason)
    BY ProposalFacts
  <2> QED
    BY <2>1, <2>2, EmitFacts
<1>2. CASE r \notin DOMAIN Revisions(O, p)
  <2>1. r \in DOMAIN current /\ ContentOf(current[r]) = Proposals[O][r]
    BY <1>2, RevisionsFacts
  <2>2. current'[r] = current[r] /\ r \in DOMAIN current'
    BY <1>2, <2>1 DEF Publish
  <2> QED
    BY <2>1, <2>2
<1> QED
  BY <1>1, <1>2

LEMMA OpenIsProvisional ==
  ASSUME TypeOK, OpenIsUpToDate
  PROVE  /\ \A x \in pool : x \in seen /\ x \in Records /\ current[x].finality = PROVISIONAL
         /\ \A b : Open(b) \in SUBSET Records
         /\ \A b : \A x \in Open(b) : /\ x \in pool /\ blocking_key(x) = b
                                      /\ ContentOf(current[x]) = Proposals[Open(b)][x]
BY DEF TypeOK, OpenIsUpToDate, IsFinal, Open

(* The arrival of an open record, seen from the records. *)
LEMMA ArriveOpenStep ==
  ASSUME TypeOK, OpenIsUpToDate, NEW r \in Records, Arrive(r), ArriveOpen(r),
         NEW b, b = blocking_key(r), NEW O, O = Open(b) \cup {r}
  PROVE  /\ O \in SUBSET Records /\ r \notin seen /\ pool' = pool \cup {r}
         /\ seen' = seen \cup {r}
         /\ \A x \in O : /\ ContentOf(current'[x]) = Proposals[O][x]
                         /\ current'[x].finality = PROVISIONAL
         /\ \A x \in seen \ O : current'[x] = current[x]
<1>1. O \in SUBSET Records /\ r \notin seen /\ pool' = pool \cup {r} /\ seen' = seen \cup {r}
  BY DEF TypeOK, Arrive, ArriveOpen, KeySeen, Open
<1>2. Publish(Revisions(O, position + 1))
  BY DEF ArriveOpen
<1>3. \A x \in O : x \in DOMAIN current => current[x].finality = PROVISIONAL
  BY <1>1, OpenIsProvisional DEF TypeOK, Open
<1>4. DOMAIN Revisions(O, position + 1) \cap O = DOMAIN Revisions(O, position + 1)
  BY <1>1, RevisionsFacts
<1>5. \A x \in O : /\ ContentOf(current'[x]) = Proposals[O][x]
                   /\ current'[x].finality = PROVISIONAL
  BY <1>1, <1>2, <1>3, <1>4, Revised
<1>6. \A x \in seen \ O : current'[x] = current[x]
  BY <1>1, <1>2, RevisionsFacts DEF Publish, TypeOK
<1> QED
  BY <1>1, <1>5, <1>6

(* A record turned away on arrival, seen from the records. *)
LEMMA ArriveFinalStep ==
  ASSUME TypeOK, NEW r \in Records, Arrive(r), NEW reason, ArriveFinal(r, reason)
  PROVE  /\ r \notin seen /\ pool' = pool /\ seen' = seen \cup {r}
         /\ current'[r].finality = FINAL
         /\ current'[r].type = BREAK /\ current'[r].inputs = {r}
         /\ current'[r].reason = {reason}
         /\ \A x \in seen : current'[x] = current[x]
<1>1. r \notin seen /\ pool' = pool /\ seen' = seen \cup {r}
  BY DEF Arrive, ArriveFinal, KeySeen
<1>2. current'[r] = Emit(r, Break(r, {reason}), FINAL, position + 1)
  BY DEF ArriveFinal
<1>3. /\ Break(r, {reason}).type = BREAK /\ Break(r, {reason}).inputs = {r}
      /\ Break(r, {reason}).reason = {reason}
  BY DEF Break, Content
<1>4. \A x \in seen : current'[x] = current[x]
  BY <1>1 DEF ArriveFinal, TypeOK
<1>5. /\ current'[r].finality = FINAL
      /\ current'[r].type = Break(r, {reason}).type
      /\ current'[r].inputs = Break(r, {reason}).inputs
      /\ current'[r].reason = Break(r, {reason}).reason
  BY <1>2, EmitFacts
<1> QED
  BY <1>1, <1>3, <1>4, <1>5

(* One round of settling, seen from the records. *)
LEMMA RoundStep ==
  ASSUME TypeOK, OpenIsUpToDate, NEW b, SettleRound(b),
         NEW rest, rest = Open(b) \ Closing(b)
  PROVE  /\ rest \in SUBSET Records /\ seen' = seen /\ pool' = pool \ Closing(b)
         /\ \A x \in Closing(b) : /\ current'[x].type = current[x].type
                                  /\ current'[x].inputs = current[x].inputs
                                  /\ current'[x].reason = current[x].reason
                                  /\ current'[x].finality = RoundFinality(b, x)
                                  /\ IsFinal(x)'
         /\ \A x \in rest : /\ ContentOf(current'[x]) = Proposals[rest][x]
                            /\ current'[x].finality = PROVISIONAL
         /\ \A x \in seen \ Open(b) : current'[x] = current[x]
<1>1. rest \in SUBSET Records /\ seen' = seen /\ pool' = pool \ Closing(b)
  BY RoundFacts, OpenIsProvisional
<1>2. Publish(RoundDecisions(b))
  BY RoundFacts
<1>3. /\ DOMAIN RoundDecisions(b) = Closing(b) \cup DOMAIN Revisions(rest, position)
      /\ \A x \in Closing(b) :
           RoundDecisions(b)[x] = Emit(x, ContentOf(current[x]), RoundFinality(b, x), position)
      /\ \A x \in DOMAIN RoundDecisions(b) \ Closing(b) : RoundDecisions(b)[x] = Revisions(rest, position)[x]
  BY DEF RoundDecisions
<1>4. DOMAIN Revisions(rest, position) \subseteq rest
  BY <1>1, RevisionsFacts
<1>5. ASSUME NEW x \in Closing(b)
      PROVE  /\ current'[x].type = current[x].type
             /\ current'[x].inputs = current[x].inputs
             /\ current'[x].reason = current[x].reason
             /\ current'[x].finality = RoundFinality(b, x)
             /\ IsFinal(x)'
  <2>1. current'[x] = Emit(x, ContentOf(current[x]), RoundFinality(b, x), position)
    BY <1>2, <1>3 DEF Publish
  <2>2. /\ ContentOf(current[x]).type = current[x].type
        /\ ContentOf(current[x]).inputs = current[x].inputs
        /\ ContentOf(current[x]).reason = current[x].reason
    BY DEF ContentOf, Content
  <2>3. RoundFinality(b, x) # PROVISIONAL
    BY DEF RoundFinality, PROVISIONAL, FINAL, FORCED
  <2>4. x \in seen'
    BY <1>1, ClosingIsOpen DEF TypeOK
  <2> QED
    BY <2>1, <2>2, <2>3, <2>4, EmitFacts DEF IsFinal
<1>6. ASSUME NEW x \in rest
      PROVE  /\ ContentOf(current'[x]) = Proposals[rest][x]
             /\ current'[x].finality = PROVISIONAL
  <2>1. current[x].finality = PROVISIONAL /\ x \in DOMAIN current /\ x \notin Closing(b)
    BY OpenIsProvisional DEF TypeOK
  <2>2. CASE x \in DOMAIN Revisions(rest, position)
    <3>1. current'[x] = Revisions(rest, position)[x]
      BY <1>2, <1>3, <2>1, <2>2 DEF Publish
    <3>2. current'[x] = Emit(x, Proposals[rest][x], PROVISIONAL, position)
      BY <1>1, <2>2, <3>1, RevisionsFacts
    <3>3. Proposals[rest][x] = Content(Proposals[rest][x].type, Proposals[rest][x].inputs,
                                       Proposals[rest][x].reason)
      BY <1>1, ProposalFacts
    <3> QED
      BY <3>2, <3>3, EmitFacts
  <2>3. CASE x \notin DOMAIN Revisions(rest, position)
    <3>1. current'[x] = current[x]
      BY <1>2, <1>3, <2>1, <2>3 DEF Publish
    <3>2. ContentOf(current[x]) = Proposals[rest][x]
      BY <1>1, <2>3, RevisionsFacts
    <3> QED
      BY <2>1, <3>1, <3>2
  <2> QED
    BY <2>2, <2>3
<1>7. \A x \in seen \ Open(b) : current'[x] = current[x]
  BY <1>2, <1>3, <1>4, ClosingIsOpen DEF Publish, TypeOK
<1> QED
  BY <1>1, <1>5, <1>6, <1>7

LEMMA ArriveOpenUpToDate ==
  ASSUME TypeOK, OpenIsUpToDate, NEW r \in Records, Arrive(r), ArriveOpen(r)
  PROVE  OpenIsUpToDate'
<1> DEFINE b == blocking_key(r)
           O == Open(b) \cup {r}
<1> HIDE DEF b, O
<1>1. /\ O \in SUBSET Records /\ r \notin seen /\ pool' = pool \cup {r}
      /\ seen' = seen \cup {r}
      /\ \A x \in O : /\ ContentOf(current'[x]) = Proposals[O][x]
                      /\ current'[x].finality = PROVISIONAL
      /\ \A x \in seen \ O : current'[x] = current[x]
  BY ArriveOpenStep DEF b, O
<1>2. \A x \in pool : x \in seen /\ current[x].finality = PROVISIONAL
  BY OpenIsProvisional
<1>3. O = {x \in pool' : blocking_key(x) = b}
  BY <1>1 DEF O, b, Open
<1>4. ASSUME NEW x \in seen'
      PROVE  x \in pool' <=> ~ IsFinal(x)'
  <2>1. CASE x \in O
    BY <1>1, <1>3, <2>1 DEF IsFinal
  <2>2. CASE x \notin O
    <3>1. x \in seen /\ x # r /\ current'[x] = current[x]
      BY <1>1, <2>2 DEF O
    <3> QED
      BY <1>1, <3>1 DEF IsFinal, OpenIsUpToDate
  <2> QED
    BY <2>1, <2>2
<1>5. ASSUME NEW x \in pool'
      PROVE  ContentOf(current'[x]) = Proposals[Open(blocking_key(x))'][x]
  <2>1. CASE blocking_key(x) = b
    <3>1. Open(blocking_key(x))' = O /\ x \in O
      BY <1>3, <2>1 DEF Open
    <3> QED
      BY <1>1, <3>1
  <2>2. CASE blocking_key(x) # b
    <3>1. x \in pool /\ x \in seen \ O
      BY <1>1, <1>2, <1>3, <2>2 DEF b
    <3>2. Open(blocking_key(x))' = Open(blocking_key(x))
      BY <1>1, <2>2 DEF Open, b
    <3> QED
      BY <1>1, <3>1, <3>2 DEF OpenIsUpToDate
  <2> QED
    BY <2>1, <2>2
<1> QED
  BY <1>4, <1>5 DEF OpenIsUpToDate, ContentOf

LEMMA ArriveFinalUpToDate ==
  ASSUME TypeOK, OpenIsUpToDate, NEW r \in Records, Arrive(r),
         NEW reason, ArriveFinal(r, reason)
  PROVE  OpenIsUpToDate'
<1>1. /\ r \notin seen /\ pool' = pool /\ seen' = seen \cup {r}
      /\ current'[r].finality = FINAL
      /\ \A x \in seen : current'[x] = current[x]
  BY ArriveFinalStep
<1>2. pool \subseteq seen /\ FINAL # PROVISIONAL
  BY DEF TypeOK, FINAL, PROVISIONAL
<1>3. ASSUME NEW x \in seen'
      PROVE  x \in pool' <=> ~ IsFinal(x)'
  BY <1>1, <1>2 DEF IsFinal, OpenIsUpToDate
<1>4. ASSUME NEW x \in pool'
      PROVE  ContentOf(current'[x]) = Proposals[Open(blocking_key(x))'][x]
  BY <1>1, <1>2 DEF OpenIsUpToDate, Open
<1> QED
  BY <1>3, <1>4 DEF OpenIsUpToDate, ContentOf

LEMMA RoundUpToDate ==
  ASSUME TypeOK, OpenIsUpToDate, NEW b, SettleRound(b)
  PROVE  OpenIsUpToDate'
<1> DEFINE rest == Open(b) \ Closing(b)
<1> HIDE DEF rest
<1>1. /\ seen' = seen /\ pool' = pool \ Closing(b)
      /\ \A x \in Closing(b) : IsFinal(x)'
      /\ \A x \in rest : /\ ContentOf(current'[x]) = Proposals[rest][x]
                         /\ current'[x].finality = PROVISIONAL
      /\ \A x \in seen \ Open(b) : current'[x] = current[x]
  BY RoundStep DEF rest
<1>2. pool \subseteq seen /\ Closing(b) \subseteq Open(b) /\ Open(b) \subseteq pool
  BY ClosingIsOpen DEF TypeOK
<1>3. ASSUME NEW x \in seen'
      PROVE  x \in pool' <=> ~ IsFinal(x)'
  <2>1. CASE x \in Closing(b)
    BY <1>1, <2>1
  <2>2. CASE x \in rest
    BY <1>1, <1>2, <2>2 DEF rest, IsFinal
  <2>3. CASE x \notin Open(b)
    BY <1>1, <1>2, <2>3 DEF OpenIsUpToDate, IsFinal
  <2> QED
    BY <2>1, <2>2, <2>3 DEF rest
<1>4. ASSUME NEW x \in pool'
      PROVE  ContentOf(current'[x]) = Proposals[Open(blocking_key(x))'][x]
  <2>1. CASE blocking_key(x) = b
    <3>1. x \in rest /\ Open(blocking_key(x))' = rest
      BY <1>1, <1>2, <2>1 DEF rest, Open
    <3> QED
      BY <1>1, <3>1
  <2>2. CASE blocking_key(x) # b
    <3>1. x \in seen \ Open(b) /\ x \in pool
      BY <1>1, <1>2, <2>2 DEF Open
    <3>2. Open(blocking_key(x))' = Open(blocking_key(x))
      BY <1>1, <1>2, <2>2 DEF Open
    <3> QED
      BY <1>1, <3>1, <3>2 DEF OpenIsUpToDate
  <2> QED
    BY <2>1, <2>2
<1> QED
  BY <1>3, <1>4 DEF OpenIsUpToDate, ContentOf

LEMMA NextUpToDate == TypeOK /\ OpenIsUpToDate /\ [Next]_vars => OpenIsUpToDate'
<1> SUFFICES ASSUME TypeOK, OpenIsUpToDate, [Next]_vars
             PROVE  OpenIsUpToDate'
  OBVIOUS
<1>1. ASSUME UNCHANGED <<seen, pool, current>>
      PROVE  OpenIsUpToDate'
  BY <1>1 DEF OpenIsUpToDate, IsFinal, Open, ContentOf
<1>2. ASSUME NEW r \in Records, Arrive(r)
      PROVE  OpenIsUpToDate'
  BY <1>2, ArriveOpenUpToDate, ArriveFinalUpToDate DEF Arrive
<1>3. ASSUME NEW b \in settling, SettleRound(b)
      PROVE  OpenIsUpToDate'
  BY <1>3, RoundUpToDate
<1>4. ASSUME NEW r \in Records, Redeliver(r) \/ Refuse(r)
      PROVE  OpenIsUpToDate'
  BY <1>1, <1>4 DEF Redeliver, Refuse
<1>5. ASSUME NEW side \in SIDES, NEW until \in Days, Progress(side, until)
      PROVE  OpenIsUpToDate'
  BY <1>1, <1>5 DEF Progress
<1>6. ASSUME NEW b \in settling, SettleDone(b)
      PROVE  OpenIsUpToDate'
  BY <1>1, <1>6 DEF SettleDone
<1>7. CASE UNCHANGED vars
  BY <1>1, <1>7 DEF vars
<1> QED
  BY <1>2, <1>3, <1>4, <1>5, <1>6, <1>7 DEF Next, Settle

(* Whatever the journal, an open record's decision is what the engine says *)
(* of the records open now, and a record is open until its final decision. *)
THEOREM OpenDecisionsUpToDate == Spec => []OpenIsUpToDate
<1>1. Init => TypeOK /\ OpenIsUpToDate
  BY InitType DEF Init, OpenIsUpToDate
<1>2. TypeOK /\ OpenIsUpToDate /\ [Next]_vars => TypeOK' /\ OpenIsUpToDate'
  BY NextType, NextUpToDate
<1> QED
  BY <1>1, <1>2, PTL DEF Spec

-----------------------------------------------------------------------------
(* Final decisions are forever, and matches are whole. *)

LEMMA NextForever ==
  TypeOK /\ OpenIsUpToDate /\ Next =>
    /\ \A r \in Records : IsFinal(r) => IsFinal(r)' /\ current'[r] = current[r]
    /\ decisions \subseteq decisions'
<1> SUFFICES ASSUME TypeOK, OpenIsUpToDate, Next
             PROVE  /\ \A r \in Records : IsFinal(r) => IsFinal(r)' /\ current'[r] = current[r]
                    /\ decisions \subseteq decisions'
  OBVIOUS
<1>1. ASSUME NEW x, IsFinal(x)
      PROVE  x \in seen /\ x \notin pool /\ \A b : x \notin Open(b)
  BY <1>1 DEF OpenIsUpToDate, IsFinal, Open
<1>2. ASSUME seen \subseteq seen', decisions \subseteq decisions',
             \A x : IsFinal(x) => current'[x] = current[x]
      PROVE  /\ \A r \in Records : IsFinal(r) => IsFinal(r)' /\ current'[r] = current[r]
             /\ decisions \subseteq decisions'
  BY <1>2 DEF IsFinal
<1>3. ASSUME NEW r \in Records, Arrive(r), ArriveOpen(r)
      PROVE  seen \subseteq seen' /\ decisions \subseteq decisions'
             /\ \A x : IsFinal(x) => current'[x] = current[x]
  <2>1. /\ seen' = seen \cup {r} /\ r \notin seen
        /\ \A x \in seen \ (Open(blocking_key(r)) \cup {r}) : current'[x] = current[x]
    BY <1>3, ArriveOpenStep
  <2>2. decisions \subseteq decisions'
    BY <1>3 DEF ArriveOpen, Publish
  <2> QED
    BY <1>1, <2>1, <2>2
<1>4. ASSUME NEW r \in Records, Arrive(r), NEW reason, ArriveFinal(r, reason)
      PROVE  seen \subseteq seen' /\ decisions \subseteq decisions'
             /\ \A x : IsFinal(x) => current'[x] = current[x]
  BY <1>4, <1>1, ArriveFinalStep DEF ArriveFinal
<1>5. ASSUME NEW b, SettleRound(b)
      PROVE  seen \subseteq seen' /\ decisions \subseteq decisions'
             /\ \A x : IsFinal(x) => current'[x] = current[x]
  <2>1. seen' = seen /\ \A x \in seen \ Open(b) : current'[x] = current[x]
    BY <1>5, RoundStep
  <2>2. decisions \subseteq decisions'
    BY <1>5, RoundFacts DEF Publish
  <2> QED
    BY <1>1, <2>1, <2>2
<1>6. ASSUME UNCHANGED <<seen, current, decisions>>
      PROVE  seen \subseteq seen' /\ decisions \subseteq decisions'
             /\ \A x : IsFinal(x) => current'[x] = current[x]
  BY <1>6
<1>7. ASSUME NEW r \in Records, Arrive(r)
      PROVE  ArriveOpen(r) \/ \E reason : ArriveFinal(r, reason)
  BY <1>7 DEF Arrive
<1>8. ASSUME NEW r \in Records, Redeliver(r) \/ Refuse(r)
      PROVE  UNCHANGED <<seen, current, decisions>>
  BY <1>8 DEF Redeliver, Refuse
<1>9. ASSUME NEW side \in SIDES, NEW until \in Days, Progress(side, until)
      PROVE  UNCHANGED <<seen, current, decisions>>
  BY <1>9 DEF Progress
<1>10. ASSUME NEW b, SettleDone(b)
       PROVE  UNCHANGED <<seen, current, decisions>>
  BY <1>10 DEF SettleDone
<1> QED
  BY <1>2, <1>3, <1>4, <1>5, <1>6, <1>7, <1>8, <1>9, <1>10 DEF Next, Settle

(* No journal, however long, changes a final decision or loses one from    *)
(* the history (stream.py, "a late arrival never rewrites an earlier       *)
(* decision").                                                             *)
THEOREM FinalDecisionsForever == Spec => FinalIsForever
<1>1. Init => TypeOK /\ OpenIsUpToDate
  BY InitType DEF Init, OpenIsUpToDate
<1>2. TypeOK /\ OpenIsUpToDate /\ [Next]_vars => TypeOK' /\ OpenIsUpToDate'
  BY NextType, NextUpToDate
<1>3. TypeOK /\ OpenIsUpToDate /\ [Next]_vars =>
        [/\ \A r \in Records : IsFinal(r) => IsFinal(r)' /\ current'[r] = current[r]
         /\ decisions \subseteq decisions']_vars
  BY NextForever
<1> QED
  BY <1>1, <1>2, <1>3, PTL DEF Spec, FinalIsForever

(* The decisions cur about the records S agree on the match of r. *)
WholeAt(cur, S, r) ==
  cur[r].type = MATCH =>
    /\ r \in cur[r].inputs
    /\ cur[r].inputs \subseteq S
    /\ \A x \in cur[r].inputs : /\ cur[x].type = MATCH
                                /\ cur[x].inputs = cur[r].inputs
                                /\ cur[x].finality = cur[r].finality

MatchesWhole == \A r \in seen : WholeAt(current, seen, r)

LEMMA ContentFields ==
  ASSUME NEW d, NEW c, ContentOf(d) = c
  PROVE  d.type = c.type /\ d.inputs = c.inputs /\ d.reason = c.reason
BY DEF ContentOf, Content

(* Open records point to open records, closed ones to closed ones. *)
LEMMA OpenInputsOpen ==
  ASSUME TypeOK, OpenIsUpToDate, MatchesWhole, NEW b
  PROVE  /\ \A x \in Open(b) : x \in current[x].inputs /\ current[x].inputs \subseteq Open(b)
         /\ \A x \in seen \ Open(b) :
              current[x].type = MATCH => current[x].inputs \cap Open(b) = {}
<1>1. ASSUME NEW x \in Open(b)
      PROVE  x \in current[x].inputs /\ current[x].inputs \subseteq Open(b)
  <2>1. Open(b) \in SUBSET Records /\ ContentOf(current[x]) = Proposals[Open(b)][x]
    BY OpenIsProvisional
  <2>2. current[x].inputs = Proposals[Open(b)][x].inputs
    BY <2>1, ContentFields
  <2> QED
    BY <2>1, <2>2, ProposalFacts
<1>2. ASSUME NEW x \in seen \ Open(b), current[x].type = MATCH,
             NEW y \in current[x].inputs, y \in Open(b)
      PROVE  FALSE
  <2>1. x \in current[x].inputs /\ current[y].inputs = current[x].inputs
    BY <1>2 DEF MatchesWhole, WholeAt
  <2> QED
    BY <1>1, <1>2, <2>1
<1> QED
  BY <1>1, <1>2

(* Records that carry the engine's proposals carry whole matches. *)
LEMMA ProposedIsWhole ==
  ASSUME NEW O \in SUBSET Records, NEW r \in O, NEW cur, NEW S, O \subseteq S,
         \A x \in O : /\ ContentOf(cur[x]) = Proposals[O][x]
                      /\ cur[x].finality = PROVISIONAL
  PROVE  WholeAt(cur, S, r)
<1> SUFFICES ASSUME cur[r].type = MATCH
             PROVE  /\ r \in cur[r].inputs
                    /\ cur[r].inputs \subseteq S
                    /\ \A x \in cur[r].inputs : /\ cur[x].type = MATCH
                                                /\ cur[x].inputs = cur[r].inputs
                                                /\ cur[x].finality = cur[r].finality
  BY DEF WholeAt
<1>1. \A x \in O : /\ cur[x].type = Proposals[O][x].type
                   /\ cur[x].inputs = Proposals[O][x].inputs
  BY ContentFields
<1>2. r \in cur[r].inputs /\ cur[r].inputs \subseteq O
  BY <1>1, ProposalFacts
<1>3. ASSUME NEW x \in cur[r].inputs
      PROVE  /\ cur[x].type = MATCH
             /\ cur[x].inputs = cur[r].inputs
             /\ cur[x].finality = cur[r].finality
  <2>1. /\ Proposals[O][r].type = MATCH /\ x \in Proposals[O][r].inputs /\ x \in O
    BY <1>1, <1>2, <1>3
  <2>2. /\ Proposals[O][x].type = MATCH
        /\ Proposals[O][x].inputs = Proposals[O][r].inputs
    BY <2>1, ProposalWhole
  <2> QED
    BY <1>1, <2>1, <2>2
<1> QED
  BY <1>2, <1>3

(* A match whose decisions a step leaves alone stays whole. *)
LEMMA KeptIsWhole ==
  ASSUME NEW cur, NEW S, NEW nxt, NEW T, S \subseteq T, NEW r, WholeAt(cur, S, r),
         nxt[r] = cur[r],
         cur[r].type = MATCH => \A x \in cur[r].inputs : nxt[x] = cur[x]
  PROVE  WholeAt(nxt, T, r)
BY DEF WholeAt

LEMMA ArriveOpenWhole ==
  ASSUME TypeOK, OpenIsUpToDate, MatchesWhole, NEW r \in Records, Arrive(r), ArriveOpen(r)
  PROVE  MatchesWhole'
<1> DEFINE b == blocking_key(r)
           O == Open(b) \cup {r}
<1> HIDE DEF b, O
<1>1. /\ O \in SUBSET Records /\ r \notin seen
      /\ seen' = seen \cup {r}
      /\ \A x \in O : /\ ContentOf(current'[x]) = Proposals[O][x]
                      /\ current'[x].finality = PROVISIONAL
      /\ \A x \in seen \ O : current'[x] = current[x]
  BY ArriveOpenStep DEF b, O
<1>2. O \subseteq seen'
  BY <1>1 DEF O, Open, TypeOK
<1>3. ASSUME NEW x \in O
      PROVE  WholeAt(current', seen', x)
  BY <1>1, <1>2, ProposedIsWhole
<1>4. ASSUME NEW x \in seen' \ O
      PROVE  WholeAt(current', seen', x)
  <2>1. x \in seen \ Open(b)
    BY <1>1 DEF O
  <2>2. current[x].type = MATCH => current[x].inputs \subseteq seen \ Open(b)
    BY <2>1, OpenInputsOpen DEF MatchesWhole, WholeAt
  <2>3. seen \ Open(b) \subseteq seen \ O
    BY <1>1 DEF O
  <2> QED
    BY <1>1, <2>1, <2>2, <2>3, KeptIsWhole DEF MatchesWhole
<1> QED
  BY <1>3, <1>4 DEF MatchesWhole, WholeAt

LEMMA ArriveFinalWhole ==
  ASSUME TypeOK, MatchesWhole, NEW r \in Records, Arrive(r),
         NEW reason, ArriveFinal(r, reason)
  PROVE  MatchesWhole'
<1>1. /\ r \notin seen /\ seen' = seen \cup {r}
      /\ current'[r].type = BREAK
      /\ \A x \in seen : current'[x] = current[x]
  BY ArriveFinalStep
<1>2. MATCH # BREAK
  BY DEF MATCH, BREAK
<1>3. ASSUME NEW x \in seen
      PROVE  WholeAt(current', seen', x)
  BY <1>1 DEF MatchesWhole, WholeAt
<1>4. WholeAt(current', seen', r)
  BY <1>1, <1>2 DEF WholeAt
<1> QED
  BY <1>1, <1>3, <1>4 DEF MatchesWhole, WholeAt

(* A match closes whole: its records share their inputs and component. *)
LEMMA MatchClosesWhole ==
  ASSUME TypeOK, OpenIsUpToDate, MatchesWhole, NEW b,
         NEW r \in Closing(b), current[r].type = MATCH, NEW x \in current[r].inputs
  PROVE  x \in Closing(b) /\ RoundFinality(b, x) = RoundFinality(b, r)
<1>1. /\ r \in Open(b) /\ Open(b) \in SUBSET Records /\ Open(b) \subseteq seen
      /\ ContentOf(current[r]) = Proposals[Open(b)][r]
  BY ClosingIsOpen, OpenIsProvisional DEF TypeOK
<1>2. Proposals[Open(b)][r].type = MATCH /\ x \in Proposals[Open(b)][r].inputs
  BY <1>1, ContentFields
<1>3. x \in Open(b) /\ Component[Open(b)][x] = Component[Open(b)][r]
  BY <1>1, <1>2, ProposalWhole
<1>4. current[x].inputs = current[r].inputs
  BY <1>1 DEF MatchesWhole, WholeAt
<1>5. x \in ClosedNow(b) <=> r \in ClosedNow(b)
  BY <1>1, <1>3 DEF ClosedNow
<1>6. x \in ForcedNow(b) <=> r \in ForcedNow(b)
  BY <1>1, <1>3, <1>4, <1>5 DEF ForcedNow
<1> QED
  BY <1>5, <1>6 DEF Closing, RoundFinality

LEMMA RoundWhole ==
  ASSUME TypeOK, OpenIsUpToDate, MatchesWhole, NEW b, SettleRound(b)
  PROVE  MatchesWhole'
<1> DEFINE rest == Open(b) \ Closing(b)
<1> HIDE DEF rest
<1>1. /\ rest \in SUBSET Records /\ seen' = seen
      /\ \A x \in Closing(b) : /\ current'[x].type = current[x].type
                               /\ current'[x].inputs = current[x].inputs
                               /\ current'[x].finality = RoundFinality(b, x)
      /\ \A x \in rest : /\ ContentOf(current'[x]) = Proposals[rest][x]
                         /\ current'[x].finality = PROVISIONAL
      /\ \A x \in seen \ Open(b) : current'[x] = current[x]
  BY RoundStep DEF rest
<1>2. Closing(b) \subseteq seen /\ rest \subseteq seen
  BY ClosingIsOpen DEF TypeOK, rest
<1>3. ASSUME NEW x \in Closing(b)
      PROVE  WholeAt(current', seen', x)
  <2> SUFFICES ASSUME current[x].type = MATCH
               PROVE  WholeAt(current', seen', x)
    BY <1>1 DEF WholeAt
  <2>1. \A y \in current[x].inputs : y \in Closing(b) /\ RoundFinality(b, y) = RoundFinality(b, x)
    BY MatchClosesWhole
  <2>2. WholeAt(current, seen, x)
    BY <1>2 DEF MatchesWhole
  <2> QED
    BY <1>1, <2>1, <2>2 DEF WholeAt
<1>4. ASSUME NEW x \in rest
      PROVE  WholeAt(current', seen', x)
  BY <1>1, <1>2, ProposedIsWhole
<1>5. ASSUME NEW x \in seen \ Open(b)
      PROVE  WholeAt(current', seen', x)
  <2>1. current[x].type = MATCH => current[x].inputs \subseteq seen \ Open(b)
    BY OpenInputsOpen DEF MatchesWhole, WholeAt
  <2> QED
    BY <1>1, <2>1, KeptIsWhole DEF MatchesWhole
<1> QED
  BY <1>1, <1>3, <1>4, <1>5 DEF MatchesWhole, WholeAt, rest

(* The inductive invariant of the refinement. *)
StreamInv == TypeOK /\ OpenIsUpToDate /\ MatchesWhole

LEMMA InitInv == Init => StreamInv
BY InitType DEF Init, StreamInv, OpenIsUpToDate, MatchesWhole

LEMMA NextInv == StreamInv /\ [Next]_vars => StreamInv'
<1> SUFFICES ASSUME TypeOK, OpenIsUpToDate, MatchesWhole, [Next]_vars
             PROVE  MatchesWhole'
  BY NextType, NextUpToDate DEF StreamInv
<1>1. ASSUME UNCHANGED <<seen, current>>
      PROVE  MatchesWhole'
  BY <1>1 DEF MatchesWhole, WholeAt
<1>2. ASSUME NEW r \in Records, Arrive(r)
      PROVE  MatchesWhole'
  BY <1>2, ArriveOpenWhole, ArriveFinalWhole DEF Arrive
<1>3. ASSUME NEW b \in settling, SettleRound(b)
      PROVE  MatchesWhole'
  BY <1>3, RoundWhole
<1>4. ASSUME NEW r \in Records, Redeliver(r) \/ Refuse(r)
      PROVE  MatchesWhole'
  BY <1>1, <1>4 DEF Redeliver, Refuse
<1>5. ASSUME NEW side \in SIDES, NEW until \in Days, Progress(side, until)
      PROVE  MatchesWhole'
  BY <1>1, <1>5 DEF Progress
<1>6. ASSUME NEW b \in settling, SettleDone(b)
      PROVE  MatchesWhole'
  BY <1>1, <1>6 DEF SettleDone
<1>7. CASE UNCHANGED vars
  BY <1>1, <1>7 DEF vars
<1> QED
  BY <1>2, <1>3, <1>4, <1>5, <1>6, <1>7 DEF Next, Settle

-----------------------------------------------------------------------------
(* The stream implements the ledger. *)

LEMMA BookWhole ==
  ASSUME TypeOK, MatchesWhole
  PROVE  Book!Whole(current)
BY DEF TypeOK, MatchesWhole, WholeAt, Book!Whole, MATCH

LEMMA BookWholeNext == (TypeOK /\ MatchesWhole)' => Book!Whole(current')
BY DEF TypeOK, MatchesWhole, WholeAt, Book!Whole, MATCH

LEMMA OpenEntries ==
  ASSUME TypeOK, OpenIsUpToDate, NEW x \in seen
  PROVE  Book!Open(x) <=> x \in pool
BY DEF Book!Open, OpenIsUpToDate, IsFinal, PROVISIONAL

LEMMA ArriveOpenEnters ==
  ASSUME StreamInv, StreamInv', NEW r \in Records, Arrive(r), ArriveOpen(r)
  PROVE  Book!Enter(r)
<1> DEFINE O == Open(blocking_key(r)) \cup {r}
<1> HIDE DEF O
<1>1. /\ r \notin seen /\ seen' = seen \cup {r} /\ pool' = pool \cup {r}
      /\ \A x \in seen \ O : current'[x] = current[x]
  BY ArriveOpenStep DEF O, StreamInv
<1>2. DOMAIN current = seen /\ DOMAIN current' = seen'
  BY DEF StreamInv, TypeOK
<1>3. \A x \in seen : Book!Open(x) <=> x \in pool
  BY OpenEntries DEF StreamInv
<1>4. \A x \in seen' : x \in pool' => Book!Open(x)'
  BY DEF StreamInv, OpenIsUpToDate, IsFinal, Book!Open, PROVISIONAL
<1>5. O \subseteq pool'
  BY <1>1 DEF O, Open
<1>6. Book!Kept({x \in Book!Entries : ~ Book!Open(x)})
  BY <1>1, <1>2, <1>3, <1>5 DEF Book!Kept, Book!Entries
<1>7. Book!Whole(current')
  BY BookWholeNext DEF StreamInv
<1>8. \A x \in DOMAIN current' : (x \notin Book!Entries \/ Book!Open(x)) => Book!Open(x)'
  BY <1>1, <1>2, <1>3, <1>4 DEF Book!Entries
<1> QED
  BY <1>1, <1>2, <1>6, <1>7, <1>8 DEF Book!Enter, Book!Entries

LEMMA ArriveFinalTurnsAway ==
  ASSUME StreamInv, StreamInv', NEW r \in Records, Arrive(r),
         NEW reason, ArriveFinal(r, reason)
  PROVE  Book!TurnAway(r)
<1>1. /\ r \notin seen /\ seen' = seen \cup {r}
      /\ current'[r].finality = FINAL
      /\ current'[r].type = BREAK /\ current'[r].inputs = {r}
      /\ \A x \in seen : current'[x] = current[x]
  BY ArriveFinalStep DEF StreamInv
<1>2. DOMAIN current = seen /\ DOMAIN current' = seen'
  BY DEF StreamInv, TypeOK
<1>3. ~ Book!Open(r)'
  BY <1>1 DEF Book!Open, FINAL
<1> QED
  BY <1>1, <1>2, <1>3 DEF Book!TurnAway, Book!Entries, Book!Kept, BREAK

LEMMA RoundCloses ==
  ASSUME StreamInv, StreamInv', NEW b, SettleRound(b)
  PROVE  Book!Close(Closing(b)) /\ Closing(b) \in SUBSET Book!Entries
<1>1. /\ seen' = seen /\ pool' = pool \ Closing(b)
      /\ \A x \in Closing(b) : /\ current'[x].type = current[x].type
                               /\ current'[x].inputs = current[x].inputs
                               /\ current'[x].reason = current[x].reason
                               /\ IsFinal(x)'
      /\ \A x \in seen \ Open(b) : current'[x] = current[x]
  BY RoundStep DEF StreamInv
<1>2. Closing(b) # {}
  BY RoundFacts
<1>3. Closing(b) \subseteq pool /\ Open(b) \subseteq pool /\ pool \subseteq seen
  BY ClosingIsOpen DEF StreamInv, TypeOK
<1>4. DOMAIN current = seen /\ DOMAIN current' = seen'
  BY DEF StreamInv, TypeOK
<1>5. \A x \in seen : Book!Open(x) <=> x \in pool
  BY OpenEntries DEF StreamInv
<1>6. \A x \in seen' : x \in pool' => Book!Open(x)'
  BY DEF StreamInv, OpenIsUpToDate, IsFinal, Book!Open, PROVISIONAL
<1>7. \A x \in Closing(b) : ~ Book!Open(x)' /\ Book!Says(current'[x]) = Book!Says(current[x])
  BY <1>1 DEF IsFinal, Book!Open, Book!Says, PROVISIONAL
<1>8. Book!Kept({x \in Book!Entries : ~ Book!Open(x)})
  BY <1>1, <1>3, <1>4, <1>5 DEF Book!Kept, Book!Entries
<1>9. \A x \in Book!Entries \ Closing(b) : Book!Open(x) => Book!Open(x)'
  BY <1>1, <1>4, <1>5, <1>6 DEF Book!Entries
<1>10. Book!Whole(current')
  BY BookWholeNext DEF StreamInv
<1> QED
  BY <1>1, <1>2, <1>3, <1>4, <1>5, <1>7, <1>8, <1>9, <1>10 DEF Book!Close, Book!Entries

LEMMA NextRefines == StreamInv /\ StreamInv' /\ [Next]_vars => [Book!Next]_current
<1> SUFFICES ASSUME StreamInv, StreamInv', [Next]_vars
             PROVE  Book!Next \/ UNCHANGED current
  OBVIOUS
<1>1. ASSUME NEW r \in Records, Arrive(r)
      PROVE  Book!Next
  <2>1. CASE ArriveOpen(r)
    BY <1>1, <2>1, ArriveOpenEnters DEF Book!Next
  <2>2. ASSUME NEW reason, ArriveFinal(r, reason)
        PROVE  Book!Next
    BY <1>1, <2>2, ArriveFinalTurnsAway DEF Book!Next
  <2> QED
    BY <1>1, <2>1, <2>2 DEF Arrive
<1>2. ASSUME NEW b \in settling, SettleRound(b)
      PROVE  Book!Next
  BY <1>2, RoundCloses DEF Book!Next
<1>3. ASSUME NEW r \in Records, Redeliver(r) \/ Refuse(r)
      PROVE  UNCHANGED current
  BY <1>3 DEF Redeliver, Refuse
<1>4. ASSUME NEW side \in SIDES, NEW until \in Days, Progress(side, until)
      PROVE  UNCHANGED current
  BY <1>4 DEF Progress
<1>5. ASSUME NEW b \in settling, SettleDone(b)
      PROVE  UNCHANGED current
  BY <1>5 DEF SettleDone
<1>6. CASE UNCHANGED vars
  BY <1>6 DEF vars
<1> QED
  BY <1>1, <1>2, <1>3, <1>4, <1>5, <1>6 DEF Next, Settle

(* The stream's effective state is a ledger, for every engine that keeps   *)
(* its contract: closed entries are frozen as they stood, and matches are  *)
(* written and closed in all their records at once.                        *)
THEOREM StreamImplementsLedger == Spec => ImplementsLedger
<1>1. Init => StreamInv
  BY InitInv
<1>2. StreamInv /\ [Next]_vars => StreamInv'
  BY NextInv
<1>3. Init => Book!Init
  BY DEF Init, Book!Init
<1>4. StreamInv /\ StreamInv' /\ [Next]_vars => [Book!Next]_current
  BY NextRefines
<1> QED
  BY <1>1, <1>2, <1>3, <1>4, PTL DEF Spec, ImplementsLedger, Book!Spec

-----------------------------------------------------------------------------
(* The history of decisions: one chain for each record *)

(* A business key has one content, whatever was delivered. *)
KeysAreUnique == \A x, y \in seen : BusinessKey(x) = BusinessKey(y) => x = y

(* The versions of a chain lead up to the current decision, ... *)
ChainsLeadToCurrent ==
  \A d \in decisions :
    /\ d.record \in seen
    /\ d.chain_version \in Nat
    /\ d.chain_version <= current[d.record].chain_version
    /\ d.finality # PROVISIONAL => d = current[d.record]

(* ... no version is there twice, ... *)
VersionsAreUnique ==
  \A d, e \in decisions :
    d.record = e.record /\ d.chain_version = e.chain_version => d = e

(* ... and each but the last is superseded, by a later one of its chain.   *)
SupersededOnce ==
  /\ \A d \in decisions : d = current[d.record] \/ Superseded(d)
  /\ \A e \in decisions : \A i \in e.supersedes :
       \E d \in decisions : /\ DecisionId(d) = i /\ d.record = e.record
                            /\ d.chain_version < e.chain_version

History == KeysAreUnique /\ ChainsLeadToCurrent /\ VersionsAreUnique /\ SupersededOnce

(* A step that makes one decision about each record of D. *)
Decides(D) ==
  /\ seen' = seen \cup D
  /\ decisions' = decisions \cup {current'[x] : x \in D}
  /\ \A x \in seen \ D : current'[x] = current[x]
  /\ \A x \in D :
       /\ current'[x].record = x
       /\ x \in seen => /\ current[x].finality = PROVISIONAL
                        /\ current'[x].chain_version = current[x].chain_version + 1
                        /\ current'[x].supersedes = {DecisionId(current[x])}
       /\ x \notin seen => current'[x].chain_version = 1 /\ current'[x].supersedes = {}

LEMMA DecidesHistory ==
  ASSUME TypeOK, History, NEW D, Decides(D), KeysAreUnique'
  PROVE  History'
<1>1. \A x \in seen : /\ current[x] \in decisions /\ current[x].record = x
                      /\ current[x].chain_version \in Nat \ {0}
  BY DEF TypeOK
<1>2. \A d \in decisions : /\ d.record \in seen /\ d.chain_version \in Nat
                           /\ d.chain_version <= current[d.record].chain_version
                           /\ d.finality # PROVISIONAL => d = current[d.record]
  BY DEF History, ChainsLeadToCurrent
<1>3. ASSUME NEW d \in decisions
      PROVE  /\ d.record \in seen'
             /\ d.chain_version \in Nat
             /\ d.record \in D => d.chain_version < current'[d.record].chain_version
             /\ d.record \notin D => /\ current'[d.record] = current[d.record]
                                     /\ d.chain_version <= current'[d.record].chain_version
             /\ d.finality # PROVISIONAL => d = current[d.record] /\ d.record \notin D
  <2>1. /\ d.record \in seen /\ d.chain_version \in Nat
        /\ d.chain_version <= current[d.record].chain_version
        /\ current[d.record].chain_version \in Nat
    BY <1>1, <1>2
  <2>2. d.record \in D => /\ current'[d.record].chain_version = current[d.record].chain_version + 1
                          /\ current[d.record].finality = PROVISIONAL
    BY <2>1 DEF Decides
  <2>3. d.record \notin D => current'[d.record] = current[d.record]
    BY <2>1 DEF Decides
  <2>4. d.record \in seen'
    BY <2>1 DEF Decides
  <2> QED
    BY <1>2, <2>1, <2>2, <2>3, <2>4
<1>4. ASSUME NEW x \in D
      PROVE  /\ x \in seen' /\ current'[x].record = x /\ current'[x].chain_version \in Nat
  <2>1. x \in seen' /\ current'[x].record = x
    BY DEF Decides
  <2>2. CASE x \in seen
    <3>1. current'[x].chain_version = current[x].chain_version + 1
      BY <2>2 DEF Decides
    <3>2. current[x].chain_version \in Nat
      BY <1>1, <2>2
    <3> QED
      BY <2>1, <3>1, <3>2
  <2>3. CASE x \notin seen
    BY <2>1, <2>3 DEF Decides
  <2> QED
    BY <2>2, <2>3
<1>5. \A d \in decisions' : d \in decisions \/ (d.record \in D /\ d = current'[d.record])
  BY <1>4 DEF Decides
<1>6. ChainsLeadToCurrent'
  <2> SUFFICES ASSUME NEW d \in decisions'
               PROVE  /\ d.record \in seen' /\ d.chain_version \in Nat
                      /\ d.chain_version <= current'[d.record].chain_version
                      /\ d.finality # PROVISIONAL => d = current'[d.record]
    BY DEF ChainsLeadToCurrent
  <2>1. CASE d \in decisions
    <3>1. CASE d.record \in D
      <4>1. current'[d.record].chain_version \in Nat
        BY <1>4, <3>1
      <4> QED
        BY <1>3, <2>1, <3>1, <4>1
    <3>2. CASE d.record \notin D
      BY <1>3, <2>1, <3>2
    <3> QED
      BY <3>1, <3>2
  <2>2. CASE d.record \in D /\ d = current'[d.record]
    BY <1>4, <2>2
  <2> QED
    BY <1>5, <2>1, <2>2
<1>7. VersionsAreUnique'
  <2> SUFFICES ASSUME NEW d \in decisions', NEW e \in decisions',
                      d.record = e.record, d.chain_version = e.chain_version
               PROVE  d = e
    BY DEF VersionsAreUnique
  <2>1. CASE d \in decisions /\ e \in decisions
    BY <2>1 DEF History, VersionsAreUnique
  <2>2. CASE d \in decisions /\ e.record \in D /\ e = current'[e.record]
    <3>1. d.chain_version < e.chain_version /\ d.chain_version \in Nat
      BY <1>3, <2>2
    <3> QED
      BY <3>1
  <2>3. CASE e \in decisions /\ d.record \in D /\ d = current'[d.record]
    <3>1. e.chain_version < d.chain_version /\ e.chain_version \in Nat
      BY <1>3, <2>3
    <3> QED
      BY <3>1
  <2> QED
    BY <1>5, <2>1, <2>2, <2>3
<1>8. ASSUME NEW d \in decisions'
      PROVE  d = current'[d.record] \/ Superseded(d)'
  <2>1. CASE d \in decisions /\ d = current[d.record] /\ d.record \in D
    <3>1. /\ current'[d.record] \in decisions'
          /\ DecisionId(d) \in current'[d.record].supersedes
      BY <1>2, <2>1 DEF Decides
    <3> QED
      BY <3>1 DEF Superseded
  <2>2. CASE d \in decisions /\ d = current[d.record] /\ d.record \notin D
    BY <1>3, <2>2
  <2>3. CASE d \in decisions /\ Superseded(d)
    BY <2>3 DEF Superseded, Decides
  <2> QED
    BY <1>5, <2>1, <2>2, <2>3 DEF History, SupersededOnce
<1>9. ASSUME NEW e \in decisions', NEW i \in e.supersedes
      PROVE  \E d \in decisions' : /\ DecisionId(d) = i /\ d.record = e.record
                                   /\ d.chain_version < e.chain_version
  <2>1. CASE e \in decisions
    <3>1. \E d \in decisions : /\ DecisionId(d) = i /\ d.record = e.record
                               /\ d.chain_version < e.chain_version
      BY <2>1 DEF History, SupersededOnce
    <3> QED
      BY <3>1 DEF Decides
  <2>2. CASE e.record \in D /\ e = current'[e.record]
    <3> DEFINE x == e.record
    <3>1. x \in seen /\ i = DecisionId(current[x])
      BY <2>2 DEF Decides
    <3>2. /\ current[x] \in decisions' /\ current[x].record = e.record
          /\ current[x].chain_version < e.chain_version
      BY <1>1, <2>2, <3>1 DEF Decides
    <3> QED
      BY <3>1, <3>2
  <2> QED
    BY <1>5, <2>1, <2>2
<1>10. SupersededOnce'
  <2>1. \A d \in decisions' : d = current'[d.record] \/ Superseded(d)'
    BY <1>8
  <2>2. \A e \in decisions' : \A i \in e.supersedes :
          \E d \in decisions' : /\ DecisionId(d) = i /\ d.record = e.record
                                /\ d.chain_version < e.chain_version
    BY <1>9
  <2> QED
    BY <2>1, <2>2 DEF SupersededOnce
<1> QED
  BY <1>6, <1>7, <1>10 DEF History

LEMMA EmitChain ==
  ASSUME NEW r, NEW c, NEW finality, NEW pos
  PROVE  LET d == Emit(r, c, finality, pos)
         IN  /\ d.record = r
             /\ r \in DOMAIN current => /\ d.chain_version = current[r].chain_version + 1
                                        /\ d.supersedes = {DecisionId(current[r])}
             /\ r \notin DOMAIN current => d.chain_version = 1 /\ d.supersedes = {}
BY DEF Emit

(* A publication of emitted decisions, none about a final record. *)
LEMMA PublishDecides ==
  ASSUME TypeOK, NEW E, Publish(E), seen' = seen \cup DOMAIN E,
         \A x \in DOMAIN E \cap seen : current[x].finality = PROVISIONAL,
         \A x \in DOMAIN E : \E c, finality, pos : E[x] = Emit(x, c, finality, pos)
  PROVE  Decides(DOMAIN E)
<1>1. DOMAIN current = seen
  BY DEF TypeOK
<1>2. \A x \in DOMAIN E : current'[x] = E[x]
  BY DEF Publish
<1>3. decisions' = decisions \cup {current'[x] : x \in DOMAIN E}
  BY <1>2 DEF Publish
<1>4. \A x \in seen \ DOMAIN E : current'[x] = current[x]
  BY <1>1 DEF Publish
<1>5. ASSUME NEW x \in DOMAIN E
      PROVE  /\ current'[x].record = x
             /\ x \in seen => /\ current[x].finality = PROVISIONAL
                              /\ current'[x].chain_version = current[x].chain_version + 1
                              /\ current'[x].supersedes = {DecisionId(current[x])}
             /\ x \notin seen => current'[x].chain_version = 1 /\ current'[x].supersedes = {}
  <2>1. PICK c, finality, pos : current'[x] = Emit(x, c, finality, pos)
    BY <1>2
  <2> QED
    BY <1>1, <2>1, EmitChain
<1> QED
  BY <1>3, <1>4, <1>5 DEF Decides

LEMMA NextHistory == TypeOK /\ OpenIsUpToDate /\ History /\ [Next]_vars => History'
<1> SUFFICES ASSUME TypeOK, OpenIsUpToDate, History, [Next]_vars
             PROVE  History'
  OBVIOUS
<1>1. ASSUME UNCHANGED <<seen, current, decisions>>
      PROVE  History'
  BY <1>1 DEF History, KeysAreUnique, ChainsLeadToCurrent, VersionsAreUnique, SupersededOnce, Superseded
<1>2. ASSUME NEW r \in Records, Arrive(r)
      PROVE  History'
  <2>1. r \notin seen /\ seen' = seen \cup {r} /\ \A x \in seen : BusinessKey(x) # BusinessKey(r)
    BY <1>2 DEF Arrive, KeySeen
  <2>2. KeysAreUnique'
    BY <2>1 DEF History, KeysAreUnique
  <2>3. ASSUME ArriveOpen(r) PROVE History'
    <3> DEFINE O == Open(blocking_key(r)) \cup {r}
               E == Revisions(O, position + 1)
    <3>1. O \in SUBSET Records
      BY OpenIsProvisional
    <3>2. /\ DOMAIN E \subseteq O /\ O \subseteq DOMAIN current \cup DOMAIN E
          /\ \A x \in DOMAIN E : E[x] = Emit(x, Proposals[O][x], PROVISIONAL, position + 1)
      <4> HIDE DEF O
      <4> QED
        BY <3>1, RevisionsFacts
    <3>3. Publish(E)
      BY <2>3 DEF ArriveOpen
    <3> HIDE DEF E
    <3>4. r \in DOMAIN E
      BY <2>1, <3>2 DEF TypeOK
    <3>5. /\ \A x \in DOMAIN E \cap seen : current[x].finality = PROVISIONAL
          /\ DOMAIN E \subseteq seen \cup {r}
      BY <2>1, <3>2, OpenIsProvisional, ClosingIsOpen
    <3>6. Decides(DOMAIN E)
      BY <2>1, <3>2, <3>3, <3>4, <3>5, PublishDecides
    <3> QED
      BY <2>2, <3>6, DecidesHistory
  <2>4. ASSUME NEW reason, ArriveFinal(r, reason) PROVE History'
    <3>1. current'[r] = Emit(r, Break(r, {reason}), FINAL, position + 1)
      BY <2>4 DEF ArriveFinal
    <3>2. decisions' = decisions \cup {current'[x] : x \in {r}}
      BY <2>4, <3>1 DEF ArriveFinal
    <3>3. \A x \in seen : current'[x] = current[x]
      BY <1>2, <2>4, ArriveFinalStep
    <3>4. current'[r].record = r /\ current'[r].chain_version = 1 /\ current'[r].supersedes = {}
      BY <2>1, <3>1, EmitChain DEF TypeOK
    <3>5. Decides({r})
      BY <2>1, <3>2, <3>3, <3>4 DEF Decides
    <3> QED
      BY <2>2, <3>5, DecidesHistory
  <2> QED
    BY <1>2, <2>3, <2>4 DEF Arrive
<1>3. ASSUME NEW b \in settling, SettleRound(b)
      PROVE  History'
  <2> DEFINE rest == Open(b) \ Closing(b)
             E == RoundDecisions(b)
  <2>1. seen' = seen /\ Publish(E)
    BY <1>3, RoundFacts
  <2>2. rest \in SUBSET Records
    BY OpenIsProvisional
  <2>3. /\ DOMAIN Revisions(rest, position) \subseteq rest
        /\ \A x \in DOMAIN Revisions(rest, position) :
             Revisions(rest, position)[x] = Emit(x, Proposals[rest][x], PROVISIONAL, position)
    <3> HIDE DEF rest
    <3> QED
      BY <2>2, RevisionsFacts
  <2>4. /\ DOMAIN E = Closing(b) \cup DOMAIN Revisions(rest, position)
        /\ \A x \in Closing(b) : E[x] = Emit(x, ContentOf(current[x]), RoundFinality(b, x), position)
        /\ \A x \in DOMAIN E \ Closing(b) : E[x] = Revisions(rest, position)[x]
    BY DEF RoundDecisions
  <2> HIDE DEF E
  <2>5. DOMAIN E \subseteq Open(b)
    BY <2>3, <2>4, ClosingIsOpen
  <2>6. \A x \in DOMAIN E : x \in seen /\ current[x].finality = PROVISIONAL
    BY <2>5, OpenIsProvisional
  <2>7. ASSUME NEW x \in DOMAIN E
        PROVE  \E c, finality, pos : E[x] = Emit(x, c, finality, pos)
    <3>1. CASE x \in Closing(b)
      BY <2>4, <3>1
    <3>2. CASE x \notin Closing(b)
      <4>1. E[x] = Emit(x, Proposals[rest][x], PROVISIONAL, position)
        BY <2>3, <2>4, <3>2
      <4> QED
        BY <4>1
    <3> QED
      BY <3>1, <3>2
  <2>8. seen' = seen \cup DOMAIN E
    BY <2>1, <2>6
  <2>9. Decides(DOMAIN E)
    BY <2>1, <2>6, <2>7, <2>8, PublishDecides
  <2>10. KeysAreUnique'
    BY <2>1 DEF History, KeysAreUnique
  <2> QED
    BY <2>9, <2>10, DecidesHistory
<1>4. ASSUME NEW r \in Records, Redeliver(r) \/ Refuse(r)
      PROVE  History'
  BY <1>1, <1>4 DEF Redeliver, Refuse
<1>5. ASSUME NEW side \in SIDES, NEW until \in Days, Progress(side, until)
      PROVE  History'
  BY <1>1, <1>5 DEF Progress
<1>6. ASSUME NEW b \in settling, SettleDone(b)
      PROVE  History'
  BY <1>1, <1>6 DEF SettleDone
<1>7. CASE UNCHANGED vars
  BY <1>1, <1>7 DEF vars
<1> QED
  BY <1>2, <1>3, <1>4, <1>5, <1>6, <1>7 DEF Next, Settle

(* Identifiers are unique because a final one is the last of its chain and *)
(* a provisional one carries its rank; so the only decision of a chain     *)
(* that nothing supersedes is the current one.                             *)
LEMMA HistoryIsEffective == TypeOK /\ History => OneEffectiveDecision
<1> SUFFICES ASSUME TypeOK, History PROVE OneEffectiveDecision
  OBVIOUS
<1>0. \A d \in decisions : /\ d.record \in seen /\ d.chain_version \in Nat
                           /\ d.chain_version <= current[d.record].chain_version
                           /\ d.finality # PROVISIONAL => d = current[d.record]
  BY DEF History, ChainsLeadToCurrent
<1>1. ASSUME NEW d \in decisions, NEW e \in decisions, DecisionId(d) = DecisionId(e)
      PROVE  d = e
  <2>1. /\ BusinessKey(d.record) = BusinessKey(e.record) /\ d.finality = e.finality
        /\ (IF d.finality = PROVISIONAL THEN d.chain_version ELSE 0)
             = (IF e.finality = PROVISIONAL THEN e.chain_version ELSE 0)
    BY <1>1 DEF DecisionId
  <2>2. d.record = e.record
    BY <1>0, <2>1 DEF History, KeysAreUnique
  <2>3. CASE d.finality = PROVISIONAL
    BY <2>1, <2>2, <2>3 DEF History, VersionsAreUnique
  <2>4. CASE d.finality # PROVISIONAL
    BY <1>0, <2>1, <2>2, <2>4
  <2> QED
    BY <2>3, <2>4
<1>2. ASSUME NEW r \in seen
      PROVE  {d \in decisions : d.record = r /\ ~ Superseded(d)} = {current[r]}
  <2>1. current[r] \in decisions /\ current[r].record = r /\ current[r].chain_version \in Nat
    BY DEF TypeOK
  <2>2. ~ Superseded(current[r])
    <3> SUFFICES ASSUME NEW e \in decisions, DecisionId(current[r]) \in e.supersedes
                 PROVE  FALSE
      BY DEF Superseded
    <3>1. PICK d \in decisions : /\ DecisionId(d) = DecisionId(current[r])
                                 /\ d.record = e.record /\ d.chain_version < e.chain_version
      BY DEF History, SupersededOnce
    <3>2. d = current[r]
      BY <1>1, <2>1, <3>1
    <3>3. e.chain_version <= current[r].chain_version /\ e.chain_version \in Nat
      BY <1>0, <2>1, <3>1, <3>2
    <3> QED
      BY <2>1, <3>1, <3>2, <3>3
  <2>3. \A d \in decisions : d.record = r /\ ~ Superseded(d) => d = current[r]
    BY DEF History, SupersededOnce
  <2> QED
    BY <2>1, <2>2, <2>3
<1> QED
  BY <1>1, <1>2 DEF OneEffectiveDecision

(* Of all the decisions ever made about a record, exactly one is not       *)
(* superseded, and it is the current one: effective states can be derived  *)
(* from identifiers alone, even when a content comes back.                 *)
THEOREM OneDecisionIsEffective == Spec => []OneEffectiveDecision
<1> DEFINE Inv == TypeOK /\ OpenIsUpToDate /\ History
<1>1. Init => Inv
  BY InitType DEF Init, OpenIsUpToDate, History, KeysAreUnique, ChainsLeadToCurrent,
                  VersionsAreUnique, SupersededOnce
<1>2. Inv /\ [Next]_vars => Inv'
  BY NextType, NextUpToDate, NextHistory
<1>3. Inv => OneEffectiveDecision
  BY HistoryIsEffective
<1> QED
  BY <1>1, <1>2, <1>3, PTL DEF Spec

-----------------------------------------------------------------------------
(* The watermark *)

LEMMA KnownTyped ==
  ASSUME TypeOK
  PROVE  \A b \in Blocks, s \in SIDES :
           /\ latest[b][s] \in Nat \cup {NoDate} /\ progress[s] \in Nat \cup {NoDate}
           /\ Known(b, s) \in Nat \cup {NoDate}
BY DEF TypeOK, Known, Greater

(* What a source is known to have reached, in a block, only grows. *)
LEMMA KnownGrows ==
  ASSUME TypeOK, [Next]_vars
  PROVE  \A b \in Blocks, s \in SIDES : Known(b, s)' >= Known(b, s)
<1> SUFFICES ASSUME NEW b \in Blocks, NEW s \in SIDES
             PROVE  Known(b, s)' >= Known(b, s)
  OBVIOUS
<1>1. latest[b][s] \in Int /\ progress[s] \in Int
  BY KnownTyped DEF NoDate
<1>2. ASSUME UNCHANGED <<latest, progress>>
      PROVE  Known(b, s)' >= Known(b, s)
  BY <1>1, <1>2 DEF Known, Greater
<1>3. ASSUME NEW r \in Records, Arrive(r)
      PROVE  Known(b, s)' >= Known(b, s)
  <2>1. CASE ArriveOpen(r)
    <3>1. r.value_date \in Int /\ latest \in [Blocks -> [SIDES -> Nat \cup {NoDate}]]
      BY RecordsAssumption DEF TypeOK
    <3>2. latest'[b][s] = latest[b][s] \/ latest'[b][s] = Greater(latest[b][s], r.value_date)
      BY <2>1, <3>1 DEF ArriveOpen
    <3>3. progress' = progress
      BY <1>3 DEF Arrive
    <3> QED
      BY <1>1, <3>1, <3>2, <3>3 DEF Known, Greater
  <2>2. CASE UNCHANGED <<latest, progress>>
    BY <1>2, <2>2
  <2> QED
    BY <1>3, <2>1, <2>2 DEF Arrive, ArriveFinal
<1>4. ASSUME NEW side \in SIDES, NEW until \in Days, Progress(side, until)
      PROVE  Known(b, s)' >= Known(b, s)
  <2>1. until \in Int /\ progress \in [SIDES -> Nat \cup {NoDate}]
    BY StreamConfigAssumption DEF TypeOK
  <2>2. progress'[s] = progress[s] \/ progress'[s] = Greater(progress[s], until)
    BY <1>4, <2>1 DEF Progress
  <2>3. latest' = latest
    BY <1>4 DEF Progress
  <2> QED
    BY <1>1, <2>1, <2>2, <2>3 DEF Known, Greater
<1>5. ASSUME NEW r \in Records, Redeliver(r) \/ Refuse(r)
      PROVE  UNCHANGED <<latest, progress>>
  BY <1>5 DEF Redeliver, Refuse
<1>6. ASSUME NEW c, SettleRound(c) \/ SettleDone(c)
      PROVE  UNCHANGED <<latest, progress>>
  BY <1>6 DEF SettleRound, SettleDone
<1>7. CASE UNCHANGED vars
  BY <1>2, <1>7 DEF vars
<1> QED
  BY <1>2, <1>3, <1>4, <1>5, <1>6, <1>7 DEF Next, Settle

LEMMA WatermarkStep ==
  ASSUME TypeOK, TypeOK', [Next]_vars, NEW b \in Blocks, HasWatermark(b)
  PROVE  /\ HasWatermark(b)' /\ Watermark(b)' >= Watermark(b)
         /\ Watermark(b) \in Int /\ Watermark(b)' \in Int
<1>1. LEFT \in SIDES /\ RIGHT \in SIDES
  BY DEF SIDES
<1>2. \A s \in SIDES : Known(b, s) \in Nat /\ Known(b, s)' \in Int /\ Known(b, s)' >= Known(b, s)
  <2>1. \A s \in SIDES : Known(b, s)' \in Int
    BY DEF TypeOK, Known, Greater, NoDate
  <2> QED
    BY <2>1, KnownTyped, KnownGrows DEF HasWatermark
<1>3. HasWatermark(b)'
  BY <1>2 DEF HasWatermark, NoDate
<1>4. LatenessDays \in Nat
  BY StreamConfigAssumption
<1> QED
  BY <1>1, <1>2, <1>3, <1>4 DEF Watermark, Lesser

(* T12, for every journal: a block's watermark never recedes nor vanishes. *)
THEOREM WatermarksAdvance == Spec => WatermarkNeverRecedes
<1>1. Init => TypeOK
  BY InitType
<1>2. TypeOK /\ [Next]_vars => TypeOK'
  BY NextType
<1>3. TypeOK /\ TypeOK' /\ [Next]_vars =>
        [\A b \in Blocks : HasWatermark(b) => HasWatermark(b)' /\ Watermark(b)' >= Watermark(b)]_vars
  BY WatermarkStep
<1> QED
  BY <1>1, <1>2, <1>3, PTL DEF Spec, WatermarkNeverRecedes

(* A day that a watermark has passed stays passed. *)
LEMMA PassedStays ==
  ASSUME TypeOK, TypeOK', [Next]_vars, NEW b \in Blocks, NEW day \in Int, Passed(b, day)
  PROVE  Passed(b, day)'
<1>1. HasWatermark(b) /\ day < Watermark(b)
  BY DEF Passed
<1>2. HasWatermark(b)' /\ Watermark(b)' >= Watermark(b) /\ Watermark(b) \in Int /\ Watermark(b)' \in Int
  BY <1>1, WatermarkStep
<1> QED
  BY <1>1, <1>2 DEF Passed

LEMMA HorizonFacts ==
  ASSUME NEW x \in Records
  PROVE  /\ Horizon(x) \in Int /\ x.value_date \in Int
         /\ Horizon(x) >= x.value_date + DateDays
         /\ x.reference # None => Horizon(x) = x.value_date + ReferenceDays
BY RecordsAssumption, StreamConfigAssumption, DateDaysAssumption DEF Horizon

(* A record that is not late lies after every horizon that has passed. *)
LEMMA NotLate ==
  ASSUME TypeOK, NEW r \in Records, ~ IsLate(r), NEW day \in Int,
         Passed(blocking_key(r), day)
  PROVE  r.value_date > day
<1>1. HasWatermark(blocking_key(r)) /\ day < Watermark(blocking_key(r))
  BY DEF Passed
<1>2. ~ (r.value_date < Watermark(blocking_key(r)))
  BY <1>1 DEF IsLate, Passed
<1>3. \A s \in SIDES : Known(blocking_key(r), s) \in Int
  BY KnownTyped, BlockOfRecord DEF NoDate
<1>4. Watermark(blocking_key(r)) \in Int
  BY <1>3, StreamConfigAssumption DEF Watermark, Lesser, SIDES
<1> QED
  BY <1>1, <1>2, <1>4, RecordsAssumption

-----------------------------------------------------------------------------
(* What a step does to the closed, forced and turned away records. *)

LEMMA ClosingPassed ==
  ASSUME StreamInv, NEW b, NEW x \in Closing(b)
  PROVE  Passed(b, Horizon(x)) /\ blocking_key(x) = b /\ x \in Records /\ b \in Blocks
<1>1. /\ x \in Open(b) /\ Open(b) \in SUBSET Records /\ blocking_key(x) = b
      /\ x \in current[x].inputs
  BY ClosingIsOpen, OpenIsProvisional, OpenInputsOpen DEF StreamInv
<1>2. CASE x \in ClosedNow(b)
  <2>1. x \in Component[Open(b)][x]
    BY <1>1, ComponentFacts
  <2> QED
    BY <1>1, <1>2, <2>1, BlockOfRecord DEF ClosedNow, ComponentPassed
<1>3. CASE x \in ForcedNow(b)
  BY <1>1, <1>3, BlockOfRecord DEF ForcedNow
<1> QED
  BY <1>2, <1>3 DEF Closing

(* A closed record has left the reach of every record to come, and of the *)
(* open ones.                                                             *)
ClosedBehind ==
  \A x \in seen : ClosedFinal(x) =>
    /\ Passed(blocking_key(x), Horizon(x))
    /\ x.reference # None => <<blocking_key(x), x.side, x.reference>> \in final_references
    /\ \A y \in pool : ~ Linked(x, y)

LEMMA ArriveOpenBehind ==
  ASSUME StreamInv, TypeOK', ClosedBehind, [Next]_vars,
         NEW r \in Records, Arrive(r), ~ IsLate(r), ~ IsReferenceAfterFinal(r), ArriveOpen(r)
  PROVE  ClosedBehind'
<1> DEFINE O == Open(blocking_key(r)) \cup {r}
<1> HIDE DEF O
<1>1. /\ r \notin seen /\ seen' = seen \cup {r} /\ pool' = pool \cup {r}
      /\ \A x \in O : current'[x].finality = PROVISIONAL
      /\ \A x \in seen \ O : current'[x] = current[x]
  BY ArriveOpenStep DEF O, StreamInv
<1>2. final_references' = final_references /\ r \in O
  BY DEF Arrive, O
<1> SUFFICES ASSUME NEW x \in seen', ClosedFinal(x)'
             PROVE  /\ Passed(blocking_key(x), Horizon(x))'
                    /\ x.reference # None => <<blocking_key(x), x.side, x.reference>> \in final_references'
                    /\ \A y \in pool' : ~ Linked(x, y)
  BY DEF ClosedBehind
<1>3. x \in seen \ O
  BY <1>1, <1>2 DEF ClosedFinal, IsFinal
<1>4. ClosedFinal(x) /\ x \in Records
  BY <1>1, <1>3 DEF ClosedFinal, IsFinal, StreamInv, TypeOK
<1>5. /\ Passed(blocking_key(x), Horizon(x))
      /\ x.reference # None => <<blocking_key(x), x.side, x.reference>> \in final_references
      /\ \A y \in pool : ~ Linked(x, y)
  BY <1>3, <1>4 DEF ClosedBehind
<1>6. Passed(blocking_key(x), Horizon(x))'
  BY <1>4, <1>5, PassedStays, HorizonFacts, BlockOfRecord DEF StreamInv
<1>7. ~ Linked(x, r)
  <2> SUFFICES ASSUME Linked(x, r)
               PROVE  FALSE
    OBVIOUS
  <2>1. x.side # r.side /\ blocking_key(x) = blocking_key(r) /\ (Near(x, r) \/ SameReference(x, r))
    BY DEF Linked
  <2>2. r.value_date > Horizon(x)
    BY <1>4, <1>5, <2>1, NotLate, HorizonFacts DEF StreamInv
  <2>3. ~ Near(x, r)
    BY <1>4, <2>2, HorizonFacts, RecordsAssumption, DateDaysAssumption DEF Near, date_gap, Abs
  <2>4. x.side = OtherSide(r.side)
    BY <1>4, <2>1, RecordsAssumption DEF OtherSide, SIDES
  <2>5. ~ SameReference(x, r)
    BY <1>5, <2>1, <2>4 DEF SameReference, IsReferenceAfterFinal
  <2> QED
    BY <2>1, <2>3, <2>5
<1> QED
  BY <1>1, <1>2, <1>5, <1>6, <1>7

LEMMA ArriveFinalBehind ==
  ASSUME StreamInv, TypeOK', ClosedBehind, [Next]_vars,
         NEW r \in Records, Arrive(r), NEW reason \in ArrivalReasons, ArriveFinal(r, reason)
  PROVE  ClosedBehind'
<1>1. /\ r \notin seen /\ pool' = pool /\ seen' = seen \cup {r}
      /\ current'[r].reason = {reason}
      /\ \A x \in seen : current'[x] = current[x]
  BY ArriveFinalStep DEF StreamInv
<1>2. final_references' = final_references
  BY DEF Arrive
<1>3. ASSUME NEW x \in seen', ClosedFinal(x)'
      PROVE  x \in seen /\ ClosedFinal(x) /\ x \in Records
  BY <1>1, <1>3 DEF ClosedFinal, IsFinal, StreamInv, TypeOK
<1>4. ASSUME NEW x \in seen', ClosedFinal(x)'
      PROVE  Passed(blocking_key(x), Horizon(x))'
  BY <1>3, <1>4, PassedStays, HorizonFacts, BlockOfRecord DEF StreamInv, ClosedBehind
<1> QED
  BY <1>1, <1>2, <1>3, <1>4 DEF ClosedBehind

LEMMA RoundBehind ==
  ASSUME StreamInv, TypeOK', ClosedBehind, [Next]_vars, NEW b, SettleRound(b)
  PROVE  ClosedBehind'
<1> DEFINE rest == Open(b) \ Closing(b)
<1> HIDE DEF rest
<1>1. /\ seen' = seen /\ pool' = pool \ Closing(b)
      /\ \A x \in Closing(b) : current'[x].finality = RoundFinality(b, x)
      /\ \A x \in rest : current'[x].finality = PROVISIONAL
      /\ \A x \in seen \ Open(b) : current'[x] = current[x]
  BY RoundStep DEF rest, StreamInv
<1>2. final_references' = final_references \cup References(Closing(b))
  BY RoundFacts
<1> SUFFICES ASSUME NEW x \in seen', ClosedFinal(x)'
             PROVE  /\ Passed(blocking_key(x), Horizon(x))'
                    /\ x.reference # None => <<blocking_key(x), x.side, x.reference>> \in final_references'
                    /\ \A y \in pool' : ~ Linked(x, y)
  BY DEF ClosedBehind
<1>3. CASE x \in Closing(b)
  <2>1. x \in ClosedNow(b)
    BY <1>1, <1>3 DEF ClosedFinal, RoundFinality, Closing
  <2>2. Passed(b, Horizon(x)) /\ blocking_key(x) = b /\ x \in Records /\ b \in Blocks
    BY <1>3, ClosingPassed
  <2>3. Passed(blocking_key(x), Horizon(x))'
    BY <2>2, PassedStays, HorizonFacts DEF StreamInv
  <2>4. x.reference # None => <<blocking_key(x), x.side, x.reference>> \in final_references'
    BY <1>2, <1>3 DEF References
  <2>5. ASSUME NEW y \in pool', Linked(x, y)
        PROVE  FALSE
    <3>1. y \in pool /\ y \notin Closing(b)
      BY <1>1
    <3>2. y \in Open(b) /\ x \in Open(b) /\ Open(b) \in SUBSET Records
      BY <1>3, <2>2, <2>5, <3>1, ClosingIsOpen, OpenIsProvisional DEF Linked, Open, StreamInv
    <3>3. Component[Open(b)][y] = Component[Open(b)][x]
      BY <2>5, <3>2, LinkedShareComponent
    <3>4. y \in ClosedNow(b)
      BY <2>1, <3>2, <3>3 DEF ClosedNow
    <3> QED
      BY <3>1, <3>4 DEF Closing
  <2> QED
    BY <2>3, <2>4, <2>5
<1>4. CASE x \notin Closing(b)
  <2>1. x \in seen \ Open(b)
    BY <1>1, <1>4 DEF rest, ClosedFinal, IsFinal
  <2>2. ClosedFinal(x) /\ x \in Records
    BY <1>1, <2>1 DEF ClosedFinal, IsFinal, StreamInv, TypeOK
  <2>3. /\ Passed(blocking_key(x), Horizon(x))
        /\ x.reference # None => <<blocking_key(x), x.side, x.reference>> \in final_references
        /\ \A y \in pool : ~ Linked(x, y)
    BY <2>1, <2>2 DEF ClosedBehind
  <2>4. Passed(blocking_key(x), Horizon(x))'
    BY <2>2, <2>3, PassedStays, HorizonFacts, BlockOfRecord DEF StreamInv
  <2> QED
    BY <1>1, <1>2, <2>3, <2>4
<1> QED
  BY <1>3, <1>4

LEMMA NextBehind == StreamInv /\ TypeOK' /\ ClosedBehind /\ [Next]_vars => ClosedBehind'
<1> SUFFICES ASSUME StreamInv, TypeOK', ClosedBehind, [Next]_vars
             PROVE  ClosedBehind'
  OBVIOUS
<1>1. ASSUME UNCHANGED <<seen, pool, current, final_references>>
      PROVE  ClosedBehind'
  <2>1. ASSUME NEW x \in seen, ClosedFinal(x)
        PROVE  Passed(blocking_key(x), Horizon(x))'
    BY <2>1, PassedStays, HorizonFacts, BlockOfRecord DEF StreamInv, ClosedBehind, TypeOK
  <2>2. \A x : ClosedFinal(x)' => ClosedFinal(x)
    BY <1>1 DEF ClosedFinal, IsFinal
  <2> QED
    BY <1>1, <2>1, <2>2 DEF ClosedBehind
<1>2. ASSUME NEW r \in Records, Arrive(r)
      PROVE  ClosedBehind'
  <2>1. LATE \in ArrivalReasons /\ REFERENCE_AFTER_FINAL \in ArrivalReasons
    BY DEF ArrivalReasons
  <2> QED
    BY <1>2, <2>1, ArriveOpenBehind, ArriveFinalBehind DEF Arrive
<1>3. ASSUME NEW b \in settling, SettleRound(b)
      PROVE  ClosedBehind'
  BY <1>3, RoundBehind
<1>4. ASSUME NEW r \in Records, Redeliver(r) \/ Refuse(r)
      PROVE  ClosedBehind'
  BY <1>1, <1>4 DEF Redeliver, Refuse
<1>5. ASSUME NEW side \in SIDES, NEW until \in Days, Progress(side, until)
      PROVE  ClosedBehind'
  BY <1>1, <1>5 DEF Progress
<1>6. ASSUME NEW b \in settling, SettleDone(b)
      PROVE  ClosedBehind'
  BY <1>1, <1>6 DEF SettleDone
<1>7. CASE UNCHANGED vars
  BY <1>1, <1>7 DEF vars
<1> QED
  BY <1>2, <1>3, <1>4, <1>5, <1>6, <1>7 DEF Next, Settle

(* Closing is sound for every journal: whatever arrives after a component  *)
(* closed is linked to none of its records.                                *)
THEOREM ClosedComponentsGainNoNeighbour == Spec => []ClosedGainsNoNeighbour
<1>1. Init => StreamInv /\ ClosedBehind
  BY InitInv DEF Init, ClosedBehind
<1>2. StreamInv /\ ClosedBehind /\ [Next]_vars => StreamInv' /\ ClosedBehind'
  BY NextInv, NextBehind DEF StreamInv
<1>3. ClosedBehind => ClosedGainsNoNeighbour
  BY DEF ClosedBehind, ClosedGainsNoNeighbour
<1> QED
  BY <1>1, <1>2, <1>3, PTL DEF Spec

-----------------------------------------------------------------------------
(* Forced decisions, and breaks after a final reference. *)

(* Forced records and the records whose references are kept are past      *)
(* their horizons; a reference is only missed beyond its horizon.         *)
ForcedAndKeptPassed ==
  /\ \A r \in seen : current[r].finality = FORCED =>
       /\ MaxComponentDays # Unbounded
       /\ current[r].inputs \subseteq Records
       /\ \A x \in current[r].inputs : Passed(blocking_key(r), Horizon(x))
  /\ \A t \in final_references :
       \E x \in seen : /\ IsFinal(x) /\ x.reference # None
                       /\ t = <<blocking_key(x), x.side, x.reference>>
                       /\ Passed(blocking_key(x), Horizon(x))

(* Nothing the engine says of a record reads as an arrival's reason. *)
LEMMA ProposalReason ==
  ASSUME NEW O \in SUBSET Records, NEW r \in O, NEW reason \in ArrivalReasons
  PROVE  Proposals[O][r].reason # {reason}
<1> DEFINE L == O \cap Lefts
           R == O \cap Rights
<1>1. L \in SUBSET Lefts /\ R \in SUBSET Rights
  OBVIOUS
<1> HIDE DEF L, R
<1>2. /\ \A m \in Reconcile(L, R).matches :
           /\ m.left \in L /\ m.rights \subseteq R /\ m.rights # {}
           /\ \A r1 \in m.rights : Linked(m.left, r1)
           /\ m.rule \notin ArrivalReasons
      /\ \A m, n \in Reconcile(L, R).matches :
           m # n => m.left # n.left /\ m.rights \cap n.rights = {}
      /\ \A j \in Reconcile(L, R).rejects : j.reason \notin ArrivalReasons
  BY <1>1, EngineContract, Zenon
<1>3. /\ \A m \in Result(O).matches : m.rule \notin ArrivalReasons
      /\ \A j \in Result(O).rejects : j.reason \notin ArrivalReasons
  BY <1>2 DEF Result, L, R
<1>4. AS_COUNTERPART \notin ArrivalReasons /\ NO_CANDIDATE \notin ArrivalReasons
  BY DEF AS_COUNTERPART, NO_CANDIDATE, ArrivalReasons, LATE, REFERENCE_AFTER_FINAL
<1> DEFINE m == CHOOSE m \in Mine(O, r) : TRUE
           reasons == BreakReasons(r, Result(O).rejects)
<1>5. Proposals[O][r] =
        IF Mine(O, r) # {}
        THEN Content(MATCH, {m.left} \cup m.rights,
                     IF r = m.left THEN {m.rule} ELSE {AS_COUNTERPART})
        ELSE Break(r, IF reasons = {} THEN {NO_CANDIDATE} ELSE reasons)
  BY Zenon DEF Proposals, Mine, Result
<1>6. CASE Mine(O, r) # {}
  <2>1. m \in Result(O).matches
    BY <1>6 DEF Mine
  <2>2. Proposals[O][r].reason = (IF r = m.left THEN {m.rule} ELSE {AS_COUNTERPART})
    BY <1>5, <1>6 DEF Content
  <2> QED
    BY <1>3, <1>4, <2>1, <2>2
<1>7. CASE Mine(O, r) = {}
  <2>1. Proposals[O][r].reason = (IF reasons = {} THEN {NO_CANDIDATE} ELSE reasons)
    BY <1>5, <1>7 DEF Break, Content
  <2>2. reason \notin reasons
    BY <1>3 DEF BreakReasons
  <2> QED
    BY <1>4, <2>1, <2>2
<1> QED
  BY <1>6, <1>7

LEMMA OpenReason ==
  ASSUME StreamInv, NEW r \in pool, NEW reason \in ArrivalReasons
  PROVE  current[r].reason # {reason}
<1>1. r \in Open(blocking_key(r))
  BY DEF Open
<1>2. /\ Open(blocking_key(r)) \in SUBSET Records
      /\ ContentOf(current[r]) = Proposals[Open(blocking_key(r))][r]
  BY <1>1, OpenIsProvisional DEF StreamInv
<1> QED
  BY <1>1, <1>2, ProposalReason, ContentFields

LEMMA ForcedAndKeptStay ==
  ASSUME StreamInv, TypeOK', ForcedAndKeptPassed, [Next]_vars, seen \subseteq seen',
         \A x \in seen : IsFinal(x) => IsFinal(x)' /\ current'[x] = current[x],
         \A x \in seen' : current'[x].finality = FORCED =>
           x \in seen /\ current[x].finality = FORCED,
         final_references' = final_references
  PROVE  ForcedAndKeptPassed'
<1>1. ASSUME NEW x \in seen', current'[x].finality = FORCED
      PROVE  /\ MaxComponentDays # Unbounded
             /\ current'[x].inputs \subseteq Records
             /\ \A y \in current'[x].inputs : Passed(blocking_key(x), Horizon(y))'
  <2>1. x \in seen /\ current[x].finality = FORCED /\ x \in Records
    BY <1>1 DEF StreamInv, TypeOK
  <2>2. current'[x] = current[x]
    BY <2>1 DEF IsFinal, FORCED, PROVISIONAL
  <2>3. /\ MaxComponentDays # Unbounded
        /\ current[x].inputs \subseteq Records
        /\ \A y \in current[x].inputs : Passed(blocking_key(x), Horizon(y))
    BY <2>1 DEF ForcedAndKeptPassed
  <2>4. \A y \in current[x].inputs : Passed(blocking_key(x), Horizon(y))'
    BY <2>1, <2>3, PassedStays, HorizonFacts, BlockOfRecord DEF StreamInv
  <2> QED
    BY <2>2, <2>3, <2>4
<1>2. ASSUME NEW t \in final_references
      PROVE  \E x \in seen' : /\ IsFinal(x)' /\ x.reference # None
                              /\ t = <<blocking_key(x), x.side, x.reference>>
                              /\ Passed(blocking_key(x), Horizon(x))'
  <2>1. PICK x \in seen : /\ IsFinal(x) /\ x.reference # None
                          /\ t = <<blocking_key(x), x.side, x.reference>>
                          /\ Passed(blocking_key(x), Horizon(x))
    BY <1>2 DEF ForcedAndKeptPassed
  <2>2. Passed(blocking_key(x), Horizon(x))'
    BY <2>1, PassedStays, HorizonFacts, BlockOfRecord DEF StreamInv, TypeOK
  <2> QED
    BY <2>1, <2>2
<1> QED
  BY <1>1, <1>2 DEF ForcedAndKeptPassed

LEMMA RoundForcedAndKept ==
  ASSUME StreamInv, TypeOK', ForcedAndKeptPassed, [Next]_vars, NEW b, SettleRound(b)
  PROVE  ForcedAndKeptPassed'
<1> DEFINE rest == Open(b) \ Closing(b)
<1> HIDE DEF rest
<1>1. /\ seen' = seen
      /\ \A x \in Closing(b) : /\ current'[x].inputs = current[x].inputs
                               /\ current'[x].finality = RoundFinality(b, x)
                               /\ IsFinal(x)'
      /\ \A x \in rest : current'[x].finality = PROVISIONAL
      /\ \A x \in seen \ Open(b) : current'[x] = current[x]
  BY RoundStep DEF rest, StreamInv
<1>2. final_references' = final_references \cup References(Closing(b))
  BY RoundFacts
<1>3. \A x \in seen : IsFinal(x) => x \notin Open(b)
  BY DEF StreamInv, OpenIsUpToDate, Open
<1>4. \A x \in Closing(b) : /\ Passed(b, Horizon(x)) /\ blocking_key(x) = b
                            /\ x \in Records /\ b \in Blocks /\ x \in seen
  BY ClosingPassed, ClosingIsOpen DEF StreamInv, TypeOK
<1>5. ASSUME NEW x \in seen', current'[x].finality = FORCED
      PROVE  /\ MaxComponentDays # Unbounded
             /\ current'[x].inputs \subseteq Records
             /\ \A y \in current'[x].inputs : Passed(blocking_key(x), Horizon(y))'
  <2>1. CASE x \in Closing(b)
    <3>1. x \in ForcedNow(b)
      BY <1>1, <1>5, <2>1 DEF RoundFinality, FORCED, FINAL
    <3>2. /\ MaxComponentDays # Unbounded
          /\ \A y \in current[x].inputs : Passed(b, Horizon(y))
      BY <3>1 DEF ForcedNow, ComponentCut
    <3>3. current[x].inputs \subseteq Records
      BY <1>1, <1>5 DEF StreamInv, TypeOK
    <3>4. \A y \in current[x].inputs : Passed(b, Horizon(y))'
      BY <1>4, <2>1, <3>2, <3>3, PassedStays, HorizonFacts DEF StreamInv
    <3> QED
      BY <1>1, <1>4, <2>1, <3>2, <3>3, <3>4
  <2>2. CASE x \notin Closing(b)
    <3>1. x \in seen \ Open(b)
      BY <1>1, <1>5, <2>2 DEF rest, FORCED, PROVISIONAL
    <3>2. /\ MaxComponentDays # Unbounded
          /\ current[x].inputs \subseteq Records
          /\ \A y \in current[x].inputs : Passed(blocking_key(x), Horizon(y))
      BY <1>1, <1>5, <3>1 DEF ForcedAndKeptPassed
    <3>3. blocking_key(x) \in Blocks
      BY <3>1, BlockOfRecord DEF StreamInv, TypeOK
    <3>4. \A y \in current[x].inputs : Passed(blocking_key(x), Horizon(y))'
      BY <3>2, <3>3, PassedStays, HorizonFacts DEF StreamInv
    <3> QED
      BY <1>1, <3>1, <3>2, <3>4
  <2> QED
    BY <2>1, <2>2
<1>6. ASSUME NEW t \in final_references'
      PROVE  \E x \in seen' : /\ IsFinal(x)' /\ x.reference # None
                              /\ t = <<blocking_key(x), x.side, x.reference>>
                              /\ Passed(blocking_key(x), Horizon(x))'
  <2>1. CASE t \in final_references
    <3>1. PICK x \in seen : /\ IsFinal(x) /\ x.reference # None
                            /\ t = <<blocking_key(x), x.side, x.reference>>
                            /\ Passed(blocking_key(x), Horizon(x))
      BY <2>1 DEF ForcedAndKeptPassed
    <3>2. Passed(blocking_key(x), Horizon(x))'
      BY <3>1, PassedStays, HorizonFacts, BlockOfRecord DEF StreamInv, TypeOK
    <3>3. IsFinal(x)'
      BY <1>1, <1>3, <3>1 DEF IsFinal
    <3> QED
      BY <1>1, <3>1, <3>2, <3>3
  <2>2. CASE t \in References(Closing(b))
    <3>1. PICK x \in Closing(b) : /\ x.reference # None
                                  /\ t = <<blocking_key(x), x.side, x.reference>>
      BY <2>2 DEF References
    <3>2. Passed(blocking_key(x), Horizon(x))'
      BY <1>4, <3>1, PassedStays, HorizonFacts DEF StreamInv
    <3> QED
      BY <1>1, <1>4, <3>1, <3>2
  <2> QED
    BY <1>2, <2>1, <2>2
<1> QED
  BY <1>5, <1>6 DEF ForcedAndKeptPassed

LEMMA ArriveForcedAndKept ==
  ASSUME StreamInv, TypeOK', ForcedAndKeptPassed, [Next]_vars, NEW r \in Records, Arrive(r)
  PROVE  ForcedAndKeptPassed'
<1>1. final_references' = final_references
  BY DEF Arrive
<1>2. CASE ArriveOpen(r)
  <2> DEFINE O == Open(blocking_key(r)) \cup {r}
  <2> HIDE DEF O
  <2>1. /\ r \notin seen /\ seen' = seen \cup {r}
        /\ \A x \in O : current'[x].finality = PROVISIONAL
        /\ \A x \in seen \ O : current'[x] = current[x]
    BY <1>2, ArriveOpenStep DEF O, StreamInv
  <2>2. r \in O /\ \A x \in seen : IsFinal(x) => x \notin O
    BY <2>1 DEF O, Open, StreamInv, OpenIsUpToDate
  <2>3. \A x \in seen : IsFinal(x) => IsFinal(x)' /\ current'[x] = current[x]
    BY <2>1, <2>2 DEF IsFinal
  <2>4. \A x \in seen' : current'[x].finality = FORCED => x \in seen /\ current[x].finality = FORCED
    BY <2>1, <2>2 DEF FORCED, PROVISIONAL
  <2> QED
    BY <1>1, <2>1, <2>3, <2>4, ForcedAndKeptStay
<1>3. ASSUME NEW reason, ArriveFinal(r, reason)
      PROVE  ForcedAndKeptPassed'
  <2>1. /\ r \notin seen /\ seen' = seen \cup {r}
        /\ current'[r].finality = FINAL
        /\ \A x \in seen : current'[x] = current[x]
    BY <1>3, ArriveFinalStep DEF StreamInv
  <2>2. \A x \in seen : IsFinal(x) => IsFinal(x)' /\ current'[x] = current[x]
    BY <2>1 DEF IsFinal
  <2>3. \A x \in seen' : current'[x].finality = FORCED => x \in seen /\ current[x].finality = FORCED
    BY <2>1 DEF FORCED, FINAL
  <2> QED
    BY <1>1, <2>1, <2>2, <2>3, ForcedAndKeptStay
<1> QED
  BY <1>2, <1>3 DEF Arrive

LEMMA NextForcedAndKept ==
  StreamInv /\ TypeOK' /\ ForcedAndKeptPassed /\ [Next]_vars => ForcedAndKeptPassed'
<1> SUFFICES ASSUME StreamInv, TypeOK', ForcedAndKeptPassed, [Next]_vars
             PROVE  ForcedAndKeptPassed'
  OBVIOUS
<1>1. ASSUME UNCHANGED <<seen, current, final_references>>
      PROVE  ForcedAndKeptPassed'
  BY <1>1, ForcedAndKeptStay DEF IsFinal
<1>2. ASSUME NEW r \in Records, Arrive(r)
      PROVE  ForcedAndKeptPassed'
  BY <1>2, ArriveForcedAndKept
<1>3. ASSUME NEW b \in settling, SettleRound(b)
      PROVE  ForcedAndKeptPassed'
  BY <1>3, RoundForcedAndKept
<1>4. ASSUME NEW r \in Records, Redeliver(r) \/ Refuse(r)
      PROVE  ForcedAndKeptPassed'
  BY <1>1, <1>4 DEF Redeliver, Refuse
<1>5. ASSUME NEW side \in SIDES, NEW until \in Days, Progress(side, until)
      PROVE  ForcedAndKeptPassed'
  BY <1>1, <1>5 DEF Progress
<1>6. ASSUME NEW b \in settling, SettleDone(b)
      PROVE  ForcedAndKeptPassed'
  BY <1>1, <1>6 DEF SettleDone
<1>7. CASE UNCHANGED vars
  BY <1>1, <1>7 DEF vars
<1> QED
  BY <1>2, <1>3, <1>4, <1>5, <1>6, <1>7 DEF Next, Settle

(* Cutting a component costs nothing that was not already decided: forced  *)
(* decisions are past the horizon of all their records.                    *)
THEOREM ForcedDecisionsPastHorizon == Spec => []ForcedIsPastHorizon
<1>1. Init => StreamInv /\ ForcedAndKeptPassed
  BY InitInv DEF Init, ForcedAndKeptPassed
<1>2. StreamInv /\ ForcedAndKeptPassed /\ [Next]_vars => StreamInv' /\ ForcedAndKeptPassed'
  BY NextInv, NextForcedAndKept DEF StreamInv
<1>3. ForcedAndKeptPassed => ForcedIsPastHorizon
  BY DEF ForcedAndKeptPassed, ForcedIsPastHorizon
<1> QED
  BY <1>1, <1>2, <1>3, PTL DEF Spec

-----------------------------------------------------------------------------
(* Breaks after a final reference *)

ReferenceBreakJustified(r) ==
  \E x \in seen : /\ IsFinal(x) /\ x.side # r.side
                  /\ SameReference(x, r)
                  /\ r.value_date - x.value_date > ReferenceDays

LEMMA JustifiedStays ==
  ASSUME NEW r, ReferenceBreakJustified(r), seen \subseteq seen',
         \A x \in seen : IsFinal(x) => IsFinal(x)'
  PROVE  ReferenceBreakJustified(r)'
BY DEF ReferenceBreakJustified

(* An arrival with a kept reference that is not late is beyond the        *)
(* reference horizon of the record that left it.                          *)
LEMMA ReferenceBreakOnArrival ==
  ASSUME StreamInv, ForcedAndKeptPassed, NEW r \in Records,
         ~ IsLate(r), IsReferenceAfterFinal(r)
  PROVE  ReferenceBreakJustified(r)
<1>1. PICK x \in seen : /\ IsFinal(x) /\ x.reference # None
                        /\ <<blocking_key(r), OtherSide(r.side), r.reference>>
                             = <<blocking_key(x), x.side, x.reference>>
                        /\ Passed(blocking_key(x), Horizon(x))
  BY DEF IsReferenceAfterFinal, ForcedAndKeptPassed
<1>2. x \in Records
  BY DEF StreamInv, TypeOK
<1>3. r.value_date > Horizon(x)
  BY <1>1, <1>2, NotLate, HorizonFacts DEF StreamInv
<1>4. r.value_date - x.value_date > ReferenceDays
  BY <1>1, <1>2, <1>3, HorizonFacts, RecordsAssumption, StreamConfigAssumption
<1>5. x.side # r.side
  BY <1>1, RecordsAssumption DEF OtherSide, LEFT, RIGHT, SIDES
<1> QED
  BY <1>1, <1>4, <1>5 DEF ReferenceBreakJustified, SameReference

OpenReasons == \A x \in pool : current[x].reason # {REFERENCE_AFTER_FINAL}

LEMMA OpenReasonsNext == StreamInv' => OpenReasons'
<1>1. StreamInv => OpenReasons
  BY OpenReason DEF ArrivalReasons, OpenReasons
<1> QED
  BY <1>1, PTL

LEMMA NextReferenceBreak ==
  StreamInv /\ StreamInv' /\ ForcedAndKeptPassed /\ ReferenceBreakIsBeyondHorizon /\ [Next]_vars
    => ReferenceBreakIsBeyondHorizon'
<1> SUFFICES ASSUME StreamInv, StreamInv', ForcedAndKeptPassed, ReferenceBreakIsBeyondHorizon,
                    [Next]_vars,
                    NEW r \in seen', current'[r].reason = {REFERENCE_AFTER_FINAL}
             PROVE  ReferenceBreakJustified(r)'
  BY DEF ReferenceBreakIsBeyondHorizon, ReferenceBreakJustified
<1>1. /\ \A x \in Records : IsFinal(x) => IsFinal(x)' /\ current'[x] = current[x]
      /\ seen \subseteq Records
  <2>1. CASE UNCHANGED vars
    BY <2>1 DEF vars, IsFinal, StreamInv, TypeOK
  <2> QED
    BY <2>1, NextForever DEF StreamInv, TypeOK
<1>2. r \notin pool'
  BY OpenReasonsNext DEF OpenReasons
<1>3. ASSUME seen \subseteq seen', ReferenceBreakJustified(r)
      PROVE  ReferenceBreakJustified(r)'
  BY <1>1, <1>3, JustifiedStays
<1>4. ASSUME r \in seen, seen \subseteq seen', current'[r].reason = current[r].reason
      PROVE  ReferenceBreakJustified(r)'
  <2>1. ReferenceBreakJustified(r)
    BY <1>4 DEF ReferenceBreakIsBeyondHorizon, ReferenceBreakJustified
  <2> QED
    BY <1>3, <1>4, <2>1
<1>5. ASSUME r \in seen, r \notin pool
      PROVE  current'[r] = current[r]
  BY <1>1, <1>5 DEF StreamInv, OpenIsUpToDate
<1>6. ASSUME NEW x \in Records, Arrive(x)
      PROVE  ReferenceBreakJustified(r)'
  <2>1. seen' = seen \cup {x} /\ x \notin seen
    BY <1>6 DEF Arrive, KeySeen
  <2>2. CASE r \in seen
    <3>1. r \notin pool
      BY <1>2, <1>6 DEF Arrive, ArriveOpen, ArriveFinal
    <3> QED
      BY <1>4, <1>5, <2>1, <2>2, <3>1
  <2>3. CASE r = x
    <3>1. ~ ArriveOpen(x)
      BY <1>2, <2>3 DEF ArriveOpen
    <3>2. ASSUME ArriveFinal(x, LATE)
          PROVE  FALSE
      <4>1. current'[x].reason = {LATE}
        BY <1>6, <3>2, ArriveFinalStep DEF StreamInv
      <4> QED
        BY <2>3, <4>1 DEF LATE, REFERENCE_AFTER_FINAL
    <3>3. ~ IsLate(x) /\ IsReferenceAfterFinal(x)
      BY <1>6, <3>1, <3>2 DEF Arrive
    <3> QED
      BY <1>3, <2>1, <2>3, <3>3, ReferenceBreakOnArrival
  <2> QED
    BY <2>1, <2>2, <2>3
<1>7. ASSUME NEW b \in settling, SettleRound(b)
      PROVE  ReferenceBreakJustified(r)'
  <2>1. /\ seen' = seen /\ pool' = pool \ Closing(b)
        /\ \A x \in Closing(b) : current'[x].reason = current[x].reason
    BY <1>7, RoundStep DEF StreamInv
  <2>2. CASE r \notin pool
    BY <1>4, <1>5, <2>1, <2>2
  <2>3. CASE r \in Closing(b)
    BY <1>4, <2>1, <2>3
  <2> QED
    BY <1>2, <2>1, <2>2, <2>3
<1>8. ASSUME UNCHANGED <<seen, current>>
      PROVE  ReferenceBreakJustified(r)'
  BY <1>4, <1>8
<1>9. ASSUME NEW x \in Records, Redeliver(x) \/ Refuse(x)
      PROVE  UNCHANGED <<seen, current>>
  BY <1>9 DEF Redeliver, Refuse
<1>10. ASSUME NEW side \in SIDES, NEW until \in Days, Progress(side, until)
       PROVE  UNCHANGED <<seen, current>>
  BY <1>10 DEF Progress
<1>11. ASSUME NEW b \in settling, SettleDone(b)
       PROVE  UNCHANGED <<seen, current>>
  BY <1>11 DEF SettleDone
<1>12. CASE UNCHANGED vars
  BY <1>8, <1>12 DEF vars
<1> QED
  BY <1>6, <1>7, <1>8, <1>9, <1>10, <1>11, <1>12 DEF Next, Settle

(* Declaring a longer reference horizon is enough: REFERENCE_AFTER_FINAL   *)
(* never befalls records closer in time than the declared one.             *)
THEOREM ReferenceBreaksBeyondHorizon == Spec => []ReferenceBreakIsBeyondHorizon
<1> DEFINE Inv == StreamInv /\ ForcedAndKeptPassed /\ ReferenceBreakIsBeyondHorizon
<1>1. Init => Inv
  BY InitInv DEF Init, ForcedAndKeptPassed, ReferenceBreakIsBeyondHorizon
<1>2. Inv /\ [Next]_vars => Inv'
  BY NextInv, NextForcedAndKept, NextReferenceBreak DEF StreamInv
<1> QED
  BY <1>1, <1>2, PTL DEF Spec

-----------------------------------------------------------------------------
(* Settling reaches every block that could close. *)

(* Nothing can close in a block that _settle has not still to visit. *)
QuietBlocksSettled == \A b \in Blocks \ settling : Closing(b) = {}

(* What closes in a block depends on its open records, their decisions    *)
(* and its watermark.                                                     *)
LEMMA ClosingDepends ==
  ASSUME NEW b, Open(b)' = Open(b), \A s \in SIDES : Known(b, s)' = Known(b, s),
         \A x \in Open(b) : current'[x] = current[x]
  PROVE  Closing(b)' = Closing(b)
<1>1. \A day : Passed(b, day)' <=> Passed(b, day)
  BY DEF Passed, HasWatermark, Watermark, SIDES
<1>2. ClosedNow(b)' = ClosedNow(b)
  BY <1>1 DEF ClosedNow, ComponentPassed
<1>3. ForcedNow(b)' = ForcedNow(b)
  BY <1>1, <1>2 DEF ForcedNow, ComponentCut
<1> QED
  BY <1>2, <1>3 DEF Closing

LEMMA ArriveQuiet ==
  ASSUME StreamInv, QuietBlocksSettled, NEW r \in Records, Arrive(r)
  PROVE  QuietBlocksSettled'
<1> SUFFICES ASSUME NEW c \in Blocks \ settling'
             PROVE  Closing(c)' = {}
  BY DEF QuietBlocksSettled
<1>1. settling = {} /\ Closing(c) = {} /\ progress' = progress
  BY DEF Arrive, Idle, QuietBlocksSettled
<1>2. CASE ArriveOpen(r)
  <2>1. c # blocking_key(r)
    BY <1>2 DEF ArriveOpen
  <2>2. Open(c)' = Open(c)
    BY <1>2, <2>1 DEF ArriveOpen, Open
  <2>3. latest'[c] = latest[c]
    BY <1>2, <2>1 DEF ArriveOpen, StreamInv, TypeOK
  <2>4. \A x \in seen \ (Open(blocking_key(r)) \cup {r}) : current'[x] = current[x]
    BY <1>2, ArriveOpenStep DEF StreamInv
  <2>5. \A x \in Open(c) : x \in seen \ (Open(blocking_key(r)) \cup {r})
    BY <2>1 DEF Open, StreamInv, TypeOK
  <2>6. \A s \in SIDES : Known(c, s)' = Known(c, s)
    BY <1>1, <2>3 DEF Known
  <2> QED
    BY <1>1, <2>2, <2>4, <2>5, <2>6, ClosingDepends
<1>3. ASSUME NEW reason, ArriveFinal(r, reason)
      PROVE  Closing(c)' = {}
  <2>1. pool' = pool /\ latest' = latest
    BY <1>3 DEF ArriveFinal
  <2>2. \A x \in seen : current'[x] = current[x]
    BY <1>3, ArriveFinalStep DEF StreamInv
  <2>3. Open(c)' = Open(c) /\ \A s \in SIDES : Known(c, s)' = Known(c, s)
    BY <1>1, <2>1 DEF Open, Known
  <2>4. Open(c) \subseteq seen
    BY DEF Open, StreamInv, TypeOK
  <2> QED
    BY <1>1, <2>2, <2>3, <2>4, ClosingDepends
<1> QED
  BY <1>2, <1>3 DEF Arrive

LEMMA RoundQuiet ==
  ASSUME StreamInv, QuietBlocksSettled, NEW b \in settling, SettleRound(b)
  PROVE  QuietBlocksSettled'
<1> SUFFICES ASSUME NEW c \in Blocks \ settling'
             PROVE  Closing(c)' = {}
  BY DEF QuietBlocksSettled
<1>1. /\ UNCHANGED <<latest, progress, settling>> /\ pool' = pool \ Closing(b)
  BY RoundFacts
<1>2. c # b /\ Closing(c) = {}
  BY <1>1 DEF QuietBlocksSettled
<1>3. Open(c)' = Open(c) /\ \A s \in SIDES : Known(c, s)' = Known(c, s)
  BY <1>1, <1>2, ClosingIsOpen DEF Open, Known
<1>4. \A x \in seen \ Open(b) : current'[x] = current[x]
  BY RoundStep DEF StreamInv
<1>5. \A x \in Open(c) : x \in seen \ Open(b)
  BY <1>2 DEF Open, StreamInv, TypeOK
<1> QED
  BY <1>2, <1>3, <1>4, <1>5, ClosingDepends

LEMMA NextQuiet == StreamInv /\ QuietBlocksSettled /\ [Next]_vars => QuietBlocksSettled'
<1> SUFFICES ASSUME StreamInv, QuietBlocksSettled, [Next]_vars
             PROVE  QuietBlocksSettled'
  OBVIOUS
<1>1. ASSUME UNCHANGED <<pool, latest, progress, current>>
      PROVE  \A c : Closing(c)' = Closing(c)
  BY <1>1, ClosingDepends DEF Open, Known
<1>2. ASSUME NEW r \in Records, Arrive(r)
      PROVE  QuietBlocksSettled'
  BY <1>2, ArriveQuiet
<1>3. ASSUME NEW b \in settling, SettleRound(b)
      PROVE  QuietBlocksSettled'
  BY <1>3, RoundQuiet
<1>4. ASSUME NEW r \in Records, Redeliver(r) \/ Refuse(r)
      PROVE  QuietBlocksSettled'
  BY <1>1, <1>4 DEF Redeliver, Refuse, QuietBlocksSettled
<1>5. ASSUME NEW side \in SIDES, NEW until \in Days, Progress(side, until)
      PROVE  QuietBlocksSettled'
  <2>1. settling' = KnownBlocks /\ pool' = pool
    BY <1>5 DEF Progress
  <2>2. \A c \in Blocks \ KnownBlocks : Open(c)' = {}
    BY <2>1 DEF KnownBlocks, Open, StreamInv, TypeOK
  <2> QED
    BY <2>1, <2>2 DEF QuietBlocksSettled, Closing, ClosedNow, ForcedNow
<1>6. ASSUME NEW b \in settling, SettleDone(b)
      PROVE  QuietBlocksSettled'
  BY <1>1, <1>6 DEF SettleDone, QuietBlocksSettled
<1>7. CASE UNCHANGED vars
  BY <1>1, <1>7 DEF vars, QuietBlocksSettled
<1> QED
  BY <1>2, <1>3, <1>4, <1>5, <1>6, <1>7 DEF Next, Settle

(* Between two entries of any journal, no decision is left that the        *)
(* watermark or the bound on components would close.                       *)
THEOREM EntriesSettle == Spec => []Settled
<1>1. Init => StreamInv /\ QuietBlocksSettled
  <2>1. Init => \A b : Open(b) = {}
    BY DEF Init, Open
  <2> QED
    BY <2>1, InitInv DEF QuietBlocksSettled, Closing, ClosedNow, ForcedNow
<1>2. StreamInv /\ QuietBlocksSettled /\ [Next]_vars => StreamInv' /\ QuietBlocksSettled'
  BY NextInv, NextQuiet
<1>3. QuietBlocksSettled => Settled
  BY DEF QuietBlocksSettled, Settled
<1> QED
  BY <1>1, <1>2, <1>3, PTL DEF Spec
=============================================================================
