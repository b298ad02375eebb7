-------------------------------- MODULE Flow --------------------------------
(***************************************************************************)
(* Correlation as a stream (correlation/flow.py): observations of several  *)
(* sources arrive in a journal, those that share a value form a group, and *)
(* a group's decisions are provisional until the watermark has passed it.  *)
(*                                                                         *)
(* One action per journal entry: feed evaluates and settles before it      *)
(* returns, so every entry is one step.                                    *)
(*                                                                         *)
(* The configuration has no timed joins (FlowConfig.timing is None), so    *)
(* _enter_timed and _settle_timed do nothing.  Not represented: the        *)
(* history before the current decision of a key (_emit is the stream's,    *)
(* see Stream), the digests, and what can be read off other state: holders *)
(* and keys_of (off open), positions, and due, which is empty between      *)
(* entries.                                                                *)
(***************************************************************************)
EXTENDS Joins, Watermarks

CONSTANTS
  Window,               \* window_us
  MaxCollisionMembers,  \* max_collision_members
  Untils,               \* the event times an Advance may carry
  MaxPosition,          \* bound: journal entries explored
  MaxDuplicates         \* bound: repeated deliveries explored

ASSUME FlowConfigAssumption ==
  /\ \A o \in Observations : o.source \in Sources
  /\ Window \in Nat
  /\ MaxCollisionMembers \in Nat /\ MaxCollisionMembers >= 2
  /\ Untils \subseteq Nat
  /\ MaxPosition \in Nat /\ MaxDuplicates \in Nat

VARIABLES
  seen,           \* observations delivered so far
  open,           \* those without a final decision
  pending,        \* the open ones still in the queue by event time
  settled,        \* the open ones with nothing left to decide
  crowded,        \* <<value, where>> whose collision is definitive
  closed_values,  \* the authored values of closed groups
  progress,       \* progress[s]: greatest event time reported, or NoTime
  first_at,       \* least event time of the journal, or NoTime
  current,        \* current[<<where, o>>]: the last decision of a business key
  dossiers,       \* the proofs emitted
  duplicates,     \* observations seen again with the same content
  position,       \* position of the last distinct entry
  refused         \* the replay stopped on a ValueError

vars == <<seen, open, pending, settled, crowded, closed_values, progress, first_at,
          current, dossiers, duplicates, position, refused>>

PROVISIONAL == "PROVISIONAL"
LATE == "LATE"
VALUE_AFTER_FINAL == "VALUE_AFTER_FINAL"
CONFLICTED == "CONFLICTED"
AUTHORED == "AUTHORED"
OBSERVED == "OBSERVED"
CORROBORATED == "CORROBORATED"
SIGNAL_ABSENT == "SIGNAL_ABSENT"
SIGNAL_UNMATCHED == "SIGNAL_UNMATCHED"
SIGNAL_OTHER_PARTNER == "SIGNAL_OTHER_PARTNER"

Nowhere == ""   \* the join of a LATE or VALUE_AFTER_FINAL decision
NoValue == [k \in {} |-> None]
NoOutcome == [kind |-> None, value |-> NoValue, partners |-> {}]

-----------------------------------------------------------------------------
(* Evaluation of a group *)

Told(outcome, evidence, corroboration, missing) ==
  [kind |-> outcome.kind, value |-> outcome.value, partners |-> outcome.partners,
   evidence |-> evidence, corroboration |-> corroboration, missing_on |-> missing]

Plain(outcome) == Told(outcome, None, None, {})

Conflicted(outcome, partners, corroboration) ==
  [Told(outcome, None, corroboration, {}) EXCEPT !.kind = CONFLICTED, !.partners = partners]

(* A link by one of the two signals of a hop: it stands if the other is    *)
(* missing on an end, and is contradicted if both ends recorded the other. *)
OneSignal(o, outcome, evidence, other) ==
  LET missing == {x \in {o} \cup outcome.partners : ~ Carries(x, other)}
  IN  IF missing # {} THEN Told(outcome, evidence, SIGNAL_ABSENT, missing)
      ELSE Conflicted(outcome, outcome.partners, SIGNAL_UNMATCHED)

(* A hop with two signals, which say a and b of o. *)
Combined(j, o, a, b) ==
  CASE a.kind = COLLIDED -> Plain(a)
    [] a.kind # COLLIDED /\ b.kind = COLLIDED -> Plain(b)
    [] a.kind = LINKED /\ b.kind = LINKED ->
         IF a.partners = b.partners THEN Told(a, AUTHORED, CORROBORATED, {})
         ELSE Conflicted(a, a.partners \cup b.partners, SIGNAL_OTHER_PARTNER)
    [] a.kind = LINKED /\ b.kind \in {UNLINKED, None} -> OneSignal(o, a, AUTHORED, j.observed)
    [] b.kind = LINKED /\ a.kind \in {UNLINKED, None} -> OneSignal(o, b, OBSERVED, j.authored)
    [] OTHER -> Plain(IF a.kind # None THEN a ELSE b)

Single(j, outcome) ==
  IF outcome.kind # LINKED THEN Plain(outcome)
  ELSE Told(outcome, IF j.authored # {} THEN AUTHORED ELSE OBSERVED, None, {})

(* Mutant: a crowd is forgotten with the members that have left. *)
AuthoredOutcomeOfOpen(O, crowd, j, o) ==
  IF TakesPart(o, j, j.authored) THEN Outcome(O, j, j.authored, o) ELSE NoOutcome

(* The authored outcome of o at j; past the limit the collision stands    *)
(* alone, whoever is left of it.                                          *)
AuthoredOutcome(O, crowd, j, o) ==
  IF ~ TakesPart(o, j, j.authored) THEN NoOutcome
  ELSE IF <<ValueOf(o, j.authored), j.where>> \in crowd
  THEN [kind |-> COLLIDED, value |-> ValueOf(o, j.authored), partners |-> {}]
  ELSE Outcome(O, j, j.authored, o)

ObservedOutcome(O, j, o) ==
  IF TakesPart(o, j, j.observed) THEN Outcome(O, j, j.observed, o) ELSE NoOutcome

Proposal(O, crowd, j, o) ==
  LET a == AuthoredOutcome(O, crowd, j, o)
      b == ObservedOutcome(O, j, o)
  IN  IF j.authored # {} /\ j.observed # {} THEN Combined(j, o, a, b)
      ELSE Single(j, IF j.authored # {} THEN a ELSE b)

(* The joins o takes part in, on either signal (keys_of). *)
JoinsOf(o) == {j \in Joins : TakesPart(o, j, j.authored) \/ TakesPart(o, j, j.observed)}

JoinAt(where) == CHOOSE j \in Joins : j.where = where

BusinessKeys(O) == UNION {{<<j.where, o>> : j \in JoinsOf(o)} : o \in O}

Decision(proposal, status) == [proposal |-> proposal, status |-> status]

(* The collisions of O on an authored value that are past the limit. *)
CrowdedAt(O, j) ==
  {v \in {ValueOf(o, j.authored) : o \in {o \in O : TakesPart(o, j, j.authored)}} :
     Cardinality(At(O, j.up, v) \cup At(O, j.down, v)) > MaxCollisionMembers}

Crowds(O) == UNION {CrowdedAt(O, j) \X {j.where} : j \in Joins}

(* Mutant: o is decided as soon as its only value is crowded somewhere. *)
DecidedAnywhere(o, crowd) ==
  \E v \in Values[o] : /\ Values[o] = {v}
                       /\ \E w \in {j.where : j \in Joins} : <<v, w>> \in crowd

(* Nothing can change for o: its only value is crowded wherever it joins. *)
Decided(o, crowd) ==
  \E v \in Values[o] : /\ Values[o] = {v}
                       /\ \E w \in {j.where : j \in Joins} : <<v, w>> \in crowd
                       /\ \A j \in JoinsOf(o) : <<v, j.where>> \in crowd

(* The group of o among the observations O: what shared values reach. *)
Shares(x, y) == Values[x] \cap Values[y] # {}

Group ==
  [O \in SUBSET Observations |->
     LET closed == {S \in SUBSET O : \A x \in S, y \in O : Shares(x, y) => y \in S}
     IN  [o \in O |-> {y \in O : \A S \in closed : o \in S => y \in S}]]

-----------------------------------------------------------------------------
(* Settling *)

(* Mutant: no window for the other end to come. *)
PastEvent(o, mark) == o.at < mark

Past(o, mark) == o.at + Window < mark

Dossier(members, finality, cites) ==
  [observations |-> members, finality |-> finality, cites |-> cites]

(* Mutant: settled members in their group's proof too. *)
GroupProofsWhole(O, closing, idle, finality) ==
  {Dossier(Group[O][x], finality, {}) : x \in closing \ idle}

(* One proof for each closing group, without its settled members. *)
GroupProofs(O, closing, idle, finality) ==
  {Dossier(Group[O][x] \ idle, finality, {}) : x \in closing \ idle}

(* Mutant: settled ones wait for their group. *)
LeavingDue(due, popped, idle) == due

(* Those that leave alone: settled, and out of the queue or due already. *)
Leaving(due, popped, idle) == due \cup (popped \cap idle)

RemainingCrowds(crowd, closing) ==
  {c \in crowd : \A x \in closing : c[1] \notin Values[x]}

(* _settle, with the state an entry has made so far: the open observations *)
(* O, the queue, the settled ones among O, those of them already due, the  *)
(* crowds and the decisions.  A group closes when a member comes out of    *)
(* the queue and the watermark has passed them all; a settled member that  *)
(* comes out of a group still open leaves alone.                           *)
Settle(p, f, O, queue, idle, due, crowd, cur) ==
  LET mark == Watermark(p, f)
      finality == Finality(p, f)
      popped == {x \in queue : Past(x, mark)}
      ripe == {x \in popped : \A y \in Group[O][x] : Past(y, mark)}
      closing == UNION {Group[O][x] : x \in ripe}
      leaving == Leaving(due, popped, idle) \ closing
      gone == closing \cup leaving
  IN  /\ progress' = p
      /\ first_at' = f
      /\ open' = O \ gone
      /\ pending' = queue \ popped
      /\ settled' = idle \ gone
      /\ crowded' = RemainingCrowds(crowd, closing)
      /\ closed_values' = closed_values \cup UNION {AuthoredValues(x) : x \in closing}
      /\ current' = [k \in DOMAIN cur |->
                       IF k[2] \in gone THEN Decision(cur[k].proposal, finality) ELSE cur[k]]
      /\ dossiers' = dossiers
           \cup GroupProofs(O, closing, idle, finality)
           \cup {Dossier({x}, finality, Values[x]) : x \in gone \cap idle}

-----------------------------------------------------------------------------
(* Journal entries *)

Init == /\ seen = {}
        /\ open = {}
        /\ pending = {}
        /\ settled = {}
        /\ crowded = {}
        /\ closed_values = {}
        /\ progress = [s \in Sources |-> NoTime]
        /\ first_at = NoTime
        /\ current = [k \in {} |-> NoValue]
        /\ dossiers = {}
        /\ duplicates = 0
        /\ position = -1
        /\ refused = FALSE

(* Mutant: only the open ones are remembered. *)
IsKnownOpen(o) == \E x \in open : Identity(x) = Identity(o)

IsKnown(o) == \E x \in seen : Identity(x) = Identity(o)

(* The same observation delivered again. *)
Redeliver(o) == /\ ~ refused
                /\ o \in seen
                /\ duplicates < MaxDuplicates
                /\ duplicates' = duplicates + 1
                /\ UNCHANGED <<seen, open, pending, settled, crowded, closed_values, progress,
                               first_at, current, dossiers, position, refused>>

(* A known identity with another content ends the replay. *)
Refuse(o) == /\ ~ refused
             /\ IsKnown(o) /\ o \notin seen
             /\ refused' = TRUE
             /\ UNCHANGED <<seen, open, pending, settled, crowded, closed_values, progress,
                            first_at, current, dossiers, duplicates, position>>

IsLate(o) == IsUnder(progress, first_at, o.at)

Reused(o) == AuthoredValues(o) \cap closed_values

(* A decision final on arrival: the source has advanced, nothing settles. *)
Turn(o, kind, value) ==
  /\ progress' = Advanced(progress, o.source, o.at)
  /\ first_at' = FirstAt(first_at, o.at)
  /\ current' = [k \in DOMAIN current \cup {<<Nowhere, o>>} |->
                   IF k \in DOMAIN current THEN current[k]
                   ELSE Decision(Plain([kind |-> kind, value |-> value, partners |-> {}]), FINAL)]
  /\ UNCHANGED <<open, pending, settled, crowded, closed_values, dossiers>>

(* The observation opens, its group is evaluated, and everything settles. *)
Admit(o) ==
  LET p == Advanced(progress, o.source, o.at)
      f == FirstAt(first_at, o.at)
      O == open \cup {o}
      G == Group[O][o] \ settled
      crowd == crowded \cup Crowds(G)
      decided == {x \in G : Decided(x, crowd)}
      cur == [k \in DOMAIN current \cup BusinessKeys(G) |->
                IF k \in BusinessKeys(G)
                THEN Decision(Proposal(G, crowd, JoinAt(k[1]), k[2]), PROVISIONAL)
                ELSE current[k]]
  IN  Settle(p, f, O, pending \cup {o}, settled \cup decided,
             {x \in decided : Past(x, Watermark(p, f))}, crowd, cur)

Seen(o) ==
  /\ ~ refused
  /\ ~ IsKnown(o)
  /\ position < MaxPosition
  /\ position' = position + 1
  /\ seen' = seen \cup {o}
  /\ \/ IsLate(o) /\ Turn(o, LATE, NoValue)
     \/ ~ IsLate(o) /\ Reused(o) # {}
          /\ Turn(o, VALUE_AFTER_FINAL, CHOOSE v \in Reused(o) : TRUE)
     \/ ~ IsLate(o) /\ Reused(o) = {} /\ Admit(o)
  /\ UNCHANGED <<duplicates, refused>>

Advance(s, until) ==
  /\ ~ refused
  /\ position < MaxPosition
  /\ position' = position + 1
  /\ Settle(Advanced(progress, s, until), FirstAt(first_at, until), open, pending, settled, {}, crowded, current)
  /\ UNCHANGED <<seen, duplicates, refused>>

Next == \/ \E o \in Observations : Seen(o) \/ Redeliver(o) \/ Refuse(o)
        \/ \E s \in Sources, until \in Untils : Advance(s, until)

Spec == Init /\ [][Next]_vars

-----------------------------------------------------------------------------
(* Properties *)

(* Decided on arrival, whatever the joins say. *)
IsTold(o) == /\ <<Nowhere, o>> \in DOMAIN current
             /\ current[<<Nowhere, o>>].proposal.kind \in {LATE, VALUE_AFTER_FINAL}

(* Observations that left with the whole of their group, none forced; a    *)
(* member of a definitive collision that left alone is not among them.     *)
ClosedWhole ==
  UNION {d.observations : d \in {d \in dossiers : d.finality = FINAL /\ d.cites = {}}}

(* "An observation under the watermark [...] changes nothing final": no    *)
(* step changes a final decision or withdraws a proof.                     *)
FinalIsForever ==
  [][/\ \A k \in DOMAIN current : current[k].status # PROVISIONAL =>
          k \in DOMAIN current' /\ current'[k] = current[k]
     /\ dossiers \subseteq dossiers']_vars

(* Settled members are never evaluated again and groups are evaluated one  *)
(* at a time, yet every open decision is what the joins of all the open    *)
(* observations say now, but for collisions past the limit.                *)
OpenIsUpToDate ==
  \A k \in BusinessKeys(open) :
    current[k] = Decision(Proposal(open, crowded, JoinAt(k[1]), k[2]), PROVISIONAL)

(* "No on-time observation can change them": whatever the sources do       *)
(* later, one that fell silent and came back included, an open observation *)
(* sharing a value with an unforced closed one is past its window.         *)
ClosedGainsNoNeighbour ==
  \A x \in ClosedWhole, y \in open : Shares(x, y) => y.at > x.at + Window

(* Every observation delivered is open, told on arrival, or in exactly one *)
(* proof, whose finality is that of its decisions and of their partners:   *)
(* "they become final together".                                           *)
OneProofEach ==
  /\ \A o \in seen :
       LET proofs == {d \in dossiers : o \in d.observations}
       IN  /\ Cardinality(proofs) = IF o \in open \/ IsTold(o) THEN 0 ELSE 1
           /\ \A d \in proofs, k \in DOMAIN current : k[2] = o => current[k].status = d.finality
  /\ \A k \in DOMAIN current : \A x \in current[k].proposal.partners :
       /\ <<k[1], x>> \in DOMAIN current
       /\ current[<<k[1], x>>].status = current[k].status

OpenGroups == {Group[open][o] : o \in open}

Ripe(G) == \A o \in G : Past(o, Watermark(progress, first_at))

(* When a source has advanced, no group the watermark has passed is open,  *)
(* nor any settled observation it has passed: members that came out of the *)
(* queue before the rest of their group are not forgotten.  This needs a   *)
(* watermark that never recedes: MaxSilence unbounded.                     *)
AdvanceClosesRipe ==
  [][(\E s \in Sources, until \in Untils : Advance(s, until)) =>
       (/\ ~ \E G \in OpenGroups : Ripe(G)
        /\ ~ \E o \in settled : Ripe({o}))']_vars

Admitted == {o \in seen : ~ IsTold(o)}

(* A join with one authored signal says of each observation, open or       *)
(* final, what it says of all those admitted at once, however many members *)
(* of a collision have left since: the limit hides partners, no more.      *)
VerdictsIgnoreLimit ==
  \A k \in BusinessKeys(Admitted) :
    LET j == JoinAt(k[1])
    IN  j.observed = {} =>
          current[k].proposal.kind = Outcome(Admitted, j, j.authored, k[2]).kind

InAssumption(O) ==
  \A x, y \in O : Shares(x, y) => x.at - y.at <= Window

(* With nothing late or forced, and values that come back within the       *)
(* window, a final decision is of the kind that the joins of everything    *)
(* delivered give at once: neither the order, nor where groups closed, nor *)
(* the limit on collisions shows, and only the limit hides partners.       *)
FinalsAgreeWithBatch ==
  (/\ InAssumption(seen)
   /\ \A o \in seen : ~ IsTold(o)
   /\ \A k \in DOMAIN current : current[k].status # FORCED) =>
     \A k \in DOMAIN current : current[k].status = FINAL =>
       LET batch == Proposal(seen, {}, JoinAt(k[1]), k[2])
           mine == current[k].proposal
       IN  /\ mine.kind = batch.kind /\ mine.value = batch.value
           /\ mine = batch \/ (mine.kind = COLLIDED /\ mine.partners = {})
=============================================================================
