------------------------------- MODULE Stream -------------------------------
(***************************************************************************)
(* The stream (stream.py): the engine replayed over a journal of arrivals  *)
(* and progress signals, and its successive outputs turned into a history  *)
(* of provisional and final decisions.                                     *)
(*                                                                         *)
(* One action per journal entry (_arrival, Progress) and, because _settle  *)
(* is a loop that re-evaluates between rounds, one action per round of it. *)
(* settling is that loop's program counter: the blocks _settle still has   *)
(* to visit.  No entry is fed before it is empty.                          *)
(*                                                                         *)
(* The engine is a constant operator with a contract, which Engine proves  *)
(* of the loops of engine.py; MCStream gives it the engine itself.         *)
(*                                                                         *)
(* Not represented: the digests (identifiers are the tuples the code       *)
(* hashes), ruleset_id and engine_version (constant during a replay), and  *)
(* window_end, which is the latest horizon of a decision's inputs.         *)
(***************************************************************************)
EXTENDS Domain

CONSTANTS
  ReferenceDays,     \* reference_horizon_days (date_days when the code has None)
  LatenessDays,      \* lateness_days
  MaxComponentDays,  \* max_component_days, or Unbounded
  Unbounded,         \* max_component_days is None: never cut
  Days,              \* the days a progress signal may carry
  Reconcile(_, _),   \* engine.reconcile on sets of left and right records
  MaxPosition,       \* bound: journal entries explored
  MaxDuplicates      \* bound: repeated deliveries explored

ASSUME StreamConfigAssumption ==
  /\ ReferenceDays \in Nat /\ ReferenceDays >= DateDays
  /\ LatenessDays \in Nat
  /\ MaxComponentDays \in Nat \cup {Unbounded}
  /\ Unbounded \notin Nat
  /\ Days \subseteq Nat
  /\ MaxPosition \in Nat /\ MaxDuplicates \in Nat

(* The reasons of a record that is final on arrival, _arrival's own. *)
LATE == "LATE"
REFERENCE_AFTER_FINAL == "REFERENCE_AFTER_FINAL"
ArrivalReasons == {LATE, REFERENCE_AFTER_FINAL}

(* What the stream relies on: matches lie inside the inputs, pair linked  *)
(* records, and share none; the engine has its own rules and reasons.     *)
ASSUME EngineContract ==
  \A L \in SUBSET Lefts, R \in SUBSET Rights :
    /\ \A m \in Reconcile(L, R).matches :
         /\ m.left \in L /\ m.rights \subseteq R /\ m.rights # {}
         /\ \A r \in m.rights : Linked(m.left, r)
         /\ m.rule \notin ArrivalReasons
    /\ \A m, n \in Reconcile(L, R).matches :
         m # n => m.left # n.left /\ m.rights \cap n.rights = {}
    /\ \A j \in Reconcile(L, R).rejects : j.reason \notin ArrivalReasons

VARIABLES
  seen,        \* records delivered so far
  pool,        \* the open ones, of every block
  latest,      \* latest[b][s]: greatest value date admitted, or NoDate
  progress,    \* progress[s]: greatest date signalled, or NoDate
  final_references,  \* <<block, side, reference>> of records withdrawn as final
  current,     \* current[r]: the last decision about the record's key
  decisions,   \* every decision ever emitted
  duplicates,  \* arrivals seen again with the same content
  position,    \* position of the last distinct entry
  settling,    \* blocks that _settle still has to visit
  refused      \* the replay stopped on a ValueError

vars == <<seen, pool, latest, progress, final_references, current, decisions,
          duplicates, position, settling, refused>>

PROVISIONAL == "PROVISIONAL"
FINAL == "FINAL"
FORCED == "FORCED"   \* final because its component was cut
Finalities == {PROVISIONAL, FINAL, FORCED}   \* status, and forced for a final one
MATCH == "MATCH"
BREAK == "BREAK"
AS_COUNTERPART == "AS_COUNTERPART"

NoDate == -1   \* below every date, so that the greatest of the known ones wins

(* Mutant: the new date replaces the known one. *)
Newer(a, b) == b

Greater(a, b) == IF a > b THEN a ELSE b
Lesser(a, b) == IF a < b THEN a ELSE b

(* Mutants: the record's own day; the reference horizon forgotten. *)
OwnDay(r) == r.value_date
DateHorizon(r) == r.value_date + DateDays

Horizon(r) ==
  r.value_date + (IF r.reference # None THEN ReferenceDays ELSE DateDays)

-----------------------------------------------------------------------------
(* Watermark *)

Known(b, side) == Greater(latest[b][side], progress[side])

HasWatermark(b) == \A side \in SIDES : Known(b, side) # NoDate

(* The slower side's progress minus the tolerated lateness. *)
Watermark(b) == Lesser(Known(b, LEFT), Known(b, RIGHT)) - LatenessDays

Passed(b, day) == HasWatermark(b) /\ day < Watermark(b)

-----------------------------------------------------------------------------
(* Evaluation *)

Open(b) == {r \in pool : blocking_key(r) = b}

Content(type, inputs, reason) == [type |-> type, inputs |-> inputs, reason |-> reason]

Break(r, reason) == Content(BREAK, {r}, reason)

(* The reasons that a break of r keeps: those of pairs within the window, *)
(* and those of r alone.                                                  *)
BreakReasons(r, rejects) ==
  {j.reason : j \in {j \in rejects : \/ j.left = r /\ \A x \in j.right : Near(r, x)
                                     \/ r \in j.right /\ Near(j.left, r)}}

(* What the engine says about each record of a set O of open records. *)
Proposals ==
  [O \in SUBSET Records |->
     LET result == Reconcile(O \cap Lefts, O \cap Rights)
         mine(r) == {m \in result.matches : r = m.left \/ r \in m.rights}
         reasons(r) == BreakReasons(r, result.rejects)
     IN  [r \in O |->
            IF mine(r) # {}
            THEN LET m == CHOOSE m \in mine(r) : TRUE
                 IN  Content(MATCH, {m.left} \cup m.rights,
                             IF r = m.left THEN {m.rule} ELSE {AS_COUNTERPART})
            ELSE Break(r, IF reasons(r) = {} THEN {NO_CANDIDATE} ELSE reasons(r))]]

ContentOf(d) == Content(d.type, d.inputs, d.reason)

(* Mutant: a provisional is identified by its content alone. *)
DecisionIdByContent(d) ==
  [key |-> BusinessKey(d.record), content |-> ContentOf(d), finality |-> d.finality,
   rank |-> 0]

(* Finals are identified by content alone, provisionals by their rank too. *)
DecisionId(d) ==
  [key |-> BusinessKey(d.record), content |-> ContentOf(d), finality |-> d.finality,
   rank |-> IF d.finality = PROVISIONAL THEN d.chain_version ELSE 0]

(* The decision _emit makes about r at journal position pos. *)
Emit(r, content, finality, pos) ==
  [record |-> r,
   chain_version |-> IF r \in DOMAIN current THEN current[r].chain_version + 1 ELSE 1,
   finality |-> finality,
   type |-> content.type, inputs |-> content.inputs, reason |-> content.reason,
   decided_at |-> pos,
   supersedes |-> IF r \in DOMAIN current THEN {DecisionId(current[r])} ELSE {}]

(* Mutant: a known decision never revised. *)
FirstDecisions(O, pos) ==
  [r \in O \ DOMAIN current |-> Emit(r, Proposals[O][r], PROVISIONAL, pos)]

(* The open records O re-evaluated: a decision for each changed content. *)
Revisions(O, pos) ==
  [r \in {r \in O : r \in DOMAIN current => ContentOf(current[r]) # Proposals[O][r]} |->
     Emit(r, Proposals[O][r], PROVISIONAL, pos)]

(* Append the decisions of E, a function of the records they are about. *)
Publish(E) ==
  /\ current' = [r \in DOMAIN current \cup DOMAIN E |->
                   IF r \in DOMAIN E THEN E[r] ELSE current[r]]
  /\ decisions' = decisions \cup {E[r] : r \in DOMAIN E}

-----------------------------------------------------------------------------
(* Components and finality *)

LinkClosed(S, O) == \A x \in S, y \in O : Linked(x, y) => y \in S

(* The component of r among the open records O: the least subset that     *)
(* holds r and everything linked to a member.                             *)
Component ==
  [O \in SUBSET Records |->
     LET closed == {S \in SUBSET O : LinkClosed(S, O)}
     IN  [r \in O |-> {y \in O : \A S \in closed : r \in S => y \in S}]]

ComponentPassed(b, C) == \A x \in C : Passed(b, Horizon(x))

ComponentCut(C) ==
  /\ MaxComponentDays # Unbounded
  /\ \E x, y \in C : x.value_date - y.value_date > MaxComponentDays

(* Mutant: finality record by record, not by component. *)
ClosedAlone(b) == {r \in Open(b) : \A x \in current[r].inputs : Passed(b, Horizon(x))}

(* Decisions to finalise now because their whole component has closed. *)
ClosedNow(b) == {r \in Open(b) : ComponentPassed(b, Component[Open(b)][r])}

(* Mutants of a cut: by the record's own horizon; whatever the horizon. *)
ForcedByOwnHorizon(b) ==
  {r \in Open(b) \ ClosedNow(b) :
     ComponentCut(Component[Open(b)][r]) /\ Passed(b, Horizon(r))}
ForcedWhole(b) == {r \in Open(b) \ ClosedNow(b) : ComponentCut(Component[Open(b)][r])}

(* Decisions past their own horizon, in a component that is cut. *)
ForcedNow(b) ==
  {r \in Open(b) \ ClosedNow(b) :
     /\ ComponentCut(Component[Open(b)][r])
     /\ \A x \in current[r].inputs : Passed(b, Horizon(x))}

Closing(b) == ClosedNow(b) \cup ForcedNow(b)

References(S) ==
  {<<blocking_key(r), r.side, r.reference>> : r \in {r \in S : r.reference # None}}

-----------------------------------------------------------------------------
Init == /\ seen = {}
        /\ pool = {}
        /\ latest = [b \in Blocks |-> [s \in SIDES |-> NoDate]]
        /\ progress = [s \in SIDES |-> NoDate]
        /\ final_references = {}
        /\ current = [r \in {} |-> {}]
        /\ decisions = {}
        /\ duplicates = 0
        /\ position = -1
        /\ settling = {}
        /\ refused = FALSE

(* The replay is between two journal entries. *)
Idle == settling = {} /\ ~ refused

KeySeen(r) == \E x \in seen : BusinessKey(x) = BusinessKey(r)

(* A delivery of a record already seen: ignored, but counted. *)
Redeliver(r) == /\ Idle
                /\ r \in seen
                /\ duplicates < MaxDuplicates
                /\ duplicates' = duplicates + 1
                /\ UNCHANGED <<seen, pool, latest, progress, final_references, current,
                               decisions, position, settling, refused>>

(* The same key with another content: ValueError, the replay stops. *)
Refuse(r) == /\ Idle
             /\ KeySeen(r) /\ r \notin seen
             /\ refused' = TRUE
             /\ UNCHANGED <<seen, pool, latest, progress, final_references, current,
                            decisions, duplicates, position, settling>>

IsLate(r) == Passed(blocking_key(r), r.value_date)

IsReferenceAfterFinal(r) ==
  <<blocking_key(r), OtherSide(r.side), r.reference>> \in final_references

(* A new record that is final on arrival, alone: it enters no pool. *)
ArriveFinal(r, reason) ==
  /\ current' = [x \in DOMAIN current \cup {r} |->
       IF x = r THEN Emit(r, Break(r, {reason}), FINAL, position + 1)
       ELSE current[x]]
  /\ decisions' = decisions \cup {Emit(r, Break(r, {reason}), FINAL, position + 1)}
  /\ UNCHANGED <<pool, latest, settling>>

ArriveOpen(r) ==
  LET b == blocking_key(r)
  IN  /\ pool' = pool \cup {r}
      /\ latest' = [latest EXCEPT ![b][r.side] = Greater(@, r.value_date)]
      /\ Publish(Revisions(Open(b) \cup {r}, position + 1))
      /\ settling' = {b}

(* A record seen for the first time. *)
Arrive(r) ==
  /\ Idle
  /\ ~ KeySeen(r)
  /\ position < MaxPosition
  /\ seen' = seen \cup {r}
  /\ position' = position + 1
  /\ \/ IsLate(r) /\ ArriveFinal(r, LATE)
     \/ ~ IsLate(r) /\ IsReferenceAfterFinal(r) /\ ArriveFinal(r, REFERENCE_AFTER_FINAL)
     \/ ~ IsLate(r) /\ ~ IsReferenceAfterFinal(r) /\ ArriveOpen(r)
  /\ UNCHANGED <<progress, final_references, duplicates, refused>>

(* Mutant: a signal settles a single block. *)
OneBlock == IF seen = {} THEN {} ELSE {blocking_key(CHOOSE r \in seen : TRUE)}

KnownBlocks == {blocking_key(r) : r \in seen}

(* A source declares it is complete up to a day: every block settles. *)
Progress(side, until) ==
  /\ Idle
  /\ position < MaxPosition
  /\ position' = position + 1
  /\ progress' = [progress EXCEPT ![side] = Greater(@, until)]
  /\ settling' = KnownBlocks
  /\ UNCHANGED <<seen, pool, latest, final_references, current, decisions,
                 duplicates, refused>>

(* Mutant: a final record is not withdrawn. *)
FinaliseInPlace(b, closing, forced, revised) ==
  /\ pool' = pool
  /\ final_references' = final_references \cup References(closing)
  /\ Publish([r \in closing |->
               Emit(r, ContentOf(current[r]), IF r \in forced THEN FORCED ELSE FINAL, position)])

(* Closing decisions become final and leave the pool; what is left of the *)
(* block is re-evaluated.                                                 *)
Finalise(b, closing, forced, revised) ==
  /\ pool' = pool \ closing
  /\ final_references' = final_references \cup References(closing)
  /\ Publish([r \in closing \cup DOMAIN revised |->
               IF r \in closing
               THEN Emit(r, ContentOf(current[r]), IF r \in forced THEN FORCED ELSE FINAL, position)
               ELSE revised[r]])

(* One round of the loop of _settle. *)
SettleRound(b) ==
  /\ b \in settling
  /\ \E closing \in {Closing(b)} :
       /\ closing # {}
       /\ \E revised \in {Revisions(Open(b) \ closing, position)}, forced \in {ForcedNow(b)} :
            Finalise(b, closing, forced, revised)
  /\ UNCHANGED <<seen, latest, progress, duplicates, position, settling, refused>>

(* Mutant: a loop cut short. *)
SettleEarly(b) ==
  /\ b \in settling
  /\ settling' = settling \ {b}
  /\ UNCHANGED <<seen, pool, latest, progress, final_references, current, decisions,
                 duplicates, position, refused>>

(* The loop of _settle ends when nothing more closes. *)
SettleDone(b) ==
  /\ b \in settling
  /\ Closing(b) = {}
  /\ settling' = settling \ {b}
  /\ UNCHANGED <<seen, pool, latest, progress, final_references, current, decisions,
                 duplicates, position, refused>>

Settle == \E b \in settling : SettleRound(b) \/ SettleDone(b)

Next == \/ \E r \in Records : Arrive(r) \/ Redeliver(r) \/ Refuse(r)
        \/ \E side \in SIDES, until \in Days : Progress(side, until)
        \/ Settle

Spec == Init /\ [][Next]_vars

(* feed returns only when _settle has: an entry once begun is finished. *)
FairSpec == Spec /\ WF_vars(Settle)
-----------------------------------------------------------------------------
(* Properties *)

(* The replay's state has the shape the code gives it: in particular every *)
(* record delivered has a current decision, and only delivered records do. *)
TypeOK ==
  /\ seen \subseteq Records
  /\ pool \subseteq seen
  /\ latest \in [Blocks -> [SIDES -> Nat \cup {NoDate}]]
  /\ progress \in [SIDES -> Nat \cup {NoDate}]
  /\ DOMAIN current = seen
  /\ \A r \in seen : /\ current[r] \in decisions
                     /\ current[r].record = r
                     /\ current[r].chain_version \in Nat \ {0}
                     /\ current[r].finality \in Finalities
                     /\ current[r].type \in {MATCH, BREAK}
                     /\ current[r].inputs \subseteq seen
                     /\ current[r].decided_at \in 0 .. position
  /\ duplicates \in 0 .. MaxDuplicates
  /\ position \in -1 .. MaxPosition
  /\ settling \subseteq Blocks
  /\ refused \in BOOLEAN

IsFinal(r) == r \in seen /\ current[r].finality # PROVISIONAL

(* "A late arrival never rewrites an earlier decision": no step, of this   *)
(* block or another, changes a final decision or takes one off the history. *)
FinalIsForever ==
  [][/\ \A r \in Records : IsFinal(r) => IsFinal(r)' /\ current'[r] = current[r]
     /\ decisions \subseteq decisions']_vars

(* T12: no entry moves a block's watermark back, or loses it. *)
WatermarkNeverRecedes ==
  [][\A b \in Blocks :
       HasWatermark(b) => HasWatermark(b)' /\ Watermark(b)' >= Watermark(b)]_vars

(* A record leaves the pool with its final decision, and what is open is   *)
(* up to date: its decision is what the engine says of the records that    *)
(* are open now, after every arrival and every round of closing.           *)
OpenIsUpToDate ==
  /\ \A r \in seen : r \in pool <=> ~ IsFinal(r)
  /\ \A r \in pool : ContentOf(current[r]) = Proposals[Open(blocking_key(r))][r]

Superseded(d) == \E e \in decisions : DecisionId(d) \in e.supersedes

(* Identifiers are unique, so that SUPERSEDED can be derived from them:    *)
(* exactly one decision of each record is not superseded, the current one, *)
(* even when a content comes back after another one (A, B, A).             *)
OneEffectiveDecision ==
  /\ \A d, e \in decisions : DecisionId(d) = DecisionId(e) => d = e
  /\ \A r \in seen : {d \in decisions : d.record = r /\ ~ Superseded(d)} = {current[r]}

(* Closed: final because its component closed, not cut nor on arrival. *)
ClosedFinal(r) ==
  /\ IsFinal(r)
  /\ current[r].finality # FORCED
  /\ \A reason \in ArrivalReasons : current[r].reason # {reason}

(* "A component is final only when none of its members can gain a          *)
(* neighbour": no open record, whenever it arrived, is within the window   *)
(* of a closed record of the other side or shares its reference.           *)
ClosedGainsNoNeighbour ==
  \A x \in seen, y \in pool : ClosedFinal(x) => ~ Linked(x, y)

(* A REFERENCE_AFTER_FINAL break happens only to a pair of records further *)
(* apart than the declared reference horizon; within it the counterpart    *)
(* is still open, or the arrival is LATE.                                  *)
ReferenceBreakIsBeyondHorizon ==
  \A r \in seen : current[r].reason = {REFERENCE_AFTER_FINAL} =>
    \E x \in seen : /\ IsFinal(x) /\ x.side # r.side
                    /\ SameReference(x, r)
                    /\ r.value_date - x.value_date > ReferenceDays

(* Between two entries nothing is left that could close: an entry settles  *)
(* every block whose watermark it moved.                                   *)
Settled == settling = {} => \A b \in Blocks : Closing(b) = {}

(* A decision is forced only when it had to be: its own horizon has        *)
(* passed, and a component is cut only under a declared bound.             *)
ForcedIsPastHorizon ==
  \A r \in seen : current[r].finality = FORCED =>
    /\ MaxComponentDays # Unbounded
    /\ \A x \in current[r].inputs : Passed(blocking_key(r), Horizon(x))

InAssumption(S) ==
  \A x, y \in S : x.side # y.side /\ SameReference(x, y)
                    => date_gap(x, y) <= ReferenceDays

SeenIn(b) == {r \in seen : blocking_key(r) = b}

(* The done-when of J3: with no late arrival, none forced, references      *)
(* within their horizon, a final decision says of its records what the     *)
(* engine says of all the records of the block at once.  So finals do not  *)
(* depend on the order of the journal, nor on where its horizons close.    *)
FinalsAreOrderFree ==
  \A b \in Blocks :
    (/\ InAssumption(SeenIn(b))
     /\ \A r \in SeenIn(b) : current[r].reason # {LATE} /\ current[r].finality # FORCED)
    => \A r \in SeenIn(b) :
         IsFinal(r) => ContentOf(current[r]) = Proposals[SeenIn(b)][r]

(* "Without a bound [...] a dense stream may never become final", but once *)
(* both sources have signalled a day past every horizon and the lateness,  *)
(* it does: no component, however long its chain, stays open.              *)
EverythingBecomesFinal ==
  (\A r \in Records, s \in SIDES : Horizon(r) < progress[s] - LatenessDays)
    ~> [](pool = {})

(* The effective state of the stream is a ledger: closed entries are       *)
(* frozen as they stood, and matches are written and closed whole.         *)
Book == INSTANCE Ledger WITH Record <- Records, book <- current

ImplementsLedger == Book!Spec
=============================================================================
