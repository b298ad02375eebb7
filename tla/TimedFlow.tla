------------------------------ MODULE TimedFlow ------------------------------
(***************************************************************************)
(* One timing-derived hop in a flow (correlation/flow_timed.py, as called  *)
(* by flow.py): observations of the two sides are candidates by when they  *)
(* happened, a component of the candidate graph is decided by the          *)
(* assignment once no observation on time can change it, and one that has  *)
(* grown too large is let go member by member.                             *)
(*                                                                         *)
(* The topology has this hop only and each observation is delivered once   *)
(* (see Flow for the rest of the journal), so an entry that adds an        *)
(* observation also settles.  Not represented, since it can be read off    *)
(* the open observations: by_end and edges; due is empty between entries.  *)
(***************************************************************************)
EXTENDS Watermarks, Matching, Sequences

CONSTANTS
  Observations,   \* the deliveries: source, seq, side, start, at (the end)
  Signals,        \* params.signals: one or two of name, offset, window
  Margin,         \* params.margin_us
  MaxComponent,   \* params.max_component
  Span,           \* params.local_span_us, 0 for no density guard
  LimitPermille,  \* params.local_limit_permille
  MaxDuration,    \* max_duration_us, or Unbounded
  Untils,         \* the event times an Advance may carry
  MaxPosition     \* bound: journal entries explored

START == "start"
END == "end"
DURATION == "duration"
UP == "outbound"
DOWN == "inbound"
NoStart == -1   \* start_us and end_us are not given

Given == Range(Signals)

(* _validate_params: one or two signals, each given once. *)
ParamsAreValid ==
  /\ DOMAIN Signals = 1 .. Len(Signals) /\ Len(Signals) \in 1 .. 2
  /\ \A i, j \in DOMAIN Signals : Signals[i].name = Signals[j].name => i = j
  /\ \A s \in Given : /\ s.name \in {START, END, DURATION}
                      /\ s.offset \in Int /\ s.window \in Nat \ {0}
  /\ 1 + MapThenSumSet(LAMBDA s : s.window, Given) <= MAX_WEIGHT
  /\ Span \in Nat /\ LimitPermille \in 1 .. 1000

(* check_join: the joins that a bounded wait can decide as the batch does. *)
JoinIsChecked ==
  /\ ParamsAreValid
  /\ Margin \in Nat /\ MaxComponent \in Nat \ {0}
  /\ \E s \in Given : s.name = END
  /\ Span > 0 => MaxDuration # Unbounded /\ Signals[1].name # DURATION

ASSUME TimedFlowAssumption ==
  /\ IsFiniteSet(Observations)
  /\ \A o \in Observations : /\ o.source \in Sources /\ o.side \in {UP, DOWN}
                             /\ o.at \in Nat
                             /\ o.start = NoStart \/ o.start \in 0 .. o.at
  /\ JoinIsChecked
  /\ MaxDuration \in (Nat \ {0}) \cup {Unbounded}
  /\ Untils \subseteq Nat /\ MaxPosition \in Nat

VARIABLES
  seen,      \* observations delivered so far
  open,      \* those of the join without a final verdict
  heap,      \* the open ones still in the queue by end
  flagged,   \* the open ones in a component too large
  past,      \* those out of the queue, held by a later member
  counted,   \* references: the observations counted as neighbours
  progress,
  first_at,
  current,   \* current[o]: the last verdict of o, with its status
  proofs,    \* the proofs emitted
  position

vars == <<seen, open, heap, flagged, past, counted, progress, first_at, current, proofs,
          position>>

PROVISIONAL == "PROVISIONAL"
LINKED == "LINKED"
DENSE == "DENSE"
TOO_LONG == "TOO_LONG"
TIME_ABSENT == "TIME_ABSENT"
LATE == "LATE"

Verdict(reason, partner, weight) ==
  [reason |-> reason, partner |-> partner, weight |-> weight]

Undecided(reason) == Verdict(reason, None, 0)

-----------------------------------------------------------------------------
(* Candidates (timing.py) *)

Abs(n) == IF n < 0 THEN - n ELSE n

Duration(o) == o.at - o.start

Gap(name, a, b) == CASE name = START -> b.start - a.start
                     [] name = END -> a.at - b.at
                     [] name = DURATION -> Duration(a) - Duration(b)

Distance(s, a, b) == Abs(Gap(s.name, a, b) - s.offset)

IsCandidate(a, b) == \A s \in Given : Distance(s, a, b) <= s.window

Weight(a, b) == 1 + MapThenSumSet(LAMBDA s : s.window - Distance(s, a, b), Given)

(* The candidate graph of the observations O. *)
Graph(O) ==
  LET pairs == {e \in O \X O : e[1].side = UP /\ e[2].side = DOWN /\ IsCandidate(e[1], e[2])}
  IN  [e \in pairs |-> Weight(e[1], e[2])]

(* The instant an observation is counted at by the density guard. *)
ReferenceOf(o) == IF o.side = UP \/ Signals[1].name = START THEN o.start ELSE o.at

Others(O, o) ==
  {x \in O \ {o} : x.side = o.side /\ Abs(ReferenceOf(x) - ReferenceOf(o)) <= Span}

IsCrowded(O, o) ==
  Span > 0 /\ Cardinality(Others(O, o)) * Signals[1].window * 1000 > Span * LimitPermille

(* The verdicts on the members of some components of a graph, with the     *)
(* neighbours O counted by the density guard.                              *)
Verdicts(members, graph, O) ==
  LET decided == Decisions(members, graph, Margin, MaxComponent)
      VerdictOn(x) ==
        LET y == decided[x].partner
        IN  IF decided[x].status # MATCHED THEN Undecided(decided[x].status)
            ELSE IF IsCrowded(O, x) \/ IsCrowded(O, y) THEN Undecided(DENSE)
            ELSE Verdict(LINKED, y, IF x.side = UP THEN graph[<<x, y>>] ELSE graph[<<y, x>>])
  IN  [x \in members |-> VerdictOn(x)]

-----------------------------------------------------------------------------
(* The join *)

EndSignal == CHOOSE s \in Given : s.name = END

(* How far past its end something on time can still concern an             *)
(* observation.                                                            *)
Horizon ==
  LET reach == Abs(EndSignal.offset) + EndSignal.window
  IN  IF Span > 0 /\ Span + MaxDuration > reach THEN Span + MaxDuration ELSE reach

IsTooLong(o) == MaxDuration # Unbounded /\ Duration(o) > MaxDuration

Past(o, mark) == o.at + Horizon < mark

Within(graph, O) == [e \in {e \in DOMAIN graph : Ends(e) \subseteq O} |-> graph[e]]

(* The unflagged members reached from x, among the open O. *)
Walk(O, flags, x) == ComponentOf(Within(Graph(O), O \ flags), x)

Touches(O, flags, members) ==
  \E e \in DOMAIN Graph(O) : Ends(e) \cap members # {} /\ Ends(e) \cap flags # {}

Side(members, side) == {x \in members : x.side = side}

IsTooLarge(members) == \E side \in {UP, DOWN} : Cardinality(Side(members, side)) > MaxComponent

(* Mutant: a closed observation is no neighbour any more. *)
RememberedOpen(O, count, mark) == count \cap O

(* The neighbours that something open or to come could still count. *)
Remembered(O, count, mark) ==
  LET oldest == Min({o.at : o \in O} \cup {mark})
  IN  IF Span = 0 THEN count
      ELSE {x \in count : ReferenceOf(x) >= oldest - MaxDuration - Span}

Settled(verdict, status) == [verdict |-> verdict, status |-> status]

Proof(members, finality) == [observations |-> members, finality |-> finality]

(* Those out of the queue with a later member in their component. *)
Held(held, popped, flags, gone) == (held \cup (popped \ flags)) \ gone

(* Mutant: one already out of the queue when it is flagged is forgotten. *)
LeavingPopped(popped, due, flags) == popped \cap flags

(* Those that leave alone: flagged, and out of the queue now or before. *)
Leaving(popped, due, flags) == (popped \cap flags) \cup due

(* closing, and _settle_timed, with the state an entry has made so far: a  *)
(* member that comes out of the queue closes its component if the          *)
(* watermark has passed them all.                                          *)
Settle(p, f, O, queue, flags, held, due, count, cur, proved) ==
  LET mark == Watermark(p, f)
      finality == Finality(p, f)
      popped == {x \in queue : Past(x, mark)}
      components == {Walk(O, flags, x) : x \in popped \ flags}
      ripe == {C \in components : \A x \in C : Past(x, mark)}
      closing == UNION ripe
      leaving == Leaving(popped, due, flags)
      gone == closing \cup leaving
      verdicts == Verdicts(closing, Within(Graph(O), closing), count)
      Final(x) == Settled(IF x \in closing THEN verdicts[x] ELSE Undecided(OVERSIZED), finality)
  IN  /\ progress' = p
      /\ first_at' = f
      /\ open' = O \ gone
      /\ heap' = queue \ popped
      /\ flagged' = flags \ gone
      /\ past' = Held(held, popped, flags, gone)
      /\ counted' = Remembered(O \ gone, count, mark)
      /\ current' = [x \in DOMAIN cur |-> IF x \in gone THEN Final(x) ELSE cur[x]]
      /\ proofs' = proved \cup {Proof(C, finality) : C \in ripe}
                          \cup {Proof({x}, finality) : x \in leaving}

-----------------------------------------------------------------------------
(* Journal entries *)

Init == /\ seen = {} /\ open = {} /\ heap = {} /\ flagged = {} /\ past = {} /\ counted = {}
        /\ progress = [s \in Sources |-> NoTime]
        /\ first_at = NoTime
        /\ current = [o \in {} |-> None]
        /\ proofs = {}
        /\ position = -1

With(o, verdict, status) == [x \in DOMAIN current \cup {o} |->
                               IF x = o THEN Settled(verdict, status) ELSE current[x]]

(* Late: told at once, and nothing settles. *)
Tell(o) == /\ IsUnder(progress, first_at, o.at)
           /\ progress' = Advanced(progress, o.source, o.at)
           /\ first_at' = FirstAt(first_at, o.at)
           /\ current' = With(o, Undecided(LATE), FINAL)
           /\ UNCHANGED <<open, heap, flagged, past, counted, proofs>>

IsOutside(o) == o.start = NoStart \/ IsTooLong(o)

(* Without times, or too long: final with a proof of its own. *)
Exclude(o) ==
  /\ ~ IsUnder(progress, first_at, o.at)
  /\ IsOutside(o)
  /\ Settle(Advanced(progress, o.source, o.at), FirstAt(first_at, o.at),
            open, heap, flagged, past, {}, counted,
            With(o, Undecided(IF o.start = NoStart THEN TIME_ABSENT ELSE TOO_LONG), FINAL),
            proofs \cup {Proof({o}, FINAL)})

(* The observation joins its component, which is decided or flagged. *)
Add(o) ==
  LET O == open \cup {o}
      members == Walk(O, flagged, o)
      count == IF Span > 0 THEN counted \cup {o} ELSE counted
      large == Touches(O, flagged, members) \/ IsTooLarge(members)
      verdicts == IF large THEN [x \in members |-> Undecided(OVERSIZED)]
                  ELSE Verdicts(members, Within(Graph(O), members), count)
  IN  /\ ~ IsUnder(progress, first_at, o.at)
      /\ ~ IsOutside(o)
      /\ Settle(Advanced(progress, o.source, o.at), FirstAt(first_at, o.at),
                O, heap \cup {o},
                IF large THEN flagged \cup members ELSE flagged,
                past,
                IF large THEN past \cap members ELSE {},
                count,
                [x \in DOMAIN current \cup {o} |->
                   IF x \in members THEN Settled(verdicts[x], PROVISIONAL) ELSE current[x]],
                proofs)

Seen(o) == /\ o \notin seen
           /\ position < MaxPosition
           /\ position' = position + 1
           /\ seen' = seen \cup {o}
           /\ Tell(o) \/ Exclude(o) \/ Add(o)

Advance(s, until) ==
  /\ position < MaxPosition
  /\ position' = position + 1
  /\ Settle(Advanced(progress, s, until), FirstAt(first_at, until),
            open, heap, flagged, past, {}, counted, current, proofs)
  /\ UNCHANGED seen

Next == \/ \E o \in Observations : Seen(o)
        \/ \E s \in Sources, until \in Untils : Advance(s, until)

Spec == Init /\ [][Next]_vars

-----------------------------------------------------------------------------
(* Properties *)

Told(o) == current[o].verdict.reason = LATE

Joined == {o \in seen : ~ Told(o) /\ ~ IsOutside(o)}

(* timing.py: timed_links on the observations O. *)
Batch(O) == Verdicts(O, Graph(O), O)

(* "The batch path's decision, taken once no observation on time can       *)
(* change it": while no source may be left out, every final verdict of the *)
(* join is the one the batch gives on all that was delivered on time.      *)
(* With a bound on silence it may not be: README, section 4.               *)
FinalsAgreeWithBatch ==
  MaxSilence = Unbounded =>
    \A o \in Joined : current[o].status = FINAL => current[o].verdict = Batch(Joined)[o]

NothingRipe ==
  LET mark == Watermark(progress, first_at)
  IN  /\ \A o \in flagged : ~ Past(o, mark)
      /\ \A o \in open : \E x \in Walk(open, {}, o) : ~ Past(x, mark)

(* "A component that never closes does not hold everything": an entry that *)
(* is not told late leaves nothing flagged past its horizon, whenever it   *)
(* was flagged, and no component that is past it whole.                    *)
NothingRipeStays == [][(\A o \in seen' \ seen : ~ Told(o)') => NothingRipe']_vars
=============================================================================
