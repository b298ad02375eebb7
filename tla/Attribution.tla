---------------------------- MODULE Attribution ----------------------------
(***************************************************************************)
(* The verdict of an M0 run (m0/attribution.py).  A measurement is built,  *)
(* or refused; Gate 0 decides whether the run counts; the tree of protocol *)
(* 3.2 names the nominal verdict; and the loop of 3.3 moves one input at a *)
(* time by its band, one action per move, and says BORDERLINE at the first *)
(* move that changes the verdict.                                          *)
(***************************************************************************)
EXTENDS Fractions, Sequences

CONSTANTS
  Measurements,  \* the arguments Metrics is called with
  Th,            \* Thresholds
  None,          \* Python's None
  MinSampleSize  \* MIN_SAMPLE_SIZE and MIN_RESIDUAL_SAMPLE_SIZE

NULL == "NULL"
VALID_BUT_INCONCLUSIVE == "VALID_BUT_INCONCLUSIVE"
VALID == "VALID"

Statuses == {NULL, VALID_BUT_INCONCLUSIVE, VALID}

A == "A"
A_WITH_WEAK_RESIDUAL == "A_WITH_WEAK_RESIDUAL"
NEEDS_DIFFERENT_MECHANISM == "NEEDS_DIFFERENT_MECHANISM"
C_SCORING_REQUIRED == "C_SCORING_REQUIRED"
B_HYBRID == "B_HYBRID"
BORDERLINE == "BORDERLINE"
CORRELATOR_NOT_MEASURED == "CORRELATOR_NOT_MEASURED"

Outcomes == {A, A_WITH_WEAK_RESIDUAL, NEEDS_DIFFERENT_MECHANISM,
             C_SCORING_REQUIRED, B_HYBRID, CORRELATOR_NOT_MEASURED}

(* Thresholds._validate. *)
ValidThresholds(th) ==
  /\ {th.q_acceptable_min, th.d_min, th.d_acc_min, th.unresolved_max, th.e_min,
      th.capture_failure_max, th.truth_coverage_min} \subseteq Fraction
  /\ {th.r_min, th.borderline_band, th.d_acc_band} \subseteq Fraction \ {0}

ASSUME AttributionAssumption ==
  /\ Measurements \subseteq [d_cov : Int, d_acc : Int, truth_coverage : Int,
                             oracle_capture_failure : Int, n : Int,
                             r : Int \cup {None}, t : Int \cup {None},
                             n_residual : Int \cup {None}]
  /\ ValidThresholds(Th)
  /\ None \notin Int \cup Outcomes \cup Statuses
  /\ MinSampleSize \in Nat \ {0}

RUN_001 ==
  [q_acceptable_min |-> 900, d_min |-> 950, d_acc_min |-> 990,
   unresolved_max |-> 30, r_min |-> 800, e_min |-> 900,
   capture_failure_max |-> 10, truth_coverage_min |-> 950,
   borderline_band |-> 20, d_acc_band |-> 5]

VARIABLES
  metrics,   \* the Metrics of the run, once it is called for
  stage,     \* what the program does next
  probe,     \* the move of the 3.3 loop that is next
  decision   \* Decision

vars == <<metrics, stage, probe, decision>>

-----------------------------------------------------------------------------
(* Metrics *)

Unresolved(m) == Unit - m.truth_coverage

(* The correlator's measurements come together and T <= R, or not at all. *)
ResidualIsValid(m) ==
  \/ m.r = None /\ m.t = None /\ m.n_residual = None
  \/ /\ None \notin {m.r, m.t, m.n_residual}
     /\ {m.r, m.t} \subseteq Fraction
     /\ m.t <= m.r
     /\ m.n_residual >= MinSampleSize
     /\ Achievable(m.r, m.n_residual) /\ Achievable(m.t, m.n_residual)

(* Metrics._validate; D_acc is a ratio of the attempts that D_cov counts. *)
IsValid(m) ==
  /\ {m.d_cov, m.d_acc, m.truth_coverage, m.oracle_capture_failure} \subseteq Fraction
  /\ m.oracle_capture_failure <= Unresolved(m)
  /\ m.n >= MinSampleSize
  /\ ResidualIsValid(m)
  /\ Achievable(m.d_cov, m.n)
  /\ Achievable(m.truth_coverage, m.n)
  /\ Achievable(m.oracle_capture_failure, m.n)
  /\ Achievable(m.d_acc, RoundHalfEven(m.d_cov * m.n, Unit))

(* The five inputs of the tree; d, a product, is over Unit^2. *)
Point(m) ==
  [d |-> m.d_cov * m.d_acc, d_acc |-> m.d_acc, unresolved |-> Unresolved(m),
   r |-> m.r, t |-> m.t]

-----------------------------------------------------------------------------
(* The tree *)

Gate0(m) ==
  IF m.oracle_capture_failure > Th.capture_failure_max THEN NULL
  ELSE IF m.truth_coverage < Th.truth_coverage_min THEN VALID_BUT_INCONCLUSIVE
  ELSE VALID

IsMeasured(p) == p.r # None /\ p.t # None

NoResidual(p) == p.d = Unit * Unit /\ p.d_acc = Unit

ObiSuffices(p) == p.d >= Th.d_min * Unit

ObiIsReliable(p) == p.d_acc >= Th.d_acc_min /\ p.unresolved <= Th.unresolved_max

(* _q is T / R, defined from R >= r_min on, and is acceptable. *)
ResidualIsGood(p) ==
  p.r >= Th.r_min /\ p.t * Unit >= Th.q_acceptable_min * p.r

(* _e, over Unit^3. *)
E(d, t) == d * Unit + (Unit * Unit - d) * t

RankingSuffices(p) == E(p.d, p.t) >= Th.e_min * Unit * Unit

(* _classify. *)
Classify(p) ==
  IF NoResidual(p) THEN A
  ELSE IF ObiSuffices(p) /\ ObiIsReliable(p)
    THEN IF ~IsMeasured(p) THEN CORRELATOR_NOT_MEASURED
         ELSE IF ResidualIsGood(p) THEN A ELSE A_WITH_WEAK_RESIDUAL
  ELSE IF ObiSuffices(p) THEN NEEDS_DIFFERENT_MECHANISM
  ELSE IF ~IsMeasured(p) THEN CORRELATOR_NOT_MEASURED
  ELSE IF p.r < Th.r_min THEN NEEDS_DIFFERENT_MECHANISM
  ELSE IF RankingSuffices(p) THEN B_HYBRID ELSE C_SCORING_REQUIRED

-----------------------------------------------------------------------------
(* The borderline zone *)

Inputs == <<"d", "d_acc", "unresolved", "r", "t">>

(* Down, then up, for each input: the order of the two loops. *)
Moves == 1 .. 2 * Len(Inputs)
InputOf(k) == Inputs[(k + 1) \div 2]

(* Mutant: only the way up is tried. *)
SignUp(k) == 1

SignOf(k) == IF k % 2 = 1 THEN -1 ELSE 1

Band(input) == IF input = "d_acc" THEN Th.d_acc_band ELSE Th.borderline_band

(* One input, by an amount in thousandths. *)
Shifted(p, input, amount) ==
  [p EXCEPT ![input] = @ + amount * (IF input = "d" THEN Unit ELSE 1)]

Moved(p, k) == Shifted(p, InputOf(k), SignOf(k) * Band(InputOf(k)))

(* Mutant: every move is judged, PI-15. *)
NoneIsImpossible(p) == FALSE

(* D <= D_acc and T <= R, whatever is measured. *)
IsImpossible(p) == p.d > p.d_acc * Unit \/ p.t > p.r

-----------------------------------------------------------------------------
(* decide *)

Undecided == [run |-> None, attribution |-> None, nominal |-> None,
              borderline_checked |-> FALSE]

Init ==
  /\ metrics = None
  /\ stage = "construct"
  /\ probe = 1
  /\ decision = Undecided

Construct(m) ==
  /\ stage = "construct"
  /\ metrics' = m
  /\ stage' = IF IsValid(m) THEN "decide" ELSE "raised"
  /\ UNCHANGED <<probe, decision>>

(* Gate 0, the nominal verdict, and whether the loop can run at all. *)
Decide ==
  /\ stage = "decide"
  /\ LET run     == Gate0(metrics)
         nominal == Classify(Point(metrics))
         checked == IsMeasured(metrics)
     IN  /\ stage' = IF run = VALID /\ checked THEN "probing" ELSE "decided"
         /\ decision' = IF run = VALID
              THEN [run |-> run, attribution |-> nominal, nominal |-> nominal,
                    borderline_checked |-> checked]
              ELSE [Undecided EXCEPT !.run = run]
  /\ UNCHANGED <<metrics, probe>>

(* One turn of the loop: an impossible point is passed over, a verdict     *)
(* that changes ends it.                                                   *)
Probe ==
  /\ stage = "probing"
  /\ LET moved == Moved(Point(metrics), probe)
         flips == ~IsImpossible(moved) /\ Classify(moved) # decision.nominal
     IN  /\ probe' = probe + 1
         /\ stage' = IF flips \/ probe + 1 \notin Moves THEN "decided" ELSE stage
         /\ decision' = IF flips THEN [decision EXCEPT !.attribution = BORDERLINE]
                                 ELSE decision
  /\ UNCHANGED metrics

Next == (\E m \in Measurements : Construct(m)) \/ Decide \/ Probe

Spec == Init /\ [][Next]_vars

-----------------------------------------------------------------------------
(* Properties *)

(* The positive definitions of docs/m0-evaluation-protocol.md 3.2, each    *)
(* stated on its own; every one but A supposes a residual.                 *)
Holds(outcome, p) ==
  CASE outcome = A ->
         NoResidual(p) \/ (/\ ObiSuffices(p) /\ ObiIsReliable(p)
                           /\ IsMeasured(p) /\ ResidualIsGood(p))
    [] outcome = A_WITH_WEAK_RESIDUAL ->
         /\ ~NoResidual(p) /\ ObiSuffices(p) /\ ObiIsReliable(p)
         /\ IsMeasured(p) /\ ~ResidualIsGood(p)
    [] outcome = NEEDS_DIFFERENT_MECHANISM ->
         /\ ~NoResidual(p)
         /\ \/ ~ObiSuffices(p) /\ IsMeasured(p) /\ p.r < Th.r_min
            \/ ObiSuffices(p) /\ ~ObiIsReliable(p)
    [] outcome = C_SCORING_REQUIRED ->
         /\ ~NoResidual(p) /\ ~ObiSuffices(p) /\ IsMeasured(p)
         /\ p.r >= Th.r_min /\ ~RankingSuffices(p)
    [] outcome = B_HYBRID ->
         /\ ~NoResidual(p) /\ ~ObiSuffices(p) /\ IsMeasured(p)
         /\ p.r >= Th.r_min /\ RankingSuffices(p)
    [] outcome = CORRELATOR_NOT_MEASURED ->
         /\ ~NoResidual(p) /\ ~IsMeasured(p)
         /\ ObiSuffices(p) => ObiIsReliable(p)

(* The nominal verdict of _classify is the one outcome whose definition in *)
(* the protocol the measurement meets: none of the early returns shadows   *)
(* another outcome, and there is no sixth hole.                            *)
VerdictsArePartition ==
  decision.nominal # None =>
    \A outcome \in Outcomes :
      Holds(outcome, Point(metrics)) <=> outcome = decision.nominal

IsFinal == stage = "decided" /\ decision.borderline_checked

(* Nobody says "94.9% is almost 95%": a strong verdict that decide does    *)
(* not flag clears the coverage threshold by the whole band and, unless    *)
(* the residual is empty, so does the unresolved zone.                     *)
StrongVerdictsAreClear ==
  (IsFinal /\ decision.attribution \in {A, A_WITH_WEAK_RESIDUAL}) =>
    LET p == Point(metrics)
    IN  /\ p.d >= (Th.d_min + Th.borderline_band) * Unit
        /\ ~NoResidual(p) => p.unresolved + Th.borderline_band <= Th.unresolved_max

(* A point some run could measure. *)
IsPossible(p) ==
  /\ p.d \in 0 .. p.d_acc * Unit
  /\ {p.d_acc, p.unresolved, p.r, p.t} \subseteq Fraction
  /\ p.t <= p.r

(* What one input alone, within its band, could have been instead. *)
Neighbours(p) ==
  UNION {{q \in {Shifted(p, Inputs[i], amount) :
                   amount \in - Band(Inputs[i]) .. Band(Inputs[i])} : IsPossible(q)} :
         i \in 1 .. Len(Inputs)}

(* A flagged run has a neighbour with another verdict that a run could     *)
(* really measure: PI-15's impossible points, and points beyond 0 and 1    *)
(* which the loop does judge, never are the only reason for the flag.      *)
BorderlineIsGenuine ==
  (IsFinal /\ decision.attribution = BORDERLINE) =>
    \E p \in Neighbours(Point(metrics)) : Classify(p) # decision.nominal
=============================================================================
