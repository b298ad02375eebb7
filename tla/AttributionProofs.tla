------------------------ MODULE AttributionProofs ------------------------
(***************************************************************************)
(* What decide concludes, for every measurement and every Thresholds that  *)
(* its own validation accepts; and, with the thresholds of RUN_001, that   *)
(* what it flags is flagged for a reason a run could measure.              *)
(***************************************************************************)
EXTENDS Attribution, TLAPS

(* What the loop has found of one move. *)
IsKept(k) ==
  LET moved == Moved(Point(metrics), k)
  IN  IsImpossible(moved) \/ Classify(moved) = decision.nominal

(* The nominal verdict is the tree's, from a measurement that was accepted *)
(* and with a correlator wherever the loop runs.                           *)
IsNominal ==
  /\ metrics \in Measurements /\ IsValid(metrics)
  /\ decision = [run |-> VALID, attribution |-> decision.attribution,
                 nominal |-> Classify(Point(metrics)),
                 borderline_checked |-> decision.borderline_checked]
  /\ decision.attribution \in {decision.nominal, BORDERLINE}
  /\ decision.borderline_checked => IsMeasured(metrics)

(* The inductive invariant: the moves before probe changed nothing.        *)
AttributionInv ==
  /\ stage \in {"construct", "raised", "decide", "probing", "decided"}
  /\ metrics \in Measurements \cup {None}
  /\ stage \in {"construct", "raised", "decide"} => decision = Undecided /\ probe = 1
  /\ stage = "decide" => metrics \in Measurements /\ IsValid(metrics)
  /\ stage = "probing" =>
       /\ IsNominal /\ decision.borderline_checked
       /\ decision.attribution = decision.nominal
       /\ probe \in 1 .. 10 /\ \A k \in 1 .. probe - 1 : IsKept(k)
  /\ stage = "decided" =>
       /\ \/ IsNominal
          \/ decision = [Undecided EXCEPT !.run = NULL]
          \/ decision = [Undecided EXCEPT !.run = VALID_BUT_INCONCLUSIVE]
       /\ probe \in 1 .. 11
       /\ (decision.borderline_checked /\ decision.attribution # BORDERLINE) =>
            \A k \in 1 .. 10 : IsKept(k)

(* The ten moves: five inputs, down and up. *)
LEMMA TenMoves == Moves = 1 .. 10 /\ Len(Inputs) = 5
  BY DEF Moves, Inputs

LEMMA InvInit == Init => AttributionInv
  BY DEF Init, AttributionInv

LEMMA InvNext == AttributionInv /\ [Next]_vars => AttributionInv'
<1> SUFFICES ASSUME AttributionInv, [Next]_vars PROVE AttributionInv'
  OBVIOUS
<1>1. ASSUME NEW m \in Measurements, Construct(m) PROVE AttributionInv'
  BY <1>1 DEF Construct, AttributionInv
<1>2. CASE Decide
  <2>1. /\ metrics \in Measurements /\ IsValid(metrics)
        /\ probe = 1 /\ metrics' = metrics /\ probe' = probe
        /\ stage' \in {"probing", "decided"}
    BY <1>2 DEF Decide, AttributionInv
  <2>2. CASE Gate0(metrics) # VALID
    <3>1. /\ stage' = "decided"
          /\ decision' = [Undecided EXCEPT !.run = Gate0(metrics)]
      BY <1>2, <2>2 DEF Decide
    <3>2. Gate0(metrics) \in {NULL, VALID_BUT_INCONCLUSIVE}
      BY <2>2 DEF Gate0
    <3>3. ~decision'.borderline_checked
      BY <3>1 DEF Undecided
    <3> QED
      BY <2>1, <3>1, <3>2, <3>3 DEF AttributionInv
  <2>3. CASE Gate0(metrics) = VALID
    <3>1. /\ decision' = [run |-> VALID, attribution |-> Classify(Point(metrics)),
                          nominal |-> Classify(Point(metrics)),
                          borderline_checked |-> IsMeasured(metrics)]
          /\ stage' = IF IsMeasured(metrics) THEN "probing" ELSE "decided"
      BY <1>2, <2>3 DEF Decide
    <3>2. IsNominal' /\ decision'.attribution = decision'.nominal
      BY <2>1, <3>1 DEF IsNominal
    <3>3. CASE IsMeasured(metrics)
      <4>1. stage' = "probing" /\ decision'.borderline_checked
        BY <3>1, <3>3
      <4> QED
        BY <2>1, <3>2, <4>1 DEF AttributionInv
    <3>4. CASE ~IsMeasured(metrics)
      <4>1. stage' = "decided" /\ ~decision'.borderline_checked
        BY <3>1, <3>4
      <4> QED
        BY <2>1, <3>2, <4>1 DEF AttributionInv
    <3> QED
      BY <3>3, <3>4
  <2> QED
    BY <2>2, <2>3
<1>3. CASE Probe
  <2> DEFINE moved == Moved(Point(metrics), probe)
             flips == ~IsImpossible(moved) /\ Classify(moved) # decision.nominal
  <2>1. /\ IsNominal /\ decision.borderline_checked
        /\ decision.attribution = decision.nominal
        /\ probe \in 1 .. 10 /\ \A k \in 1 .. probe - 1 : IsKept(k)
    BY <1>3 DEF Probe, AttributionInv
  <2>2. /\ metrics' = metrics /\ probe' = probe + 1
        /\ stage' = IF flips \/ probe + 1 \notin Moves THEN "decided" ELSE "probing"
        /\ decision' = IF flips THEN [decision EXCEPT !.attribution = BORDERLINE]
                                ELSE decision
    BY <1>3 DEF Probe
  <2>3. CASE flips
    <3>1. stage' = "decided" /\ decision' = [decision EXCEPT !.attribution = BORDERLINE]
      BY <2>2, <2>3
    <3>2. IsNominal' /\ decision'.attribution = BORDERLINE
      BY <2>1, <2>2, <3>1 DEF IsNominal
    <3> QED
      BY <2>1, <2>2, <3>1, <3>2 DEF AttributionInv, IsNominal
  <2>4. CASE ~flips
    <3>1. decision' = decision /\ IsKept(probe)
      BY <2>2, <2>4 DEF IsKept
    <3>2. IsNominal'
      BY <2>1, <2>2, <3>1 DEF IsNominal
    <3>3. \A k \in 1 .. probe : IsKept(k)'
      BY <2>1, <2>2, <3>1 DEF IsKept
    <3>4. CASE probe = 10
      <4>1. stage' = "decided" /\ probe' = 11
        BY <2>1, <2>2, <3>4, TenMoves
      <4> QED
        BY <2>1, <2>2, <3>1, <3>2, <3>3, <3>4, <4>1 DEF AttributionInv, IsNominal
    <3>5. CASE probe # 10
      <4>1. stage' = "probing" /\ probe' \in 1 .. 10 /\ 1 .. probe' - 1 = 1 .. probe
        BY <2>1, <2>2, <2>4, <3>5, TenMoves
      <4> QED
        BY <2>1, <2>2, <3>1, <3>2, <3>3, <4>1 DEF AttributionInv, IsNominal
    <3> QED
      BY <3>4, <3>5
  <2> QED
    BY <2>3, <2>4
<1>4. CASE UNCHANGED vars
  BY <1>4 DEF vars, AttributionInv, IsNominal, IsKept
<1> QED
  BY <1>1, <1>2, <1>3, <1>4 DEF Next

LEMMA InvAlways == Spec => []AttributionInv
<1>1. Init => AttributionInv
  BY InvInit
<1>2. AttributionInv /\ [Next]_vars => AttributionInv'
  BY InvNext
<1> QED
  BY <1>1, <1>2, PTL DEF Spec

(* A fraction is a number. *)
LEMMA FractionIsInt ==
  ASSUME NEW x \in Fraction PROVE x \in Int /\ 0 <= x /\ x <= 1000
  BY DEF Fraction, Unit

(* The bands and limits are numbers. *)
LEMMA ThresholdTypes ==
  /\ Th.borderline_band \in Int /\ 0 < Th.borderline_band
  /\ Th.d_min \in Int /\ Th.d_acc_min \in Int /\ Th.unresolved_max \in Int
  /\ Th.r_min \in Int
<1>1. /\ Th.borderline_band \in Fraction /\ Th.borderline_band # 0
      /\ Th.d_min \in Fraction /\ Th.d_acc_min \in Fraction
      /\ Th.unresolved_max \in Fraction /\ Th.r_min \in Fraction
  BY AttributionAssumption DEF ValidThresholds
<1> QED
  BY <1>1, FractionIsInt

(* For any inputs the outcome of _classify is the only one whose positive  *)
(* definition holds.                                                       *)
LEMMA OneOutcomeHolds ==
  ASSUME NEW p, NEW outcome \in Outcomes, IsMeasured(p) => p.r \in Int
  PROVE  Holds(outcome, p) <=> outcome = Classify(p)
<1>1. Th.r_min \in Int
  BY ThresholdTypes
<1>2. IsMeasured(p) => (p.r >= Th.r_min <=> ~(p.r < Th.r_min))
  BY <1>1
<1> QED
  BY <1>2, Zenon DEF Holds, Classify, Outcomes, A, A_WITH_WEAK_RESIDUAL,
     NEEDS_DIFFERENT_MECHANISM, C_SCORING_REQUIRED, B_HYBRID, CORRELATOR_NOT_MEASURED

(* _classify implements protocol 3.2 for every accepted measurement and    *)
(* every valid Thresholds.                                                 *)
THEOREM VerdictsPartition == Spec => []VerdictsArePartition
<1>1. AttributionInv => VerdictsArePartition
  <2> SUFFICES ASSUME AttributionInv, decision.nominal # None, NEW outcome \in Outcomes
               PROVE  Holds(outcome, Point(metrics)) <=> outcome = decision.nominal
    BY DEF VerdictsArePartition
  <2>1. IsNominal
    BY DEF AttributionInv, Undecided
  <2>2. decision.nominal = Classify(Point(metrics))
    BY <2>1 DEF IsNominal
  <2>3. IsMeasured(Point(metrics)) => Point(metrics).r \in Int
    BY <2>1, AttributionAssumption DEF IsNominal, IsMeasured, Point
  <2> QED
    BY <2>2, <2>3, OneOutcomeHolds
<1> QED
  BY <1>1, InvAlways, PTL

(* What validation says of the five inputs. *)
LEMMA PointIsPossible ==
  ASSUME NEW m \in Measurements, IsValid(m), IsMeasured(m)
  PROVE  LET p == Point(m)
         IN  /\ p.d \in Int /\ p.d <= p.d_acc * Unit /\ p.d_acc \in Fraction
             /\ p.unresolved \in Int /\ p.r \in Int /\ p.t \in Int /\ p.t <= p.r
<1>1. /\ m.d_cov \in Int /\ 0 <= m.d_cov /\ m.d_cov <= 1000
      /\ m.d_acc \in Int /\ 0 <= m.d_acc /\ m.d_acc <= 1000
      /\ m.truth_coverage \in Int
  <2>1. m.d_cov \in Fraction /\ m.d_acc \in Fraction /\ m.truth_coverage \in Fraction
    BY DEF IsValid
  <2> QED
    BY <2>1, FractionIsInt
<1>2. m.r \in Int /\ m.t \in Int /\ m.t <= m.r
  BY DEF IsValid, IsMeasured, ResidualIsValid, Fraction
<1>3. ASSUME NEW a \in Int, NEW b \in Int, 0 <= b, a <= 1000
      PROVE  a * b \in Int /\ a * b <= b * 1000
  BY <1>3
<1>4. m.d_cov * m.d_acc \in Int /\ m.d_cov * m.d_acc <= m.d_acc * 1000
  BY <1>1, <1>3
<1> DEFINE p == Point(m)
<1>5. p.d = m.d_cov * m.d_acc
  BY Zenon DEF Point
<1>6. /\ p.d_acc = m.d_acc /\ p.unresolved = 1000 - m.truth_coverage
      /\ p.r = m.r /\ p.t = m.t
  BY Zenon DEF Point, Unresolved, Unit
<1> HIDE DEF p
<1>7. p.d \in Int /\ p.d <= p.d_acc * Unit
  <2>1. p.d \in Int /\ p.d <= p.d_acc * 1000
    BY <1>4, <1>5, <1>6, Zenon
  <2> QED
    BY <2>1 DEF Unit
<1>8. p.d_acc \in Fraction
  BY <1>1, <1>6 DEF Fraction, Unit
<1>9. p.unresolved \in Int
  BY <1>1, <1>6
<1>10. p.r \in Int /\ p.t \in Int /\ p.t <= p.r
  BY <1>2, <1>6, Zenon
<1> QED
  BY <1>7, <1>8, <1>9, <1>10 DEF p

(* The two moves that guard a strong verdict, as the loop makes them: the  *)
(* first takes D down, the sixth takes the unresolved zone up.             *)
LEMMA GuardingMoves ==
  ASSUME NEW p
  PROVE  /\ Moved(p, 1) = [p EXCEPT !["d"] = @ + ((-1) * Th.borderline_band) * Unit]
         /\ Moved(p, 6) = [p EXCEPT !["unresolved"] = @ + (1 * Th.borderline_band) * 1]
<1>1. InputOf(1) = "d" /\ SignOf(1) = -1
  BY DEF InputOf, SignOf, Inputs
<1>2. InputOf(6) = "unresolved" /\ SignOf(6) = 1
  BY DEF InputOf, SignOf, Inputs
<1>3. Band("d") = Th.borderline_band /\ Band("unresolved") = Th.borderline_band
  BY DEF Band
<1>4. Moved(p, 1) = Shifted(p, "d", (-1) * Th.borderline_band)
  BY <1>1, <1>3, Zenon DEF Moved
<1>5. Moved(p, 6) = Shifted(p, "unresolved", 1 * Th.borderline_band)
  BY <1>2, <1>3, Zenon DEF Moved
<1>6. ASSUME NEW amount
      PROVE  Shifted(p, "d", amount) = [p EXCEPT !["d"] = @ + amount * Unit]
  BY Zenon DEF Shifted
<1>7. ASSUME NEW amount
      PROVE  Shifted(p, "unresolved", amount) = [p EXCEPT !["unresolved"] = @ + amount * 1]
  <2>1. "unresolved" # "d"
    OBVIOUS
  <2> QED
    BY <2>1, Zenon DEF Shifted
<1> QED
  BY <1>4, <1>5, <1>6, <1>7, Zenon

(* A strong outcome of the tree needs the coverage and, with a residual,   *)
(* the reliability.                                                        *)
LEMMA StrongNeeds ==
  ASSUME NEW p, Classify(p) \in {A, A_WITH_WEAK_RESIDUAL}
  PROVE  NoResidual(p) \/ (ObiSuffices(p) /\ ObiIsReliable(p))
  BY DEF Classify, A, A_WITH_WEAK_RESIDUAL, NEEDS_DIFFERENT_MECHANISM,
     C_SCORING_REQUIRED, B_HYBRID, CORRELATOR_NOT_MEASURED

(* "94.9% is almost 95%" is never said, whatever the thresholds and bands: *)
(* neither guarding move is ever passed over as impossible.                *)
THEOREM StrongVerdictsClearTheBand == Spec => []StrongVerdictsAreClear
<1>1. AttributionInv => StrongVerdictsAreClear
  <2> SUFFICES ASSUME AttributionInv, IsFinal,
                      decision.attribution \in {A, A_WITH_WEAK_RESIDUAL}
               PROVE  LET p == Point(metrics)
                      IN  /\ p.d >= (Th.d_min + Th.borderline_band) * Unit
                          /\ ~NoResidual(p) =>
                               p.unresolved + Th.borderline_band <= Th.unresolved_max
    BY DEF StrongVerdictsAreClear
  <2>1. decision.attribution # BORDERLINE
    BY DEF A, A_WITH_WEAK_RESIDUAL, BORDERLINE
  <2>2. IsNominal /\ decision.borderline_checked
    BY DEF AttributionInv, IsFinal, Undecided
  <2>3. decision.nominal \in {A, A_WITH_WEAK_RESIDUAL} /\ IsMeasured(metrics)
    BY <2>1, <2>2 DEF IsNominal
  <2>4. IsKept(1) /\ IsKept(6)
    BY <2>1, <2>2 DEF AttributionInv, IsFinal
  <2> DEFINE p == Point(metrics)
             down == Moved(p, 1)
             up == Moved(p, 6)
  <2>5. /\ p.d \in Int /\ p.d <= p.d_acc * Unit /\ p.d_acc \in Fraction
        /\ p.unresolved \in Int /\ p.r \in Int /\ p.t \in Int /\ p.t <= p.r
    BY <2>2, <2>3, PointIsPossible DEF IsNominal
  <2>6. /\ down.d = p.d - Th.borderline_band * Unit
        /\ down.d_acc = p.d_acc /\ down.r = p.r /\ down.t = p.t
        /\ up.unresolved = p.unresolved + Th.borderline_band
        /\ up.d = p.d /\ up.d_acc = p.d_acc /\ up.r = p.r /\ up.t = p.t
    <3>1. p = [d |-> p.d, d_acc |-> p.d_acc, unresolved |-> p.unresolved,
               r |-> p.r, t |-> p.t]
      BY DEF Point
    <3>2. /\ down = [p EXCEPT !["d"] = @ + ((-1) * Th.borderline_band) * Unit]
          /\ up = [p EXCEPT !["unresolved"] = @ + (1 * Th.borderline_band) * 1]
      BY GuardingMoves
    <3> HIDE DEF p, down, up
    <3>3. /\ down.d = p.d + ((-1) * Th.borderline_band) * Unit
          /\ down.d_acc = p.d_acc /\ down.r = p.r /\ down.t = p.t
      BY <3>1, <3>2
    <3>4. /\ up.unresolved = p.unresolved + (1 * Th.borderline_band) * 1
          /\ up.d = p.d /\ up.d_acc = p.d_acc /\ up.r = p.r /\ up.t = p.t
      BY <3>1, <3>2
    <3> QED
      BY <2>5, <3>3, <3>4, ThresholdTypes DEF Unit
  <2>7. IsImpossible(down) \/ Classify(down) = decision.nominal
    BY <2>4 DEF IsKept
  <2>8. IsImpossible(up) \/ Classify(up) = decision.nominal
    BY <2>4 DEF IsKept
  <2> HIDE DEF p, down, up
  <2>9. ~IsImpossible(down) /\ ~IsImpossible(up)
    <3>1. p.d_acc \in Int /\ down.d \in Int /\ down.d <= p.d
      BY <2>5, <2>6, ThresholdTypes, FractionIsInt DEF Unit
    <3>2. ~(down.d > down.d_acc * Unit) /\ ~(up.d > up.d_acc * Unit)
      BY <2>5, <2>6, <3>1 DEF Unit
    <3>3. ~(down.t > down.r) /\ ~(up.t > up.r)
      BY <2>5, <2>6
    <3> QED
      BY <3>2, <3>3 DEF IsImpossible
  <2>10. p.d >= (Th.d_min + Th.borderline_band) * Unit
    <3>1. NoResidual(down) \/ ObiSuffices(down)
      BY <2>3, <2>7, <2>9, StrongNeeds
    <3>2. ~NoResidual(down)
      BY <2>5, <2>6, ThresholdTypes DEF NoResidual, Unit, Fraction
    <3> QED
      BY <2>5, <2>6, <3>1, <3>2, ThresholdTypes DEF ObiSuffices, Unit
  <2>11. ~NoResidual(p) => p.unresolved + Th.borderline_band <= Th.unresolved_max
    <3>1. NoResidual(up) \/ ObiIsReliable(up)
      BY <2>3, <2>8, <2>9, StrongNeeds
    <3> QED
      BY <2>6, <3>1 DEF NoResidual, ObiIsReliable
  <2> QED
    BY <2>10, <2>11 DEF p
<1> QED
  BY <1>1, InvAlways, PTL
-----------------------------------------------------------------------------
(* A flag is genuine, with the thresholds of the program. *)

(* A flag was raised by a move that was judged and changed the verdict. *)
FlagsAreEarned ==
  (decision.borderline_checked /\ decision.attribution = BORDERLINE) =>
    \E k \in 1 .. 10 : ~ IsKept(k)

LEMMA NominalIsNoFlag ==
  ASSUME NEW p
  PROVE  Classify(p) # BORDERLINE
  BY DEF Classify, A, A_WITH_WEAK_RESIDUAL, NEEDS_DIFFERENT_MECHANISM,
     C_SCORING_REQUIRED, B_HYBRID, CORRELATOR_NOT_MEASURED, BORDERLINE

LEMMA FlagsStayEarned == Spec => []FlagsAreEarned
<1>1. Init => FlagsAreEarned
  BY DEF Init, FlagsAreEarned, Undecided
<1>2. ASSUME AttributionInv, FlagsAreEarned, [Next]_vars
      PROVE  FlagsAreEarned'
  <2>1. ASSUME NEW m \in Measurements, Construct(m)
        PROVE  FlagsAreEarned'
    <3>1. decision' = Undecided
      BY <1>2, <2>1 DEF Construct, AttributionInv
    <3> QED
      BY <3>1 DEF FlagsAreEarned, Undecided
  <2>2. CASE Decide
    <3>1. CASE Gate0(metrics) = VALID
      <4>1. decision'.attribution = Classify(Point(metrics))
        BY <2>2, <3>1 DEF Decide
      <4> QED
        BY <4>1, NominalIsNoFlag DEF FlagsAreEarned
    <3>2. CASE Gate0(metrics) # VALID
      <4>1. ~ decision'.borderline_checked
        BY <2>2, <3>2 DEF Decide, Undecided
      <4> QED
        BY <4>1 DEF FlagsAreEarned
    <3> QED
      BY <3>1, <3>2
  <2>3. CASE Probe
    <3> DEFINE moved == Moved(Point(metrics), probe)
               flips == ~IsImpossible(moved) /\ Classify(moved) # decision.nominal
    <3>1. /\ metrics' = metrics
          /\ decision' = IF flips THEN [decision EXCEPT !.attribution = BORDERLINE] ELSE decision
      BY <2>3 DEF Probe
    <3>2. /\ IsNominal /\ decision.attribution = decision.nominal /\ probe \in 1 .. 10
          /\ decision.nominal = Classify(Point(metrics))
      BY <1>2, <2>3 DEF Probe, AttributionInv, IsNominal
    <3>3. CASE flips
      <4>1. decision'.nominal = decision.nominal
        BY <3>1, <3>2, <3>3 DEF IsNominal
      <4>2. PICK k \in 1 .. 10 : k = probe
        BY <3>2
      <4>3. ~ IsKept(k)'
        BY <3>1, <3>3, <4>1, <4>2 DEF IsKept
      <4> QED
        BY <4>3 DEF FlagsAreEarned
    <3>4. CASE ~ flips
      <4>1. decision'.attribution # BORDERLINE
        BY <3>1, <3>2, <3>4, NominalIsNoFlag
      <4> QED
        BY <4>1 DEF FlagsAreEarned
    <3> QED
      BY <3>3, <3>4
  <2>4. CASE UNCHANGED vars
    BY <1>2, <2>4 DEF vars, FlagsAreEarned, IsKept
  <2> QED
    BY <1>2, <2>1, <2>2, <2>3, <2>4 DEF Next
<1> QED
  BY <1>1, <1>2, InvAlways, PTL DEF Spec

(* A point, field by field. *)
At(d, acc, un, r, t) == [d |-> d, d_acc |-> acc, unresolved |-> un, r |-> r, t |-> t]

LEMMA ShiftedPoint ==
  ASSUME NEW d, NEW acc, NEW un, NEW r, NEW t, NEW a
  PROVE  LET p == At(d, acc, un, r, t)
         IN  /\ Shifted(p, "d", a) = At(d + a * 1000, acc, un, r, t)
             /\ Shifted(p, "d_acc", a) = At(d, acc + a * 1, un, r, t)
             /\ Shifted(p, "unresolved", a) = At(d, acc, un + a * 1, r, t)
             /\ Shifted(p, "r", a) = At(d, acc, un, r + a * 1, t)
             /\ Shifted(p, "t", a) = At(d, acc, un, r, t + a * 1)
<1> DEFINE p == At(d, acc, un, r, t)
<1>1. Shifted(p, "d", a) = At(d + a * 1000, acc, un, r, t)
  BY DEF Shifted, At, Unit
<1>2. Shifted(p, "d_acc", a) = At(d, acc + a * 1, un, r, t)
  BY DEF Shifted, At, Unit
<1>3. Shifted(p, "unresolved", a) = At(d, acc, un + a * 1, r, t)
  BY DEF Shifted, At, Unit
<1>4. Shifted(p, "r", a) = At(d, acc, un, r + a * 1, t)
  BY DEF Shifted, At, Unit
<1>5. Shifted(p, "t", a) = At(d, acc, un, r, t + a * 1)
  BY DEF Shifted, At, Unit
<1> QED
  BY <1>1, <1>2, <1>3, <1>4, <1>5
LEMMA Run001 ==
  ASSUME Th = RUN_001
  PROVE  /\ Th.q_acceptable_min = 900 /\ Th.d_min = 950 /\ Th.d_acc_min = 990
         /\ Th.unresolved_max = 30 /\ Th.r_min = 800 /\ Th.e_min = 900
         /\ Band("d") = 20 /\ Band("d_acc") = 5 /\ Band("unresolved") = 20
         /\ Band("r") = 20 /\ Band("t") = 20
  BY DEF RUN_001, Band

(* The tree with the thresholds of RUN_001, on measured inputs. *)
Covers(d) == d >= 950000
IsGood(r, t) == r >= 800 /\ t * 1000 >= 900 * r
Ranks(d, t) == d * 1000 + (1000000 - d) * t >= 900000000

Tree(d, acc, un, r, t) ==
  IF d = 1000000 /\ acc = 1000 THEN A
  ELSE IF Covers(d) /\ acc >= 990 /\ un <= 30
    THEN IF IsGood(r, t) THEN A ELSE A_WITH_WEAK_RESIDUAL
  ELSE IF Covers(d) \/ r < 800 THEN NEEDS_DIFFERENT_MECHANISM
  ELSE IF Ranks(d, t) THEN B_HYBRID ELSE C_SCORING_REQUIRED

LEMMA ClassifyIsTree ==
  ASSUME Th = RUN_001, NEW d \in Int, NEW acc \in Int, NEW un \in Int, NEW r \in Int, NEW t \in Int
  PROVE  Classify(At(d, acc, un, r, t)) = Tree(d, acc, un, r, t)
<1> DEFINE p == At(d, acc, un, r, t)
<1>1. p.d = d /\ p.d_acc = acc /\ p.unresolved = un /\ p.r = r /\ p.t = t
  BY DEF At
<1> HIDE DEF p
<1>2. IsMeasured(p)
  BY <1>1, AttributionAssumption DEF IsMeasured
<1>3. NoResidual(p) <=> d = 1000000 /\ acc = 1000
  BY <1>1 DEF NoResidual, Unit
<1>4. ObiSuffices(p) <=> Covers(d)
  BY <1>1, Run001 DEF ObiSuffices, Covers, Unit
<1>5. ObiIsReliable(p) <=> acc >= 990 /\ un <= 30
  BY <1>1, Run001 DEF ObiIsReliable
<1>6. ResidualIsGood(p) <=> IsGood(r, t)
  BY <1>1, Run001 DEF ResidualIsGood, IsGood, Unit
<1>7. p.r < Th.r_min <=> r < 800
  BY <1>1, Run001
<1>8. RankingSuffices(p) <=> Ranks(d, t)
  <2>1. Th.e_min * Unit * Unit = 900000000 /\ Unit * Unit = 1000000
    BY Run001 DEF Unit
  <2> QED
    BY <1>1, <2>1 DEF RankingSuffices, Ranks, E, Unit
<1>9. Classify(p) = Tree(d, acc, un, r, t)
  BY <1>2, <1>3, <1>4, <1>5, <1>6, <1>7, <1>8 DEF Classify, Tree
<1> QED
  BY <1>9 DEF p

(* A point that a run could measure. *)
IsMeasurable(d, acc, un, r, t) ==
  /\ d \in Int /\ 0 <= d /\ d <= acc * 1000
  /\ acc \in Int /\ acc <= 1000
  /\ un \in Int /\ 0 <= un /\ un <= 1000
  /\ r \in Int /\ r <= 1000 /\ t \in Int /\ 0 <= t /\ t <= r

LEMMA MeasurableIsPossible ==
  ASSUME NEW d, NEW acc, NEW un, NEW r, NEW t, IsMeasurable(d, acc, un, r, t)
  PROVE  IsPossible(At(d, acc, un, r, t))
<1> DEFINE p == At(d, acc, un, r, t)
<1>1. p.d = d /\ p.d_acc = acc /\ p.unresolved = un /\ p.r = r /\ p.t = t
  BY DEF At
<1> HIDE DEF p
<1>2. p.d \in 0 .. p.d_acc * Unit
  BY <1>1 DEF IsMeasurable, Unit
<1>3. acc \in Fraction /\ un \in Fraction /\ r \in Fraction /\ t \in Fraction
  BY DEF IsMeasurable, Fraction, Unit
<1>4. p.t <= p.r
  BY <1>1 DEF IsMeasurable
<1>5. IsPossible(p)
  BY <1>1, <1>2, <1>3, <1>4 DEF IsPossible
<1> QED
  BY <1>5 DEF p

(* Some neighbour has another verdict. *)
IsNear(p) == \E q \in Neighbours(p) : Classify(q) # Classify(p)

LEMMA Witnessed ==
  ASSUME NEW p, NEW n \in 1 .. 5, NEW a \in Int, - Band(Inputs[n]) <= a, a <= Band(Inputs[n]),
         Band(Inputs[n]) \in Int,
         IsPossible(Shifted(p, Inputs[n], a)), Classify(Shifted(p, Inputs[n], a)) # Classify(p)
  PROVE  IsNear(p)
<1> DEFINE q == Shifted(p, Inputs[n], a)
<1>1. a \in - Band(Inputs[n]) .. Band(Inputs[n])
  OBVIOUS
<1>2. n \in 1 .. Len(Inputs)
  BY TenMoves
<1>3. q \in Neighbours(p)
  BY <1>1, <1>2 DEF Neighbours
<1> QED
  BY <1>3 DEF IsNear

LEMMA InputNames ==
  /\ Inputs[1] = "d" /\ Inputs[2] = "d_acc" /\ Inputs[3] = "unresolved"
  /\ Inputs[4] = "r" /\ Inputs[5] = "t"
  BY DEF Inputs

(* The witnesses, one input at a time. *)
LEMMA NearBy ==
  ASSUME Th = RUN_001, NEW d, NEW acc, NEW un, NEW r, NEW t, IsMeasurable(d, acc, un, r, t)
  PROVE  LET p == At(d, acc, un, r, t)
             v == Tree(d, acc, un, r, t)
         IN  \A a \in Int : -20 <= a /\ a <= 20 =>
               /\ IsMeasurable(d + a * 1000, acc, un, r, t) /\ Tree(d + a * 1000, acc, un, r, t) # v
                    => IsNear(p)
               /\ (/\ -5 <= a /\ a <= 5 /\ IsMeasurable(d, acc + a, un, r, t)
                   /\ Tree(d, acc + a, un, r, t) # v) => IsNear(p)
               /\ IsMeasurable(d, acc, un + a, r, t) /\ Tree(d, acc, un + a, r, t) # v => IsNear(p)
               /\ IsMeasurable(d, acc, un, r + a, t) /\ Tree(d, acc, un, r + a, t) # v => IsNear(p)
               /\ IsMeasurable(d, acc, un, r, t + a) /\ Tree(d, acc, un, r, t + a) # v => IsNear(p)
<1> DEFINE p == At(d, acc, un, r, t)
           v == Tree(d, acc, un, r, t)
<1>0. d \in Int /\ acc \in Int /\ un \in Int /\ r \in Int /\ t \in Int
  BY DEF IsMeasurable
<1>1. Classify(p) = v
  BY <1>0, ClassifyIsTree
<1>2. ASSUME NEW n \in 1 .. 5, NEW a \in Int, - Band(Inputs[n]) <= a, a <= Band(Inputs[n]),
             Band(Inputs[n]) \in Int,
             NEW e, NEW bcc, NEW vn, NEW s, NEW w, Shifted(p, Inputs[n], a) = At(e, bcc, vn, s, w),
             IsMeasurable(e, bcc, vn, s, w), Tree(e, bcc, vn, s, w) # v
      PROVE  IsNear(p)
  <2>1. IsPossible(At(e, bcc, vn, s, w))
    BY <1>2, MeasurableIsPossible
  <2>2. e \in Int /\ bcc \in Int /\ vn \in Int /\ s \in Int /\ w \in Int
    BY <1>2 DEF IsMeasurable
  <2>3. Classify(At(e, bcc, vn, s, w)) # Classify(p)
    BY <1>1, <1>2, <2>2, ClassifyIsTree
  <2> HIDE DEF p, v
  <2> QED
    BY <1>2, <2>1, <2>3, Witnessed
<1>3. /\ Inputs[1] = "d" /\ Inputs[2] = "d_acc" /\ Inputs[3] = "unresolved"
      /\ Inputs[4] = "r" /\ Inputs[5] = "t"
      /\ Band("d") = 20 /\ Band("d_acc") = 5 /\ Band("unresolved") = 20
      /\ Band("r") = 20 /\ Band("t") = 20
  BY InputNames, Run001
<1> SUFFICES ASSUME NEW a \in Int, -20 <= a, a <= 20
             PROVE  /\ IsMeasurable(d + a * 1000, acc, un, r, t) /\ Tree(d + a * 1000, acc, un, r, t) # v
                         => IsNear(p)
                    /\ (/\ -5 <= a /\ a <= 5 /\ IsMeasurable(d, acc + a, un, r, t)
                        /\ Tree(d, acc + a, un, r, t) # v) => IsNear(p)
                    /\ IsMeasurable(d, acc, un + a, r, t) /\ Tree(d, acc, un + a, r, t) # v => IsNear(p)
                    /\ IsMeasurable(d, acc, un, r + a, t) /\ Tree(d, acc, un, r + a, t) # v => IsNear(p)
                    /\ IsMeasurable(d, acc, un, r, t + a) /\ Tree(d, acc, un, r, t + a) # v => IsNear(p)
  OBVIOUS
<1>4. /\ Shifted(p, "d", a) = At(d + a * 1000, acc, un, r, t)
      /\ Shifted(p, "d_acc", a) = At(d, acc + a, un, r, t)
      /\ Shifted(p, "unresolved", a) = At(d, acc, un + a, r, t)
      /\ Shifted(p, "r", a) = At(d, acc, un, r + a, t)
      /\ Shifted(p, "t", a) = At(d, acc, un, r, t + a)
  <2>1. a * 1 = a
    OBVIOUS
  <2>2. /\ Shifted(p, "d", a) = At(d + a * 1000, acc, un, r, t)
        /\ Shifted(p, "d_acc", a) = At(d, acc + a * 1, un, r, t)
        /\ Shifted(p, "unresolved", a) = At(d, acc, un + a * 1, r, t)
        /\ Shifted(p, "r", a) = At(d, acc, un, r + a * 1, t)
        /\ Shifted(p, "t", a) = At(d, acc, un, r, t + a * 1)
    BY ShiftedPoint
  <2> QED
    BY <2>1, <2>2
<1> HIDE DEF p, v
<1>5. ASSUME IsMeasurable(d + a * 1000, acc, un, r, t), Tree(d + a * 1000, acc, un, r, t) # v
      PROVE  IsNear(p)
  <2>1. 1 \in 1 .. 5 /\ - Band(Inputs[1]) <= a /\ a <= Band(Inputs[1]) /\ Band(Inputs[1]) \in Int
        /\ Shifted(p, Inputs[1], a) = At(d + a * 1000, acc, un, r, t)
    BY <1>3, <1>4
  <2> QED
    BY <1>2, <1>5, <2>1
<1>6. ASSUME -5 <= a, a <= 5, IsMeasurable(d, acc + a, un, r, t), Tree(d, acc + a, un, r, t) # v
      PROVE  IsNear(p)
  <2>1. 2 \in 1 .. 5 /\ - Band(Inputs[2]) <= a /\ a <= Band(Inputs[2]) /\ Band(Inputs[2]) \in Int
        /\ Shifted(p, Inputs[2], a) = At(d, acc + a, un, r, t)
    BY <1>3, <1>4, <1>6
  <2> QED
    BY <1>2, <1>6, <2>1
<1>7. ASSUME IsMeasurable(d, acc, un + a, r, t), Tree(d, acc, un + a, r, t) # v
      PROVE  IsNear(p)
  <2>1. 3 \in 1 .. 5 /\ - Band(Inputs[3]) <= a /\ a <= Band(Inputs[3]) /\ Band(Inputs[3]) \in Int
        /\ Shifted(p, Inputs[3], a) = At(d, acc, un + a, r, t)
    BY <1>3, <1>4
  <2> QED
    BY <1>2, <1>7, <2>1
<1>8. ASSUME IsMeasurable(d, acc, un, r + a, t), Tree(d, acc, un, r + a, t) # v
      PROVE  IsNear(p)
  <2>1. 4 \in 1 .. 5 /\ - Band(Inputs[4]) <= a /\ a <= Band(Inputs[4]) /\ Band(Inputs[4]) \in Int
        /\ Shifted(p, Inputs[4], a) = At(d, acc, un, r + a, t)
    BY <1>3, <1>4
  <2> QED
    BY <1>2, <1>8, <2>1
<1>9. ASSUME IsMeasurable(d, acc, un, r, t + a), Tree(d, acc, un, r, t + a) # v
      PROVE  IsNear(p)
  <2>1. 5 \in 1 .. 5 /\ - Band(Inputs[5]) <= a /\ a <= Band(Inputs[5]) /\ Band(Inputs[5]) \in Int
        /\ Shifted(p, Inputs[5], a) = At(d, acc, un, r, t + a)
    BY <1>3, <1>4
  <2> QED
    BY <1>2, <1>9, <2>1
<1> QED
  BY <1>5, <1>6, <1>7, <1>8, <1>9

(* The moves of the loop. *)
LEMMA MovedPoint ==
  ASSUME Th = RUN_001, NEW d \in Int, NEW acc \in Int, NEW un \in Int, NEW r \in Int, NEW t \in Int
  PROVE  LET p == At(d, acc, un, r, t)
         IN  /\ Moved(p, 1) = At(d - 20000, acc, un, r, t) /\ Moved(p, 2) = At(d + 20000, acc, un, r, t)
             /\ Moved(p, 3) = At(d, acc - 5, un, r, t) /\ Moved(p, 4) = At(d, acc + 5, un, r, t)
             /\ Moved(p, 5) = At(d, acc, un - 20, r, t) /\ Moved(p, 6) = At(d, acc, un + 20, r, t)
             /\ Moved(p, 7) = At(d, acc, un, r - 20, t) /\ Moved(p, 8) = At(d, acc, un, r + 20, t)
             /\ Moved(p, 9) = At(d, acc, un, r, t - 20) /\ Moved(p, 10) = At(d, acc, un, r, t + 20)
<1> DEFINE p == At(d, acc, un, r, t)
<1>1. /\ InputOf(1) = "d" /\ InputOf(2) = "d" /\ InputOf(3) = "d_acc" /\ InputOf(4) = "d_acc"
      /\ InputOf(5) = "unresolved" /\ InputOf(6) = "unresolved" /\ InputOf(7) = "r"
      /\ InputOf(8) = "r" /\ InputOf(9) = "t" /\ InputOf(10) = "t"
  BY DEF InputOf, Inputs
<1>2. /\ \A k \in {1, 3, 5, 7, 9} : SignOf(k) = -1
      /\ \A k \in {2, 4, 6, 8, 10} : SignOf(k) = 1
  BY DEF SignOf
<1>3. /\ Band("d") = 20 /\ Band("d_acc") = 5 /\ Band("unresolved") = 20
      /\ Band("r") = 20 /\ Band("t") = 20
  BY Run001
<1>4. \A a : /\ Shifted(p, "d", a) = At(d + a * 1000, acc, un, r, t)
             /\ Shifted(p, "d_acc", a) = At(d, acc + a * 1, un, r, t)
             /\ Shifted(p, "unresolved", a) = At(d, acc, un + a * 1, r, t)
             /\ Shifted(p, "r", a) = At(d, acc, un, r + a * 1, t)
             /\ Shifted(p, "t", a) = At(d, acc, un, r, t + a * 1)
  BY ShiftedPoint
<1> HIDE DEF p
<1>5. Moved(p, 1) = At(d - 20000, acc, un, r, t) /\ Moved(p, 2) = At(d + 20000, acc, un, r, t)
  BY <1>1, <1>2, <1>3, <1>4 DEF Moved
<1>6. Moved(p, 3) = At(d, acc - 5, un, r, t) /\ Moved(p, 4) = At(d, acc + 5, un, r, t)
  BY <1>1, <1>2, <1>3, <1>4 DEF Moved
<1>7. Moved(p, 5) = At(d, acc, un - 20, r, t) /\ Moved(p, 6) = At(d, acc, un + 20, r, t)
  BY <1>1, <1>2, <1>3, <1>4 DEF Moved
<1>8. Moved(p, 7) = At(d, acc, un, r - 20, t) /\ Moved(p, 8) = At(d, acc, un, r + 20, t)
  BY <1>1, <1>2, <1>3, <1>4 DEF Moved
<1>9. Moved(p, 9) = At(d, acc, un, r, t - 20) /\ Moved(p, 10) = At(d, acc, un, r, t + 20)
  BY <1>1, <1>2, <1>3, <1>4 DEF Moved
<1> QED
  BY <1>5, <1>6, <1>7, <1>8, <1>9 DEF p
(* Expected success, with the products of D and T written out. *)
LEMMA RanksIs ==
  ASSUME NEW d \in Int, NEW t \in Int
  PROVE  Ranks(d, t) <=> d * 1000 + 1000000 * t - d * t >= 900000000
  BY SMT DEF Ranks

(* A move that changes the verdict of a point a run could measure: it is   *)
(* itself within the bounds, or it leaves them and then another input can  *)
(* make the same change within them.                                       *)
LEMMA FlipsAreNear ==
  ASSUME Th = RUN_001, NEW d, NEW acc, NEW un, NEW r, NEW t, IsMeasurable(d, acc, un, r, t),
         NEW k \in 1 .. 10, ~ IsImpossible(Moved(At(d, acc, un, r, t), k)),
         Classify(Moved(At(d, acc, un, r, t), k)) # Classify(At(d, acc, un, r, t))
  PROVE  IsNear(At(d, acc, un, r, t))
<1> DEFINE p == At(d, acc, un, r, t)
           v == Tree(d, acc, un, r, t)
           Judged(e, b, n, s, w) == e <= b * 1000 /\ w <= s /\ Tree(e, b, n, s, w) # v
<1> SUFFICES IsNear(p)
  OBVIOUS
<1>0. /\ d \in Int /\ 0 <= d /\ d <= acc * 1000 /\ acc \in Int /\ acc <= 1000
      /\ un \in Int /\ 0 <= un /\ un <= 1000
      /\ r \in Int /\ r <= 1000 /\ t \in Int /\ 0 <= t /\ t <= r
  BY SMT DEF IsMeasurable
<1>1. /\ Moved(p, 1) = At(d - 20000, acc, un, r, t) /\ Moved(p, 2) = At(d + 20000, acc, un, r, t)
      /\ Moved(p, 3) = At(d, acc - 5, un, r, t) /\ Moved(p, 4) = At(d, acc + 5, un, r, t)
      /\ Moved(p, 5) = At(d, acc, un - 20, r, t) /\ Moved(p, 6) = At(d, acc, un + 20, r, t)
      /\ Moved(p, 7) = At(d, acc, un, r - 20, t) /\ Moved(p, 8) = At(d, acc, un, r + 20, t)
      /\ Moved(p, 9) = At(d, acc, un, r, t - 20) /\ Moved(p, 10) = At(d, acc, un, r, t + 20)
  BY <1>0, MovedPoint, SMT
<1>2. ASSUME NEW e \in Int, NEW b \in Int, NEW n \in Int, NEW s \in Int, NEW w \in Int,
             Moved(p, k) = At(e, b, n, s, w)
      PROVE  Judged(e, b, n, s, w)
  <2>1. Classify(p) = v /\ Classify(At(e, b, n, s, w)) = Tree(e, b, n, s, w)
    BY <1>0, <1>2, ClassifyIsTree, SMT
  <2>2. ~ IsImpossible(At(e, b, n, s, w)) /\ Tree(e, b, n, s, w) # v
    BY <1>2, <2>1, SMT
  <2>3. ~ (e > b * 1000) /\ ~ (w > s)
    BY <2>2, SMT DEF IsImpossible, At, Unit
  <2> QED
    BY <1>2, <2>2, <2>3, SMT
<1>3. \A a \in Int : -20 <= a /\ a <= 20 =>
        /\ IsMeasurable(d + a * 1000, acc, un, r, t) /\ Tree(d + a * 1000, acc, un, r, t) # v => IsNear(p)
        /\ (/\ -5 <= a /\ a <= 5 /\ IsMeasurable(d, acc + a, un, r, t)
            /\ Tree(d, acc + a, un, r, t) # v) => IsNear(p)
        /\ IsMeasurable(d, acc, un + a, r, t) /\ Tree(d, acc, un + a, r, t) # v => IsNear(p)
        /\ IsMeasurable(d, acc, un, r + a, t) /\ Tree(d, acc, un, r + a, t) # v => IsNear(p)
        /\ IsMeasurable(d, acc, un, r, t + a) /\ Tree(d, acc, un, r, t + a) # v => IsNear(p)
  BY NearBy, SMT
<1> HIDE DEF p, v, Judged
(* T down by the whole band is a witness whenever it changes the verdict. *)
<1>4. ASSUME 20 <= t, Tree(d, acc, un, r, t - 20) # v
      PROVE  IsNear(p)
  <2>1. t + (-20) = t - 20 /\ IsMeasurable(d, acc, un, r, t - 20)
    BY <1>0, <1>4, SMT DEF IsMeasurable
  <2> QED
    BY <1>3, <1>4, <2>1, SMT
<1>5. ASSUME 20000 <= d, Tree(d - 20000, acc, un, r, t) # v
      PROVE  IsNear(p)
  <2>1. d + (-20) * 1000 = d - 20000 /\ IsMeasurable(d - 20000, acc, un, r, t)
    BY <1>0, <1>5, SMT DEF IsMeasurable
  <2> QED
    BY <1>3, <1>5, <2>1, SMT
<1>m1. CASE k = 1
  <2>1. Tree(d - 20000, acc, un, r, t) # v
    <3>1. d - 20000 \in Int /\ Moved(p, k) = At(d - 20000, acc, un, r, t)
      BY <1>0, <1>1, <1>m1, SMT
    <3>2. Judged(d - 20000, acc, un, r, t)
      BY <1>0, <1>2, <3>1, SMT
    <3> QED
      BY <3>2, SMT DEF Judged
  <2>2. CASE d < 20000
    <3>1. r >= 800 /\ Ranks(d, t) /\ ~ Ranks(d - 20000, t)
      <4>1. /\ ~ Covers(d) /\ ~ Covers(d - 20000) /\ d # 1000000 /\ d - 20000 # 1000000
            /\ (Ranks(d - 20000, t) => Ranks(d, t))
        <5>1. (d - 20000) * t = d * t - 20000 * t
          BY <1>0, SMT
        <5> QED
          BY <1>0, <2>2, <5>1, RanksIs, SMT DEF Covers
      <4> QED
        BY <1>0, <2>1, <4>1, SMT DEF Tree, v
    <3>2. 0 <= d * t /\ (d - 20000) * t = d * t - 20000 * t /\ d * (t - 20) = d * t - d * 20
      BY <1>0, SMT
    <3>3. 20 <= t
      BY <1>0, <2>2, <3>1, <3>2, RanksIs, SMT
    <3>4. ~ Ranks(d, t - 20)
      BY <1>0, <2>2, <3>1, <3>2, <3>3, RanksIs, SMT
    <3>5. Tree(d, acc, un, r, t - 20) # v
      BY <1>0, <2>2, <3>1, <3>4, SMT DEF Tree, Covers, v, B_HYBRID, C_SCORING_REQUIRED
    <3> QED
      BY <1>4, <3>3, <3>5, SMT
  <2> QED
    BY <1>0, <1>5, <2>1, <2>2, SMT
<1>m2. CASE k = 2
  <2>1. d + 20000 <= acc * 1000 /\ Tree(d + 20000, acc, un, r, t) # v
    <3>1. d + 20000 \in Int /\ Moved(p, k) = At(d + 20000, acc, un, r, t)
      BY <1>0, <1>1, <1>m2, SMT
    <3>2. Judged(d + 20000, acc, un, r, t)
      BY <1>0, <1>2, <3>1, SMT
    <3> QED
      BY <3>2, SMT DEF Judged
  <2>2. d + 20 * 1000 = d + 20000 /\ IsMeasurable(d + 20000, acc, un, r, t)
    BY <1>0, <2>1, SMT DEF IsMeasurable
  <2> QED
    BY <1>3, <2>1, <2>2, SMT
<1>m3. CASE k = 3
  <2>1. d <= (acc - 5) * 1000 /\ Tree(d, acc - 5, un, r, t) # v
    <3>1. acc - 5 \in Int /\ Moved(p, k) = At(d, acc - 5, un, r, t)
      BY <1>0, <1>1, <1>m3, SMT
    <3>2. Judged(d, acc - 5, un, r, t)
      BY <1>0, <1>2, <3>1, SMT
    <3> QED
      BY <3>2, SMT DEF Judged
  <2>2. acc + (-5) = acc - 5 /\ IsMeasurable(d, acc - 5, un, r, t)
    BY <1>0, <2>1, SMT DEF IsMeasurable
  <2> QED
    BY <1>3, <2>1, <2>2, SMT
<1>m4. CASE k = 4
  <2>1. d <= (acc + 5) * 1000 /\ Tree(d, acc + 5, un, r, t) # v
    <3>1. acc + 5 \in Int /\ Moved(p, k) = At(d, acc + 5, un, r, t)
      BY <1>0, <1>1, <1>m4, SMT
    <3>2. Judged(d, acc + 5, un, r, t)
      BY <1>0, <1>2, <3>1, SMT
    <3> QED
      BY <3>2, SMT DEF Judged
  <2>2. CASE acc + 5 <= 1000
    <3>1. IsMeasurable(d, acc + 5, un, r, t)
      BY <1>0, <2>1, <2>2, SMT DEF IsMeasurable
    <3> QED
      BY <1>3, <2>1, <3>1, SMT
  <2>3. CASE acc + 5 > 1000
    <3>1. d = 1000000 /\ acc = 1000
      BY <1>0, <2>1, <2>3, SMT DEF Tree, v
    <3>2. Tree(d - 1000, acc, un, r, t) = Tree(d, acc + 5, un, r, t)
      BY <1>0, <3>1, SMT DEF Tree, Covers
    <3>3. d + (-1) * 1000 = d - 1000 /\ IsMeasurable(d - 1000, acc, un, r, t)
      BY <1>0, <3>1, SMT DEF IsMeasurable
    <3> QED
      BY <1>3, <2>1, <3>2, <3>3, SMT
  <2> QED
    BY <1>0, <2>2, <2>3, SMT
<1>m5. CASE k = 5
  <2>1. Tree(d, acc, un - 20, r, t) # v
    <3>1. un - 20 \in Int /\ Moved(p, k) = At(d, acc, un - 20, r, t)
      BY <1>0, <1>1, <1>m5, SMT
    <3>2. Judged(d, acc, un - 20, r, t)
      BY <1>0, <1>2, <3>1, SMT
    <3> QED
      BY <3>2, SMT DEF Judged
  <2>2. un >= 20
    BY <1>0, <2>1, SMT DEF Tree, v
  <2>3. un + (-20) = un - 20 /\ IsMeasurable(d, acc, un - 20, r, t)
    BY <1>0, <2>2, SMT DEF IsMeasurable
  <2> QED
    BY <1>3, <2>1, <2>3, SMT
<1>m6. CASE k = 6
  <2>1. Tree(d, acc, un + 20, r, t) # v
    <3>1. un + 20 \in Int /\ Moved(p, k) = At(d, acc, un + 20, r, t)
      BY <1>0, <1>1, <1>m6, SMT
    <3>2. Judged(d, acc, un + 20, r, t)
      BY <1>0, <1>2, <3>1, SMT
    <3> QED
      BY <3>2, SMT DEF Judged
  <2>2. un <= 980
    BY <1>0, <2>1, SMT DEF Tree, v
  <2>3. IsMeasurable(d, acc, un + 20, r, t)
    BY <1>0, <2>2, SMT DEF IsMeasurable
  <2> QED
    BY <1>3, <2>1, <2>3, SMT
<1>m7. CASE k = 7
  <2>1. t <= r - 20 /\ Tree(d, acc, un, r - 20, t) # v
    <3>1. r - 20 \in Int /\ Moved(p, k) = At(d, acc, un, r - 20, t)
      BY <1>0, <1>1, <1>m7, SMT
    <3>2. Judged(d, acc, un, r - 20, t)
      BY <1>0, <1>2, <3>1, SMT
    <3> QED
      BY <3>2, SMT DEF Judged
  <2>2. r + (-20) = r - 20 /\ IsMeasurable(d, acc, un, r - 20, t)
    BY <1>0, <2>1, SMT DEF IsMeasurable
  <2> QED
    BY <1>3, <2>1, <2>2, SMT
<1>m8. CASE k = 8
  <2>1. t <= r + 20 /\ Tree(d, acc, un, r + 20, t) # v
    <3>1. r + 20 \in Int /\ Moved(p, k) = At(d, acc, un, r + 20, t)
      BY <1>0, <1>1, <1>m8, SMT
    <3>2. Judged(d, acc, un, r + 20, t)
      BY <1>0, <1>2, <3>1, SMT
    <3> QED
      BY <3>2, SMT DEF Judged
  <2>2. CASE r + 20 <= 1000
    <3>1. IsMeasurable(d, acc, un, r + 20, t)
      BY <1>0, <2>1, <2>2, SMT DEF IsMeasurable
    <3> QED
      BY <1>3, <2>1, <3>1, SMT
  <2>3. CASE r + 20 > 1000
    <3>1. /\ ~ (d = 1000000 /\ acc = 1000) /\ Covers(d) /\ acc >= 990 /\ un <= 30
          /\ ~ (IsGood(r, t) <=> IsGood(r + 20, t))
      BY <1>0, <2>1, <2>3, SMT DEF Tree, v
    <3>2. IsGood(r, t) /\ ~ IsGood(r, t - 20) /\ 20 <= t
      BY <1>0, <2>3, <3>1, SMT DEF IsGood
    <3>3. Tree(d, acc, un, r, t - 20) # v
      BY <3>1, <3>2, SMT DEF Tree, v, A, A_WITH_WEAK_RESIDUAL
    <3> QED
      BY <1>4, <3>2, <3>3, SMT
  <2> QED
    BY <1>0, <2>2, <2>3, SMT
<1>m9. CASE k = 9
  <2>1. Tree(d, acc, un, r, t - 20) # v
    <3>1. t - 20 \in Int /\ Moved(p, k) = At(d, acc, un, r, t - 20)
      BY <1>0, <1>1, <1>m9, SMT
    <3>2. Judged(d, acc, un, r, t - 20)
      BY <1>0, <1>2, <3>1, SMT
    <3> QED
      BY <3>2, SMT DEF Judged
  <2>2. CASE t < 20
    <3>1. ~ IsGood(r, t) /\ ~ IsGood(r, t - 20)
      BY <1>0, <2>2, SMT DEF IsGood
    <3>2. r >= 800 /\ ~ Covers(d) /\ ~ (Ranks(d, t) <=> Ranks(d, t - 20))
      BY <1>0, <2>1, <3>1, SMT DEF Tree, v
    <3>3. 0 <= d * t /\ (d - 20000) * t = d * t - 20000 * t /\ d * (t - 20) = d * t - d * 20
      BY <1>0, SMT
    <3>4. Ranks(d, t) /\ ~ Ranks(d, t - 20)
      <4>1. d < 950000
        BY <1>0, <3>2, SMT DEF Covers
      <4>2. Ranks(d, t - 20) => Ranks(d, t)
        BY <1>0, <3>3, <4>1, RanksIs, SMT
      <4> QED
        BY <3>2, <4>2, SMT
    <3>5. CASE d < 900000
      <4>1. ~ Ranks(d, 0)
        <5>1. d * 0 = 0
          BY <1>0, SMT
        <5> QED
          BY <1>0, <3>5, <5>1, RanksIs, SMT
      <4>2. Tree(d, acc, un, r, 0) # v
        BY <1>0, <3>2, <3>4, <4>1, SMT DEF Tree, Covers, v, B_HYBRID, C_SCORING_REQUIRED
      <4>3. t + (-t) = 0 /\ -20 <= -t /\ -t <= 20 /\ -t \in Int /\ IsMeasurable(d, acc, un, r, 0)
        BY <1>0, <2>2, SMT DEF IsMeasurable
      <4> QED
        BY <1>3, <4>2, <4>3, SMT
    <3>6. CASE d >= 900000
      <4>1. ~ Ranks(d - 20000, t)
        <5>1. d * t >= 900000 * t
          BY <1>0, <3>6, SMT
        <5>2. d < 902000
          BY <1>0, <2>2, <3>3, <3>4, <3>6, <5>1, RanksIs, SMT
        <5> QED
          BY <1>0, <2>2, <3>3, <3>6, <5>1, <5>2, RanksIs, SMT
      <4>2. Tree(d - 20000, acc, un, r, t) # v
        BY <1>0, <3>2, <3>4, <4>1, SMT DEF Tree, Covers, v, B_HYBRID, C_SCORING_REQUIRED
      <4> QED
        BY <1>0, <1>5, <3>6, <4>2, SMT
    <3> QED
      BY <1>0, <3>5, <3>6, SMT
  <2> QED
    BY <1>0, <1>4, <2>1, <2>2, SMT
<1>m10. CASE k = 10
  <2>1. t + 20 <= r /\ Tree(d, acc, un, r, t + 20) # v
    <3>1. t + 20 \in Int /\ Moved(p, k) = At(d, acc, un, r, t + 20)
      BY <1>0, <1>1, <1>m10, SMT
    <3>2. Judged(d, acc, un, r, t + 20)
      BY <1>0, <1>2, <3>1, SMT
    <3> QED
      BY <3>2, SMT DEF Judged
  <2>2. IsMeasurable(d, acc, un, r, t + 20)
    BY <1>0, <2>1, SMT DEF IsMeasurable
  <2> QED
    BY <1>3, <2>1, <2>2, SMT
<1>6. k \in {1, 2, 3, 4, 5, 6, 7, 8, 9, 10}
  OBVIOUS
<1> QED
  BY <1>6, <1>m1, <1>m2, <1>m3, <1>m4, <1>m5, <1>m6, <1>m7, <1>m8, <1>m9, <1>m10, SMT

(* With the thresholds of the program, decide flags no run whose verdict   *)
(* only points that no run can measure would change: for every measurement *)
(* that Metrics accepts.                                                   *)
THEOREM FlagsAreGenuine ==
  ASSUME Th = RUN_001
  PROVE  Spec => []BorderlineIsGenuine
<1>1. ASSUME AttributionInv, FlagsAreEarned, IsFinal, decision.attribution = BORDERLINE
      PROVE  \E p \in Neighbours(Point(metrics)) : Classify(p) # decision.nominal
  <2>1. IsNominal /\ decision.borderline_checked
    BY <1>1 DEF AttributionInv, IsFinal, Undecided
  <2>2. /\ metrics \in Measurements /\ IsValid(metrics) /\ IsMeasured(metrics)
        /\ decision.nominal = Classify(Point(metrics))
    BY <2>1 DEF IsNominal
  <2>3. PICK k \in 1 .. 10 : ~ IsKept(k)
    BY <1>1, <2>1 DEF FlagsAreEarned
  <2>4. /\ ~ IsImpossible(Moved(Point(metrics), k))
        /\ Classify(Moved(Point(metrics), k)) # Classify(Point(metrics))
    BY <2>2, <2>3 DEF IsKept
  <2> DEFINE m == metrics
             d == m.d_cov * m.d_acc
             un == 1000 - m.truth_coverage
  <2>5. Point(m) = At(d, m.d_acc, un, m.r, m.t)
    BY DEF Point, At, Unresolved, Unit
  <2>6. IsMeasurable(d, m.d_acc, un, m.r, m.t)
    <3>1. m.d_cov \in Fraction /\ m.d_acc \in Fraction /\ m.truth_coverage \in Fraction
      BY <2>2 DEF IsValid
    <3>2. m.r \in Fraction /\ m.t \in Fraction /\ m.t <= m.r
      BY <2>2 DEF IsValid, IsMeasured, ResidualIsValid
    <3>3. /\ m.d_cov \in Int /\ 0 <= m.d_cov /\ m.d_cov <= 1000
          /\ m.d_acc \in Int /\ 0 <= m.d_acc /\ m.d_acc <= 1000
          /\ m.truth_coverage \in Int /\ 0 <= m.truth_coverage /\ m.truth_coverage <= 1000
          /\ m.r \in Int /\ m.r <= 1000 /\ m.t \in Int /\ 0 <= m.t
      BY <3>1, <3>2, FractionIsInt
    <3>4. ASSUME NEW a \in Int, NEW b \in Int, 0 <= a, 0 <= b, a <= 1000
          PROVE  a * b \in Int /\ 0 <= a * b /\ a * b <= b * 1000
      BY <3>4
    <3>5. d \in Int /\ 0 <= d /\ d <= m.d_acc * 1000
      BY <3>3, <3>4
    <3> HIDE DEF m, d
    <3> QED
      BY <3>2, <3>3, <3>5 DEF IsMeasurable
  <2> HIDE DEF d, un
  <2>7. IsNear(Point(m))
    BY <2>4, <2>5, <2>6, FlipsAreNear
  <2> QED
    BY <2>2, <2>7 DEF IsNear
<1>2. AttributionInv /\ FlagsAreEarned => BorderlineIsGenuine
  BY <1>1 DEF BorderlineIsGenuine
<1> QED
  BY <1>2, InvAlways, FlagsStayEarned, PTL
==========================================================================
