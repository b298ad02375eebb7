-------------------------- MODULE TimedFlowProofs ---------------------------
(***************************************************************************)
(* Proofs about TimedFlow, for every catalogue of observations and every   *)
(* setting of the join: an entry leaves nothing ripe, whatever the         *)
(* watermark has done before; every observation that is final has one      *)
(* proof; and while no source is left out, its verdict is the one the      *)
(* batch gives on everything delivered on time.  For the last, what closes *)
(* together is a whole component of all that joined or part of one too     *)
(* large, and the near-optimal matchings of a graph are, on a component,   *)
(* those of the component alone.                                           *)
(*                                                                         *)
(* As in the code, an entry first enters its observation and then settles: *)
(* the parts of the invariant are stated for any values of the variables,  *)
(* since the first half leaves them true of values the second starts from. *)
(***************************************************************************)
EXTENDS TimedFlow, FiniteSetTheorems, WellFoundedInduction, TLAPS

-----------------------------------------------------------------------------
(* Candidates and closed sets *)

(* The two are the ends of an edge of the candidate graph. *)
Adjacent(x, y) ==
  \/ x.side = UP /\ y.side = DOWN /\ IsCandidate(x, y)
  \/ y.side = UP /\ x.side = DOWN /\ IsCandidate(y, x)

(* A set of members of U that no edge within U leaves. *)
IsClosed(U, S) == S \subseteq U /\ \A x \in S, y \in U : Adjacent(x, y) => y \in S

LEMMA AdjacentIsSymmetric ==
  ASSUME NEW x, NEW y
  PROVE  Adjacent(x, y) <=> Adjacent(y, x)
BY DEF Adjacent

(* The edges of the graph that Walk follows. *)
LEMMA EdgesWithin ==
  ASSUME NEW O, NEW U \in SUBSET O
  PROVE  /\ \A e \in DOMAIN Within(Graph(O), U) :
              \E a \in U, b \in U : Ends(e) = {a, b} /\ a # b /\ Adjacent(a, b)
         /\ \A a \in U, b \in U : Adjacent(a, b) =>
              \E e \in DOMAIN Within(Graph(O), U) : Ends(e) = {a, b} /\ a # b
<1> DEFINE pairs == {e \in O \X O : e[1].side = UP /\ e[2].side = DOWN
                                       /\ IsCandidate(e[1], e[2])}
<1>0. UP # DOWN
  BY DEF UP, DOWN
<1>1. DOMAIN Within(Graph(O), U) = {e \in pairs : Ends(e) \subseteq U}
  BY DEF Within, Graph
<1>2. ASSUME NEW e \in {e \in pairs : Ends(e) \subseteq U}
      PROVE  \E a \in U, b \in U : Ends(e) = {a, b} /\ a # b /\ Adjacent(a, b)
  <2>1. PICK a \in O, b \in O : e = <<a, b>> /\ a.side = UP /\ b.side = DOWN /\ IsCandidate(a, b)
    BY <1>2
  <2>2. Ends(e) = {a, b}
    BY <2>1 DEF Ends
  <2>3. a \in U /\ b \in U
    BY <1>2, <2>2
  <2> QED
    BY <1>0, <2>1, <2>2, <2>3 DEF Adjacent
<1>3. ASSUME NEW a \in U, NEW b \in U, a.side = UP, b.side = DOWN, IsCandidate(a, b)
      PROVE  \E e \in {e \in pairs : Ends(e) \subseteq U} : Ends(e) = {a, b} /\ a # b
  <2>1. <<a, b>> \in pairs
    BY <1>3
  <2>2. Ends(<<a, b>>) = {a, b}
    BY DEF Ends
  <2> HIDE DEF pairs
  <2>3. <<a, b>> \in {e \in pairs : Ends(e) \subseteq U}
    BY <2>1, <2>2
  <2> QED
    BY <1>0, <1>3, <2>2, <2>3
<1> HIDE DEF pairs
<1>4. ASSUME NEW a \in U, NEW b \in U, Adjacent(a, b)
      PROVE  \E e \in {e \in pairs : Ends(e) \subseteq U} : Ends(e) = {a, b} /\ a # b
  <2>1. CASE a.side = UP /\ b.side = DOWN /\ IsCandidate(a, b)
    BY <1>3, <2>1
  <2>2. CASE b.side = UP /\ a.side = DOWN /\ IsCandidate(b, a)
    <3>1. \E e \in {e \in pairs : Ends(e) \subseteq U} : Ends(e) = {b, a} /\ b # a
      BY <1>3, <2>2
    <3>2. {b, a} = {a, b}
      OBVIOUS
    <3> QED
      BY <3>1, <3>2
  <2> QED
    BY <1>4, <2>1, <2>2 DEF Adjacent
<1> QED
  BY <1>1, <1>2, <1>4

LEMMA NeighboursMeans ==
  ASSUME NEW graph, NEW x, NEW y
  PROVE  y \in Neighbours(graph, x) <=> \E e \in DOMAIN graph : x \in Ends(e) /\ y \in Ends(e) /\ y # x
<1> DEFINE parts == {Ends(e) : e \in {e \in DOMAIN graph : x \in Ends(e)}}
<1>1. Neighbours(graph, x) = (UNION parts) \ {x}
  BY DEF Neighbours
<1>2. \A T : T \in parts <=> \E e \in DOMAIN graph : T = Ends(e) /\ x \in T
  OBVIOUS
<1> HIDE DEF parts
<1>3. y \in Neighbours(graph, x) <=> y # x /\ \E T \in parts : y \in T
  BY <1>1
<1> QED
  BY <1>2, <1>3

(* One step of the walk goes where an edge does. *)
LEMMA ReachedMeans ==
  ASSUME NEW O, NEW U \in SUBSET O, NEW S
  PROVE  /\ Reached(Within(Graph(O), U), S) = S
              <=> \A x \in S \cap U, y \in U : Adjacent(x, y) => y \in S
<1> DEFINE graph == Within(Graph(O), U)
<1>0. /\ \A e \in DOMAIN graph :
           \E a \in U, b \in U : Ends(e) = {a, b} /\ a # b /\ Adjacent(a, b)
      /\ \A a \in U, b \in U : Adjacent(a, b) =>
           \E e \in DOMAIN graph : Ends(e) = {a, b} /\ a # b
  BY EdgesWithin
<1> HIDE DEF graph
<1>1. ASSUME NEW x \in S, NEW y \in Neighbours(graph, x)
      PROVE  x \in U /\ y \in U /\ Adjacent(x, y)
  <2>1. PICK e \in DOMAIN graph : x \in Ends(e) /\ y \in Ends(e) /\ y # x
    BY <1>1, NeighboursMeans
  <2>2. PICK a \in U, b \in U : Ends(e) = {a, b} /\ a # b /\ Adjacent(a, b)
    BY <1>0, <2>1
  <2> QED
    BY <2>1, <2>2, AdjacentIsSymmetric
<1>2. ASSUME NEW x \in S \cap U, NEW y \in U, Adjacent(x, y)
      PROVE  y \in Neighbours(graph, x)
  <2>1. PICK e \in DOMAIN graph : Ends(e) = {x, y} /\ x # y
    BY <1>0, <1>2
  <2> QED
    BY <2>1, NeighboursMeans
<1>3. Reached(graph, S) = S \cup UNION {Neighbours(graph, y) : y \in S}
  BY DEF Reached
<1>4. Reached(graph, S) = S <=> \A x \in S : \A y \in Neighbours(graph, x) : y \in S
  BY <1>3
<1>5. (\A x \in S : \A y \in Neighbours(graph, x) : y \in S)
        <=> \A x \in S \cap U, y \in U : Adjacent(x, y) => y \in S
  BY <1>1, <1>2
<1> QED
  BY <1>4, <1>5 DEF graph

(* The walk from x: the least closed set of unflagged members with x. *)
LEMMA WalkFacts ==
  ASSUME NEW O, NEW flags, NEW x \in O \ flags
  PROVE  /\ x \in Walk(O, flags, x)
         /\ IsClosed(O \ flags, Walk(O, flags, x))
         /\ \A S : IsClosed(O \ flags, S) /\ x \in S => Walk(O, flags, x) \subseteq S
<1> DEFINE U == O \ flags
           graph == Within(Graph(O), U)
           R == (UNION {Ends(e) : e \in DOMAIN graph}) \cup {x}
           Fits(S) == /\ x \in S /\ Reached(graph, S) = S
                      /\ \A T \in SUBSET S : x \in T /\ Reached(graph, T) = T => T = S
           W == CHOOSE S \in SUBSET R : Fits(S)
           I == {r \in R : \A T \in SUBSET R : x \in T /\ Reached(graph, T) = T => r \in T}
<1>1. U \in SUBSET O /\ x \in U
  OBVIOUS
<1>2. \A S : Reached(graph, S) = S <=> \A a \in S \cap U, y \in U : Adjacent(a, y) => y \in S
  <2> HIDE DEF U
  <2> QED
    BY <1>1, ReachedMeans
<1>30. /\ \A e \in DOMAIN graph :
            \E a \in U, b \in U : Ends(e) = {a, b} /\ a # b /\ Adjacent(a, b)
       /\ \A a \in U, b \in U : Adjacent(a, b) =>
            \E e \in DOMAIN graph : Ends(e) = {a, b} /\ a # b
  <2> HIDE DEF U
  <2> QED
    BY <1>1, EdgesWithin
<1>31. \A r : r \in R <=> r = x \/ \E e \in DOMAIN graph : r \in Ends(e)
  <2> DEFINE parts == {Ends(e) : e \in DOMAIN graph}
  <2> HIDE DEF graph
  <2>1. \A T : T \in parts <=> \E e \in DOMAIN graph : T = Ends(e)
    OBVIOUS
  <2>2. R = (UNION parts) \cup {x}
    OBVIOUS
  <2> HIDE DEF parts, R
  <2>3. \A r : r \in R <=> r = x \/ \E T \in parts : r \in T
    BY <2>2
  <2> QED
    BY <2>1, <2>3
<1>5. Walk(O, flags, x) = W
  BY DEF Walk, ComponentOf
<1> HIDE DEF U, graph, R
<1>3. R \subseteq U
  BY <1>1, <1>30, <1>31
<1>4. \A a \in R, y \in U : Adjacent(a, y) => y \in R
  <2>1. ASSUME NEW a \in R, NEW y \in U, Adjacent(a, y)
        PROVE  y \in R
    <3>1. a \in U
      BY <1>3, <2>1
    <3>2. \E e \in DOMAIN graph : Ends(e) = {a, y}
      BY <1>30, <2>1, <3>1
    <3> QED
      BY <1>31, <3>2
  <2> QED
    BY <2>1
<1>6. I \in SUBSET R /\ x \in I
  BY <1>31
<1>7. \A T \in SUBSET R : x \in T /\ Reached(graph, T) = T => I \subseteq T
  OBVIOUS
<1>8. Reached(graph, I) = I
  <2>1. ASSUME NEW a \in I, NEW y \in U, Adjacent(a, y)
        PROVE  y \in I
    <3>1. y \in R /\ a \in R
      BY <1>4, <1>6, <2>1
    <3>2. ASSUME NEW T \in SUBSET R, x \in T, Reached(graph, T) = T
          PROVE  y \in T
      <4>1. a \in T /\ a \in U
        BY <1>3, <1>7, <2>1, <3>1, <3>2
      <4>2. \A b \in T \cap U, z \in U : Adjacent(b, z) => z \in T
        BY <1>2, <3>2
      <4> QED
        BY <2>1, <4>1, <4>2
    <3> QED
      BY <3>1, <3>2
  <2> HIDE DEF I
  <2> QED
    BY <1>2, <2>1
<1>9. Fits(I)
  <2>1. ASSUME NEW T \in SUBSET I, x \in T, Reached(graph, T) = T
        PROVE  T = I
    <3>1. T \in SUBSET R
      BY <1>6
    <3>2. I \subseteq T
      BY <1>7, <2>1, <3>1
    <3> QED
      BY <2>1, <3>2
  <2> HIDE DEF I
  <2> QED
    BY <1>6, <1>8, <2>1
<1>10. W \in SUBSET R /\ Fits(W)
  <2> HIDE DEF I, Fits
  <2> QED
    BY <1>6, <1>9
<1> HIDE DEF W, I
<1>11. x \in W /\ W \subseteq U
  BY <1>3, <1>10
<1>12. \A a \in W, y \in U : Adjacent(a, y) => y \in W
  BY <1>2, <1>10, <1>11
<1>13. ASSUME NEW S, IsClosed(U, S), x \in S
       PROVE  W \subseteq S
  <2> DEFINE T == W \cap S
  <2>1. T \in SUBSET W /\ x \in T
    BY <1>11, <1>13
  <2>2. \A a \in T \cap U, y \in U : Adjacent(a, y) => y \in T
    BY <1>12, <1>13 DEF IsClosed
  <2> HIDE DEF T
  <2>3. Reached(graph, T) = T
    BY <1>2, <2>2
  <2>4. T = W
    BY <1>10, <2>1, <2>3
  <2> QED
    BY <2>4 DEF T
<1> QED
  BY <1>5, <1>11, <1>12, <1>13 DEF IsClosed, U

(* The walks from two members are equal or apart. *)
LEMMA WalksAgree ==
  ASSUME NEW O, NEW flags, NEW x \in O \ flags, NEW y \in Walk(O, flags, x)
  PROVE  y \in O \ flags /\ Walk(O, flags, y) = Walk(O, flags, x)
<1> DEFINE U == O \ flags
           V == Walk(O, flags, x)
           W == Walk(O, flags, y)
<1>1. x \in V /\ IsClosed(U, V) /\ y \in V
  BY WalkFacts
<1>2. y \in U
  BY <1>1 DEF IsClosed
<1>3. \A S : IsClosed(U, S) /\ x \in S => V \subseteq S
  BY WalkFacts
<1>4. y \in W /\ IsClosed(U, W) /\ \A S : IsClosed(U, S) /\ y \in S => W \subseteq S
  BY <1>2, WalkFacts
<1> HIDE DEF U, V, W
<1>5. W \subseteq V
  BY <1>1, <1>4
<1>6. x \in W
  <2>1. SUFFICES ASSUME x \notin W
                 PROVE  FALSE
    OBVIOUS
  <2>2. IsClosed(U, V \ W)
    BY <1>1, <1>4, AdjacentIsSymmetric DEF IsClosed
  <2>3. V \subseteq V \ W
    BY <1>1, <1>3, <2>1, <2>2
  <2> QED
    BY <1>1, <1>4, <2>3
<1>7. V \subseteq W
  BY <1>3, <1>4, <1>6
<1> QED
  BY <1>2, <1>5, <1>7 DEF U, V, W

-----------------------------------------------------------------------------
(* The watermark and the horizon *)

(* The clocks: bounded, and the first event time is not after any in S. *)
ClocksAreSane(S, p, f) ==
  /\ p \in [Sources -> Nat \cup {NoTime}] /\ f \in Nat \cup {NoTime}
  /\ \A o \in S : f # NoTime /\ f <= o.at
  /\ \E n \in Nat : f <= n /\ \A s \in Sources : p[s] <= n

LEMMA Least ==
  ASSUME NEW T \in SUBSET Nat, T # {}
  PROVE  \E n \in T : \A m \in T : n <= m
<1>1. PICK n \in T : \A m \in T : ~ (<<m, n>> \in OpToRel(<, Nat))
  BY WFMin, NatLessThanWellFounded
<1>2. ASSUME NEW m \in T
      PROVE  n <= m
  <2> DEFINE q == <<m, n>>
  <2>1. q \in Nat \X Nat /\ q[1] = m /\ q[2] = n
    BY <1>2
  <2>2. q \notin {ss \in Nat \X Nat : ss[1] < ss[2]}
    BY <1>1, <1>2, Zenon DEF OpToRel
  <2> HIDE DEF q
  <2>3. ~ (q[1] < q[2])
    BY <2>1, <2>2
  <2> QED
    BY <1>2, <2>1, <2>3
<1> QED
  BY <1>1, <1>2

LEMMA EffectiveIsNat ==
  ASSUME NEW S, NEW p, NEW f, ClocksAreSane(S, p, f), f # NoTime, NEW s \in Sources
  PROVE  Effective(p, f, s) \in Nat
BY DEF ClocksAreSane, Effective

(* The fastest source is never left out. *)
LEMMA FastestHolds ==
  ASSUME NEW S, NEW p, NEW f, ClocksAreSane(S, p, f), f # NoTime
  PROVE  Holding(p, f) # {}
<1> USE WatermarksAssumption
<1>1. CASE MaxSilence = Unbounded
  BY <1>1 DEF Holding
<1>2. CASE MaxSilence # Unbounded
  <2>1. PICK n \in Nat : f <= n /\ \A s \in Sources : p[s] <= n
    BY DEF ClocksAreSane
  <2>2. ASSUME NEW s \in Sources
        PROVE  Effective(p, f, s) \in Nat /\ Effective(p, f, s) <= n
    BY <2>1, EffectiveIsNat DEF Effective
  <2> DEFINE T == {n - Effective(p, f, s) : s \in Sources}
  <2>3. T \in SUBSET Nat /\ T # {}
    BY <2>2
  <2>4. PICK t \in T : \A m \in T : t <= m
    <3> HIDE DEF T
    <3> QED
      BY <2>3, Least
  <2>5. PICK s \in Sources : t = n - Effective(p, f, s)
    BY <2>4
  <2>6. ASSUME NEW r \in Sources
        PROVE  Effective(p, f, r) - Effective(p, f, s) <= MaxSilence
    <3>1. n - Effective(p, f, s) <= n - Effective(p, f, r)
      BY <2>4, <2>5
    <3>2. Effective(p, f, r) \in Nat /\ Effective(p, f, s) \in Nat
      BY <2>2
    <3>3. MaxSilence \in Nat
      BY <1>2
    <3> QED
      BY <2>1, <3>1, <3>2, <3>3
  <2>7. s \in Holding(p, f)
    BY <2>6 DEF Holding
  <2> QED
    BY <2>7
<1> QED
  BY <1>1, <1>2

LEMMA WatermarkFacts ==
  ASSUME NEW S, NEW p, NEW f, ClocksAreSane(S, p, f), f # NoTime
  PROVE  /\ \E s \in Holding(p, f) : Watermark(p, f) = Effective(p, f, s) - Lateness
         /\ \A s \in Holding(p, f) : Watermark(p, f) <= Effective(p, f, s) - Lateness
         /\ Watermark(p, f) \in Int
<1> DEFINE T == {Effective(p, f, s) : s \in Holding(p, f)}
           low == CHOOSE t \in T : \A s \in Holding(p, f) : t <= Effective(p, f, s)
<1>0. \A s \in Holding(p, f) : Effective(p, f, s) \in Nat
  BY EffectiveIsNat DEF Holding
<1>1. T \in SUBSET Nat /\ T # {}
  BY <1>0, FastestHolds
<1>2. \E t \in T : \A m \in T : t <= m
  <2> HIDE DEF T
  <2> QED
    BY <1>1, Least
<1>3. low \in T /\ \A s \in Holding(p, f) : low <= Effective(p, f, s)
  BY <1>2
<1>4. Watermark(p, f) = low - Lateness
  BY DEF Watermark
<1> HIDE DEF low
<1>5. low \in Nat /\ Lateness \in Nat
  BY <1>1, <1>3, WatermarksAssumption
<1>6. ASSUME NEW s \in Holding(p, f)
      PROVE  Watermark(p, f) <= Effective(p, f, s) - Lateness
  BY <1>0, <1>3, <1>4, <1>5, <1>6
<1> QED
  BY <1>3, <1>4, <1>5, <1>6

LEMMA HorizonFacts ==
  /\ Horizon \in Nat
  /\ EndSignal \in Given /\ EndSignal.name = END
  /\ EndSignal.offset \in Int /\ EndSignal.window \in Nat
  /\ Abs(EndSignal.offset) + EndSignal.window <= Horizon
<1>1. /\ \A s \in Given : s.offset \in Int /\ s.window \in Nat \ {0}
      /\ \E s \in Given : s.name = END
      /\ Span \in Nat /\ (Span > 0 => MaxDuration # Unbounded)
  BY SMT, TimedFlowAssumption DEF JoinIsChecked, ParamsAreValid
<1>2. EndSignal \in Given /\ EndSignal.name = END
  BY <1>1 DEF EndSignal
<1>3. EndSignal.offset \in Int /\ EndSignal.window \in Nat
  BY <1>1, <1>2
<1>4. MaxDuration \in Nat \cup {Unbounded}
  BY SMT, TimedFlowAssumption
<1>5. Span > 0 => MaxDuration \in Nat
  BY <1>1, <1>4
<1> DEFINE reach == Abs(EndSignal.offset) + EndSignal.window
<1>6. reach \in Nat
  BY <1>3 DEF Abs
<1>7. Horizon = IF Span > 0 /\ Span + MaxDuration > reach THEN Span + MaxDuration ELSE reach
  BY DEF Horizon
<1> HIDE DEF reach
<1>8. Horizon \in Nat /\ reach <= Horizon
  BY <1>1, <1>5, <1>6, <1>7
<1> QED
  BY <1>2, <1>3, <1>8 DEF reach

LEMMA ObservationFacts ==
  ASSUME NEW o \in Observations
  PROVE  o.at \in Nat /\ o.source \in Sources /\ o.side \in {UP, DOWN}
BY SMT, TimedFlowAssumption

(* What comes out of the queue ends before what stays in it. *)
LEMMA PastEndsBefore ==
  ASSUME NEW x \in Observations, NEW y \in Observations, NEW mark \in Int,
         Past(x, mark), ~ Past(y, mark)
  PROVE  x.at < y.at
<1>1. x.at \in Nat /\ y.at \in Nat /\ Horizon \in Nat
  BY ObservationFacts, HorizonFacts
<1> QED
  BY <1>1 DEF Past

-----------------------------------------------------------------------------
(* What an entry's settling takes away *)

Popped(Q, mark) == {x \in Q : Past(x, mark)}

Ripe(O, Q, flags, mark) ==
  {C \in {Walk(O, flags, x) : x \in Popped(Q, mark) \ flags} : \A x \in C : Past(x, mark)}

Closing(O, Q, flags, mark) == UNION Ripe(O, Q, flags, mark)

Gone(O, Q, flags, due, mark) ==
  Closing(O, Q, flags, mark) \cup Leaving(Popped(Q, mark), due, flags)

Nest(O, Q, flags, due) == Q \subseteq O /\ flags \subseteq O /\ due \subseteq flags

(* Whole unflagged components past the watermark close. *)
ClosesWhole(O, Q, flags, mark, ripe, closing) ==
  /\ \A C \in ripe : /\ C # {} /\ C \subseteq O \ flags
                      /\ \A x \in C : Past(x, mark) /\ C = Walk(O, flags, x)
  /\ \A x : x \in closing <=> \E C \in ripe : x \in C
  /\ IsClosed(O \ flags, closing)
  /\ \A x \in closing : Past(x, mark)
  /\ \A x \in Popped(Q, mark) \ flags :
       (\A y \in Walk(O, flags, x) : Past(y, mark)) => x \in closing

LEMMA ClosingFacts ==
  ASSUME NEW O, NEW Q, NEW flags, NEW due, Nest(O, Q, flags, due), NEW mark
  PROVE  ClosesWhole(O, Q, flags, mark, Ripe(O, Q, flags, mark), Closing(O, Q, flags, mark))
<1> USE DEF Nest
<1> DEFINE ripe == Ripe(O, Q, flags, mark)
           closing == Closing(O, Q, flags, mark)
<1>1. ASSUME NEW C \in ripe
      PROVE  /\ C # {} /\ C \subseteq O \ flags /\ IsClosed(O \ flags, C)
             /\ \A x \in C : Past(x, mark) /\ C = Walk(O, flags, x)
  <2>1. PICK z \in Popped(Q, mark) \ flags : C = Walk(O, flags, z)
    BY <1>1 DEF Ripe
  <2>2. \A x \in C : Past(x, mark)
    BY <1>1 DEF Ripe
  <2>3. z \in O \ flags
    BY <2>1 DEF Popped
  <2>4. z \in C /\ IsClosed(O \ flags, C)
    BY <2>1, <2>3, WalkFacts
  <2>5. ASSUME NEW x \in C
        PROVE  C = Walk(O, flags, x)
    BY <2>1, <2>3, <2>5, WalksAgree
  <2>6. C \subseteq O \ flags
    BY <2>4 DEF IsClosed
  <2> QED
    BY <2>2, <2>4, <2>5, <2>6
<1>2. \A x : x \in closing <=> \E C \in ripe : x \in C
  BY DEF Closing
<1>3. ASSUME NEW x \in Popped(Q, mark) \ flags, \A y \in Walk(O, flags, x) : Past(y, mark)
      PROVE  x \in closing
  <2>1. Walk(O, flags, x) \in ripe
    BY <1>3 DEF Ripe
  <2>2. x \in Walk(O, flags, x)
    BY <1>3, WalkFacts DEF Popped
  <2> QED
    BY <1>2, <2>1, <2>2
<1> HIDE DEF ripe, closing
<1>4. IsClosed(O \ flags, closing)
  <2>1. closing \subseteq O \ flags
    BY <1>1, <1>2
  <2>2. ASSUME NEW x \in closing, NEW y \in O \ flags, Adjacent(x, y)
        PROVE  y \in closing
    <3>1. PICK C \in ripe : x \in C
      BY <1>2, <2>2
    <3>2. y \in C
      BY <1>1, <2>2, <3>1 DEF IsClosed
    <3> QED
      BY <1>2, <3>1, <3>2
  <2> QED
    BY <2>1, <2>2 DEF IsClosed
<1>5. \A x \in closing : Past(x, mark)
  BY <1>1, <1>2
<1> QED
  BY <1>1, <1>2, <1>3, <1>4, <1>5 DEF ripe, closing, ClosesWhole

-----------------------------------------------------------------------------
(* The queue *)

(* In any closed set of unflagged members, one out of the queue has a      *)
(* later one in it: the walk from the last to come out sees them all.      *)
LaterIsQueued(O, Q, flags) ==
  \A S : IsClosed(O \ flags, S) => \A x \in S \ Q : \E h \in S \cap Q : x.at < h.at

(* Between the two halves of an entry: what is flagged and out of the      *)
(* queue is due.                                                           *)
QueueIsSound(O, Q, flags, held, due) ==
  /\ O \subseteq Observations /\ Q \subseteq O /\ flags \subseteq O
  /\ held = O \ Q
  /\ due = flags \ Q
  /\ LaterIsQueued(O, Q, flags)

(* A closed set of what stays was closed before. *)
LEMMA StaysClosed ==
  ASSUME NEW O, NEW Q, NEW flags, NEW due, Nest(O, Q, flags, due), NEW mark,
         NEW gone, gone = Gone(O, Q, flags, due, mark),
         NEW S, IsClosed((O \ gone) \ (flags \ gone), S)
  PROVE  IsClosed(O \ flags, S)
<1> DEFINE closing == Closing(O, Q, flags, mark)
           leaving == Leaving(Popped(Q, mark), due, flags)
<1>1. IsClosed(O \ flags, closing)
  BY ClosingFacts DEF ClosesWhole
<1>2. gone = closing \cup leaving
  BY DEF Gone
<1>3. leaving \subseteq flags
  BY DEF Leaving, Nest
<1> HIDE DEF closing, leaving
<1>4. S \subseteq O \ flags /\ S \cap gone = {}
  BY <1>2 DEF IsClosed
<1>5. ASSUME NEW x \in S, NEW y \in O \ flags, Adjacent(x, y)
      PROVE  y \in S
  <2>1. y \notin closing
    <3>1. SUFFICES ASSUME y \in closing
                   PROVE  FALSE
      OBVIOUS
    <3>2. x \in closing
      BY <1>1, <1>4, <1>5, <3>1, AdjacentIsSymmetric DEF IsClosed
    <3> QED
      BY <1>2, <1>4, <3>2
  <2>2. y \notin leaving
    BY <1>3
  <2> QED
    BY <1>2, <1>5, <2>1, <2>2 DEF IsClosed
<1> QED
  BY <1>4, <1>5 DEF IsClosed

(* Settling keeps the queue sound. *)
LEMMA SettleKeepsQueue ==
  ASSUME NEW O, NEW Q, NEW flags, NEW held, NEW due, QueueIsSound(O, Q, flags, held, due),
         NEW mark \in Int, NEW gone, gone = Gone(O, Q, flags, due, mark),
         NEW popped, popped = Popped(Q, mark)
  PROVE  QueueIsSound(O \ gone, Q \ popped, flags \ gone, Held(held, popped, flags, gone), {})
<1> DEFINE closing == Closing(O, Q, flags, mark)
           leaving == Leaving(popped, due, flags)
<1>0. /\ O \subseteq Observations /\ Q \subseteq O /\ flags \subseteq O
      /\ held = O \ Q /\ due = flags \ Q
      /\ Nest(O, Q, flags, due)
  BY DEF QueueIsSound, Nest
<1>1. /\ IsClosed(O \ flags, closing)
      /\ \A x \in closing : Past(x, mark)
      /\ \A x \in popped \ flags : (\A y \in Walk(O, flags, x) : Past(y, mark)) => x \in closing
  <2>1. ClosesWhole(O, Q, flags, mark, Ripe(O, Q, flags, mark), Closing(O, Q, flags, mark))
    BY <1>0, ClosingFacts
  <2> QED
    BY <2>1 DEF ClosesWhole
<1>2. gone = closing \cup leaving
  BY DEF Gone
<1>3. leaving = (popped \cap flags) \cup due
  BY DEF Leaving
<1>4. \A x : x \in popped <=> x \in Q /\ Past(x, mark)
  BY DEF Popped
<1> HIDE DEF closing, leaving
<1>5. closing \subseteq O \ flags
  BY <1>1 DEF IsClosed
<1>7. Q \ popped \subseteq O \ gone
  BY <1>0, <1>1, <1>2, <1>3, <1>4
<1>8. flags \ gone \subseteq Q \ popped
  BY <1>0, <1>2, <1>3
<1>9. Held(held, popped, flags, gone) = (O \ gone) \ (Q \ popped)
  <2>1. Held(held, popped, flags, gone) = (held \cup (popped \ flags)) \ gone
    BY DEF Held
  <2>2. ASSUME NEW x \in (O \ gone) \ (Q \ popped)
        PROVE  x \in (held \cup (popped \ flags)) \ gone
    BY <1>0, <1>2, <1>3, <2>2
  <2>3. ASSUME NEW x \in (held \cup (popped \ flags)) \ gone
        PROVE  x \in (O \ gone) \ (Q \ popped)
    BY <1>0, <1>4, <2>3
  <2> QED
    BY <2>1, <2>2, <2>3
<1>10. LaterIsQueued(O \ gone, Q \ popped, flags \ gone)
  <2>1. SUFFICES ASSUME NEW S, IsClosed((O \ gone) \ (flags \ gone), S)
                 PROVE  \A x \in S \ (Q \ popped) : \E h \in S \cap (Q \ popped) : x.at < h.at
    BY DEF LaterIsQueued
  <2>2. IsClosed(O \ flags, S) /\ S \cap gone = {}
    <3>1. IsClosed(O \ flags, S)
      BY <1>0, <2>1, StaysClosed
    <3>2. S \cap gone = {}
      BY <2>1 DEF IsClosed
    <3> QED
      BY <3>1, <3>2
  <2>3. \A x \in S \ Q : \E h \in S \cap Q : x.at < h.at
    BY <2>2 DEF QueueIsSound, LaterIsQueued
  <2>4. S \subseteq O \ flags /\ \A x \in S : x \in Observations /\ x.at \in Nat
    BY <1>0, <2>2, ObservationFacts DEF IsClosed
  <2>5. ASSUME NEW y \in S, ~ Past(y, mark)
        PROVE  \E h \in S \cap (Q \ popped) : y.at <= h.at /\ ~ Past(h, mark)
    <3>1. CASE y \in Q
      BY <1>4, <2>4, <2>5, <3>1
    <3>2. CASE y \notin Q
      <4>1. PICK h \in S \cap Q : y.at < h.at
        BY <2>3, <2>5, <3>2
      <4>2. ~ Past(h, mark)
        <5>1. SUFFICES ASSUME Past(h, mark)
                       PROVE  FALSE
          OBVIOUS
        <5>2. h.at < y.at
          BY <2>4, <2>5, <4>1, <5>1, PastEndsBefore
        <5> QED
          BY <2>4, <2>5, <4>1, <5>2
      <4> QED
        BY <1>4, <2>4, <2>5, <4>1, <4>2
    <3> QED
      BY <3>1, <3>2
  <2>6. ASSUME NEW x \in S \cap popped
        PROVE  \E h \in S \cap (Q \ popped) : x.at < h.at
    <3>1. x \in popped \ flags /\ x \in O \ flags /\ x \notin closing
      BY <1>2, <2>2, <2>4, <2>6
    <3>2. PICK y \in Walk(O, flags, x) : ~ Past(y, mark)
      BY <1>1, <3>1
    <3>3. y \in S
      BY <2>2, <2>6, <3>1, <3>2, WalkFacts
    <3>4. PICK h \in S \cap (Q \ popped) : y.at <= h.at /\ ~ Past(h, mark)
      BY <2>5, <3>2, <3>3
    <3>5. Past(x, mark) /\ x \in Observations /\ h \in Observations
      BY <1>4, <2>4, <2>6, <3>4
    <3>6. x.at < h.at
      BY <3>4, <3>5, PastEndsBefore
    <3> QED
      BY <3>4, <3>6
  <2>7. ASSUME NEW x \in S \ Q
        PROVE  \E h \in S \cap (Q \ popped) : x.at < h.at
    <3>1. PICK h \in S \cap Q : x.at < h.at
      BY <2>3, <2>7
    <3>2. CASE h \in popped
      <4>1. PICK g \in S \cap (Q \ popped) : h.at < g.at
        BY <2>6, <3>1, <3>2
      <4>2. x.at \in Nat /\ h.at \in Nat /\ g.at \in Nat
        BY <2>4, <2>7, <3>1, <4>1
      <4> QED
        BY <3>1, <4>1, <4>2
    <3> QED
      BY <3>1, <3>2
  <2> QED
    BY <2>6, <2>7
<1>11. (O \ gone) \subseteq Observations /\ flags \ gone \subseteq O \ gone
  BY <1>0
<1>12. {} = (flags \ gone) \ (Q \ popped)
  BY <1>8
<1> QED
  BY <1>7, <1>9, <1>10, <1>11, <1>12 DEF QueueIsSound

(* A settled queue leaves nothing ripe. *)
LEMMA SettledIsNotRipe ==
  ASSUME NEW O, NEW Q, NEW flags, NEW held, QueueIsSound(O, Q, flags, held, {}),
         NEW mark, \A x \in Q : ~ Past(x, mark)
  PROVE  /\ \A o \in flags : ~ Past(o, mark)
         /\ \A o \in O : \E x \in Walk(O, {}, o) : ~ Past(x, mark)
<1>1. flags \subseteq Q /\ Q \subseteq O /\ LaterIsQueued(O, Q, flags)
  BY DEF QueueIsSound
<1>2. ASSUME NEW o \in O
      PROVE  \E x \in Walk(O, {}, o) : ~ Past(x, mark)
  <2>1. o \in Walk(O, {}, o) /\ IsClosed(O, Walk(O, {}, o))
    <3>1. O \ {} = O
      OBVIOUS
    <3>2. o \in O \ {}
      BY <3>1
    <3> QED
      BY <3>1, <3>2, WalkFacts
  <2>2. CASE o \in Q
    BY <2>1, <2>2
  <2>3. CASE o \notin Q
    <3> DEFINE S == Walk(O, {}, o) \ flags
    <3>1. IsClosed(O \ flags, S)
      BY <2>1 DEF IsClosed
    <3>2. o \in S \ Q
      BY <1>1, <2>1, <2>3
    <3> HIDE DEF S
    <3>3. PICK h \in S \cap Q : o.at < h.at
      BY <1>1, <3>1, <3>2 DEF LaterIsQueued
    <3> QED
      BY <3>3 DEF S
  <2> QED
    BY <2>2, <2>3
<1> QED
  BY <1>1, <1>2

(* The first half of an entry keeps the queue sound: the new observation   *)
(* is in it, and a component that is flagged is flagged whole.             *)
LEMMA AddKeepsQueue ==
  ASSUME NEW o \in Observations, NEW O, NEW Q, NEW flags, NEW held,
         QueueIsSound(O, Q, flags, held, {}), o \notin O,
         NEW members, members = Walk(O \cup {o}, flags, o), NEW large \in BOOLEAN
  PROVE  QueueIsSound(O \cup {o}, Q \cup {o}, IF large THEN flags \cup members ELSE flags, held,
                      IF large THEN held \cap members ELSE {})
<1>1. /\ O \subseteq Observations /\ Q \subseteq O /\ flags \subseteq Q
      /\ held = O \ Q /\ LaterIsQueued(O, Q, flags)
  BY DEF QueueIsSound
<1>2. o \in members /\ IsClosed((O \cup {o}) \ flags, members)
  <2>1. o \in (O \cup {o}) \ flags
    BY <1>1
  <2> QED
    BY <2>1, WalkFacts
<1>3. members \subseteq O \cup {o}
  BY <1>2 DEF IsClosed
<1>4. CASE ~ large
  <2>1. LaterIsQueued(O \cup {o}, Q \cup {o}, flags)
    <3>1. SUFFICES ASSUME NEW S, IsClosed((O \cup {o}) \ flags, S), NEW x \in S \ (Q \cup {o})
                   PROVE  \E h \in S \cap (Q \cup {o}) : x.at < h.at
      BY DEF LaterIsQueued
    <3>2. IsClosed(O \ flags, S \ {o})
      BY <3>1 DEF IsClosed
    <3>3. x \in (S \ {o}) \ Q
      BY <3>1
    <3>4. PICK h \in (S \ {o}) \cap Q : x.at < h.at
      BY <1>1, <3>2, <3>3 DEF LaterIsQueued
    <3> QED
      BY <3>4
  <2>2. held = (O \cup {o}) \ (Q \cup {o}) /\ {} = flags \ (Q \cup {o})
    BY <1>1
  <2> QED
    BY <1>1, <1>4, <2>1, <2>2 DEF QueueIsSound
<1>5. CASE large
  <2>1. LaterIsQueued(O \cup {o}, Q \cup {o}, flags \cup members)
    <3>1. SUFFICES ASSUME NEW S, IsClosed((O \cup {o}) \ (flags \cup members), S),
                          NEW x \in S \ (Q \cup {o})
                   PROVE  \E h \in S \cap (Q \cup {o}) : x.at < h.at
      BY DEF LaterIsQueued
    <3>2. IsClosed(O \ flags, S)
      <4>1. S \subseteq O \ flags /\ S \cap members = {}
        BY <1>2, <3>1 DEF IsClosed
      <4>2. ASSUME NEW a \in S, NEW b \in O \ flags, Adjacent(a, b)
            PROVE  b \in S
        <5>1. b \notin members
          BY <1>2, <4>1, <4>2, AdjacentIsSymmetric DEF IsClosed
        <5> QED
          BY <3>1, <4>2, <5>1 DEF IsClosed
      <4> QED
        BY <4>1, <4>2 DEF IsClosed
    <3>3. PICK h \in S \cap Q : x.at < h.at
      BY <1>1, <3>1, <3>2 DEF LaterIsQueued
    <3> QED
      BY <3>3
  <2>2. held = (O \cup {o}) \ (Q \cup {o})
    BY <1>1
  <2>3. held \cap members = (flags \cup members) \ (Q \cup {o})
    BY <1>1, <1>3
  <2>4. flags \cup members \subseteq O \cup {o}
    BY <1>1, <1>3
  <2> QED
    BY <1>1, <1>5, <2>1, <2>2, <2>3, <2>4 DEF QueueIsSound
<1> QED
  BY <1>4, <1>5

-----------------------------------------------------------------------------
(* What settling emits *)

(* The assignment and the density guard never say LATE. *)
LEMMA VerdictsAreNotLate ==
  ASSUME NEW members, NEW graph, NEW O, NEW x \in members
  PROVE  Verdicts(members, graph, O)[x].reason # LATE
<1> DEFINE decided == Decisions(members, graph, Margin, MaxComponent)
           near == NearOptimal(graph, Margin)
<1>1. decided[x].status \in {MATCHED, UNMATCHED, AMBIGUOUS, OVERSIZED, NO_CANDIDATE}
  <2>1. Forced(near, x).status \in {MATCHED, UNMATCHED, AMBIGUOUS}
    <3> HIDE DEF near
    <3> QED
      BY DEF Forced, Decision
  <2>2. decided[x] = IF Neighbours(graph, x) = {} THEN Decision(NO_CANDIDATE, None)
                     ELSE IF Widest(graph, ComponentOf(graph, x)) > MaxComponent
                          THEN Decision(OVERSIZED, None)
                     ELSE Forced(near, x)
    BY DEF Decisions
  <2> HIDE DEF decided, near
  <2> QED
    BY <2>1, <2>2 DEF Decision
<1>2. \A w : Verdict(LINKED, decided[x].partner, w).reason = LINKED
  BY DEF Verdict
<1>3. \A reason : Undecided(reason).reason = reason
  BY DEF Undecided, Verdict
<1>4. \/ Verdicts(members, graph, O)[x] = Undecided(decided[x].status)
      \/ Verdicts(members, graph, O)[x] = Undecided(DENSE)
      \/ \E w : Verdicts(members, graph, O)[x] = Verdict(LINKED, decided[x].partner, w)
  BY DEF Verdicts
<1> HIDE DEF decided
<1>5. Verdicts(members, graph, O)[x].reason
        \in {MATCHED, UNMATCHED, AMBIGUOUS, OVERSIZED, NO_CANDIDATE, DENSE, LINKED}
  BY <1>1, <1>2, <1>3, <1>4
<1> QED
  BY <1>5 DEF MATCHED, UNMATCHED, AMBIGUOUS, OVERSIZED, NO_CANDIDATE, DENSE, LINKED, LATE

NewProofs(O, Q, flags, due, mark, finality) ==
  {Proof(C, finality) : C \in Ripe(O, Q, flags, mark)}
    \cup {Proof({x}, finality) : x \in Leaving(Popped(Q, mark), due, flags)}

(* What the last verdicts cur become, those in gone being settled. *)
AreSettled(cur, gone, closing, finality, cur1) ==
  /\ DOMAIN cur1 = DOMAIN cur
  /\ \A x \in DOMAIN cur \ gone : cur1[x] = cur[x]
  /\ \A x \in DOMAIN cur \cap gone :
       /\ cur1[x].status = finality /\ cur1[x].verdict.reason # LATE
       /\ x \notin closing => cur1[x].verdict = Undecided(OVERSIZED)

(* Settle, with its parts named. *)
SettlesTo(p, f, O, Q, flags, held, due, cur, D) ==
  LET mark == Watermark(p, f)
      gone == Gone(O, Q, flags, due, mark)
  IN  /\ progress' = p
      /\ first_at' = f
      /\ open' = O \ gone
      /\ heap' = Q \ Popped(Q, mark)
      /\ flagged' = flags \ gone
      /\ past' = Held(held, Popped(Q, mark), flags, gone)
      /\ AreSettled(cur, gone, Closing(O, Q, flags, mark), Finality(p, f), current')
      /\ proofs' = D \cup NewProofs(O, Q, flags, due, mark, Finality(p, f))

LEMMA SettleMeans ==
  ASSUME NEW p, NEW f, NEW O, NEW Q, NEW flags, NEW held, NEW due, NEW count, NEW cur, NEW D,
         Settle(p, f, O, Q, flags, held, due, count, cur, D)
  PROVE  SettlesTo(p, f, O, Q, flags, held, due, cur, D)
<1> DEFINE mark == Watermark(p, f)
           finality == Finality(p, f)
           popped == Popped(Q, mark)
           closing == Closing(O, Q, flags, mark)
           leaving == Leaving(popped, due, flags)
           gone == Gone(O, Q, flags, due, mark)
           verdicts == Verdicts(closing, Within(Graph(O), closing), count)
           Final(x) == Settled(IF x \in closing THEN verdicts[x] ELSE Undecided(OVERSIZED), finality)
<1>1. /\ progress' = p
      /\ first_at' = f
      /\ open' = O \ gone
      /\ heap' = Q \ popped
      /\ flagged' = flags \ gone
      /\ past' = Held(held, popped, flags, gone)
      /\ current' = [x \in DOMAIN cur |-> IF x \in gone THEN Final(x) ELSE cur[x]]
  BY DEF Settle, Gone, Closing, Ripe, Popped
<1>2. proofs' = D \cup NewProofs(O, Q, flags, due, mark, finality)
  BY DEF Settle, NewProofs, Closing, Ripe, Popped
<1>3. \A x \in closing : verdicts[x].reason # LATE
  BY VerdictsAreNotLate
<1>4. \A v, t : Settled(v, t).verdict = v /\ Settled(v, t).status = t
  BY DEF Settled
<1>5. Undecided(OVERSIZED).reason # LATE
  BY DEF Undecided, Verdict, OVERSIZED, LATE
<1> HIDE DEF mark, finality, popped, closing, leaving, gone, verdicts
<1>6. AreSettled(cur, gone, closing, finality, current')
  <2>1. DOMAIN current' = DOMAIN cur
    BY <1>1
  <2>2. \A x \in DOMAIN cur \ gone : current'[x] = cur[x]
    BY <1>1
  <2>3. ASSUME NEW x \in DOMAIN cur \cap gone
        PROVE  /\ current'[x].status = finality /\ current'[x].verdict.reason # LATE
               /\ x \notin closing => current'[x].verdict = Undecided(OVERSIZED)
    <3>1. current'[x] = Final(x)
      BY <1>1, <2>3
    <3>2. Final(x).status = finality
      BY <1>4
    <3>3. Final(x).verdict = IF x \in closing THEN verdicts[x] ELSE Undecided(OVERSIZED)
      BY <1>4
    <3> HIDE DEF Final
    <3> QED
      BY <1>3, <1>5, <3>1, <3>2, <3>3
  <2> QED
    BY <2>1, <2>2, <2>3 DEF AreSettled
<1> QED
  BY <1>1, <1>2, <1>6 DEF SettlesTo, mark, finality, popped, closing, gone

(* What settling does to the rest: the verdicts of what closes, and the    *)
(* neighbours that are still counted.                                      *)
SettlesAlso(p, f, O, Q, flags, due, count, cur) ==
  LET mark == Watermark(p, f)
      gone == Gone(O, Q, flags, due, mark)
      closing == Closing(O, Q, flags, mark)
  IN  /\ counted' = Remembered(O \ gone, count, mark)
      /\ \A x \in DOMAIN cur \cap closing :
           current'[x].verdict = Verdicts(closing, Within(Graph(O), closing), count)[x]

LEMMA SettleAlso ==
  ASSUME NEW p, NEW f, NEW O, NEW Q, NEW flags, NEW held, NEW due, NEW count, NEW cur, NEW D,
         Settle(p, f, O, Q, flags, held, due, count, cur, D)
  PROVE  SettlesAlso(p, f, O, Q, flags, due, count, cur)
<1> DEFINE mark == Watermark(p, f)
           finality == Finality(p, f)
           popped == Popped(Q, mark)
           closing == Closing(O, Q, flags, mark)
           gone == Gone(O, Q, flags, due, mark)
           verdicts == Verdicts(closing, Within(Graph(O), closing), count)
           Final(x) == Settled(IF x \in closing THEN verdicts[x] ELSE Undecided(OVERSIZED), finality)
<1>1. /\ counted' = Remembered(O \ gone, count, mark)
      /\ current' = [x \in DOMAIN cur |-> IF x \in gone THEN Final(x) ELSE cur[x]]
  BY DEF Settle, Gone, Closing, Ripe, Popped
<1>2. closing \subseteq gone
  BY DEF Gone
<1>3. \A v, t : Settled(v, t).verdict = v
  BY DEF Settled
<1> HIDE DEF mark, finality, popped, closing, gone, verdicts
<1>4. ASSUME NEW x \in DOMAIN cur \cap closing
      PROVE  current'[x].verdict = verdicts[x]
  <2>1. current'[x] = Final(x)
    BY <1>1, <1>2, <1>4
  <2>2. Final(x).verdict = IF x \in closing THEN verdicts[x] ELSE Undecided(OVERSIZED)
    BY <1>3
  <2> HIDE DEF Final
  <2> QED
    BY <1>4, <2>1, <2>2
<1> QED
  BY <1>1, <1>4 DEF SettlesAlso, mark, closing, gone, verdicts

-----------------------------------------------------------------------------
(* Proofs *)

ToldIn(cur, o) == cur[o].verdict.reason = LATE

(* One of D has o, with the finality of its verdict. *)
HasOneOf(D, o, finality) ==
  \E d \in D : /\ o \in d.observations /\ d.finality = finality
               /\ \A e \in D : o \in e.observations => e = d

(* What is open is provisional and in no proof, what was told late has     *)
(* none, and everything else has one.                                      *)
ProofsShareOut(S, O, cur, D) ==
  /\ \A d \in D : d.observations \subseteq S \ O
  /\ \A o \in S \ O : IF ToldIn(cur, o) THEN \A d \in D : o \notin d.observations
                      ELSE HasOneOf(D, o, cur[o].status)
  /\ \A o \in O : cur[o].status = PROVISIONAL

LEMMA NewProofsFacts ==
  ASSUME NEW O, NEW Q, NEW flags, NEW due, Nest(O, Q, flags, due), NEW mark, NEW finality,
         NEW gone, gone = Gone(O, Q, flags, due, mark)
  PROVE  /\ \A d \in NewProofs(O, Q, flags, due, mark, finality) : d.observations \subseteq gone
         /\ \A x \in gone : HasOneOf(NewProofs(O, Q, flags, due, mark, finality), x, finality)
<1> DEFINE ripe == Ripe(O, Q, flags, mark)
           closing == Closing(O, Q, flags, mark)
           leaving == Leaving(Popped(Q, mark), due, flags)
           New == NewProofs(O, Q, flags, due, mark, finality)
<1>1. ClosesWhole(O, Q, flags, mark, ripe, closing)
  BY ClosingFacts
<1>2. gone = closing \cup leaving
  BY DEF Gone
<1>3. leaving \subseteq flags
  BY DEF Leaving, Nest
<1>4. \A C : Proof(C, finality).observations = C /\ Proof(C, finality).finality = finality
  BY DEF Proof
<1>5. \A d : d \in New <=> \/ \E C \in ripe : d = Proof(C, finality)
                           \/ \E x \in leaving : d = Proof({x}, finality)
  BY DEF NewProofs
<1> HIDE DEF ripe, closing, leaving, New
<1>6. /\ \A C \in ripe : C \subseteq O \ flags /\ \A x \in C : C = Walk(O, flags, x)
      /\ \A x : x \in closing <=> \E C \in ripe : x \in C
  BY <1>1 DEF ClosesWhole
<1>7. ASSUME NEW d \in New
      PROVE  d.observations \subseteq gone
  <2>1. CASE \E C \in ripe : d = Proof(C, finality)
    <3>1. PICK C \in ripe : d = Proof(C, finality)
      BY <2>1
    <3>2. d.observations = C
      BY <1>4, <3>1
    <3> QED
      BY <1>2, <1>6, <3>2
  <2>2. CASE \E x \in leaving : d = Proof({x}, finality)
    <3>1. PICK x \in leaving : d = Proof({x}, finality)
      BY <2>2
    <3>2. d.observations = {x}
      BY <1>4, <3>1
    <3> QED
      BY <1>2, <3>2
  <2> QED
    BY <1>5, <1>7, <2>1, <2>2
<1>8. ASSUME NEW x \in closing
      PROVE  HasOneOf(New, x, finality)
  <2>1. PICK C \in ripe : x \in C
    BY <1>6, <1>8
  <2>2. Proof(C, finality) \in New
    BY <1>5
  <2>3. ASSUME NEW e \in New, x \in e.observations
        PROVE  e = Proof(C, finality)
    <3>1. CASE \E B \in ripe : e = Proof(B, finality)
      <4>1. PICK B \in ripe : e = Proof(B, finality)
        BY <3>1
      <4>2. x \in B
        BY <1>4, <2>3, <4>1
      <4> QED
        BY <1>6, <2>1, <4>1, <4>2
    <3>2. CASE \E y \in leaving : e = Proof({y}, finality)
      <4>1. PICK y \in leaving : e = Proof({y}, finality)
        BY <3>2
      <4>2. x = y
        BY <1>4, <2>3, <4>1
      <4> QED
        BY <1>3, <1>6, <2>1, <4>1, <4>2
    <3> QED
      BY <1>5, <2>3, <3>1, <3>2
  <2> QED
    BY <1>4, <2>1, <2>2, <2>3 DEF HasOneOf
<1>9. ASSUME NEW x \in leaving
      PROVE  HasOneOf(New, x, finality)
  <2>1. Proof({x}, finality) \in New
    BY <1>5, <1>9
  <2>2. ASSUME NEW e \in New, x \in e.observations
        PROVE  e = Proof({x}, finality)
    <3>1. CASE \E B \in ripe : e = Proof(B, finality)
      <4>1. PICK B \in ripe : e = Proof(B, finality)
        BY <3>1
      <4>2. x \in B
        BY <1>4, <2>2, <4>1
      <4> QED
        BY <1>3, <1>6, <1>9, <4>1, <4>2
    <3>2. CASE \E y \in leaving : e = Proof({y}, finality)
      <4>1. PICK y \in leaving : e = Proof({y}, finality)
        BY <3>2
      <4>2. x = y
        BY <1>4, <2>2, <4>1
      <4> QED
        BY <4>1, <4>2
    <3> QED
      BY <1>5, <2>2, <3>1, <3>2
  <2>3. x \in Proof({x}, finality).observations /\ Proof({x}, finality).finality = finality
    BY <1>4
  <2> QED
    BY <2>1, <2>2, <2>3 DEF HasOneOf
<1> QED
  BY <1>2, <1>7, <1>8, <1>9 DEF New

LEMMA SettleKeepsProofs ==
  ASSUME NEW S, NEW O, O \subseteq S, NEW Q, NEW flags, NEW due, Nest(O, Q, flags, due),
         NEW cur, DOMAIN cur = S, NEW D, ProofsShareOut(S, O, cur, D), NEW mark, NEW finality,
         NEW gone, gone = Gone(O, Q, flags, due, mark), gone \subseteq O,
         NEW cur1, AreSettled(cur, gone, Closing(O, Q, flags, mark), finality, cur1)
  PROVE  ProofsShareOut(S, O \ gone, cur1, D \cup NewProofs(O, Q, flags, due, mark, finality))
<1> DEFINE New == NewProofs(O, Q, flags, due, mark, finality)
<1>1. /\ \A d \in New : d.observations \subseteq gone
      /\ \A x \in gone : HasOneOf(New, x, finality)
  BY NewProofsFacts
<1> HIDE DEF New
<1>2. /\ \A x \in S \ gone : cur1[x] = cur[x]
      /\ \A x \in gone : cur1[x].status = finality /\ cur1[x].verdict.reason # LATE
  BY DEF AreSettled
<1>3. /\ \A d \in D : d.observations \subseteq S \ O
      /\ \A o \in S \ O : IF ToldIn(cur, o) THEN \A d \in D : o \notin d.observations
                          ELSE HasOneOf(D, o, cur[o].status)
      /\ \A o \in O : cur[o].status = PROVISIONAL
  BY DEF ProofsShareOut
<1>4. \A d \in D \cup New : d.observations \subseteq S \ (O \ gone)
  BY <1>1, <1>3
<1>5. ASSUME NEW o \in S \ O
      PROVE  IF ToldIn(cur1, o) THEN \A d \in D \cup New : o \notin d.observations
             ELSE HasOneOf(D \cup New, o, cur1[o].status)
  <2>1. cur1[o] = cur[o] /\ \A d \in New : o \notin d.observations
    BY <1>1, <1>2, <1>5
  <2>2. CASE ToldIn(cur, o)
    BY <1>3, <1>5, <2>1, <2>2 DEF ToldIn
  <2>3. CASE ~ ToldIn(cur, o)
    <3>1. HasOneOf(D, o, cur[o].status)
      BY <1>3, <1>5, <2>3
    <3>2. HasOneOf(D \cup New, o, cur[o].status)
      BY <2>1, <3>1 DEF HasOneOf
    <3> QED
      BY <2>1, <2>3, <3>2 DEF ToldIn
  <2> QED
    BY <2>2, <2>3
<1>6. ASSUME NEW o \in gone
      PROVE  IF ToldIn(cur1, o) THEN \A d \in D \cup New : o \notin d.observations
             ELSE HasOneOf(D \cup New, o, cur1[o].status)
  <2>1. ~ ToldIn(cur1, o) /\ cur1[o].status = finality
    BY <1>2, <1>6 DEF ToldIn
  <2>2. HasOneOf(New, o, finality) /\ \A d \in D : o \notin d.observations
    BY <1>1, <1>3, <1>6
  <2>3. HasOneOf(D \cup New, o, finality)
    BY <2>2 DEF HasOneOf
  <2> QED
    BY <2>1, <2>3
<1>7. \A o \in O \ gone : cur1[o].status = PROVISIONAL
  BY <1>2, <1>3
<1>8. \A o \in S \ (O \ gone) : o \in S \ O \/ o \in gone
  OBVIOUS
<1> QED
  BY <1>4, <1>5, <1>6, <1>7, <1>8 DEF ProofsShareOut, New

-----------------------------------------------------------------------------
(* The invariant *)

TimedInv(S, O, Q, flags, held, due, cur, D, p, f) ==
  /\ S \subseteq Observations /\ O \subseteq S /\ DOMAIN cur = S
  /\ QueueIsSound(O, Q, flags, held, due)
  /\ ProofsShareOut(S, O, cur, D)
  /\ ClocksAreSane(S, p, f)

Inv == TimedInv(seen, open, heap, flagged, past, {}, current, proofs, progress, first_at)

LEMMA ClocksAdvance ==
  ASSUME NEW S \in SUBSET Observations, NEW p, NEW f, ClocksAreSane(S, p, f),
         NEW s \in Sources, NEW t \in Nat,
         NEW P, P = Advanced(p, s, t), NEW F, F = FirstAt(f, t)
  PROVE  /\ ClocksAreSane(S, P, F)
         /\ F # NoTime /\ F \in Nat /\ F <= t
         /\ \A r \in Sources : p[r] # NoTime => P[r] \in Nat /\ p[r] \in Nat /\ p[r] <= P[r]
<1>1. /\ p \in [Sources -> Nat \cup {NoTime}] /\ f \in Nat \cup {NoTime}
      /\ \A o \in S : f # NoTime /\ f <= o.at
  BY DEF ClocksAreSane
<1>2. F # NoTime /\ F \in Nat /\ F <= t
  BY <1>1 DEF FirstAt, NoTime
<1>3. f # NoTime => F <= f
  BY <1>1 DEF FirstAt, NoTime
<1>4. ASSUME NEW r \in Sources
      PROVE  /\ P[r] = IF r = s /\ (p[r] = NoTime \/ p[r] < t) THEN t ELSE p[r]
             /\ P[r] \in Nat \cup {NoTime}
             /\ p[r] # NoTime => P[r] \in Nat /\ p[r] \in Nat /\ p[r] <= P[r]
  <2>1. P[r] = IF r = s /\ (p[r] = NoTime \/ p[r] < t) THEN t ELSE p[r]
    BY <1>1 DEF Advanced
  <2> QED
    BY <1>1, <2>1 DEF NoTime
<1>5. P \in [Sources -> Nat \cup {NoTime}]
  BY <1>1 DEF Advanced
<1>6. ASSUME NEW o \in S
      PROVE  F # NoTime /\ F <= o.at
  <2>1. f # NoTime /\ f <= o.at /\ F <= f /\ o.at \in Nat /\ f \in Nat
    BY <1>1, <1>3, <1>6, ObservationFacts
  <2> QED
    BY <1>2, <2>1
<1>7. \E n \in Nat : F <= n /\ \A r \in Sources : P[r] <= n
  <2>1. PICK m \in Nat : f <= m /\ \A r \in Sources : p[r] <= m
    BY DEF ClocksAreSane
  <2>2. PICK n \in Nat : m <= n /\ t <= n
    BY <2>1
  <2>3. ASSUME NEW r \in Sources
        PROVE  P[r] <= n
    BY <1>1, <1>4, <2>1, <2>2, <2>3 DEF NoTime
  <2> QED
    BY <1>2, <2>2, <2>3
<1> QED
  BY <1>2, <1>4, <1>5, <1>6, <1>7 DEF ClocksAreSane

LEMMA ClocksCountIn ==
  ASSUME NEW S, NEW p, NEW f, ClocksAreSane(S, p, f), f # NoTime, NEW o, f <= o.at
  PROVE  ClocksAreSane(S \cup {o}, p, f)
BY DEF ClocksAreSane

(* The second half of an entry. *)
LEMMA SettleKeeps ==
  ASSUME NEW S, NEW O, NEW Q, NEW flags, NEW held, NEW due, NEW cur, NEW D, NEW p, NEW f,
         TimedInv(S, O, Q, flags, held, due, cur, D, p, f), f # NoTime, seen' = S,
         SettlesTo(p, f, O, Q, flags, held, due, cur, D)
  PROVE  Inv' /\ NothingRipe'
<1> DEFINE mark == Watermark(p, f)
           finality == Finality(p, f)
           popped == Popped(Q, mark)
           gone == Gone(O, Q, flags, due, mark)
<1>1. /\ S \subseteq Observations /\ O \subseteq S /\ DOMAIN cur = S
      /\ QueueIsSound(O, Q, flags, held, due)
      /\ ProofsShareOut(S, O, cur, D)
      /\ ClocksAreSane(S, p, f)
  BY DEF TimedInv
<1>2. /\ progress' = p /\ first_at' = f
      /\ open' = O \ gone /\ heap' = Q \ popped /\ flagged' = flags \ gone
      /\ past' = Held(held, popped, flags, gone)
      /\ AreSettled(cur, gone, Closing(O, Q, flags, mark), finality, current')
      /\ proofs' = D \cup NewProofs(O, Q, flags, due, mark, finality)
  BY DEF SettlesTo
<1>3. mark \in Int
  BY <1>1, WatermarkFacts
<1>4. Nest(O, Q, flags, due)
  BY <1>1 DEF QueueIsSound, Nest
<1> HIDE DEF mark, finality
<1>5. /\ QueueIsSound(O \ gone, Q \ popped, flags \ gone, Held(held, popped, flags, gone), {})
      /\ \A x \in Q \ popped : ~ Past(x, mark)
      /\ gone \subseteq O
  <2>1. gone = Gone(O, Q, flags, due, mark) /\ popped = Popped(Q, mark)
    OBVIOUS
  <2> HIDE DEF gone, popped
  <2>2. QueueIsSound(O, Q, flags, held, due)
    BY <1>1
  <2>3. QueueIsSound(O \ gone, Q \ popped, flags \ gone, Held(held, popped, flags, gone), {})
    BY <1>3, <2>1, <2>2, SettleKeepsQueue
  <2>4. \A x \in Q \ popped : ~ Past(x, mark)
    BY <2>1 DEF Popped
  <2>5. gone \subseteq O
    <3>1. ClosesWhole(O, Q, flags, mark, Ripe(O, Q, flags, mark), Closing(O, Q, flags, mark))
      BY <1>4, ClosingFacts
    <3>2. Closing(O, Q, flags, mark) \subseteq O
      BY <3>1 DEF ClosesWhole, IsClosed
    <3> QED
      BY <1>4, <2>1, <3>2 DEF Gone, Leaving, Nest, Popped
  <2> QED
    BY <2>3, <2>4, <2>5
<1>6. ProofsShareOut(S, O \ gone, current', D \cup NewProofs(O, Q, flags, due, mark, finality))
  BY <1>1, <1>2, <1>4, <1>5, SettleKeepsProofs
<1>7. DOMAIN current' = S
  BY <1>1, <1>2 DEF AreSettled
<1>8. TimedInv(S, O \ gone, Q \ popped, flags \ gone, Held(held, popped, flags, gone), {},
               current', D \cup NewProofs(O, Q, flags, due, mark, finality), p, f)
  <2>1. O \ gone \subseteq S
    BY <1>1
  <2> QED
    BY <1>1, <1>5, <1>6, <1>7, <2>1 DEF TimedInv
<1>9. /\ \A x \in flags \ gone : ~ Past(x, mark)
      /\ \A x \in O \ gone : \E y \in Walk(O \ gone, {}, x) : ~ Past(y, mark)
  BY <1>5, SettledIsNotRipe
<1>10. Watermark(progress, first_at)' = mark
  BY <1>2 DEF mark
<1>11. NothingRipe'
  <2>1. /\ \A x \in flagged' : ~ Past(x, mark)
        /\ \A x \in open' : \E y \in Walk(open', {}, x) : ~ Past(y, mark)
    BY <1>2, <1>9
  <2> QED
    BY <1>10, <2>1 DEF NothingRipe
<1>12. Inv'
  BY <1>2, <1>8 DEF Inv
<1> QED
  BY <1>11, <1>12

(* An observation that is told at once, late or with a proof of its own. *)
LEMMA TellingShares ==
  ASSUME NEW S, NEW O \in SUBSET S, NEW cur, NEW D, ProofsShareOut(S, O, cur, D), NEW o, o \notin S,
         NEW cur1, \A x \in S : cur1[x] = cur[x]
  PROVE  /\ ToldIn(cur1, o) => ProofsShareOut(S \cup {o}, O, cur1, D)
         /\ ~ ToldIn(cur1, o) =>
              ProofsShareOut(S \cup {o}, O, cur1, D \cup {Proof({o}, cur1[o].status)})
<1> DEFINE own == Proof({o}, cur1[o].status)
<1>0. /\ \A d \in D : d.observations \subseteq S \ O
      /\ \A x \in S \ O : IF ToldIn(cur, x) THEN \A d \in D : x \notin d.observations
                          ELSE HasOneOf(D, x, cur[x].status)
      /\ \A x \in O : cur[x].status = PROVISIONAL
  BY DEF ProofsShareOut
<1>1. \A x \in O : cur1[x].status = PROVISIONAL
  BY <1>0
<1>2. \A d \in D : o \notin d.observations
  BY <1>0
<1>3. own.observations = {o} /\ own.finality = cur1[o].status
  BY DEF Proof
<1> HIDE DEF own
<1>4. ASSUME NEW x \in S \ O
      PROVE  IF ToldIn(cur1, x) THEN \A d \in D \cup {own} : x \notin d.observations
             ELSE HasOneOf(D, x, cur1[x].status) /\ HasOneOf(D \cup {own}, x, cur1[x].status)
  <2>1. x # o /\ cur1[x] = cur[x]
    BY <1>4
  <2>2. CASE ToldIn(cur, x)
    BY <1>0, <1>3, <1>4, <2>1, <2>2 DEF ToldIn
  <2>3. CASE ~ ToldIn(cur, x)
    <3>1. HasOneOf(D, x, cur[x].status)
      BY <1>0, <1>4, <2>3
    <3>2. HasOneOf(D \cup {own}, x, cur[x].status)
      BY <1>3, <2>1, <3>1 DEF HasOneOf
    <3> QED
      BY <2>1, <2>3, <3>1, <3>2 DEF ToldIn
  <2> QED
    BY <2>2, <2>3
<1>5. ASSUME ToldIn(cur1, o)
      PROVE  ProofsShareOut(S \cup {o}, O, cur1, D)
  <2>1. \A d \in D : d.observations \subseteq (S \cup {o}) \ O
    BY <1>0
  <2>2. \A x \in (S \cup {o}) \ O : IF ToldIn(cur1, x) THEN \A d \in D : x \notin d.observations
                                   ELSE HasOneOf(D, x, cur1[x].status)
    BY <1>2, <1>4, <1>5
  <2> QED
    BY <1>1, <2>1, <2>2 DEF ProofsShareOut
<1>6. ASSUME ~ ToldIn(cur1, o)
      PROVE  ProofsShareOut(S \cup {o}, O, cur1, D \cup {own})
  <2>1. \A d \in D \cup {own} : d.observations \subseteq (S \cup {o}) \ O
    BY <1>0, <1>3
  <2>2. HasOneOf(D \cup {own}, o, cur1[o].status)
    BY <1>2, <1>3 DEF HasOneOf
  <2>3. \A x \in (S \cup {o}) \ O :
          IF ToldIn(cur1, x) THEN \A d \in D \cup {own} : x \notin d.observations
          ELSE HasOneOf(D \cup {own}, x, cur1[x].status)
    BY <1>4, <1>6, <2>2
  <2> QED
    BY <1>1, <2>1, <2>3 DEF ProofsShareOut
<1> QED
  BY <1>5, <1>6 DEF own

IsWith(cur, o, verdict, status) ==
  /\ DOMAIN cur = seen \cup {o}
  /\ \A x \in seen : cur[x] = current[x]
  /\ cur[o].verdict = verdict /\ cur[o].status = status

LEMMA WithFacts ==
  ASSUME DOMAIN current = seen, NEW o, o \notin seen, NEW verdict, NEW status
  PROVE  IsWith(With(o, verdict, status), o, verdict, status)
<1>1. With(o, verdict, status) = [x \in seen \cup {o} |->
                                    IF x = o THEN Settled(verdict, status) ELSE current[x]]
  BY DEF With
<1>2. Settled(verdict, status).verdict = verdict /\ Settled(verdict, status).status = status
  BY DEF Settled
<1> QED
  BY <1>1, <1>2 DEF IsWith

LEMMA InvMeans ==
  ASSUME Inv
  PROVE  /\ seen \subseteq Observations /\ open \subseteq seen /\ DOMAIN current = seen
         /\ QueueIsSound(open, heap, flagged, past, {})
         /\ ProofsShareOut(seen, open, current, proofs)
         /\ ClocksAreSane(seen, progress, first_at)
BY DEF Inv, TimedInv

(* The clocks once an entry at a time has been counted. *)
LEMMA ClocksAfter ==
  ASSUME Inv, NEW o \in Observations,
         NEW P, P = Advanced(progress, o.source, o.at), NEW F, F = FirstAt(first_at, o.at)
  PROVE  ClocksAreSane(seen, P, F) /\ ClocksAreSane(seen \cup {o}, P, F) /\ F # NoTime
<1>1. o.source \in Sources /\ o.at \in Nat
  BY ObservationFacts
<1>2. seen \in SUBSET Observations /\ ClocksAreSane(seen, progress, first_at)
  BY InvMeans
<1>3. ClocksAreSane(seen, P, F) /\ F # NoTime /\ F <= o.at
  BY <1>1, <1>2, ClocksAdvance
<1> QED
  BY <1>3, ClocksCountIn

LEMMA TellKeeps ==
  ASSUME Inv, NEW o \in Observations, o \notin seen, seen' = seen \cup {o}, Tell(o)
  PROVE  Inv' /\ Told(o)'
<1>1. /\ seen \subseteq Observations /\ open \in SUBSET seen /\ DOMAIN current = seen
      /\ QueueIsSound(open, heap, flagged, past, {})
      /\ ProofsShareOut(seen, open, current, proofs)
  BY InvMeans
<1>2. /\ progress' = Advanced(progress, o.source, o.at)
      /\ first_at' = FirstAt(first_at, o.at)
      /\ current' = With(o, Undecided(LATE), FINAL)
      /\ UNCHANGED <<open, heap, flagged, past, proofs>>
  BY DEF Tell
<1>3. ClocksAreSane(seen \cup {o}, progress', first_at')
  BY <1>2, ClocksAfter
<1>4. /\ DOMAIN current' = seen \cup {o}
      /\ \A x \in seen : current'[x] = current[x]
      /\ current'[o].verdict = Undecided(LATE)
  <2>1. IsWith(With(o, Undecided(LATE), FINAL), o, Undecided(LATE), FINAL)
    BY <1>1, WithFacts
  <2> QED
    BY <1>2, <2>1 DEF IsWith
<1>5. ToldIn(current', o)
  BY <1>4 DEF ToldIn, Undecided, Verdict
<1>6. ProofsShareOut(seen \cup {o}, open, current', proofs)
  BY <1>1, <1>4, <1>5, TellingShares
<1>7. TimedInv(seen \cup {o}, open, heap, flagged, past, {}, current', proofs, progress', first_at')
  <2>1. seen \cup {o} \subseteq Observations /\ open \subseteq seen \cup {o}
    BY <1>1
  <2> QED
    BY <1>1, <1>3, <1>4, <1>6, <2>1 DEF TimedInv
<1>8. Inv'
  BY <1>2, <1>7 DEF Inv
<1> QED
  BY <1>5, <1>8 DEF Told, ToldIn

LEMMA ExcludeKeeps ==
  ASSUME Inv, NEW o \in Observations, o \notin seen, seen' = seen \cup {o}, Exclude(o)
  PROVE  Inv' /\ NothingRipe'
<1> DEFINE P == Advanced(progress, o.source, o.at)
           F == FirstAt(first_at, o.at)
           reason == IF o.start = NoStart THEN TIME_ABSENT ELSE TOO_LONG
           cur == With(o, Undecided(reason), FINAL)
           D == proofs \cup {Proof({o}, FINAL)}
<1>1. /\ seen \subseteq Observations /\ open \in SUBSET seen /\ DOMAIN current = seen
      /\ QueueIsSound(open, heap, flagged, past, {})
      /\ ProofsShareOut(seen, open, current, proofs)
  BY InvMeans
<1>2. SettlesTo(P, F, open, heap, flagged, past, {}, cur, D)
  BY SettleMeans DEF Exclude
<1>3. ClocksAreSane(seen \cup {o}, P, F) /\ F # NoTime
  BY ClocksAfter
<1>4. /\ DOMAIN cur = seen \cup {o}
      /\ \A x \in seen : cur[x] = current[x]
      /\ cur[o].verdict = Undecided(reason) /\ cur[o].status = FINAL
  <2>1. IsWith(cur, o, Undecided(reason), FINAL)
    BY <1>1, WithFacts
  <2> QED
    BY <2>1 DEF IsWith
<1>5. ~ ToldIn(cur, o)
  <2>1. Undecided(reason).reason = reason
    BY DEF Undecided, Verdict
  <2> HIDE DEF cur
  <2> QED
    BY <1>4, <2>1 DEF ToldIn, TIME_ABSENT, TOO_LONG, LATE
<1> HIDE DEF P, F, cur, reason
<1>6. ProofsShareOut(seen \cup {o}, open, cur, D)
  BY <1>1, <1>4, <1>5, TellingShares
<1>7. TimedInv(seen \cup {o}, open, heap, flagged, past, {}, cur, D, P, F)
  <2>1. seen \cup {o} \subseteq Observations /\ open \subseteq seen \cup {o}
    BY <1>1
  <2> QED
    BY <1>1, <1>3, <1>4, <1>6, <2>1 DEF TimedInv
<1> HIDE DEF D
<1> QED
  BY <1>2, <1>3, <1>7, SettleKeeps

(* Add, with its parts named. *)
Members(o) == Walk(open \cup {o}, flagged, o)

IsLarge(o) == Touches(open \cup {o}, flagged, Members(o)) \/ IsTooLarge(Members(o))

Flags(o) == IF IsLarge(o) THEN flagged \cup Members(o) ELSE flagged

Due(o) == IF IsLarge(o) THEN past \cap Members(o) ELSE {}

Count(o) == IF Span > 0 THEN counted \cup {o} ELSE counted

(* The new observation and the members it joins have a provisional verdict. *)
IsEntered(cur, o) ==
  /\ DOMAIN cur = seen \cup {o}
  /\ \A x \in seen \ Members(o) : cur[x] = current[x]
  /\ \A x \in (seen \cup {o}) \cap Members(o) :
       cur[x].status = PROVISIONAL /\ cur[x].verdict.reason # LATE

LEMMA AddMeans ==
  ASSUME NEW o, DOMAIN current = seen, o \in Members(o), Add(o)
  PROVE  \E cur : /\ IsEntered(cur, o)
                  /\ SettlesTo(Advanced(progress, o.source, o.at), FirstAt(first_at, o.at),
                               open \cup {o}, heap \cup {o}, Flags(o), past, Due(o), cur, proofs)
                  /\ SettlesAlso(Advanced(progress, o.source, o.at), FirstAt(first_at, o.at),
                                 open \cup {o}, heap \cup {o}, Flags(o), Due(o), Count(o), cur)
<1> DEFINE O == open \cup {o}
           members == Walk(O, flagged, o)
           count == IF Span > 0 THEN counted \cup {o} ELSE counted
           large == Touches(O, flagged, members) \/ IsTooLarge(members)
           verdicts == IF large THEN [x \in members |-> Undecided(OVERSIZED)]
                       ELSE Verdicts(members, Within(Graph(O), members), count)
           cur == [x \in DOMAIN current \cup {o} |->
                     IF x \in members THEN Settled(verdicts[x], PROVISIONAL) ELSE current[x]]
<1>1. Settle(Advanced(progress, o.source, o.at), FirstAt(first_at, o.at), O, heap \cup {o},
             IF large THEN flagged \cup members ELSE flagged, past,
             IF large THEN past \cap members ELSE {}, count, cur, proofs)
  BY DEF Add
<1>2. members = Members(o) /\ large = IsLarge(o) /\ count = Count(o)
  BY DEF Members, IsLarge, Count
<1>3. ASSUME NEW x \in members
      PROVE  verdicts[x].reason # LATE
  <2>1. Undecided(OVERSIZED).reason # LATE
    BY DEF Undecided, Verdict, OVERSIZED, LATE
  <2>2. Verdicts(members, Within(Graph(O), members), count)[x].reason # LATE
    BY <1>3, VerdictsAreNotLate
  <2>3. CASE large
    <3>1. verdicts[x] = Undecided(OVERSIZED)
      BY <1>3, <2>3
    <3> QED
      BY <2>1, <3>1
  <2>4. CASE ~ large
    <3>1. verdicts = Verdicts(members, Within(Graph(O), members), count)
      BY <2>4
    <3> QED
      BY <2>2, <3>1
  <2> QED
    BY <2>3, <2>4
<1> HIDE DEF large, verdicts, members, count
<1>4. \A v, t : Settled(v, t).verdict = v /\ Settled(v, t).status = t
  BY DEF Settled
<1>5. IsEntered(cur, o)
  <2>1. DOMAIN cur = seen \cup {o}
    OBVIOUS
  <2>2. \A x \in seen \ members : cur[x] = current[x]
    OBVIOUS
  <2>3. ASSUME NEW x \in (seen \cup {o}) \cap members
        PROVE  cur[x].status = PROVISIONAL /\ cur[x].verdict.reason # LATE
    <3>1. cur[x] = Settled(verdicts[x], PROVISIONAL)
      OBVIOUS
    <3> HIDE DEF cur
    <3> QED
      BY <1>3, <1>4, <2>3, <3>1
  <2> QED
    BY <1>2, <2>1, <2>2, <2>3 DEF IsEntered
<1> HIDE DEF cur
<1>6. SettlesTo(Advanced(progress, o.source, o.at), FirstAt(first_at, o.at), O, heap \cup {o},
                IF large THEN flagged \cup members ELSE flagged, past,
                IF large THEN past \cap members ELSE {}, cur, proofs)
  BY <1>1, SettleMeans
<1>7. /\ Flags(o) = IF large THEN flagged \cup members ELSE flagged
      /\ Due(o) = IF large THEN past \cap members ELSE {}
  BY <1>2 DEF Flags, Due
<1>8. SettlesTo(Advanced(progress, o.source, o.at), FirstAt(first_at, o.at), O, heap \cup {o},
                Flags(o), past, Due(o), cur, proofs)
  BY <1>6, <1>7
<1>9. SettlesAlso(Advanced(progress, o.source, o.at), FirstAt(first_at, o.at), O, heap \cup {o},
                  IF large THEN flagged \cup members ELSE flagged,
                  IF large THEN past \cap members ELSE {}, count, cur)
  BY <1>1, SettleAlso
<1>10. SettlesAlso(Advanced(progress, o.source, o.at), FirstAt(first_at, o.at), O, heap \cup {o},
                   Flags(o), Due(o), Count(o), cur)
  BY <1>2, <1>7, <1>9
<1> QED
  BY <1>5, <1>8, <1>10

LEMMA AddPrepares ==
  ASSUME Inv, NEW o \in Observations, o \notin seen, NEW cur, IsEntered(cur, o),
         NEW P, P = Advanced(progress, o.source, o.at), NEW F, F = FirstAt(first_at, o.at)
  PROVE  TimedInv(seen \cup {o}, open \cup {o}, heap \cup {o}, Flags(o), past, Due(o), cur,
                  proofs, P, F)
<1>1. /\ seen \subseteq Observations /\ open \subseteq seen /\ DOMAIN current = seen
      /\ QueueIsSound(open, heap, flagged, past, {})
      /\ ProofsShareOut(seen, open, current, proofs)
  BY InvMeans
<1>2. ClocksAreSane(seen \cup {o}, P, F)
  BY ClocksAfter
<1>3. QueueIsSound(open \cup {o}, heap \cup {o}, Flags(o), past, Due(o))
  <2>1. IsLarge(o) \in BOOLEAN /\ Members(o) = Walk(open \cup {o}, flagged, o) /\ o \notin open
    BY <1>1 DEF IsLarge, Touches, IsTooLarge, Members
  <2>2. QueueIsSound(open \cup {o}, heap \cup {o},
                     IF IsLarge(o) THEN flagged \cup Members(o) ELSE flagged, past,
                     IF IsLarge(o) THEN past \cap Members(o) ELSE {})
    BY <1>1, <2>1, AddKeepsQueue
  <2> QED
    BY <2>2 DEF Flags, Due
<1>4. Members(o) \subseteq open \cup {o} /\ o \in Members(o)
  <2>1. o \in (open \cup {o}) \ flagged
    BY <1>1 DEF QueueIsSound
  <2>2. o \in Members(o) /\ IsClosed((open \cup {o}) \ flagged, Members(o))
    BY <2>1, WalkFacts DEF Members
  <2> QED
    BY <2>2 DEF IsClosed
<1>5. /\ \A x \in seen \ Members(o) : cur[x] = current[x]
      /\ \A x \in (seen \cup {o}) \cap Members(o) : cur[x].status = PROVISIONAL
  BY DEF IsEntered
<1>6. ProofsShareOut(seen \cup {o}, open \cup {o}, cur, proofs)
  <2>1. /\ \A d \in proofs : d.observations \subseteq seen \ open
        /\ \A x \in seen \ open : IF ToldIn(current, x) THEN \A d \in proofs : x \notin d.observations
                                  ELSE HasOneOf(proofs, x, current[x].status)
        /\ \A x \in open : current[x].status = PROVISIONAL
    BY <1>1 DEF ProofsShareOut
  <2>2. \A x \in seen \ open : cur[x] = current[x]
    BY <1>4, <1>5
  <2>3. (seen \cup {o}) \ (open \cup {o}) = seen \ open
    BY <1>1
  <2>4. \A x \in seen \ open : IF ToldIn(cur, x) THEN \A d \in proofs : x \notin d.observations
                               ELSE HasOneOf(proofs, x, cur[x].status)
    BY <2>1, <2>2 DEF ToldIn
  <2>5. \A x \in open \cup {o} : cur[x].status = PROVISIONAL
    BY <1>1, <1>4, <1>5, <2>1
  <2> QED
    BY <2>1, <2>3, <2>4, <2>5 DEF ProofsShareOut
<1>7. seen \cup {o} \subseteq Observations /\ open \cup {o} \subseteq seen \cup {o}
  BY <1>1
<1> QED
  BY <1>2, <1>3, <1>6, <1>7 DEF TimedInv, IsEntered

LEMMA JoinsItsMembers ==
  ASSUME Inv, NEW o, o \notin seen
  PROVE  o \in Members(o) /\ IsClosed((open \cup {o}) \ flagged, Members(o))
<1>1. open \subseteq seen /\ QueueIsSound(open, heap, flagged, past, {})
  BY InvMeans
<1>2. o \in (open \cup {o}) \ flagged
  BY <1>1 DEF QueueIsSound
<1> QED
  BY <1>2, WalkFacts DEF Members

LEMMA AddKeeps ==
  ASSUME Inv, NEW o \in Observations, o \notin seen, seen' = seen \cup {o}, Add(o)
  PROVE  Inv' /\ NothingRipe'
<1>1. o \in Members(o) /\ DOMAIN current = seen
  BY JoinsItsMembers, InvMeans
<1> DEFINE P == Advanced(progress, o.source, o.at)
           F == FirstAt(first_at, o.at)
<1>2. PICK cur : /\ IsEntered(cur, o)
                 /\ SettlesTo(P, F, open \cup {o}, heap \cup {o}, Flags(o), past, Due(o), cur, proofs)
  BY <1>1, AddMeans
<1>3. F # NoTime
  BY ClocksAfter
<1>4. TimedInv(seen \cup {o}, open \cup {o}, heap \cup {o}, Flags(o), past, Due(o), cur, proofs, P, F)
  BY <1>2, AddPrepares
<1> HIDE DEF P, F
<1> QED
  BY <1>2, <1>3, <1>4, SettleKeeps

LEMMA AdvanceKeeps ==
  ASSUME Inv, NEW s \in Sources, NEW until \in Untils, Advance(s, until)
  PROVE  Inv' /\ NothingRipe'
<1> DEFINE P == Advanced(progress, s, until)
           F == FirstAt(first_at, until)
<1>1. until \in Nat
  BY SMT, TimedFlowAssumption
<1>2. seen \in SUBSET Observations /\ ClocksAreSane(seen, progress, first_at)
  BY InvMeans
<1>3. ClocksAreSane(seen, P, F) /\ F # NoTime
  BY <1>1, <1>2, ClocksAdvance
<1>4. SettlesTo(P, F, open, heap, flagged, past, {}, current, proofs)
  BY SettleMeans DEF Advance
<1>5. seen' = seen
  BY DEF Advance
<1> HIDE DEF P, F
<1>6. TimedInv(seen, open, heap, flagged, past, {}, current, proofs, P, F)
  BY <1>3 DEF Inv, TimedInv
<1> QED
  BY <1>3, <1>4, <1>5, <1>6, SettleKeeps

LEMMA InitInv == Init => Inv
<1> SUFFICES ASSUME Init
             PROVE  Inv
  OBVIOUS
<1>1. seen = {} /\ open = {} /\ heap = {} /\ flagged = {} /\ past = {} /\ proofs = {}
  BY DEF Init
<1>2. DOMAIN current = {}
  BY DEF Init
<1>3. progress = [s \in Sources |-> NoTime] /\ first_at = NoTime
  BY DEF Init
<1>4. ClocksAreSane(seen, progress, first_at)
  BY <1>1, <1>3 DEF ClocksAreSane, NoTime
<1>5. LaterIsQueued(open, heap, flagged)
  BY <1>1 DEF LaterIsQueued, IsClosed
<1>6. QueueIsSound(open, heap, flagged, past, {})
  BY <1>1, <1>5 DEF QueueIsSound
<1>7. ProofsShareOut(seen, open, current, proofs)
  BY <1>1 DEF ProofsShareOut
<1> QED
  BY <1>1, <1>2, <1>4, <1>6, <1>7 DEF Inv, TimedInv

(* A step keeps the invariant, and leaves nothing ripe unless it is told   *)
(* late or does nothing.                                                   *)
LEMMA NextInv ==
  ASSUME Inv, [Next]_vars
  PROVE  Inv' /\ (NothingRipe' \/ UNCHANGED vars \/ \E o \in seen' \ seen : Told(o)')
<1>1. CASE UNCHANGED vars
  BY <1>1 DEF vars, Inv
<1>2. ASSUME NEW o \in Observations, Seen(o)
      PROVE  Inv' /\ (NothingRipe' \/ \E x \in seen' \ seen : Told(x)')
  <2>1. o \notin seen /\ seen' = seen \cup {o} /\ (Tell(o) \/ Exclude(o) \/ Add(o))
    BY <1>2 DEF Seen
  <2>2. CASE Tell(o)
    <3>1. Inv' /\ Told(o)'
      BY <2>1, <2>2, TellKeeps
    <3>2. o \in seen' \ seen
      BY <2>1
    <3> QED
      BY <3>1, <3>2
  <2>3. CASE Exclude(o)
    BY <2>1, <2>3, ExcludeKeeps
  <2>4. CASE Add(o)
    BY <2>1, <2>4, AddKeeps
  <2> QED
    BY <2>1, <2>2, <2>3, <2>4
<1>3. ASSUME NEW s \in Sources, NEW until \in Untils, Advance(s, until)
      PROVE  Inv' /\ NothingRipe'
  BY <1>3, AdvanceKeeps
<1> QED
  BY <1>1, <1>2, <1>3 DEF Next

(* A component whose members were taken out of the queue one after the     *)
(* other is seen by one of them: after every entry that is not told late,  *)
(* nothing flagged and no component is past the horizon whole              *)
(* (TimedJoin.closing), also when a source that returns has made the       *)
(* watermark recede in between.                                            *)
THEOREM NothingRipeIsLeft == Spec => NothingRipeStays
<1>1. Init => Inv
  BY InitInv
<1>2. Inv /\ [Next]_vars => Inv'
  BY NextInv
<1>3. Inv /\ [Next]_vars => [(\A o \in seen' \ seen : ~ Told(o)') => NothingRipe']_vars
  BY NextInv
<1> QED
  BY <1>1, <1>2, <1>3, PTL DEF Spec, NothingRipeStays

(* Every observation has its say once: what is open is provisional and in  *)
(* no proof, what was told late has none, and everything else is in one    *)
(* proof, which has the finality of its verdict (_settle_timed).           *)
EveryoneHasOneProof == ProofsShareOut(seen, open, current, proofs)

(* No sequence of entries leaves an observation of a timed hop with two    *)
(* proofs, or with none once it is final.                                  *)
THEOREM OneProofEach == Spec => []EveryoneHasOneProof
<1>1. Init => Inv
  BY InitInv
<1>2. Inv /\ [Next]_vars => Inv'
  BY NextInv
<1>3. Inv => EveryoneHasOneProof
  BY InvMeans DEF EveryoneHasOneProof
<1> QED
  BY <1>1, <1>2, <1>3, PTL DEF Spec

-----------------------------------------------------------------------------
(* Sums over finite sets *)

(* Among the subsets of a finite set that are bad, one has no smaller one. *)
LEMMA SmallestBad ==
  ASSUME NEW D, IsFiniteSet(D), NEW Bad \in SUBSET SUBSET D, Bad # {}
  PROVE  \E s \in Bad : \A t \in SUBSET s : t # s => t \notin Bad
<1> DEFINE sizes == {Cardinality(s) : s \in Bad}
<1>1. \A s \in Bad : IsFiniteSet(s) /\ Cardinality(s) \in Nat
  BY FS_Subset, FS_CardinalityType
<1>2. sizes \in SUBSET Nat /\ sizes # {}
  BY <1>1
<1>3. PICK n \in sizes : \A m \in sizes : n <= m
  <2> HIDE DEF sizes
  <2> QED
    BY <1>2, Least
<1>4. PICK s \in Bad : n = Cardinality(s)
  BY <1>3
<1>5. ASSUME NEW t \in SUBSET s, t # s, t \in Bad
      PROVE  FALSE
  <2>1. IsFiniteSet(s) /\ IsFiniteSet(t)
    BY <1>1, <1>5
  <2>2. Cardinality(t) <= Cardinality(s) /\ (Cardinality(s) = Cardinality(t) => s = t)
    BY <2>1, FS_Subset
  <2>3. Cardinality(s) <= Cardinality(t)
    BY <1>3, <1>4, <1>5
  <2>4. Cardinality(s) \in Nat /\ Cardinality(t) \in Nat
    BY <1>1, <1>5
  <2> QED
    BY <1>5, <2>2, <2>3, <2>4
<1> QED
  BY <1>5

(* The element a fold takes first. *)
FirstOf(s) == CHOOSE x \in s : TRUE

(* The sums of w over the subsets of D, as MapThenSumSet folds them. *)
AreSums(g, w, D) ==
  g = [s \in SUBSET D |-> IF s = {} THEN 0 ELSE w[FirstOf(s)] + g[s \ {FirstOf(s)}]]

FoldsUp(g, w, D) ==
  \A s \in SUBSET D : g[s] = IF s = {} THEN 0 ELSE w[FirstOf(s)] + g[s \ {FirstOf(s)}]

TakesAny(g, w, D) == \A s \in SUBSET D : \A x \in s : g[s] = w[x] + g[s \ {x}]

LEMMA SumsStep ==
  ASSUME NEW g, NEW w, NEW D, AreSums(g, w, D)
  PROVE  DOMAIN g = SUBSET D /\ FoldsUp(g, w, D)
<1> DEFINE h == [s \in SUBSET D |-> IF s = {} THEN 0 ELSE w[FirstOf(s)] + g[s \ {FirstOf(s)}]]
<1>1. g = h
  BY DEF AreSums
<1>2. /\ DOMAIN h = SUBSET D
      /\ \A s \in SUBSET D : h[s] = IF s = {} THEN 0 ELSE w[FirstOf(s)] + g[s \ {FirstOf(s)}]
  OBVIOUS
<1> HIDE DEF h
<1> QED
  BY <1>1, <1>2 DEF FoldsUp

LEMMA FirstIsIn ==
  ASSUME NEW s, s # {}
  PROVE  FirstOf(s) \in s
BY DEF FirstOf

LEMMA SumsAreOne ==
  ASSUME NEW D, IsFiniteSet(D), NEW w, NEW g, AreSums(g, w, D), NEW h, AreSums(h, w, D)
  PROVE  g = h
<1>1. /\ DOMAIN g = SUBSET D /\ DOMAIN h = SUBSET D
      /\ \A s \in SUBSET D : g[s] = IF s = {} THEN 0 ELSE w[FirstOf(s)] + g[s \ {FirstOf(s)}]
      /\ \A s \in SUBSET D : h[s] = IF s = {} THEN 0 ELSE w[FirstOf(s)] + h[s \ {FirstOf(s)}]
  <2>1. DOMAIN g = SUBSET D /\ FoldsUp(g, w, D)
    BY SumsStep
  <2>2. DOMAIN h = SUBSET D /\ FoldsUp(h, w, D)
    BY SumsStep
  <2> QED
    BY <2>1, <2>2 DEF FoldsUp
<1> DEFINE Bad == {s \in SUBSET D : g[s] # h[s]}
<1>2. Bad = {}
  <2>1. SUFFICES ASSUME Bad # {}
                 PROVE  FALSE
    OBVIOUS
  <2>2. PICK s \in Bad : \A t \in SUBSET s : t # s => t \notin Bad
    <3>1. Bad \in SUBSET SUBSET D
      OBVIOUS
    <3> HIDE DEF Bad
    <3> QED
      BY <2>1, <3>1, SmallestBad
  <2>3. s # {}
    BY <1>1, <2>2
  <2>4. s \ {FirstOf(s)} \in SUBSET s /\ s \ {FirstOf(s)} # s
    BY <2>3, FirstIsIn
  <2>5. g[s \ {FirstOf(s)}] = h[s \ {FirstOf(s)}]
    BY <2>2, <2>4
  <2> QED
    BY <1>1, <2>2, <2>3, <2>5
<1>3. \A s \in SUBSET D : g[s] = h[s]
  BY <1>2
<1>4. g = [s \in DOMAIN g |-> g[s]] /\ h = [s \in DOMAIN h |-> h[s]]
  BY DEF AreSums
<1> QED
  BY <1>1, <1>3, <1>4

(* Sums up to a size. *)
SumsUpTo(g, w, D, n) ==
  /\ DOMAIN g = {s \in SUBSET D : Cardinality(s) <= n}
  /\ \A s \in DOMAIN g : /\ g[s] \in Nat
                         /\ g[s] = IF s = {} THEN 0 ELSE w[FirstOf(s)] + g[s \ {FirstOf(s)}]

LEMMA SumsGrow ==
  ASSUME NEW D, IsFiniteSet(D), NEW w \in [D -> Nat], NEW n \in Nat,
         NEW g, SumsUpTo(g, w, D, n)
  PROVE  \E h : SumsUpTo(h, w, D, n + 1)
<1> DEFINE small == {s \in SUBSET D : Cardinality(s) <= n}
           large == {s \in SUBSET D : Cardinality(s) <= n + 1}
           h == [s \in large |-> IF s = {} THEN 0 ELSE w[FirstOf(s)] + g[s \ {FirstOf(s)}]]
<1>1. DOMAIN g = small
  BY DEF SumsUpTo
<1>2. \A s \in small : /\ g[s] \in Nat
                       /\ g[s] = IF s = {} THEN 0 ELSE w[FirstOf(s)] + g[s \ {FirstOf(s)}]
  BY DEF SumsUpTo
<1>3. \A s \in SUBSET D : IsFiniteSet(s) /\ Cardinality(s) \in Nat
  BY FS_Subset, FS_CardinalityType
<1>4. ASSUME NEW s \in large, s # {}
      PROVE  /\ FirstOf(s) \in D /\ s \ {FirstOf(s)} \in small /\ s \ {FirstOf(s)} \in large
  <2>1. FirstOf(s) \in s
    BY <1>4, FirstIsIn
  <2>2. Cardinality(s \ {FirstOf(s)}) = Cardinality(s) - 1
    BY <1>3, <1>4, <2>1, FS_RemoveElement
  <2>3. Cardinality(s) \in Nat /\ Cardinality(s) <= n + 1 /\ s \in SUBSET D
    BY <1>3, <1>4
  <2>4. s \ {FirstOf(s)} \in SUBSET D /\ Cardinality(s \ {FirstOf(s)}) <= n
    BY <2>2, <2>3
  <2>5. Cardinality(s \ {FirstOf(s)}) <= n + 1
    BY <2>2, <2>3
  <2> QED
    BY <2>1, <2>3, <2>4, <2>5
<1>5. ASSUME NEW s \in small
      PROVE  s \in large
  BY <1>3, <1>5
<1>6. DOMAIN h = large
  OBVIOUS
<1>7. \A s \in large : h[s] = IF s = {} THEN 0 ELSE w[FirstOf(s)] + g[s \ {FirstOf(s)}]
  OBVIOUS
<1> HIDE DEF small, large, h
<1>8. \A s \in small : h[s] = g[s]
  BY <1>2, <1>5, <1>7
<1>9. ASSUME NEW s \in large
      PROVE  /\ h[s] \in Nat
             /\ h[s] = IF s = {} THEN 0 ELSE w[FirstOf(s)] + h[s \ {FirstOf(s)}]
  <2>0. h[s] = IF s = {} THEN 0 ELSE w[FirstOf(s)] + g[s \ {FirstOf(s)}]
    BY <1>7
  <2>1. CASE s = {}
    BY <2>0, <2>1
  <2>2. CASE s # {}
    <3>1. FirstOf(s) \in D /\ s \ {FirstOf(s)} \in small
      BY <1>4, <1>9, <2>2
    <3>2. h[s \ {FirstOf(s)}] = g[s \ {FirstOf(s)}] /\ g[s \ {FirstOf(s)}] \in Nat
      BY <1>2, <1>8, <3>1
    <3>3. w[FirstOf(s)] \in Nat
      BY <3>1
    <3>4. h[s] = w[FirstOf(s)] + h[s \ {FirstOf(s)}]
      BY <2>0, <2>2, <3>2
    <3>5. h[s] \in Nat
      BY <3>2, <3>3, <3>4
    <3> QED
      BY <2>2, <3>4, <3>5
  <2> QED
    BY <2>1, <2>2
<1>10. SumsUpTo(h, w, D, n + 1)
  BY <1>6, <1>9 DEF SumsUpTo, large
<1> QED
  BY <1>10

LEMMA SumsExist ==
  ASSUME NEW D, IsFiniteSet(D), NEW w \in [D -> Nat]
  PROVE  \E g \in [SUBSET D -> Nat] : AreSums(g, w, D)
<1> DEFINE Bad == {n \in Nat : ~ \E g : SumsUpTo(g, w, D, n)}
<1>1. \A s \in SUBSET D : IsFiniteSet(s) /\ Cardinality(s) \in Nat
  BY FS_Subset, FS_CardinalityType
<1>2. 0 \notin Bad
  <2> DEFINE g == [s \in {s \in SUBSET D : Cardinality(s) <= 0} |-> 0]
  <2>1. \A s \in SUBSET D : Cardinality(s) <= 0 => s = {}
    BY <1>1, FS_EmptySet
  <2>2. SumsUpTo(g, w, D, 0)
    BY <2>1 DEF SumsUpTo
  <2> QED
    BY <2>2
<1>3. \A n \in Nat : n \notin Bad => n + 1 \notin Bad
  BY SumsGrow
<1>4. Bad = {}
  <2>1. SUFFICES ASSUME Bad # {}
                 PROVE  FALSE
    OBVIOUS
  <2>2. Bad \in SUBSET Nat
    OBVIOUS
  <2> HIDE DEF Bad
  <2>3. PICK n \in Bad : \A m \in Bad : n <= m
    BY <2>1, <2>2, Least
  <2>4. n \in Nat /\ n # 0
    BY <1>2, <2>2, <2>3
  <2>5. n - 1 \in Nat /\ n - 1 \notin Bad
    BY <2>2, <2>3, <2>4
  <2>6. (n - 1) + 1 \notin Bad
    BY <1>3, <2>5
  <2> QED
    BY <2>3, <2>4, <2>6
<1>5. Cardinality(D) \in Nat
  BY FS_CardinalityType
<1>6. PICK g : SumsUpTo(g, w, D, Cardinality(D))
  BY <1>4, <1>5
<1>7. {s \in SUBSET D : Cardinality(s) <= Cardinality(D)} = SUBSET D
  BY FS_Subset
<1>8. DOMAIN g = SUBSET D
  BY <1>6, <1>7 DEF SumsUpTo
<1>9. \A s \in SUBSET D : /\ g[s] \in Nat
                          /\ g[s] = IF s = {} THEN 0 ELSE w[FirstOf(s)] + g[s \ {FirstOf(s)}]
  BY <1>6, <1>8 DEF SumsUpTo
<1> DEFINE h == [s \in SUBSET D |-> g[s]]
<1>10. h \in [SUBSET D -> Nat]
  BY <1>9
<1>11. \A s \in SUBSET D : h[s] = IF s = {} THEN 0 ELSE w[FirstOf(s)] + h[s \ {FirstOf(s)}]
  <2>1. ASSUME NEW s \in SUBSET D
        PROVE  h[s] = IF s = {} THEN 0 ELSE w[FirstOf(s)] + h[s \ {FirstOf(s)}]
    <3>1. s \ {FirstOf(s)} \in SUBSET D
      OBVIOUS
    <3>2. h[s] = g[s] /\ h[s \ {FirstOf(s)}] = g[s \ {FirstOf(s)}]
      BY <3>1
    <3> HIDE DEF h
    <3> QED
      BY <1>9, <3>2
  <2> QED
    BY <2>1
<1> HIDE DEF h
<1>12. AreSums(h, w, D)
  BY <1>10, <1>11 DEF AreSums
<1> QED
  BY <1>10, <1>12

(* Any element may be taken first. *)
LEMMA SumsTakeAny ==
  ASSUME NEW D, IsFiniteSet(D), NEW w \in [D -> Nat], NEW g \in [SUBSET D -> Nat],
         AreSums(g, w, D)
  PROVE  TakesAny(g, w, D)
<1>0. FoldsUp(g, w, D)
  BY SumsStep
<1>1. \A s \in SUBSET D : g[s] = IF s = {} THEN 0 ELSE w[FirstOf(s)] + g[s \ {FirstOf(s)}]
  BY <1>0 DEF FoldsUp
<1> DEFINE Bad == {s \in SUBSET D : \E x \in s : g[s] # w[x] + g[s \ {x}]}
<1>2. SUFFICES ASSUME Bad # {}
               PROVE  FALSE
  BY DEF TakesAny
<1>3. Bad \in SUBSET SUBSET D
  OBVIOUS
<1>4. PICK s \in Bad : \A t \in SUBSET s : t # s => t \notin Bad
  <2> HIDE DEF Bad
  <2> QED
    BY <1>2, <1>3, SmallestBad
<1>5. PICK x \in s : g[s] # w[x] + g[s \ {x}]
  BY <1>4
<1> DEFINE c == FirstOf(s)
           rest == s \ {c, x}
<1>6. c \in s /\ g[s] = w[c] + g[s \ {c}] /\ s \in SUBSET D
  BY <1>1, <1>3, <1>4, <1>5, FirstIsIn
<1> HIDE DEF c
<1>7. c # x
  BY <1>5, <1>6
<1>8. ASSUME NEW a \in s, NEW b \in s, a # b
      PROVE  g[s \ {a}] = w[b] + g[s \ {a, b}]
  <2>1. s \ {a} \in SUBSET s /\ s \ {a} # s /\ b \in s \ {a} /\ s \ {a} \in SUBSET D
    BY <1>6, <1>8
  <2>2. s \ {a} \notin Bad
    BY <1>4, <2>1
  <2>3. g[s \ {a}] = w[b] + g[(s \ {a}) \ {b}]
    BY <2>1, <2>2
  <2>4. (s \ {a}) \ {b} = s \ {a, b}
    OBVIOUS
  <2> QED
    BY <2>3, <2>4
<1>9. g[s \ {c}] = w[x] + g[rest]
  BY <1>5, <1>6, <1>7, <1>8
<1>10. g[s \ {x}] = w[c] + g[rest]
  <2>1. rest = s \ {x, c}
    OBVIOUS
  <2> QED
    BY <1>5, <1>6, <1>7, <1>8, <2>1
<1>11. rest \in SUBSET D /\ x \in D /\ c \in D
  BY <1>5, <1>6
<1>12. g[rest] \in Nat /\ w[x] \in Nat /\ w[c] \in Nat
  BY <1>11
<1> HIDE DEF rest, Bad
<1> QED
  BY <1>5, <1>6, <1>9, <1>10, <1>12

(* The sum over two sets that are apart. *)
AddsUp(g, D) == \A M, N \in SUBSET D : M \cap N = {} => g[M \cup N] = g[M] + g[N]

LEMMA SumOfBoth ==
  ASSUME NEW D, IsFiniteSet(D), NEW w \in [D -> Nat], NEW g \in [SUBSET D -> Nat],
         AreSums(g, w, D)
  PROVE  AddsUp(g, D)
<1> SUFFICES ASSUME NEW M \in SUBSET D, NEW N \in SUBSET D, M \cap N = {}
             PROVE  g[M \cup N] = g[M] + g[N]
  BY DEF AddsUp
<1>0. TakesAny(g, w, D) /\ FoldsUp(g, w, D)
  BY SumsTakeAny, SumsStep
<1>1. \A s \in SUBSET D : \A x \in s : g[s] = w[x] + g[s \ {x}]
  BY <1>0 DEF TakesAny
<1>2. g[{}] = 0
  BY <1>0 DEF FoldsUp
<1> DEFINE Bad == {s \in SUBSET N : g[M \cup s] # g[M] + g[s]}
<1>3. SUFFICES ASSUME Bad # {}
               PROVE  FALSE
  OBVIOUS
<1>4. Bad \in SUBSET SUBSET N /\ IsFiniteSet(N)
  BY FS_Subset
<1>5. PICK s \in Bad : \A t \in SUBSET s : t # s => t \notin Bad
  <2> HIDE DEF Bad
  <2> QED
    BY <1>3, <1>4, SmallestBad
<1>6. s \in SUBSET N /\ g[M \cup s] # g[M] + g[s]
  BY <1>5
<1>7. s # {}
  <2>1. SUFFICES ASSUME s = {}
                 PROVE  FALSE
    OBVIOUS
  <2>2. M \cup s = M /\ g[M] \in Nat
    BY <2>1
  <2>3. g[M \cup s] = g[M] /\ g[s] = 0
    BY <1>2, <2>1, <2>2
  <2> HIDE DEF Bad
  <2> QED
    BY <1>6, <2>2, <2>3
<1>8. PICK x \in s : TRUE
  BY <1>7
<1>9. g[M \cup (s \ {x})] = g[M] + g[s \ {x}]
  BY <1>5, <1>6, <1>8
<1>10. g[s] = w[x] + g[s \ {x}]
  BY <1>1, <1>6, <1>8
<1>11. g[M \cup s] = w[x] + g[M \cup (s \ {x})]
  <2>1. (M \cup s) \ {x} = M \cup (s \ {x})
    BY <1>6, <1>8
  <2>2. M \cup s \in SUBSET D /\ x \in M \cup s
    BY <1>6, <1>8
  <2>3. g[M \cup s] = w[x] + g[(M \cup s) \ {x}]
    BY <1>1, <2>2
  <2> QED
    BY <2>1, <2>3
<1>12. g[M] \in Nat /\ g[s \ {x}] \in Nat /\ w[x] \in Nat
  <2>1. s \ {x} \in SUBSET D /\ x \in D
    BY <1>6, <1>8
  <2> QED
    BY <2>1
<1> HIDE DEF Bad
<1> QED
  BY <1>6, <1>9, <1>10, <1>11, <1>12

LEMMA TotalMeans ==
  ASSUME NEW graph, NEW M
  PROVE  Total(graph, M) = (CHOOSE g : AreSums(g, graph, M))[M]
BY DEF Total, MapThenSumSet, MapThenFoldSet, AreSums, FirstOf

(* The total of a set of edges is its sum, in any graph with the same      *)
(* weights on it.                                                          *)
LEMMA TotalIsSum ==
  ASSUME NEW D, IsFiniteSet(D), NEW w, NEW g, AreSums(g, w, D),
         NEW M \in SUBSET D, NEW graph, \A e \in M : graph[e] = w[e]
  PROVE  Total(graph, M) = g[M]
<1> DEFINE r == [s \in SUBSET M |-> g[s]]
<1>0. FoldsUp(g, w, D)
  BY SumsStep
<1>1. \A s \in SUBSET D : g[s] = IF s = {} THEN 0 ELSE w[FirstOf(s)] + g[s \ {FirstOf(s)}]
  BY <1>0 DEF FoldsUp
<1>2. \A s \in SUBSET M : r[s] = IF s = {} THEN 0 ELSE graph[FirstOf(s)] + r[s \ {FirstOf(s)}]
  <2>1. ASSUME NEW s \in SUBSET M
        PROVE  r[s] = IF s = {} THEN 0 ELSE graph[FirstOf(s)] + r[s \ {FirstOf(s)}]
    <3>1. s \ {FirstOf(s)} \in SUBSET M /\ s \in SUBSET D
      OBVIOUS
    <3>2. r[s] = g[s] /\ r[s \ {FirstOf(s)}] = g[s \ {FirstOf(s)}]
      BY <3>1
    <3>3. s # {} => graph[FirstOf(s)] = w[FirstOf(s)]
      BY FirstIsIn
    <3> HIDE DEF r
    <3> QED
      BY <1>1, <3>1, <3>2, <3>3
  <2> QED
    BY <2>1
<1>3. r = [s \in SUBSET M |-> r[s]] /\ r[M] = g[M]
  OBVIOUS
<1> HIDE DEF r
<1>4. AreSums(r, graph, M)
  BY <1>2, <1>3 DEF AreSums
<1>5. AreSums(CHOOSE h : AreSums(h, graph, M), graph, M)
  BY <1>4
<1>6. IsFiniteSet(M)
  BY FS_Subset
<1>7. (CHOOSE h : AreSums(h, graph, M)) = r
  <2> DEFINE h == CHOOSE h : AreSums(h, graph, M)
  <2> HIDE DEF h
  <2>1. AreSums(h, graph, M)
    BY <1>5 DEF h
  <2>2. h = r
    BY <1>4, <1>6, <2>1, SumsAreOne
  <2> QED
    BY <2>2 DEF h
<1> QED
  BY <1>3, <1>7, TotalMeans

-----------------------------------------------------------------------------
(* Matchings *)

LEMMA MaxFacts ==
  ASSUME NEW T \in SUBSET Nat, T # {}, NEW n \in Nat, \A t \in T : t <= n
  PROVE  Max(T) \in T /\ \A t \in T : t <= Max(T)
<1> DEFINE U == {n - t : t \in T}
<1>0. \A t \in T : n - t \in Nat
  OBVIOUS
<1>1. U \in SUBSET Nat /\ U # {}
  BY <1>0
<1>2. PICK u \in U : \A v \in U : u <= v
  <2> HIDE DEF U
  <2> QED
    BY <1>1, Least
<1>3. PICK t \in T : u = n - t
  BY <1>2
<1>4. ASSUME NEW s \in T
      PROVE  t >= s
  <2>1. n - t <= n - s
    BY <1>2, <1>3, <1>4
  <2>2. t \in Nat /\ s \in Nat
    OBVIOUS
  <2> QED
    BY <2>1, <2>2
<1>5. Max(T) \in T /\ \A s \in T : Max(T) >= s
  BY <1>4 DEF Max
<1>6. ASSUME NEW s \in T
      PROVE  s <= Max(T)
  <2>1. Max(T) >= s /\ Max(T) \in Nat /\ s \in Nat
    BY <1>5
  <2> QED
    BY <2>1
<1> QED
  BY <1>5, <1>6

(* The graph H is a part of G, with the same weights, that no edge leaves. *)
IsPartOf(H, G) ==
  /\ DOMAIN H \subseteq DOMAIN G
  /\ \A e \in DOMAIN H : H[e] = G[e]
  /\ \A e \in DOMAIN H, f \in DOMAIN G \ DOMAIN H : Ends(e) \cap Ends(f) = {}

(* The best total of a graph, with a matching that has it. *)
IsBest(graph, best, A) ==
  /\ A \in Matchings(graph) /\ best = Total(graph, A)
  /\ \A M \in Matchings(graph) : Total(graph, M) <= best

HasBest(graph, margin) ==
  \E best \in Nat, A \in Matchings(graph) :
    /\ IsBest(graph, best, A)
    /\ NearOptimal(graph, margin) = {M \in Matchings(graph) : Total(graph, M) >= best - margin}

LEMMA BestFacts ==
  ASSUME NEW D, IsFiniteSet(D), NEW w \in [D -> Nat], NEW g \in [SUBSET D -> Nat],
         AreSums(g, w, D), NEW graph, DOMAIN graph \subseteq D,
         \A e \in DOMAIN graph : graph[e] = w[e], NEW margin
  PROVE  HasBest(graph, margin)
<1> DEFINE all == Matchings(graph)
           totals == {Total(graph, M) : M \in all}
<1>1. \A M \in all : M \in SUBSET DOMAIN graph
  BY DEF Matchings
<1>2. {} \in all
  BY DEF Matchings
<1>3. ASSUME NEW M \in all
      PROVE  Total(graph, M) = g[M] /\ g[M] \in Nat /\ g[M] <= g[D]
  <2>1. M \in SUBSET D /\ \A e \in M : graph[e] = w[e]
    BY <1>1
  <2>2. Total(graph, M) = g[M]
    BY <2>1, TotalIsSum
  <2>3. PICK N \in SUBSET D : M \cap N = {} /\ M \cup N = D
    <3>1. D \ M \in SUBSET D /\ M \cap (D \ M) = {} /\ M \cup (D \ M) = D
      BY <2>1
    <3> QED
      BY <3>1
  <2>4. g[M \cup N] = g[M] + g[N]
    BY <2>1, <2>3, SumOfBoth DEF AddsUp
  <2>5. g[M] \in Nat /\ g[N] \in Nat /\ g[D] = g[M] + g[N]
    BY <2>1, <2>3, <2>4
  <2>6. g[M] <= g[D]
    BY <2>5
  <2> QED
    BY <2>2, <2>5, <2>6
<1>4. totals \in SUBSET Nat /\ totals # {} /\ \A t \in totals : t <= g[D]
  BY <1>2, <1>3
<1>5. g[D] \in Nat
  OBVIOUS
<1>6. NearOptimal(graph, margin) = {M \in all : Total(graph, M) >= Max(totals) - margin}
  BY DEF NearOptimal
<1>7. Max(totals) \in totals /\ \A t \in totals : t <= Max(totals)
  <2> HIDE DEF totals
  <2> QED
    BY <1>4, <1>5, MaxFacts
<1>8. PICK A \in all : Max(totals) = Total(graph, A)
  BY <1>7
<1>9. \A M \in all : Total(graph, M) <= Max(totals)
  BY <1>7
<1>10. Max(totals) \in Nat
  BY <1>4, <1>7
<1> HIDE DEF totals
<1>11. IsBest(graph, Max(totals), A)
  BY <1>8, <1>9 DEF IsBest
<1> QED
  BY <1>6, <1>10, <1>11 DEF HasBest

LEMMA MatchingsSplit ==
  ASSUME NEW G, NEW H, IsPartOf(H, G), NEW M, NEW N
  PROVE  /\ M \in Matchings(G) => M \cap DOMAIN H \in Matchings(H) /\ M \in SUBSET DOMAIN G
         /\ M \in Matchings(H) => M \in SUBSET DOMAIN H
         /\ M \in Matchings(H) /\ N \in Matchings(G) => M \cup (N \ DOMAIN H) \in Matchings(G)
<1>1. M \in Matchings(G) => M \cap DOMAIN H \in Matchings(H) /\ M \in SUBSET DOMAIN G
  BY DEF Matchings
<1>2. M \in Matchings(H) => M \in SUBSET DOMAIN H
  BY DEF Matchings
<1>3. ASSUME M \in Matchings(H), N \in Matchings(G)
      PROVE  M \cup (N \ DOMAIN H) \in Matchings(G)
  <2> DEFINE K == M \cup (N \ DOMAIN H)
  <2>1. M \subseteq DOMAIN H /\ N \subseteq DOMAIN G /\ DOMAIN H \subseteq DOMAIN G
    BY <1>3 DEF Matchings, IsPartOf
  <2>2. \A e, f \in M : e # f => Ends(e) \cap Ends(f) = {}
    BY <1>3 DEF Matchings
  <2>3. \A e, f \in N : e # f => Ends(e) \cap Ends(f) = {}
    BY <1>3 DEF Matchings
  <2>4. \A e \in M, f \in N \ DOMAIN H : Ends(e) \cap Ends(f) = {} /\ Ends(f) \cap Ends(e) = {}
    BY <2>1 DEF IsPartOf
  <2>5. \A e, f \in K : e # f => Ends(e) \cap Ends(f) = {}
    BY <2>2, <2>3, <2>4
  <2>6. K \in SUBSET DOMAIN G
    BY <2>1
  <2> HIDE DEF K
  <2>7. K \in Matchings(G)
    BY <2>5, <2>6 DEF Matchings
  <2> QED
    BY <2>7 DEF K
<1> QED
  BY <1>1, <1>2, <1>3

(* What the near-optimal matchings say of a record is said by those of the *)
(* part it is in: the rest of the graph has the same best in both.         *)
LEMMA NearIsLocal ==
  ASSUME NEW G, IsFiniteSet(DOMAIN G), G \in [DOMAIN G -> Nat], NEW H, IsPartOf(H, G),
         NEW margin \in Nat, NEW x, \A f \in DOMAIN G \ DOMAIN H : x \notin Ends(f)
  PROVE  {PartnersIn(M, x) : M \in NearOptimal(G, margin)}
           = {PartnersIn(M, x) : M \in NearOptimal(H, margin)}
<1> DEFINE D == DOMAIN G
           E == DOMAIN H
           nearG == NearOptimal(G, margin)
           nearH == NearOptimal(H, margin)
<1>0. E \subseteq D /\ \A e \in E : H[e] = G[e]
  BY DEF IsPartOf
<1>1. PICK g \in [SUBSET D -> Nat] : AreSums(g, G, D)
  BY SumsExist
<1>2. PICK m \in Nat, B \in Matchings(G) :
        /\ IsBest(G, m, B)
        /\ nearG = {M \in Matchings(G) : Total(G, M) >= m - margin}
  <2>1. HasBest(G, margin)
    BY <1>1, BestFacts
  <2> QED
    BY <2>1 DEF HasBest
<1>3. PICK n \in Nat, A \in Matchings(H) :
        /\ IsBest(H, n, A)
        /\ nearH = {M \in Matchings(H) : Total(H, M) >= n - margin}
  <2>1. HasBest(H, margin)
    BY <1>0, <1>1, BestFacts
  <2> QED
    BY <2>1 DEF HasBest
<1>4. ASSUME NEW M \in Matchings(G)
      PROVE  M \in SUBSET D /\ M \cap E \in Matchings(H)
  BY <1>4, MatchingsSplit
<1>5. ASSUME NEW M \in Matchings(H)
      PROVE  M \in SUBSET E
  BY <1>5, MatchingsSplit
<1>6. ASSUME NEW M \in Matchings(H), NEW N \in Matchings(G)
      PROVE  M \cup (N \ E) \in Matchings(G)
  BY <1>6, MatchingsSplit
<1>7. ASSUME NEW M \in SUBSET D
      PROVE  Total(G, M) = g[M] /\ g[M] \in Nat
  <2>1. \A e \in M : G[e] = G[e]
    OBVIOUS
  <2>2. Total(G, M) = g[M]
    BY <1>1, <1>7, <2>1, TotalIsSum
  <2> QED
    BY <1>7, <2>2
<1>8. ASSUME NEW M \in SUBSET E
      PROVE  Total(H, M) = g[M] /\ g[M] \in Nat
  <2>1. M \in SUBSET D /\ \A e \in M : H[e] = G[e]
    BY <1>0, <1>8
  <2>2. Total(H, M) = g[M]
    BY <1>1, <2>1, TotalIsSum
  <2> QED
    BY <2>1, <2>2
<1>9. ASSUME NEW M \in SUBSET E, NEW N \in SUBSET D
      PROVE  /\ g[M \cup (N \ E)] = g[M] + g[N \ E]
             /\ g[N] = g[N \cap E] + g[N \ E]
             /\ g[M] \in Nat /\ g[N \ E] \in Nat /\ g[N \cap E] \in Nat
  <2> DEFINE R == N \ E
             P == N \cap E
  <2>1. M \in SUBSET D /\ R \in SUBSET D /\ P \in SUBSET D /\ M \cap R = {} /\ P \cap R = {}
    BY <1>0, <1>9
  <2>2. P \cup R = N
    OBVIOUS
  <2>0. AddsUp(g, D)
    BY <1>1, SumOfBoth
  <2> HIDE DEF R, P, D, E
  <2>3. g[M \cup R] = g[M] + g[R] /\ g[P \cup R] = g[P] + g[R]
    BY <2>0, <2>1 DEF AddsUp
  <2>4. g[M] \in Nat /\ g[R] \in Nat /\ g[P] \in Nat
    BY <2>1
  <2> QED
    BY <2>2, <2>3, <2>4 DEF R, P
<1> HIDE DEF D, E, nearG, nearH
<1>10. /\ B \in Matchings(G) /\ m = g[B] /\ \A M \in Matchings(G) : g[M] <= m
       /\ A \in Matchings(H) /\ n = g[A] /\ \A M \in Matchings(H) : g[M] <= n
  <2>1. B \in Matchings(G) /\ m = Total(G, B) /\ \A M \in Matchings(G) : Total(G, M) <= m
    BY <1>2 DEF IsBest
  <2>2. A \in Matchings(H) /\ n = Total(H, A) /\ \A M \in Matchings(H) : Total(H, M) <= n
    BY <1>3 DEF IsBest
  <2>3. \A M \in Matchings(G) : Total(G, M) = g[M]
    BY <1>4, <1>7
  <2>4. \A M \in Matchings(H) : Total(H, M) = g[M]
    BY <1>5, <1>8
  <2> QED
    BY <2>1, <2>2, <2>3, <2>4
<1>11. /\ \A M : M \in nearG <=> M \in Matchings(G) /\ g[M] >= m - margin
       /\ \A M : M \in nearH <=> M \in Matchings(H) /\ g[M] >= n - margin
  BY <1>2, <1>3, <1>4, <1>5, <1>7, <1>8
<1>12. m = n + g[B \ E] /\ g[B \ E] \in Nat
  <2>1. A \cup (B \ E) \in Matchings(G) /\ A \in SUBSET E /\ B \in SUBSET D
    BY <1>4, <1>5, <1>6, <1>10
  <2>2. g[A \cup (B \ E)] = g[A] + g[B \ E] /\ g[B] = g[B \cap E] + g[B \ E]
    BY <1>9, <2>1
  <2>3. g[A] \in Nat /\ g[B \ E] \in Nat /\ g[B \cap E] \in Nat
    BY <1>9, <2>1
  <2>4. g[A \cup (B \ E)] <= m /\ g[B \cap E] <= n
    BY <1>4, <1>10, <2>1
  <2> QED
    BY <1>10, <2>2, <2>3, <2>4
<1>13. ASSUME NEW M \in nearG
       PROVE  M \cap E \in nearH
  <2>1. M \in Matchings(G) /\ g[M] >= m - margin /\ M \in SUBSET D
    BY <1>4, <1>11
  <2>2. A \cup (M \ E) \in Matchings(G) /\ A \in SUBSET E
    BY <1>5, <1>6, <1>10, <2>1
  <2>3. /\ g[A \cup (M \ E)] = g[A] + g[M \ E] /\ g[M] = g[M \cap E] + g[M \ E]
        /\ g[A] \in Nat /\ g[M \ E] \in Nat /\ g[M \cap E] \in Nat
    BY <1>9, <2>1, <2>2
  <2>4. g[A \cup (M \ E)] <= m
    BY <1>10, <2>2
  <2>5. g[M \ E] <= g[B \ E]
    BY <1>10, <1>12, <2>3, <2>4
  <2>6. g[M \cap E] >= n - margin
    BY <1>12, <2>1, <2>3, <2>5
  <2> QED
    BY <1>4, <1>11, <2>1, <2>6
<1>14. ASSUME NEW M \in nearH
       PROVE  M \cup (B \ E) \in nearG
  <2>1. M \in Matchings(H) /\ g[M] >= n - margin /\ M \in SUBSET E
    BY <1>5, <1>11
  <2>2. M \cup (B \ E) \in Matchings(G) /\ B \in SUBSET D
    BY <1>4, <1>6, <1>10, <2>1
  <2>3. g[M \cup (B \ E)] = g[M] + g[B \ E] /\ g[M] \in Nat
    BY <1>9, <2>1, <2>2
  <2>4. g[M \cup (B \ E)] >= m - margin
    BY <1>12, <2>1, <2>3
  <2> QED
    BY <1>11, <2>2, <2>4
<1>15. ASSUME NEW M \in SUBSET D, NEW N, \A e \in E : e \in M <=> e \in N, N \in SUBSET D
       PROVE  PartnersIn(M, x) = PartnersIn(N, x)
  <2>1. \A e \in D : x \in Ends(e) => e \in E
    BY DEF D, E
  <2>2. {e \in M : x \in Ends(e)} = {e \in N : x \in Ends(e)}
    BY <1>15, <2>1
  <2> QED
    BY <2>2 DEF PartnersIn
<1>16. ASSUME NEW M \in nearG
       PROVE  \E N \in nearH : PartnersIn(M, x) = PartnersIn(N, x)
  <2>1. M \in SUBSET D /\ M \cap E \in SUBSET D
    BY <1>4, <1>11
  <2>2. PartnersIn(M, x) = PartnersIn(M \cap E, x)
    BY <1>15, <2>1
  <2> QED
    BY <1>13, <2>2
<1>17. ASSUME NEW N \in nearH
       PROVE  \E M \in nearG : PartnersIn(M, x) = PartnersIn(N, x)
  <2>1. N \in SUBSET E /\ B \in SUBSET D
    BY <1>4, <1>5, <1>10, <1>11
  <2>2. N \in SUBSET D /\ N \cup (B \ E) \in SUBSET D
    BY <1>0, <2>1 DEF D, E
  <2>3. \A e \in E : e \in N \cup (B \ E) <=> e \in N
    OBVIOUS
  <2>4. PartnersIn(N \cup (B \ E), x) = PartnersIn(N, x)
    BY <1>15, <2>2, <2>3
  <2> QED
    BY <1>14, <2>4
<1> DEFINE fromG == {PartnersIn(M, x) : M \in nearG}
           fromH == {PartnersIn(M, x) : M \in nearH}
<1>18. fromG = fromH
  BY <1>16, <1>17
<1> QED
  BY <1>18 DEF nearG, nearH

-----------------------------------------------------------------------------
(* The verdicts on a component *)

LEMMA SignalFacts ==
  /\ IsFiniteSet(Given)
  /\ \A s \in Given : /\ s.name \in {START, END, DURATION}
                      /\ s.offset \in Int /\ s.window \in Nat
<1>1. /\ DOMAIN Signals = 1 .. Len(Signals) /\ Len(Signals) \in 1 .. 2
      /\ \A s \in Given : /\ s.name \in {START, END, DURATION}
                          /\ s.offset \in Int /\ s.window \in Nat \ {0}
  BY SMT, TimedFlowAssumption DEF JoinIsChecked, ParamsAreValid
<1>2. Given = {Signals[i] : i \in DOMAIN Signals}
  BY DEF Given, Range
<1>3. Given \subseteq {Signals[1], Signals[2]}
  <2>1. DOMAIN Signals \subseteq {1, 2}
    BY <1>1
  <2> QED
    BY <1>2, <2>1
<1>4. IsFiniteSet({Signals[1], Signals[2]})
  <2>1. IsFiniteSet({Signals[1]})
    BY FS_Singleton
  <2>2. IsFiniteSet({Signals[1]} \cup {Signals[2]})
    BY <2>1, FS_AddElement
  <2>3. {Signals[1], Signals[2]} = {Signals[1]} \cup {Signals[2]}
    OBVIOUS
  <2> QED
    BY <2>2, <2>3
<1>5. IsFiniteSet(Given)
  BY <1>3, <1>4, FS_Subset
<1> QED
  BY <1>1, <1>5

LEMMA TimesAreInt ==
  ASSUME NEW o \in Observations
  PROVE  o.start \in Int /\ o.at \in Nat /\ o.start <= o.at
<1>1. o.at \in Nat /\ (o.start = NoStart \/ o.start \in 0 .. o.at)
  BY SMT, TimedFlowAssumption
<1> QED
  BY <1>1 DEF NoStart

LEMMA DistanceIsInt ==
  ASSUME NEW a \in Observations, NEW b \in Observations, NEW s \in Given
  PROVE  Distance(s, a, b) \in Int
<1>1. a.start \in Int /\ a.at \in Int /\ b.start \in Int /\ b.at \in Int
  BY TimesAreInt
<1>2. s.name \in {START, END, DURATION} /\ s.offset \in Int
  BY SignalFacts
<1>3. START # END /\ START # DURATION /\ END # DURATION
  BY DEF START, END, DURATION
<1>4. Gap(s.name, a, b) \in Int
  <2>1. CASE s.name = START
    <3>1. Gap(s.name, a, b) = b.start - a.start
      BY <1>3, <2>1 DEF Gap
    <3> QED
      BY <1>1, <3>1
  <2>2. CASE s.name = END
    <3>1. Gap(s.name, a, b) = a.at - b.at
      BY <1>3, <2>2 DEF Gap
    <3> QED
      BY <1>1, <3>1
  <2>3. CASE s.name = DURATION
    <3>1. Gap(s.name, a, b) = (a.at - a.start) - (b.at - b.start)
      BY <1>3, <2>3 DEF Gap, Duration
    <3> QED
      BY <1>1, <3>1
  <2> QED
    BY <1>2, <2>1, <2>2, <2>3
<1> QED
  BY <1>2, <1>4 DEF Distance, Abs

(* The weight of a candidate pair is a natural number. *)
LEMMA WeightIsNat ==
  ASSUME NEW a \in Observations, NEW b \in Observations, IsCandidate(a, b)
  PROVE  Weight(a, b) \in Nat
<1> DEFINE w == [s \in Given |-> s.window - Distance(s, a, b)]
           Fits(g) == g = [t \in SUBSET Given |->
                             IF t = {} THEN 0
                             ELSE (FirstOf(t).window - Distance(FirstOf(t), a, b))
                                    + g[t \ {FirstOf(t)}]]
<1>1. ASSUME NEW s \in Given
      PROVE  s.window - Distance(s, a, b) \in Nat
  <2>1. s.window \in Nat /\ Distance(s, a, b) \in Int
    BY SignalFacts, DistanceIsInt
  <2>2. Distance(s, a, b) <= s.window
    BY DEF IsCandidate
  <2> QED
    BY <2>1, <2>2
<1>2. w \in [Given -> Nat]
  BY <1>1
<1>3. \A s \in Given : w[s] = s.window - Distance(s, a, b)
  OBVIOUS
<1>4. Weight(a, b) = 1 + (CHOOSE g : Fits(g))[Given]
  BY DEF Weight, MapThenSumSet, MapThenFoldSet, FirstOf
<1> HIDE DEF w
<1>5. PICK r \in [SUBSET Given -> Nat] : AreSums(r, w, Given)
  BY <1>2, SignalFacts, SumsExist
<1>6. ASSUME NEW t \in SUBSET Given, t # {}
      PROVE  w[FirstOf(t)] = FirstOf(t).window - Distance(FirstOf(t), a, b)
  <2>1. FirstOf(t) \in Given
    BY <1>6, FirstIsIn
  <2> QED
    BY <1>3, <2>1
<1>7. ASSUME NEW g
      PROVE  Fits(g) <=> AreSums(g, w, Given)
  <2> DEFINE one == [t \in SUBSET Given |->
                       IF t = {} THEN 0
                       ELSE (FirstOf(t).window - Distance(FirstOf(t), a, b)) + g[t \ {FirstOf(t)}]]
             two == [t \in SUBSET Given |->
                       IF t = {} THEN 0 ELSE w[FirstOf(t)] + g[t \ {FirstOf(t)}]]
  <2>1. one = two
    BY <1>6
  <2>2. (Fits(g) <=> g = one) /\ (AreSums(g, w, Given) <=> g = two)
    BY DEF AreSums
  <2> HIDE DEF one, two, Fits
  <2> QED
    BY <2>1, <2>2
<1> HIDE DEF Fits
<1>8. Fits(CHOOSE g : Fits(g))
  BY <1>5, <1>7
<1>9. (CHOOSE g : Fits(g)) = r
  <2> DEFINE h == CHOOSE g : Fits(g)
  <2>1. AreSums(h, w, Given)
    BY <1>7, <1>8
  <2> HIDE DEF h
  <2>2. h = r
    BY <1>5, <2>1, SignalFacts, SumsAreOne
  <2> QED
    BY <2>2 DEF h
<1>10. r[Given] \in Nat
  BY <1>5
<1>11. Weight(a, b) = 1 + r[Given]
  BY <1>4, <1>9, Zenon
<1> QED
  BY <1>10, <1>11

(* The candidate graph, edge by edge. *)
LEMMA GraphFacts ==
  ASSUME NEW U \in SUBSET Observations
  PROVE  /\ \A e : e \in DOMAIN Graph(U) <=> /\ e \in U \X U /\ e[1].side = UP /\ e[2].side = DOWN
                                             /\ IsCandidate(e[1], e[2])
         /\ \A e \in DOMAIN Graph(U) : Graph(U)[e] = Weight(e[1], e[2])
         /\ IsFiniteSet(U) /\ IsFiniteSet(DOMAIN Graph(U)) /\ Graph(U) \in [DOMAIN Graph(U) -> Nat]
<1> DEFINE pairs == {e \in U \X U : e[1].side = UP /\ e[2].side = DOWN /\ IsCandidate(e[1], e[2])}
<1>1. DOMAIN Graph(U) = pairs /\ \A e \in pairs : Graph(U)[e] = Weight(e[1], e[2])
  BY DEF Graph
<1>2. IsFiniteSet(U)
  <2>1. IsFiniteSet(Observations)
    BY SMT, TimedFlowAssumption
  <2> QED
    BY <2>1, FS_Subset
<1>3. IsFiniteSet(pairs)
  BY <1>2, FS_Product, FS_Subset
<1>4. \A e \in pairs : Weight(e[1], e[2]) \in Nat
  BY WeightIsNat
<1>5. Graph(U) = [e \in DOMAIN Graph(U) |-> Graph(U)[e]]
  BY DEF Graph
<1>6. Graph(U) \in [DOMAIN Graph(U) -> Nat]
  <2> HIDE DEF pairs
  <2> QED
    BY <1>1, <1>4, <1>5
<1> QED
  BY <1>1, <1>2, <1>3, <1>6

(* A component of the candidate graph of U. *)
IsComponent(U, C) == IsClosed(U, C) /\ \A x \in C : Walk(U, {}, x) = C

LEMMA WalksTheGraph ==
  ASSUME NEW U, NEW x
  PROVE  ComponentOf(Graph(U), x) = Walk(U, {}, x)
<1>1. U \ {} = U
  OBVIOUS
<1>2. \A e \in DOMAIN Graph(U) : Ends(e) \subseteq U
  BY DEF Graph, Ends
<1>3. {e \in DOMAIN Graph(U) : Ends(e) \subseteq U} = DOMAIN Graph(U)
  BY <1>2
<1>4. Graph(U) = [e \in DOMAIN Graph(U) |-> Graph(U)[e]]
  BY DEF Graph
<1>5. Within(Graph(U), U) = Graph(U)
  BY <1>3, <1>4 DEF Within
<1>6. Walk(U, {}, x) = ComponentOf(Within(Graph(U), U \ {}), x)
  BY DEF Walk
<1> QED
  BY <1>1, <1>5, <1>6

(* The edges with an end in a closed set are those of its own graph. *)
LEMMA ClosedKeepsEdges ==
  ASSUME NEW U \in SUBSET Observations, NEW C, IsClosed(U, C)
  PROVE  /\ C \in SUBSET Observations
         /\ \A e : e \in DOMAIN Graph(C) <=> e \in DOMAIN Graph(U) /\ Ends(e) \cap C # {}
         /\ IsPartOf(Graph(C), Graph(U))
<1>1. C \in SUBSET Observations /\ C \subseteq U /\ \A x \in C, y \in U : Adjacent(x, y) => y \in C
  BY DEF IsClosed
<1>2. /\ \A e : e \in DOMAIN Graph(U) <=> /\ e \in U \X U /\ e[1].side = UP /\ e[2].side = DOWN
                                          /\ IsCandidate(e[1], e[2])
      /\ \A e \in DOMAIN Graph(U) : Graph(U)[e] = Weight(e[1], e[2])
  BY GraphFacts
<1>3. /\ \A e : e \in DOMAIN Graph(C) <=> /\ e \in C \X C /\ e[1].side = UP /\ e[2].side = DOWN
                                          /\ IsCandidate(e[1], e[2])
      /\ \A e \in DOMAIN Graph(C) : Graph(C)[e] = Weight(e[1], e[2])
  BY <1>1, GraphFacts
<1>4. ASSUME NEW e \in DOMAIN Graph(C)
      PROVE  e \in DOMAIN Graph(U) /\ Ends(e) \cap C # {}
  <2>1. e \in C \X C /\ e[1].side = UP /\ e[2].side = DOWN /\ IsCandidate(e[1], e[2])
    BY <1>3
  <2>2. e \in U \X U /\ e[1] \in C
    BY <1>1, <2>1
  <2> QED
    BY <1>2, <2>1, <2>2 DEF Ends
<1>5. ASSUME NEW e \in DOMAIN Graph(U), Ends(e) \cap C # {}
      PROVE  e \in DOMAIN Graph(C)
  <2>1. e \in U \X U /\ e[1].side = UP /\ e[2].side = DOWN /\ IsCandidate(e[1], e[2])
    BY <1>2
  <2>2. Adjacent(e[1], e[2]) /\ Adjacent(e[2], e[1]) /\ e[1] \in U /\ e[2] \in U
    BY <2>1 DEF Adjacent
  <2>3. e[1] \in C \/ e[2] \in C
    BY <1>5 DEF Ends
  <2>4. e[1] \in C /\ e[2] \in C
    BY <1>1, <2>2, <2>3
  <2>5. e \in C \X C
    BY <2>1, <2>4
  <2> QED
    BY <1>3, <2>1, <2>5
<1>6. \A e \in DOMAIN Graph(C) : Ends(e) \subseteq C
  BY <1>3 DEF Ends
<1>7. IsPartOf(Graph(C), Graph(U))
  <2>1. DOMAIN Graph(C) \subseteq DOMAIN Graph(U)
    BY <1>4
  <2>2. \A e \in DOMAIN Graph(C) : Graph(C)[e] = Graph(U)[e]
    BY <1>2, <1>3, <1>4
  <2>3. ASSUME NEW e \in DOMAIN Graph(C), NEW f \in DOMAIN Graph(U) \ DOMAIN Graph(C)
        PROVE  Ends(e) \cap Ends(f) = {}
    <3>1. Ends(f) \cap C = {} /\ Ends(e) \subseteq C
      BY <1>5, <1>6
    <3> QED
      BY <3>1
  <2> QED
    BY <2>1, <2>2, <2>3 DEF IsPartOf
<1> QED
  BY <1>1, <1>4, <1>5, <1>7

LEMMA MarginIsNat == Margin \in Nat
BY SMT, TimedFlowAssumption DEF JoinIsChecked

(* A decision depends on the partners seen, no more. *)
LEMMA ForcedBySeen ==
  ASSUME NEW A, NEW B, NEW x, {PartnersIn(M, x) : M \in A} = {PartnersIn(M, x) : M \in B}
  PROVE  Forced(A, x) = Forced(B, x)
<1> DEFINE From(seen_) == IF Cardinality(seen_) > 1 THEN Decision(AMBIGUOUS, None)
                          ELSE IF {} \in seen_ THEN Decision(UNMATCHED, None)
                          ELSE Decision(MATCHED, CHOOSE y \in UNION seen_ : TRUE)
           a == {PartnersIn(M, x) : M \in A}
           b == {PartnersIn(M, x) : M \in B}
<1>1. Forced(A, x) = From(a) /\ Forced(B, x) = From(b)
  BY DEF Forced
<1>2. a = b
  OBVIOUS
<1> HIDE DEF a, b, From
<1> QED
  BY <1>1, <1>2

(* The assignment decides a component as if it were alone. *)
LEMMA DecisionsAreLocal ==
  ASSUME NEW U \in SUBSET Observations, NEW C, IsComponent(U, C), NEW x \in C, NEW max
  PROVE  Decisions(U, Graph(U), Margin, max)[x] = Decisions(C, Graph(C), Margin, max)[x]
<1> DEFINE G == Graph(U)
           H == Graph(C)
<1>1. IsClosed(U, C) /\ Walk(U, {}, x) = C
  BY DEF IsComponent
<1>2. /\ C \in SUBSET Observations
      /\ \A e : e \in DOMAIN H <=> e \in DOMAIN G /\ Ends(e) \cap C # {}
      /\ IsPartOf(H, G)
  BY <1>1, ClosedKeepsEdges
<1>3. x \in U
  BY <1>1 DEF IsClosed
<1>4. Walk(C, {}, x) = C
  <2>1. /\ IsClosed(C \ {}, Walk(C, {}, x)) /\ x \in Walk(C, {}, x)
    BY WalkFacts
  <2>2. Walk(C, {}, x) \subseteq C
    BY <2>1 DEF IsClosed
  <2>3. IsClosed(U \ {}, Walk(C, {}, x))
    <3>1. C \ {} = C /\ U \ {} = U
      OBVIOUS
    <3> QED
      BY <1>1, <2>1, <3>1 DEF IsClosed
  <2>4. x \in U \ {}
    BY <1>3
  <2>5. Walk(U, {}, x) \subseteq Walk(C, {}, x)
    BY <2>1, <2>3, <2>4, WalkFacts
  <2> QED
    BY <1>1, <2>2, <2>5
<1>5. ComponentOf(G, x) = C /\ ComponentOf(H, x) = C
  BY <1>1, <1>4, WalksTheGraph
<1>6. IsFiniteSet(DOMAIN G) /\ G \in [DOMAIN G -> Nat]
  BY GraphFacts
<1>7. \A f \in DOMAIN G \ DOMAIN H : x \notin Ends(f)
  BY <1>2
<1>8. Decisions(U, G, Margin, max)[x]
        = IF Neighbours(G, x) = {} THEN Decision(NO_CANDIDATE, None)
          ELSE IF Widest(G, ComponentOf(G, x)) > max THEN Decision(OVERSIZED, None)
          ELSE Forced(NearOptimal(G, Margin), x)
  BY <1>3 DEF Decisions
<1>9. Decisions(C, H, Margin, max)[x]
        = IF Neighbours(H, x) = {} THEN Decision(NO_CANDIDATE, None)
          ELSE IF Widest(H, ComponentOf(H, x)) > max THEN Decision(OVERSIZED, None)
          ELSE Forced(NearOptimal(H, Margin), x)
  BY DEF Decisions
<1> HIDE DEF G, H
<1>10. Neighbours(G, x) = Neighbours(H, x)
  <2>1. ASSUME NEW y
        PROVE  y \in Neighbours(G, x) <=> y \in Neighbours(H, x)
    <3>1. y \in Neighbours(G, x) <=> \E e \in DOMAIN G : x \in Ends(e) /\ y \in Ends(e) /\ y # x
      BY NeighboursMeans
    <3>2. y \in Neighbours(H, x) <=> \E e \in DOMAIN H : x \in Ends(e) /\ y \in Ends(e) /\ y # x
      BY NeighboursMeans
    <3> QED
      BY <1>2, <3>1, <3>2
  <2>2. \A y \in Neighbours(G, x) : y \in Neighbours(H, x)
    BY <2>1
  <2>3. \A y \in Neighbours(H, x) : y \in Neighbours(G, x)
    BY <2>1
  <2> QED
    BY <2>2, <2>3
<1>11. Widest(G, C) = Widest(H, C)
  <2>1. \A y \in C : (\E e \in DOMAIN G : e[1] = y) <=> (\E e \in DOMAIN H : e[1] = y)
    BY <1>2 DEF Ends
  <2>2. {y \in C : \E e \in DOMAIN G : e[1] = y} = {y \in C : \E e \in DOMAIN H : e[1] = y}
    BY <2>1
  <2> QED
    BY <2>2 DEF Widest
<1>12. Forced(NearOptimal(G, Margin), x) = Forced(NearOptimal(H, Margin), x)
  <2>1. {PartnersIn(M, x) : M \in NearOptimal(G, Margin)}
          = {PartnersIn(M, x) : M \in NearOptimal(H, Margin)}
    BY <1>2, <1>6, <1>7, MarginIsNat, NearIsLocal
  <2> QED
    BY <2>1, ForcedBySeen
<1> QED
  BY <1>5, <1>8, <1>9, <1>10, <1>11, <1>12 DEF G, H

LEMMA NearIsNotEmpty ==
  ASSUME NEW C \in SUBSET Observations
  PROVE  /\ NearOptimal(Graph(C), Margin) # {}
         /\ \A M \in NearOptimal(Graph(C), Margin) : M \subseteq DOMAIN Graph(C)
<1> DEFINE G == Graph(C)
<1>1. IsFiniteSet(DOMAIN G) /\ G \in [DOMAIN G -> Nat]
  BY GraphFacts
<1> HIDE DEF G
<1>2. PICK g \in [SUBSET DOMAIN G -> Nat] : AreSums(g, G, DOMAIN G)
  BY <1>1, SumsExist
<1>3. PICK best \in Nat, A \in Matchings(G) :
        /\ IsBest(G, best, A)
        /\ NearOptimal(G, Margin) = {M \in Matchings(G) : Total(G, M) >= best - Margin}
  <2> DEFINE D == DOMAIN G
  <2>2. IsFiniteSet(D) /\ G \in [D -> Nat] /\ g \in [SUBSET D -> Nat] /\ AreSums(g, G, D)
    BY <1>1, <1>2
  <2>3. DOMAIN G \subseteq D /\ \A e \in DOMAIN G : G[e] = G[e]
    OBVIOUS
  <2> HIDE DEF D
  <2>4. HasBest(G, Margin)
    BY <2>2, <2>3, BestFacts
  <2> QED
    BY <2>4 DEF HasBest
<1>4. A \in Matchings(G) /\ Total(G, A) >= best - Margin
  BY <1>3, MarginIsNat DEF IsBest
<1>5. A \in NearOptimal(G, Margin)
  BY <1>3, <1>4
<1>6. \A M \in NearOptimal(G, Margin) : M \subseteq DOMAIN G
  BY <1>3 DEF Matchings
<1> QED
  BY <1>5, <1>6 DEF G

LEMMA PartnersMeans ==
  ASSUME NEW M, NEW x, NEW y \in PartnersIn(M, x)
  PROVE  \E e \in M : x \in Ends(e) /\ y \in Ends(e) /\ y # x
<1> DEFINE parts == {Ends(e) : e \in {e \in M : x \in Ends(e)}}
<1>1. PartnersIn(M, x) = (UNION parts) \ {x}
  BY DEF PartnersIn
<1>2. \A T : T \in parts <=> \E e \in M : T = Ends(e) /\ x \in T
  OBVIOUS
<1> HIDE DEF parts
<1>3. y # x /\ \E T \in parts : y \in T
  BY <1>1
<1> QED
  BY <1>2, <1>3

(* A record is matched with a candidate of its component. *)
LEMMA PartnerFacts ==
  ASSUME NEW C \in SUBSET Observations, NEW x \in C,
         NEW d, d = Decisions(C, Graph(C), Margin, MaxComponent)[x], d.status = MATCHED
  PROVE  /\ d.partner \in C
         /\ (IF x.side = UP THEN <<x, d.partner>> ELSE <<d.partner, x>>) \in DOMAIN Graph(C)
<1> DEFINE G == Graph(C)
           near == NearOptimal(G, Margin)
           from == {PartnersIn(M, x) : M \in near}
<1>1. near # {} /\ \A M \in near : M \subseteq DOMAIN G
  BY NearIsNotEmpty
<1>2. \A e \in DOMAIN G : e \in C \X C /\ e[1].side = UP /\ e[2].side = DOWN
  BY GraphFacts
<1>3. d = IF Neighbours(G, x) = {} THEN Decision(NO_CANDIDATE, None)
          ELSE IF Widest(G, ComponentOf(G, x)) > MaxComponent THEN Decision(OVERSIZED, None)
          ELSE Forced(near, x)
  BY DEF Decisions
<1>4. Forced(near, x) = IF Cardinality(from) > 1 THEN Decision(AMBIGUOUS, None)
                        ELSE IF {} \in from THEN Decision(UNMATCHED, None)
                        ELSE Decision(MATCHED, CHOOSE y \in UNION from : TRUE)
  BY DEF Forced
<1>5. /\ \A status, partner : /\ Decision(status, partner).status = status
                              /\ Decision(status, partner).partner = partner
      /\ MATCHED \notin {NO_CANDIDATE, OVERSIZED, AMBIGUOUS, UNMATCHED}
  BY DEF Decision, MATCHED, NO_CANDIDATE, OVERSIZED, AMBIGUOUS, UNMATCHED
<1>6. /\ \A M \in near : PartnersIn(M, x) \in from
      /\ \A T \in from : \E M \in near : T = PartnersIn(M, x)
  OBVIOUS
<1> HIDE DEF G, near, from
<1>7. {} \notin from /\ d.partner = CHOOSE y \in UNION from : TRUE
  <2> DEFINE z == CHOOSE y \in UNION from : TRUE
  <2>1. Forced(near, x) = IF Cardinality(from) > 1 THEN Decision(AMBIGUOUS, None)
                          ELSE IF {} \in from THEN Decision(UNMATCHED, None)
                          ELSE Decision(MATCHED, z)
    BY <1>4
  <2> HIDE DEF z
  <2>2. d = Forced(near, x)
    BY <1>3, <1>5
  <2>3. ~ (Cardinality(from) > 1) /\ {} \notin from
    BY <1>5, <2>1, <2>2
  <2>4. d = Decision(MATCHED, z)
    BY <2>1, <2>2, <2>3
  <2>5. d.partner = z
    BY <1>5, <2>4
  <2> QED
    BY <2>3, <2>5 DEF z
<1>8. UNION from # {}
  BY <1>1, <1>6, <1>7
<1>9. d.partner \in UNION from
  BY <1>7, <1>8
<1>10. PICK M \in near : d.partner \in PartnersIn(M, x)
  BY <1>6, <1>9
<1>11. PICK e \in M : x \in Ends(e) /\ d.partner \in Ends(e) /\ d.partner # x
  BY <1>10, PartnersMeans
<1>12. e \in DOMAIN G /\ e \in C \X C /\ e[1].side = UP /\ e[2].side = DOWN /\ UP # DOWN
  BY <1>1, <1>2, <1>10, <1>11 DEF UP, DOWN
<1>13. e = <<e[1], e[2]>> /\ e[1] \in C /\ e[2] \in C
  BY <1>12
<1>14. \/ x = e[1] /\ d.partner = e[2]
       \/ x = e[2] /\ d.partner = e[1]
  BY <1>11 DEF Ends
<1>15. d.partner \in C
  BY <1>13, <1>14
<1>16. CASE x = e[1] /\ d.partner = e[2]
  <2>1. e = <<x, d.partner>> /\ x.side = UP
    BY <1>12, <1>13, <1>16
  <2> QED
    BY <1>12, <1>15, <2>1 DEF G
<1>17. CASE x = e[2] /\ d.partner = e[1]
  <2>1. e = <<d.partner, x>> /\ x.side # UP
    BY <1>12, <1>13, <1>17
  <2> QED
    BY <1>12, <1>15, <2>1 DEF G
<1> QED
  BY <1>14, <1>16, <1>17

(* The density guard counts the same neighbours in both. *)
SameCrowd(C, N, O) == \A z \in C : IsCrowded(N, z) <=> IsCrowded(O, z)

(* The verdicts of a component are those of the batch on any set it is a   *)
(* component of, if the neighbours counted are the same.                   *)
LEMMA VerdictsAreLocal ==
  ASSUME NEW U \in SUBSET Observations, NEW C, IsComponent(U, C), NEW x \in C,
         NEW N, NEW O, SameCrowd(C, N, O)
  PROVE  Verdicts(U, Graph(U), N)[x] = Verdicts(C, Graph(C), O)[x]
<1> DEFINE G == Graph(U)
           H == Graph(C)
           d == Decisions(U, G, Margin, MaxComponent)[x]
           c == Decisions(C, H, Margin, MaxComponent)[x]
           edge == IF x.side = UP THEN <<x, c.partner>> ELSE <<c.partner, x>>
<1>1. IsClosed(U, C) /\ x \in U
  BY DEF IsComponent, IsClosed
<1>2. C \in SUBSET Observations /\ IsPartOf(H, G)
  BY <1>1, ClosedKeepsEdges
<1>3. d = c
  BY DecisionsAreLocal
<1>4. Verdicts(U, G, N)[x]
        = IF d.status # MATCHED THEN Undecided(d.status)
          ELSE IF IsCrowded(N, x) \/ IsCrowded(N, d.partner) THEN Undecided(DENSE)
          ELSE Verdict(LINKED, d.partner,
                       IF x.side = UP THEN G[<<x, d.partner>>] ELSE G[<<d.partner, x>>])
  BY <1>1 DEF Verdicts
<1>5. Verdicts(C, H, O)[x]
        = IF c.status # MATCHED THEN Undecided(c.status)
          ELSE IF IsCrowded(O, x) \/ IsCrowded(O, c.partner) THEN Undecided(DENSE)
          ELSE Verdict(LINKED, c.partner,
                       IF x.side = UP THEN H[<<x, c.partner>>] ELSE H[<<c.partner, x>>])
  BY DEF Verdicts
<1>6. c.status = MATCHED => c.partner \in C /\ edge \in DOMAIN H
  BY <1>2, PartnerFacts
<1>7. edge \in DOMAIN H => H[edge] = G[edge]
  BY <1>2 DEF IsPartOf
<1> HIDE DEF G, H, d, c
<1>8. CASE c.status # MATCHED
  BY <1>3, <1>4, <1>5, <1>8 DEF G, H
<1>9. CASE c.status = MATCHED
  <2>1. /\ IsCrowded(N, x) <=> IsCrowded(O, x)
        /\ IsCrowded(N, c.partner) <=> IsCrowded(O, c.partner)
    BY <1>6, <1>9 DEF SameCrowd
  <2>2. H[edge] = G[edge]
    BY <1>6, <1>7, <1>9
  <2>3. (IF x.side = UP THEN G[<<x, c.partner>>] ELSE G[<<c.partner, x>>])
          = (IF x.side = UP THEN H[<<x, c.partner>>] ELSE H[<<c.partner, x>>])
    BY <2>2
  <2>4. CASE IsCrowded(O, x) \/ IsCrowded(O, c.partner)
    BY <1>3, <1>4, <1>5, <1>9, <2>1, <2>4 DEF G, H
  <2>5. CASE ~ (IsCrowded(O, x) \/ IsCrowded(O, c.partner))
    <3>1. Verdicts(U, G, N)[x]
            = Verdict(LINKED, c.partner,
                      IF x.side = UP THEN G[<<x, c.partner>>] ELSE G[<<c.partner, x>>])
      BY <1>3, <1>4, <1>9, <2>1, <2>5
    <3>2. Verdicts(C, H, O)[x]
            = Verdict(LINKED, c.partner,
                      IF x.side = UP THEN H[<<x, c.partner>>] ELSE H[<<c.partner, x>>])
      BY <1>5, <1>9, <2>5
    <3> QED
      BY <2>3, <3>1, <3>2 DEF G, H
  <2> QED
    BY <2>4, <2>5
<1> QED
  BY <1>8, <1>9

-----------------------------------------------------------------------------
(* Too large *)

LEMMA WalkGrows ==
  ASSUME NEW O, NEW flags, NEW U, NEW x \in O \ flags, O \ flags \subseteq U
  PROVE  Walk(O, flags, x) \subseteq Walk(U, {}, x)
<1>1. /\ x \in Walk(O, flags, x)
      /\ \A S : IsClosed(O \ flags, S) /\ x \in S => Walk(O, flags, x) \subseteq S
  BY WalkFacts
<1>2. x \in Walk(U, {}, x) /\ IsClosed(U, Walk(U, {}, x))
  <2>1. U \ {} = U /\ x \in U \ {}
    OBVIOUS
  <2> QED
    BY <2>1, WalkFacts
<1>3. IsClosed(O \ flags, Walk(U, {}, x) \cap (O \ flags))
  BY <1>2 DEF IsClosed
<1> QED
  BY <1>1, <1>2, <1>3

LEMMA LargerIsTooLarge ==
  ASSUME NEW C \in SUBSET Observations, NEW D \in SUBSET C, IsTooLarge(D)
  PROVE  IsTooLarge(C)
<1>1. PICK side \in {UP, DOWN} : Cardinality(Side(D, side)) > MaxComponent
  BY DEF IsTooLarge
<1>2. IsFiniteSet(C)
  BY GraphFacts
<1>3. Side(C, side) \in SUBSET C /\ Side(D, side) \in SUBSET Side(C, side)
  BY DEF Side
<1>4. IsFiniteSet(Side(C, side))
  BY <1>2, <1>3, FS_Subset
<1>5. IsFiniteSet(Side(D, side)) /\ Cardinality(Side(D, side)) <= Cardinality(Side(C, side))
  BY <1>3, <1>4, FS_Subset
<1>6. Cardinality(Side(C, side)) \in Nat /\ Cardinality(Side(D, side)) \in Nat /\ MaxComponent \in Nat
  <2>1. MaxComponent \in Nat
    BY SMT, TimedFlowAssumption DEF JoinIsChecked
  <2> QED
    BY <1>4, <1>5, <2>1, FS_CardinalityType
<1>7. Cardinality(Side(C, side)) > MaxComponent
  BY <1>1, <1>5, <1>6
<1> QED
  BY <1>7 DEF IsTooLarge

LEMMA WalkIsWithin ==
  ASSUME NEW U, NEW x \in U
  PROVE  /\ x \in Walk(U, {}, x) /\ IsClosed(U, Walk(U, {}, x)) /\ Walk(U, {}, x) \subseteq U
         /\ \A S : IsClosed(U, S) /\ x \in S => Walk(U, {}, x) \subseteq S
         /\ \A y \in Walk(U, {}, x) : Walk(U, {}, y) = Walk(U, {}, x)
<1>1. U \ {} = U /\ x \in U \ {}
  OBVIOUS
<1>2. /\ x \in Walk(U, {}, x)
      /\ IsClosed(U \ {}, Walk(U, {}, x))
      /\ \A S : IsClosed(U \ {}, S) /\ x \in S => Walk(U, {}, x) \subseteq S
  BY <1>1, WalkFacts
<1>3. \A y \in Walk(U, {}, x) : Walk(U, {}, y) = Walk(U, {}, x)
  BY <1>1, WalksAgree
<1>4. Walk(U, {}, x) \subseteq U
  BY <1>1, <1>2 DEF IsClosed
<1> QED
  BY <1>1, <1>2, <1>3, <1>4

(* Every record of a component too large is oversized for the batch. *)
LEMMA LargeIsOversized ==
  ASSUME NEW U \in SUBSET Observations, NEW x \in U, IsTooLarge(Walk(U, {}, x)), NEW N
  PROVE  Verdicts(U, Graph(U), N)[x] = Undecided(OVERSIZED)
<1> DEFINE C == Walk(U, {}, x)
           G == Graph(U)
           lefts == {y \in C : \E e \in DOMAIN G : e[1] = y}
<1>1. /\ x \in C /\ IsClosed(U, C) /\ C \subseteq U
      /\ \A y \in C : Walk(U, {}, y) = C
  BY WalkIsWithin
<1>2. MaxComponent \in Nat /\ MaxComponent >= 1
  BY SMT, TimedFlowAssumption DEF JoinIsChecked
<1>3. C \in SUBSET Observations /\ IsFiniteSet(C)
  BY <1>1, GraphFacts
<1>4. \A e : e \in DOMAIN G <=> /\ e \in U \X U /\ e[1].side = UP /\ e[2].side = DOWN
                                /\ IsCandidate(e[1], e[2])
  BY GraphFacts
<1>5. ComponentOf(G, x) = C
  BY WalksTheGraph
<1>6. Decisions(U, G, Margin, MaxComponent)[x]
        = IF Neighbours(G, x) = {} THEN Decision(NO_CANDIDATE, None)
          ELSE IF Widest(G, ComponentOf(G, x)) > MaxComponent THEN Decision(OVERSIZED, None)
          ELSE Forced(NearOptimal(G, Margin), x)
  BY DEF Decisions
<1>7. Widest(G, C) = IF Cardinality(lefts) > Cardinality(C) - Cardinality(lefts)
                     THEN Cardinality(lefts) ELSE Cardinality(C) - Cardinality(lefts)
  BY DEF Widest
<1> HIDE DEF C
<1>8. ASSUME NEW y \in C
      PROVE  \E z \in C : z # y /\ Adjacent(y, z)
  <2>1. SUFFICES ASSUME \A z \in C : Adjacent(y, z) => z = y
                 PROVE  FALSE
    OBVIOUS
  <2>2. IsClosed(U, {y})
    BY <1>1, <1>8, <2>1 DEF IsClosed
  <2>3. Walk(U, {}, y) \subseteq {y}
    <3>1. y \in U
      BY <1>1, <1>8
    <3> QED
      BY <2>2, <3>1, WalkIsWithin
  <2>4. C \subseteq {y}
    BY <1>1, <1>8, <2>3
  <2>5. PICK side \in {UP, DOWN} : Cardinality(Side(C, side)) > MaxComponent
    BY DEF IsTooLarge, C
  <2>6. Side(C, side) \in SUBSET {y}
    BY <2>4 DEF Side
  <2>7. Cardinality(Side(C, side)) <= 1 /\ Cardinality(Side(C, side)) \in Nat
    <3>1. IsFiniteSet({y}) /\ Cardinality({y}) = 1
      BY FS_Singleton
    <3>2. IsFiniteSet(Side(C, side)) /\ Cardinality(Side(C, side)) <= Cardinality({y})
      BY <2>6, <3>1, FS_Subset
    <3> QED
      BY <3>1, <3>2, FS_CardinalityType
  <2> QED
    BY <1>2, <2>5, <2>7
<1>9. \A y \in C, z \in C : Adjacent(y, z) => \E e \in DOMAIN G : Ends(e) = {y, z}
                                               /\ (y.side = UP => e[1] = y)
  <2>1. UP # DOWN
    BY DEF UP, DOWN
  <2>2. ASSUME NEW y \in C, NEW z \in C, Adjacent(y, z)
        PROVE  \E e \in DOMAIN G : Ends(e) = {y, z} /\ (y.side = UP => e[1] = y)
    <3>1. CASE y.side = UP /\ z.side = DOWN /\ IsCandidate(y, z)
      <4>1. <<y, z>> \in DOMAIN G
        BY <1>1, <1>4, <2>2, <3>1
      <4> QED
        BY <4>1 DEF Ends
    <3>2. CASE z.side = UP /\ y.side = DOWN /\ IsCandidate(z, y)
      <4>1. <<z, y>> \in DOMAIN G
        BY <1>1, <1>4, <2>2, <3>2
      <4> QED
        BY <2>1, <3>2, <4>1 DEF Ends
    <3> QED
      BY <2>2, <3>1, <3>2 DEF Adjacent
  <2> QED
    BY <2>2
<1>10. Neighbours(G, x) # {}
  <2>1. PICK z \in C : z # x /\ Adjacent(x, z)
    BY <1>1, <1>8
  <2>2. PICK e \in DOMAIN G : Ends(e) = {x, z}
    BY <1>1, <1>9, <2>1
  <2>3. z \in Neighbours(G, x)
    BY <2>1, <2>2, NeighboursMeans
  <2> QED
    BY <2>3
<1>11. lefts = Side(C, UP)
  <2>1. \A y \in lefts : y.side = UP
    BY <1>4
  <2>2. ASSUME NEW y \in C, y.side = UP
        PROVE  \E e \in DOMAIN G : e[1] = y
    <3>1. PICK z \in C : Adjacent(y, z)
      BY <1>8, <2>2
    <3> QED
      BY <1>9, <2>2, <3>1
  <2> QED
    BY <2>1, <2>2 DEF Side
<1>12. C \ lefts = Side(C, DOWN)
  <2>1. \A y \in C : y.side \in {UP, DOWN}
    BY <1>3, ObservationFacts
  <2>2. UP # DOWN
    BY DEF UP, DOWN
  <2> HIDE DEF lefts
  <2> QED
    BY <1>11, <2>1, <2>2 DEF Side
<1>13. /\ Cardinality(lefts) \in Nat /\ Cardinality(C) \in Nat
       /\ Cardinality(C \ lefts) = Cardinality(C) - Cardinality(lefts)
  <2>1. lefts \in SUBSET C
    OBVIOUS
  <2> HIDE DEF lefts
  <2>2. IsFiniteSet(lefts)
    BY <1>3, <2>1, FS_Subset
  <2>3. Cardinality(C \ lefts) = Cardinality(C) - Cardinality(C \cap lefts)
    BY <1>3, <2>2, FS_Difference
  <2>4. C \cap lefts = lefts
    BY <2>1
  <2> QED
    BY <1>3, <2>2, <2>3, <2>4, FS_CardinalityType
<1> HIDE DEF lefts
<1>14. Widest(G, C) > MaxComponent
  <2>1. PICK side \in {UP, DOWN} : Cardinality(Side(C, side)) > MaxComponent
    BY DEF IsTooLarge, C
  <2>2. Cardinality(lefts) > MaxComponent \/ Cardinality(C \ lefts) > MaxComponent
    BY <1>11, <1>12, <2>1
  <2> QED
    BY <1>2, <1>7, <1>13, <2>2
<1>15. Decisions(U, G, Margin, MaxComponent)[x] = Decision(OVERSIZED, None)
  BY <1>5, <1>6, <1>10, <1>14
<1>16. Decision(OVERSIZED, None).status = OVERSIZED /\ OVERSIZED # MATCHED
  BY DEF Decision, OVERSIZED, MATCHED
<1>17. Verdicts(U, G, N)[x]
        = IF Decisions(U, G, Margin, MaxComponent)[x].status # MATCHED
          THEN Undecided(Decisions(U, G, Margin, MaxComponent)[x].status)
          ELSE Verdicts(U, G, N)[x]
  BY DEF Verdicts
<1> HIDE DEF G
<1>18. Verdicts(U, G, N)[x] = Undecided(OVERSIZED)
  BY <1>15, <1>16, <1>17
<1> QED
  BY <1>18 DEF G

-----------------------------------------------------------------------------
(* Behind every source *)

(* Every source has reported and is past t for good. *)
IsBehind(t, p) == \A s \in Sources : p[s] # NoTime /\ t + Lateness < p[s]

LEMMA BehindStays ==
  ASSUME NEW S \in SUBSET Observations, NEW p, NEW f, ClocksAreSane(S, p, f),
         NEW s \in Sources, NEW until \in Nat, NEW t \in Int, IsBehind(t, p)
  PROVE  IsBehind(t, Advanced(p, s, until))
<1> DEFINE P == Advanced(p, s, until)
           F == FirstAt(f, until)
<1>1. \A r \in Sources : p[r] # NoTime => P[r] \in Nat /\ p[r] \in Nat /\ p[r] <= P[r]
  BY ClocksAdvance
<1> HIDE DEF P
<1>2. ASSUME NEW r \in Sources
      PROVE  P[r] # NoTime /\ t + Lateness < P[r]
  <2>1. p[r] # NoTime /\ t + Lateness < p[r]
    BY DEF IsBehind
  <2>2. P[r] \in Nat /\ p[r] \in Nat /\ p[r] <= P[r]
    BY <1>1, <2>1
  <2>3. Lateness \in Nat
    BY WatermarksAssumption
  <2> QED
    BY <2>1, <2>2, <2>3 DEF NoTime
<1> QED
  BY <1>2 DEF IsBehind, P

(* While no source is left out, what the watermark passes is behind.       *)
LEMMA PassedIsBehind ==
  ASSUME MaxSilence = Unbounded, NEW S, NEW p, NEW f, ClocksAreSane(S, p, f), f # NoTime,
         NEW t \in Int, f <= t, t < Watermark(p, f)
  PROVE  IsBehind(t, p)
<1>1. Holding(p, f) = Sources
  BY DEF Holding
<1>2. /\ \A s \in Holding(p, f) : Watermark(p, f) <= Effective(p, f, s) - Lateness
      /\ Watermark(p, f) \in Int
  BY WatermarkFacts
<1>3. Lateness \in Nat
  BY WatermarksAssumption
<1>4. ASSUME NEW s \in Sources
      PROVE  p[s] # NoTime /\ t + Lateness < p[s]
  <2>1. Effective(p, f, s) \in Nat
    BY EffectiveIsNat
  <2>2. Watermark(p, f) <= Effective(p, f, s) - Lateness
    BY <1>1, <1>2
  <2>3. t + Lateness < Effective(p, f, s)
    BY <1>2, <1>3, <2>1, <2>2
  <2>4. p[s] # NoTime
    <3>1. SUFFICES ASSUME p[s] = NoTime
                   PROVE  FALSE
      OBVIOUS
    <3>2. Effective(p, f, s) = f
      BY <3>1 DEF Effective
    <3> QED
      BY <1>3, <2>1, <2>3, <3>2
  <2>5. Effective(p, f, s) = p[s]
    BY <2>4 DEF Effective
  <2> QED
    BY <2>3, <2>4, <2>5
<1> QED
  BY <1>4 DEF IsBehind

(* What is on time comes after it. *)
LEMMA OnTimeIsAfter ==
  ASSUME NEW S, NEW p, NEW f, ClocksAreSane(S, p, f), f # NoTime,
         NEW t \in Int, IsBehind(t, p), NEW at \in Nat, ~ IsUnder(p, f, at)
  PROVE  t < at
<1>1. PICK s \in Holding(p, f) : Watermark(p, f) = Effective(p, f, s) - Lateness
  BY WatermarkFacts
<1>2. Watermark(p, f) \in Int /\ Lateness \in Nat /\ s \in Sources
  BY <1>1, WatermarkFacts, WatermarksAssumption DEF Holding
<1>3. p[s] # NoTime /\ t + Lateness < p[s]
  BY <1>2 DEF IsBehind
<1>4. Effective(p, f, s) = p[s] /\ Effective(p, f, s) \in Nat
  BY <1>2, <1>3, EffectiveIsNat DEF Effective
<1>5. ~ (at < Watermark(p, f))
  BY DEF IsUnder
<1> QED
  BY <1>1, <1>2, <1>3, <1>4, <1>5

LEMMA AdjacentEndsNear ==
  ASSUME NEW x \in Observations, NEW y \in Observations, Adjacent(x, y)
  PROVE  y.at <= x.at + Horizon
<1>1. /\ Horizon \in Nat
      /\ EndSignal \in Given /\ EndSignal.name = END
      /\ EndSignal.offset \in Int /\ EndSignal.window \in Nat
      /\ Abs(EndSignal.offset) + EndSignal.window <= Horizon
  BY HorizonFacts
<1>2. x.at \in Nat /\ y.at \in Nat
  BY ObservationFacts
<1>3. START # END /\ START # DURATION /\ END # DURATION
  BY DEF START, END, DURATION
<1> DEFINE offset == EndSignal.offset
           window == EndSignal.window
<1>4. ASSUME NEW a, NEW b, IsCandidate(a, b)
      PROVE  Abs((a.at - b.at) - offset) <= window
  <2>1. Distance(EndSignal, a, b) <= window
    BY <1>1, <1>4 DEF IsCandidate
  <2>2. Gap(EndSignal.name, a, b) = a.at - b.at
    BY <1>1, <1>3 DEF Gap
  <2> QED
    BY <2>1, <2>2 DEF Distance
<1>5. CASE IsCandidate(x, y)
  <2>1. Abs((x.at - y.at) - offset) <= window
    BY <1>4, <1>5
  <2> QED
    BY <1>1, <1>2, <2>1 DEF Abs
<1>6. CASE IsCandidate(y, x)
  <2>1. Abs((y.at - x.at) - offset) <= window
    BY <1>4, <1>6
  <2> QED
    BY <1>1, <1>2, <2>1 DEF Abs
<1> QED
  BY <1>5, <1>6 DEF Adjacent

(* The bounds of a least element. *)
LEMMA MinFacts ==
  ASSUME NEW T \in SUBSET Int, T # {}, NEW n \in Int, \A t \in T : n <= t
  PROVE  Min(T) \in T /\ \A t \in T : Min(T) <= t
<1> DEFINE U == {t - n : t \in T}
<1>0. \A t \in T : t - n \in Nat
  OBVIOUS
<1>1. U \in SUBSET Nat /\ U # {}
  BY <1>0
<1>2. PICK u \in U : \A v \in U : u <= v
  <2> HIDE DEF U
  <2> QED
    BY <1>1, Least
<1>3. PICK t \in T : u = t - n
  BY <1>2
<1>4. ASSUME NEW s \in T
      PROVE  t <= s
  <2>1. t - n <= s - n
    BY <1>2, <1>3, <1>4
  <2>2. t \in Int /\ s \in Int
    OBVIOUS
  <2> QED
    BY <2>1, <2>2
<1>5. Min(T) \in T /\ \A s \in T : Min(T) =< s
  BY <1>4 DEF Min
<1> QED
  BY <1>5

-----------------------------------------------------------------------------
(* The neighbours the density guard counts *)

Joinable == {o \in Observations : ~ IsOutside(o)}

LEMMA SpanFacts ==
  /\ Span \in Nat
  /\ Span > 0 => MaxDuration \in Nat /\ Span + MaxDuration <= Horizon
<1>1. Span \in Nat /\ (Span > 0 => MaxDuration # Unbounded)
  BY SMT, TimedFlowAssumption DEF JoinIsChecked, ParamsAreValid
<1>2. MaxDuration \in (Nat \ {0}) \cup {Unbounded}
  BY SMT, TimedFlowAssumption
<1>3. EndSignal.offset \in Int /\ EndSignal.window \in Nat
  BY HorizonFacts
<1> DEFINE reach == Abs(EndSignal.offset) + EndSignal.window
<1>4. reach \in Nat
  BY <1>3 DEF Abs
<1>5. Horizon = IF Span > 0 /\ Span + MaxDuration > reach THEN Span + MaxDuration ELSE reach
  BY DEF Horizon
<1> HIDE DEF reach
<1> QED
  BY <1>1, <1>2, <1>4, <1>5

(* What the density guard counts an observation at is near its end. *)
LEMMA ReferenceFacts ==
  ASSUME NEW x \in Joinable, Span > 0
  PROVE  /\ ReferenceOf(x) \in Int
         /\ x.at - MaxDuration <= ReferenceOf(x) /\ ReferenceOf(x) <= x.at
<1>1. x.start \in Int /\ x.at \in Nat /\ x.start <= x.at
  BY TimesAreInt DEF Joinable
<1>2. MaxDuration \in Nat
  BY SpanFacts
<1>3. MaxDuration # Unbounded
  BY <1>2, WatermarksAssumption
<1>4. ~ (x.at - x.start > MaxDuration)
  BY <1>3 DEF Joinable, IsOutside, IsTooLong, Duration
<1>5. ReferenceOf(x) = x.start \/ ReferenceOf(x) = x.at
  BY DEF ReferenceOf
<1> QED
  BY <1>1, <1>2, <1>4, <1>5

IsFar(x, z) == Abs(ReferenceOf(z) - ReferenceOf(x)) > Span

LEMMA LaterIsFar ==
  ASSUME NEW x \in Joinable, NEW z \in Joinable, Span > 0,
         ReferenceOf(z) + MaxDuration + Span < x.at
  PROVE  IsFar(x, z) /\ IsFar(z, x)
<1>1. /\ ReferenceOf(x) \in Int /\ ReferenceOf(z) \in Int
      /\ x.at - MaxDuration <= ReferenceOf(x)
  BY ReferenceFacts
<1>2. x.at \in Nat /\ MaxDuration \in Nat /\ Span \in Nat
  BY SpanFacts, TimesAreInt DEF Joinable
<1>3. ReferenceOf(x) - ReferenceOf(z) > Span
  BY <1>1, <1>2
<1> QED
  BY <1>1, <1>2, <1>3 DEF IsFar, Abs

LEMMA FarIsNotCounted ==
  ASSUME NEW C \in SUBSET Joinable, NEW N, NEW M,
         Span > 0 => N \subseteq M /\ M \subseteq Joinable /\ \A x \in C, z \in M \ N : IsFar(x, z)
  PROVE  SameCrowd(C, N, M)
<1>1. ASSUME NEW x \in C
      PROVE  IsCrowded(N, x) <=> IsCrowded(M, x)
  <2>1. CASE Span > 0
    <3>1. ASSUME NEW z \in M \ N
          PROVE  ~ (Abs(ReferenceOf(z) - ReferenceOf(x)) <= Span)
      <4>1. ReferenceOf(z) \in Int /\ ReferenceOf(x) \in Int /\ Span \in Nat
        BY <2>1, <3>1, ReferenceFacts, SpanFacts
      <4>2. Abs(ReferenceOf(z) - ReferenceOf(x)) > Span
        BY <2>1, <3>1 DEF IsFar
      <4>3. Abs(ReferenceOf(z) - ReferenceOf(x)) \in Int
        BY <4>1 DEF Abs
      <4> QED
        BY <4>1, <4>2, <4>3
    <3>2. N \subseteq M
      BY <2>1
    <3>3. Others(N, x) = Others(M, x)
      BY <3>1, <3>2 DEF Others
    <3> QED
      BY <3>3 DEF IsCrowded
  <2>2. CASE ~ (Span > 0)
    BY <2>2 DEF IsCrowded
  <2> QED
    BY <2>1, <2>2
<1> QED
  BY <1>1 DEF SameCrowd

-----------------------------------------------------------------------------
(* The invariant of the batch's verdicts, while no source is left out *)

JoinedIn(S, cur) == {o \in S : ~ ToldIn(cur, o) /\ ~ IsOutside(o)}

IsPassed(x, p) == IsBehind(x.at + Horizon, p)

(* A neighbour no longer counted is far from what is open or to come. *)
IsForgotten(z, O, p) ==
  /\ IsBehind(ReferenceOf(z) + MaxDuration + Span, p)
  /\ \A x \in O : ReferenceOf(z) + MaxDuration + Span < x.at

(* What was said of x when it left: the verdict of a component of all that *)
(* joined, none of which is open, or of a component too large.             *)
IsSaidOf(J, O, x, verdict) ==
  \/ IsTooLarge(Walk(J, {}, x)) /\ verdict = Undecided(OVERSIZED)
  \/ \E C : /\ IsComponent(J, C) /\ x \in C /\ C \cap O = {}
            /\ verdict = Verdicts(C, Graph(C), J)[x]

BatchInv(J, O, Q, flags, count, cur, p) ==
  /\ J \subseteq Joinable /\ O \subseteq J /\ Q \subseteq O /\ flags \subseteq O
  /\ \A x \in J \ Q : IsPassed(x, p)
  /\ \A x \in O \ flags, y \in flags : ~ Adjacent(x, y)
  /\ \A x \in O \ flags, y \in J \ O : ~ Adjacent(x, y)
  /\ \A x \in flags : IsTooLarge(Walk(J, {}, x))
  /\ \A x \in J \ O : IsSaidOf(J, O, x, cur[x].verdict)
  /\ Span > 0 => count \subseteq J /\ \A z \in J \ count : IsForgotten(z, O, p)

-----------------------------------------------------------------------------
(* Settling keeps it *)

LEMMA WithinIsGraph ==
  ASSUME NEW O, NEW U \in SUBSET O
  PROVE  Within(Graph(O), U) = Graph(U)
<1> DEFINE all == {e \in O \X O : e[1].side = UP /\ e[2].side = DOWN /\ IsCandidate(e[1], e[2])}
           own == {e \in U \X U : e[1].side = UP /\ e[2].side = DOWN /\ IsCandidate(e[1], e[2])}
           kept == {e \in all : Ends(e) \subseteq U}
<1>1. Graph(O) = [e \in all |-> Weight(e[1], e[2])] /\ Graph(U) = [e \in own |-> Weight(e[1], e[2])]
  BY DEF Graph
<1>2. Within(Graph(O), U) = [e \in kept |-> Graph(O)[e]]
  BY DEF Within, Graph
<1>3. kept = own
  BY DEF Ends
<1>4. \A e \in kept : e \in all
  OBVIOUS
<1> HIDE DEF all, own, kept
<1>5. \A e \in kept : Graph(O)[e] = Weight(e[1], e[2])
  BY <1>1, <1>4
<1> QED
  BY <1>1, <1>2, <1>3, <1>5

(* A component of the open ones that touches nothing else is a component   *)
(* of all that joined.                                                     *)
LEMMA ComponentOfAll ==
  ASSUME NEW J, NEW O \in SUBSET J, NEW flags \in SUBSET O,
         \A x \in O \ flags, y \in flags : ~ Adjacent(x, y),
         \A x \in O \ flags, y \in J \ O : ~ Adjacent(x, y),
         NEW z \in O \ flags
  PROVE  IsComponent(J, Walk(O, flags, z))
<1> DEFINE C == Walk(O, flags, z)
<1>1. z \in C /\ IsClosed(O \ flags, C)
  BY WalkFacts
<1>2. \A x \in C : Walk(O, flags, x) = C
  BY WalksAgree
<1> HIDE DEF C
<1>3. C \subseteq O \ flags
  BY <1>1 DEF IsClosed
<1>4. IsClosed(J, C)
  <2>1. ASSUME NEW x \in C, NEW y \in J, Adjacent(x, y)
        PROVE  y \in C
    <3>1. x \in O \ flags
      BY <1>3
    <3>2. y \in O \ flags
      BY <2>1, <3>1
    <3> QED
      BY <1>1, <2>1, <3>2 DEF IsClosed
  <2> QED
    BY <1>3, <2>1 DEF IsClosed
<1>5. ASSUME NEW x \in C
      PROVE  Walk(J, {}, x) = C
  <2>1. x \in O \ flags /\ x \in J /\ O \ flags \subseteq J
    BY <1>3
  <2>2. C \subseteq Walk(J, {}, x)
    BY <1>2, <2>1, WalkGrows
  <2>3. Walk(J, {}, x) \subseteq C
    BY <1>4, <2>1, WalkIsWithin
  <2> QED
    BY <2>2, <2>3
<1> QED
  BY <1>4, <1>5 DEF IsComponent, C

(* And of any closed set of them. *)
LEMMA ComponentOfPart ==
  ASSUME NEW O, NEW flags, NEW U, IsClosed(O \ flags, U), NEW z \in U
  PROVE  IsComponent(U, Walk(O, flags, z))
<1> DEFINE C == Walk(O, flags, z)
<1>0. z \in O \ flags /\ U \subseteq O \ flags
  BY DEF IsClosed
<1>1. /\ z \in C /\ IsClosed(O \ flags, C)
      /\ \A S : IsClosed(O \ flags, S) /\ z \in S => C \subseteq S
  BY <1>0, WalkFacts
<1>2. \A x \in C : Walk(O, flags, x) = C
  BY <1>0, WalksAgree
<1> HIDE DEF C
<1>3. C \subseteq U
  BY <1>1
<1>4. IsClosed(U, C)
  BY <1>0, <1>1, <1>3 DEF IsClosed
<1>5. ASSUME NEW x \in C
      PROVE  Walk(U, {}, x) = C
  <2>1. x \in U /\ x \in O \ flags
    BY <1>0, <1>3
  <2>2. Walk(U, {}, x) \subseteq C
    BY <1>4, <2>1, WalkIsWithin
  <2>3. IsClosed(O \ flags, Walk(U, {}, x)) /\ x \in Walk(U, {}, x)
    <3>1. IsClosed(U, Walk(U, {}, x)) /\ x \in Walk(U, {}, x)
      BY <2>1, WalkIsWithin
    <3> QED
      BY <1>0, <3>1 DEF IsClosed
  <2>4. Walk(O, flags, x) \subseteq Walk(U, {}, x)
    BY <2>1, <2>3, WalkFacts
  <2> QED
    BY <1>2, <2>2, <2>4
<1> QED
  BY <1>4, <1>5 DEF IsComponent, C

LEMMA ComponentAlone ==
  ASSUME NEW U, NEW C, IsComponent(U, C)
  PROVE  IsComponent(C, C)
<1>1. IsClosed(U, C) /\ \A x \in C : Walk(U, {}, x) = C
  BY DEF IsComponent
<1>2. IsClosed(C, C)
  BY DEF IsClosed
<1>3. ASSUME NEW x \in C
      PROVE  Walk(C, {}, x) = C
  <2>1. IsClosed(C, Walk(C, {}, x)) /\ x \in Walk(C, {}, x) /\ Walk(C, {}, x) \subseteq C
    BY WalkIsWithin
  <2>2. IsClosed(U, Walk(C, {}, x)) /\ x \in U
    BY <1>1, <2>1 DEF IsClosed
  <2>3. Walk(U, {}, x) \subseteq Walk(C, {}, x)
    BY <2>1, <2>2, WalkIsWithin
  <2> QED
    BY <1>1, <2>1, <2>3
<1> QED
  BY <1>2, <1>3 DEF IsComponent

LEMMA RememberedFacts ==
  ASSUME NEW O \in SUBSET Observations, NEW count \in SUBSET Joinable, NEW mark \in Int, Span > 0
  PROVE  /\ Remembered(O, count, mark) \subseteq count
         /\ \A z \in count \ Remembered(O, count, mark) :
              /\ ReferenceOf(z) + MaxDuration + Span < mark
              /\ \A x \in O : ReferenceOf(z) + MaxDuration + Span < x.at
<1> DEFINE ends == {o.at : o \in O} \cup {mark}
           oldest == Min(ends)
           kept == {x \in count : ReferenceOf(x) >= oldest - MaxDuration - Span}
<1>1. Remembered(O, count, mark) = kept
  BY SpanFacts DEF Remembered
<1>2. \A o \in O : o.at \in Nat
  BY ObservationFacts
<1>3. PICK n \in Int : n <= mark /\ n <= 0
  <2>1. CASE mark <= 0
    BY <2>1
  <2>2. CASE mark > 0
    BY <2>2
  <2> QED
    BY <2>1, <2>2
<1>4. ends \in SUBSET Int /\ ends # {} /\ \A t \in ends : n <= t
  BY <1>2, <1>3
<1>5. oldest \in ends /\ \A t \in ends : oldest <= t
  <2> HIDE DEF ends
  <2> QED
    BY <1>3, <1>4, MinFacts
<1>6. oldest \in Int /\ oldest <= mark /\ \A x \in O : oldest <= x.at
  BY <1>4, <1>5
<1> HIDE DEF oldest
<1>7. ASSUME NEW z \in count \ kept
      PROVE  /\ ReferenceOf(z) + MaxDuration + Span < mark
             /\ \A x \in O : ReferenceOf(z) + MaxDuration + Span < x.at
  <2>1. ReferenceOf(z) \in Int /\ MaxDuration \in Nat /\ Span \in Nat
    BY ReferenceFacts, SpanFacts
  <2>2. ~ (ReferenceOf(z) >= oldest - MaxDuration - Span)
    BY <1>7
  <2>3. ReferenceOf(z) + MaxDuration + Span < oldest
    BY <1>6, <2>1, <2>2
  <2>4. ReferenceOf(z) + MaxDuration + Span < mark
    BY <1>6, <2>1, <2>3
  <2>5. ASSUME NEW x \in O
        PROVE  ReferenceOf(z) + MaxDuration + Span < x.at
    BY <1>2, <1>6, <2>1, <2>3
  <2> QED
    BY <2>4, <2>5
<1> QED
  BY <1>1, <1>7

(* The verdicts cur1 that settling makes of cur. *)
VerdictsFollow(J, O, closing, gone, count, cur, cur1) ==
  /\ \A x \in J \ gone : cur1[x].verdict = cur[x].verdict
  /\ \A x \in closing : cur1[x].verdict = Verdicts(closing, Within(Graph(O), closing), count)[x]
  /\ \A x \in gone \ closing : cur1[x].verdict = Undecided(OVERSIZED)

LEMMA BatchInvMeans ==
  ASSUME NEW J, NEW O, NEW Q, NEW flags, NEW count, NEW cur, NEW p,
         BatchInv(J, O, Q, flags, count, cur, p)
  PROVE  /\ J \in SUBSET Joinable /\ J \in SUBSET Observations
         /\ O \in SUBSET J /\ Q \in SUBSET O /\ flags \in SUBSET O
         /\ \A x \in J \ Q : IsPassed(x, p)
         /\ \A x \in O \ flags, y \in flags : ~ Adjacent(x, y)
         /\ \A x \in O \ flags, y \in J \ O : ~ Adjacent(x, y)
         /\ \A x \in flags : IsTooLarge(Walk(J, {}, x))
         /\ \A x \in J \ O : IsSaidOf(J, O, x, cur[x].verdict)
         /\ Span > 0 => count \subseteq J /\ \A z \in J \ count : IsForgotten(z, O, p)
BY DEF BatchInv, Joinable

LEMMA SaidStays ==
  ASSUME NEW J, NEW O, NEW U \in SUBSET O, NEW x, NEW v, IsSaidOf(J, O, x, v)
  PROVE  IsSaidOf(J, U, x, v)
<1>1. CASE IsTooLarge(Walk(J, {}, x)) /\ v = Undecided(OVERSIZED)
  BY <1>1 DEF IsSaidOf
<1>2. ASSUME NEW C, IsComponent(J, C), x \in C, C \cap O = {}, v = Verdicts(C, Graph(C), J)[x]
      PROVE  IsSaidOf(J, U, x, v)
  <2>1. C \cap U = {}
    BY <1>2
  <2> QED
    BY <1>2, <2>1 DEF IsSaidOf
<1> QED
  BY <1>1, <1>2 DEF IsSaidOf

(* What closes is given the batch's verdict. *)
LEMMA ClosingIsSaid ==
  ASSUME NEW J, NEW O, NEW Q, NEW flags, NEW due, NEW count, NEW cur, NEW p,
         BatchInv(J, O, Q, flags, count, cur, p), Nest(O, Q, flags, due), NEW mark,
         NEW closing, closing = Closing(O, Q, flags, mark), NEW x \in closing
  PROVE  \E C : /\ IsComponent(J, C) /\ x \in C /\ C \subseteq closing
                /\ Verdicts(closing, Within(Graph(O), closing), count)[x]
                     = Verdicts(C, Graph(C), J)[x]
<1>1. /\ J \in SUBSET Joinable /\ J \in SUBSET Observations
      /\ O \in SUBSET J /\ flags \in SUBSET O
      /\ \A a \in O \ flags, y \in flags : ~ Adjacent(a, y)
      /\ \A a \in O \ flags, y \in J \ O : ~ Adjacent(a, y)
      /\ Span > 0 => count \subseteq J /\ \A z \in J \ count : IsForgotten(z, O, p)
  BY BatchInvMeans
<1>2. IsClosed(O \ flags, closing)
  <2>1. ClosesWhole(O, Q, flags, mark, Ripe(O, Q, flags, mark), closing)
    BY ClosingFacts
  <2> QED
    BY <2>1 DEF ClosesWhole
<1> DEFINE C == Walk(O, flags, x)
<1>3. closing \subseteq O \ flags
  BY <1>2 DEF IsClosed
<1>4. x \in C /\ C \subseteq closing
  BY <1>2, <1>3, WalkFacts
<1>5. IsComponent(J, C)
  BY <1>1, <1>3, ComponentOfAll
<1>6. IsComponent(closing, C)
  BY <1>2, ComponentOfPart
<1> HIDE DEF C
<1>7. closing \in SUBSET O /\ closing \in SUBSET Observations /\ C \in SUBSET Joinable
  BY <1>1, <1>3, <1>4
<1>8. SameCrowd(C, count, J)
  <2>1. ASSUME Span > 0, NEW a \in C, NEW z \in J \ count
        PROVE  IsFar(a, z)
    <3>1. IsForgotten(z, O, p) /\ a \in O
      BY <1>1, <1>4, <1>7, <2>1
    <3>2. ReferenceOf(z) + MaxDuration + Span < a.at
      BY <3>1 DEF IsForgotten
    <3>3. a \in Joinable /\ z \in Joinable
      BY <1>1, <1>7, <2>1
    <3> QED
      BY <2>1, <3>2, <3>3, LaterIsFar
  <2>2. Span > 0 => /\ count \subseteq J /\ J \subseteq Joinable
                    /\ \A a \in C, z \in J \ count : IsFar(a, z)
    BY <1>1, <2>1
  <2> QED
    BY <1>7, <2>2, FarIsNotCounted
<1>9. Within(Graph(O), closing) = Graph(closing)
  BY <1>7, WithinIsGraph
<1>10. Verdicts(closing, Graph(closing), count)[x] = Verdicts(C, Graph(C), J)[x]
  BY <1>4, <1>6, <1>7, <1>8, VerdictsAreLocal
<1> QED
  BY <1>4, <1>5, <1>9, <1>10

LEMMA SettleKeepsBatch ==
  ASSUME MaxSilence = Unbounded, NEW S \in SUBSET Observations,
         NEW p, NEW f, ClocksAreSane(S, p, f), f # NoTime,
         NEW J \in SUBSET S, NEW O, NEW Q, NEW flags, NEW held, NEW due, NEW count, NEW cur,
         QueueIsSound(O, Q, flags, held, due), BatchInv(J, O, Q, flags, count, cur, p),
         NEW mark, mark = Watermark(p, f),
         NEW closing, closing = Closing(O, Q, flags, mark),
         NEW gone, gone = Gone(O, Q, flags, due, mark),
         NEW cur1, VerdictsFollow(J, O, closing, gone, count, cur, cur1)
  PROVE  BatchInv(J, O \ gone, Q \ Popped(Q, mark), flags \ gone,
                  Remembered(O \ gone, count, mark), cur1, p)
<1> DEFINE P == O \ gone
           popped == Popped(Q, mark)
           leaving == Leaving(popped, due, flags)
           rest == Remembered(P, count, mark)
<1>1. /\ J \in SUBSET Joinable /\ J \in SUBSET Observations
      /\ O \in SUBSET J /\ Q \in SUBSET O /\ flags \in SUBSET O
      /\ \A x \in J \ Q : IsPassed(x, p)
      /\ \A x \in O \ flags, y \in flags : ~ Adjacent(x, y)
      /\ \A x \in O \ flags, y \in J \ O : ~ Adjacent(x, y)
      /\ \A x \in flags : IsTooLarge(Walk(J, {}, x))
      /\ \A x \in J \ O : IsSaidOf(J, O, x, cur[x].verdict)
      /\ Span > 0 => count \subseteq J /\ \A z \in J \ count : IsForgotten(z, O, p)
  BY BatchInvMeans
<1>2. mark \in Int
  BY WatermarkFacts
<1>3. Nest(O, Q, flags, due)
  BY DEF QueueIsSound, Nest
<1>4. ClosesWhole(O, Q, flags, mark, Ripe(O, Q, flags, mark), closing)
  BY <1>3, ClosingFacts
<1>5. IsClosed(O \ flags, closing)
  BY <1>4 DEF ClosesWhole
<1>6. /\ gone = closing \cup leaving /\ leaving \subseteq flags /\ closing \subseteq O \ flags
      /\ popped \subseteq Q
  BY <1>3, <1>5 DEF Gone, Leaving, Nest, IsClosed, Popped
<1>7. QueueIsSound(P, Q \ popped, flags \ gone, Held(held, popped, flags, gone), {})
  BY <1>2, SettleKeepsQueue
<1>8. Q \ popped \subseteq P /\ flags \ gone \subseteq P
  BY <1>7 DEF QueueIsSound
<1>9. ASSUME NEW x \in J \ (Q \ popped)
      PROVE  IsPassed(x, p)
  <2>1. CASE x \in popped
    <3>1. Past(x, mark) /\ x \in S
      BY <1>6, <2>1 DEF Popped
    <3>2. x.at \in Nat /\ Horizon \in Nat /\ f <= x.at /\ f \in Nat \cup {NoTime}
      BY <1>1, <1>9, <3>1, ObservationFacts, HorizonFacts DEF ClocksAreSane
    <3>3. x.at + Horizon \in Int /\ f <= x.at + Horizon
      BY <3>2 DEF NoTime
    <3>4. x.at + Horizon < Watermark(p, f)
      BY <3>1 DEF Past
    <3>5. IsBehind(x.at + Horizon, p)
      BY <3>3, <3>4, PassedIsBehind
    <3> QED
      BY <3>5 DEF IsPassed
  <2>2. CASE x \notin popped
    BY <1>1, <1>9, <2>2
  <2> QED
    BY <2>1, <2>2
<1>10. \A x \in P \ (flags \ gone) : x \in O \ flags /\ x \notin gone
  OBVIOUS
<1>11. ASSUME NEW x \in P \ (flags \ gone), NEW y \in J \ P
       PROVE  ~ Adjacent(x, y)
  <2>1. x \in O \ flags /\ x \notin closing
    BY <1>6, <1>10, <1>11
  <2>2. CASE y \in J \ O
    BY <1>1, <2>1, <2>2
  <2>3. CASE y \in leaving
    BY <1>1, <1>6, <2>1, <2>3
  <2>4. CASE y \in closing
    <3>1. Adjacent(y, x) => x \in closing
      BY <1>5, <2>1, <2>4 DEF IsClosed
    <3> QED
      BY <2>1, <3>1, AdjacentIsSymmetric
  <2> QED
    BY <1>6, <1>11, <2>2, <2>3, <2>4
<1>12. \A x \in J \ gone : cur1[x].verdict = cur[x].verdict
  BY DEF VerdictsFollow
<1>13. ASSUME NEW x \in J \ P
       PROVE  IsSaidOf(J, P, x, cur1[x].verdict)
  <2>1. CASE x \in J \ O
    <3>1. x \notin gone
      <4>1. gone \subseteq O
        BY <1>1, <1>6
      <4> QED
        BY <2>1, <4>1
    <3>2. cur1[x].verdict = cur[x].verdict
      BY <1>12, <2>1, <3>1
    <3>3. IsSaidOf(J, O, x, cur1[x].verdict)
      BY <1>1, <2>1, <3>2
    <3>4. P \in SUBSET O
      OBVIOUS
    <3> QED
      BY <3>3, <3>4, SaidStays
  <2>2. CASE x \in closing
    <3>1. PICK C : /\ IsComponent(J, C) /\ x \in C /\ C \subseteq closing
                   /\ Verdicts(closing, Within(Graph(O), closing), count)[x]
                        = Verdicts(C, Graph(C), J)[x]
      BY <1>3, <2>2, ClosingIsSaid
    <3>2. C \cap P = {}
      BY <1>6, <3>1
    <3>3. cur1[x].verdict = Verdicts(C, Graph(C), J)[x]
      BY <2>2, <3>1 DEF VerdictsFollow
    <3> QED
      BY <3>1, <3>2, <3>3 DEF IsSaidOf
  <2>3. CASE x \in leaving
    <3>1. x \in gone \ closing /\ x \in flags
      BY <1>6, <2>3
    <3>2. cur1[x].verdict = Undecided(OVERSIZED)
      BY <3>1 DEF VerdictsFollow
    <3>3. IsTooLarge(Walk(J, {}, x))
      BY <1>1, <3>1
    <3> QED
      BY <3>2, <3>3 DEF IsSaidOf
  <2> QED
    BY <1>6, <1>13, <2>1, <2>2, <2>3
<1>14. ASSUME Span > 0
       PROVE  rest \subseteq J /\ \A z \in J \ rest : IsForgotten(z, P, p)
  <2>1. /\ rest \subseteq count
        /\ \A z \in count \ rest :
              /\ ReferenceOf(z) + MaxDuration + Span < mark
              /\ \A x \in P : ReferenceOf(z) + MaxDuration + Span < x.at
    <3>1. P \in SUBSET Observations /\ count \in SUBSET Joinable
      BY <1>1, <1>14
    <3> HIDE DEF P
    <3> QED
      BY <1>2, <1>14, <3>1, RememberedFacts
  <2>2. ASSUME NEW z \in J \ count
        PROVE  IsForgotten(z, P, p)
    BY <1>1, <1>14, <2>2 DEF IsForgotten
  <2>3. ASSUME NEW z \in count \ rest, z \in J
        PROVE  IsForgotten(z, P, p)
    <3>1. ReferenceOf(z) \in Int /\ z.at - MaxDuration <= ReferenceOf(z)
      BY <1>1, <1>14, <2>3, ReferenceFacts
    <3>2. MaxDuration \in Nat /\ Span \in Nat /\ z.at \in Nat
      BY <1>1, <1>14, <2>3, SpanFacts, ObservationFacts
    <3>3. f <= z.at /\ f \in Nat \cup {NoTime}
      BY <2>3 DEF ClocksAreSane
    <3>4. /\ ReferenceOf(z) + MaxDuration + Span \in Int
          /\ f <= ReferenceOf(z) + MaxDuration + Span
      BY <3>1, <3>2, <3>3 DEF NoTime
    <3>5. IsBehind(ReferenceOf(z) + MaxDuration + Span, p)
      BY <2>1, <2>3, <3>4, PassedIsBehind
    <3> QED
      BY <2>1, <2>3, <3>5 DEF IsForgotten
  <2> QED
    BY <1>1, <1>14, <2>1, <2>2, <2>3
<1>15. \A x \in P \ (flags \ gone), y \in flags \ gone : ~ Adjacent(x, y)
  BY <1>1, <1>10
<1>16. \A x \in flags \ gone : IsTooLarge(Walk(J, {}, x))
  BY <1>1
<1>17. P \subseteq J
  BY <1>1
<1> HIDE DEF P, popped, rest
<1>18. BatchInv(J, P, Q \ popped, flags \ gone, rest, cur1, p)
  BY <1>1, <1>8, <1>9, <1>11, <1>13, <1>14, <1>15, <1>16, <1>17 DEF BatchInv
<1> QED
  BY <1>18 DEF P, popped, rest

-----------------------------------------------------------------------------
(* An observation on time keeps it *)

(* What is passed is not a candidate of what comes on time. *)
LEMMA OnTimeIsNotAdjacent ==
  ASSUME NEW S \in SUBSET Observations, NEW p, NEW f, ClocksAreSane(S, p, f),
         NEW o \in Observations, ~ IsUnder(p, f, o.at), NEW x \in S, IsPassed(x, p)
  PROVE  x.at + Horizon < o.at /\ ~ Adjacent(x, o) /\ ~ Adjacent(o, x)
<1>1. x.at \in Nat /\ o.at \in Nat /\ Horizon \in Nat
  BY ObservationFacts, HorizonFacts
<1>2. f # NoTime
  BY DEF ClocksAreSane
<1>3. x.at + Horizon \in Int /\ IsBehind(x.at + Horizon, p)
  BY <1>1 DEF IsPassed
<1>4. x.at + Horizon < o.at
  BY <1>1, <1>2, <1>3, OnTimeIsAfter
<1>5. Adjacent(x, o) => o.at <= x.at + Horizon
  BY AdjacentEndsNear
<1>6. ~ Adjacent(x, o)
  BY <1>1, <1>4, <1>5
<1> QED
  BY <1>4, <1>6, AdjacentIsSymmetric

LEMMA ForgottenStays ==
  ASSUME NEW S \in SUBSET Observations, NEW p, NEW f, ClocksAreSane(S, p, f),
         NEW s \in Sources, NEW until \in Nat, Span > 0,
         NEW z \in Joinable, NEW O, IsForgotten(z, O, p)
  PROVE  IsForgotten(z, O, Advanced(p, s, until))
<1>1. ReferenceOf(z) \in Int /\ MaxDuration \in Nat /\ Span \in Nat
  BY ReferenceFacts, SpanFacts
<1>2. ReferenceOf(z) + MaxDuration + Span \in Int
  BY <1>1
<1>3. IsBehind(ReferenceOf(z) + MaxDuration + Span, p)
  BY DEF IsForgotten
<1>4. IsBehind(ReferenceOf(z) + MaxDuration + Span, Advanced(p, s, until))
  BY <1>2, <1>3, BehindStays
<1> QED
  BY <1>4 DEF IsForgotten

(* The clocks may advance. *)
LEMMA AdvancedKeepsBatch ==
  ASSUME NEW S \in SUBSET Observations, NEW p, NEW f, ClocksAreSane(S, p, f),
         NEW s \in Sources, NEW until \in Nat, NEW J, NEW O, NEW Q, NEW flags, NEW count, NEW cur,
         BatchInv(J, O, Q, flags, count, cur, p)
  PROVE  BatchInv(J, O, Q, flags, count, cur, Advanced(p, s, until))
<1> DEFINE P == Advanced(p, s, until)
<1>1. /\ J \in SUBSET Joinable /\ J \in SUBSET Observations
      /\ \A x \in J \ Q : IsPassed(x, p)
      /\ Span > 0 => count \subseteq J /\ \A z \in J \ count : IsForgotten(z, O, p)
  BY BatchInvMeans
<1>2. ASSUME NEW x \in J \ Q
      PROVE  IsPassed(x, P)
  <2>1. x.at \in Nat /\ Horizon \in Nat
    BY <1>1, ObservationFacts, HorizonFacts
  <2>2. x.at + Horizon \in Int /\ IsBehind(x.at + Horizon, p)
    BY <1>1, <1>2, <2>1 DEF IsPassed
  <2>3. IsBehind(x.at + Horizon, P)
    BY <2>2, BehindStays
  <2> QED
    BY <2>3 DEF IsPassed
<1>3. ASSUME Span > 0, NEW z \in J \ count
      PROVE  IsForgotten(z, O, P)
  BY <1>1, <1>3, ForgottenStays
<1> HIDE DEF P
<1>4. BatchInv(J, O, Q, flags, count, cur, P)
  BY <1>1, <1>2, <1>3 DEF BatchInv
<1> QED
  BY <1>4 DEF P

(* What was said stays the batch's verdict when an observation comes that  *)
(* is on time.                                                             *)
LEMMA SaidStaysOnTime ==
  ASSUME NEW S \in SUBSET Observations, NEW p, NEW f, ClocksAreSane(S, p, f),
         NEW o \in Joinable, o \notin S, ~ IsUnder(p, f, o.at),
         NEW J \in SUBSET S, J \subseteq Joinable,
         NEW O, NEW x \in J \ O, \A y \in J \ O : IsPassed(y, p), NEW v, IsSaidOf(J, O, x, v)
  PROVE  IsSaidOf(J \cup {o}, O \cup {o}, x, v)
<1> DEFINE K == J \cup {o}
<1>0. /\ K \in SUBSET Observations /\ K \subseteq Joinable
      /\ J \subseteq K /\ x \in K /\ o \in Observations
  BY DEF Joinable
<1>1. CASE IsTooLarge(Walk(J, {}, x)) /\ v = Undecided(OVERSIZED)
  <2>1. J \ {} \subseteq K /\ x \in J \ {}
    OBVIOUS
  <2>2. Walk(J, {}, x) \subseteq Walk(K, {}, x)
    <3> HIDE DEF K
    <3> QED
      BY <2>1, WalkGrows
  <2>3. Walk(K, {}, x) \subseteq K
    <3> HIDE DEF K
    <3> QED
      BY <1>0, WalkIsWithin
  <2>4. IsTooLarge(Walk(K, {}, x))
    <3>1. Walk(K, {}, x) \in SUBSET Observations /\ Walk(J, {}, x) \in SUBSET Walk(K, {}, x)
      BY <1>0, <2>2, <2>3
    <3> HIDE DEF K
    <3> QED
      BY <1>1, <3>1, LargerIsTooLarge
  <2> QED
    BY <1>1, <2>4 DEF IsSaidOf
<1>2. ASSUME NEW C, IsComponent(J, C), x \in C, C \cap O = {}, v = Verdicts(C, Graph(C), J)[x]
      PROVE  IsSaidOf(J \cup {o}, O \cup {o}, x, v)
  <2>1. IsClosed(J, C) /\ C \subseteq J /\ \A z \in C : Walk(J, {}, z) = C
    BY <1>2 DEF IsComponent, IsClosed
  <2>2. ASSUME NEW z \in C
        PROVE  z.at + Horizon < o.at /\ ~ Adjacent(z, o)
    <3>1. z \in S /\ IsPassed(z, p)
      BY <1>2, <2>1
    <3> QED
      BY <1>0, <3>1, OnTimeIsNotAdjacent
  <2>3. IsClosed(K, C)
    BY <2>1, <2>2 DEF IsClosed
  <2>4. ASSUME NEW z \in C
        PROVE  Walk(K, {}, z) = C
    <3>1. J \ {} \subseteq K /\ z \in J \ {} /\ z \in K
      BY <2>1
    <3> HIDE DEF K
    <3>2. Walk(J, {}, z) \subseteq Walk(K, {}, z)
      BY <3>1, WalkGrows
    <3>3. Walk(K, {}, z) \subseteq C
      BY <2>3, <3>1, WalkIsWithin
    <3> QED
      BY <2>1, <3>2, <3>3
  <2>5. IsComponent(K, C)
    BY <2>3, <2>4 DEF IsComponent
  <2>6. C \cap (O \cup {o}) = {}
    BY <1>2, <2>1
  <2>7. SameCrowd(C, J, K)
    <3>1. C \in SUBSET Joinable
      BY <2>1
    <3>2. ASSUME Span > 0, NEW a \in C, NEW z \in K \ J
          PROVE  IsFar(a, z)
      <4>1. z = o /\ a \in Joinable /\ o \in Joinable
        BY <3>1, <3>2
      <4>2. ReferenceOf(a) \in Int /\ ReferenceOf(a) <= a.at
        BY <3>2, <4>1, ReferenceFacts
      <4>3. a.at \in Nat /\ o.at \in Nat
        BY <4>1, ObservationFacts DEF Joinable
      <4>4. MaxDuration \in Nat /\ Span \in Nat /\ Span + MaxDuration <= Horizon /\ Horizon \in Nat
        BY <3>2, SpanFacts, HorizonFacts
      <4>5. a.at + Horizon < o.at
        BY <2>2, <3>2
      <4>6. ReferenceOf(a) + MaxDuration + Span < o.at
        BY <4>2, <4>3, <4>4, <4>5
      <4>7. IsFar(o, a) /\ IsFar(a, o)
        BY <3>2, <4>1, <4>6, LaterIsFar
      <4> QED
        BY <4>1, <4>7
    <3>3. Span > 0 => J \subseteq K /\ K \subseteq Joinable /\ \A a \in C, z \in K \ J : IsFar(a, z)
      BY <1>0, <3>2
    <3> HIDE DEF K
    <3> QED
      BY <3>1, <3>3, FarIsNotCounted
  <2>8. Verdicts(C, Graph(C), J)[x] = Verdicts(C, Graph(C), K)[x]
    <3>1. C \in SUBSET Observations
      BY <1>0, <2>1
    <3>2. IsComponent(C, C)
      BY <1>2, ComponentAlone
    <3> HIDE DEF K
    <3> QED
      BY <1>2, <2>7, <3>1, <3>2, VerdictsAreLocal
  <2> QED
    BY <1>2, <2>5, <2>6, <2>8 DEF IsSaidOf
<1> QED
  BY <1>1, <1>2 DEF IsSaidOf

(* A component touches a flagged one over an edge. *)
LEMMA TouchesMeans ==
  ASSUME NEW O, NEW flags \in SUBSET O, NEW members \in SUBSET O, members \cap flags = {}
  PROVE  Touches(O, flags, members) <=> \E x \in members, y \in flags : Adjacent(x, y)
<1>1. Within(Graph(O), O) = Graph(O)
  BY WithinIsGraph
<1>2. /\ \A e \in DOMAIN Graph(O) : \E a \in O, b \in O : Ends(e) = {a, b} /\ a # b /\ Adjacent(a, b)
      /\ \A a \in O, b \in O : Adjacent(a, b) => \E e \in DOMAIN Graph(O) : Ends(e) = {a, b} /\ a # b
  <2>1. O \in SUBSET O
    OBVIOUS
  <2>2. /\ \A e \in DOMAIN Within(Graph(O), O) :
             \E a \in O, b \in O : Ends(e) = {a, b} /\ a # b /\ Adjacent(a, b)
        /\ \A a \in O, b \in O : Adjacent(a, b) =>
             \E e \in DOMAIN Within(Graph(O), O) : Ends(e) = {a, b} /\ a # b
    BY <2>1, EdgesWithin
  <2> QED
    BY <1>1, <2>2
<1>3. ASSUME Touches(O, flags, members)
      PROVE  \E x \in members, y \in flags : Adjacent(x, y)
  <2>1. PICK e \in DOMAIN Graph(O) : Ends(e) \cap members # {} /\ Ends(e) \cap flags # {}
    BY <1>3 DEF Touches
  <2>2. PICK a \in O, b \in O : Ends(e) = {a, b} /\ a # b /\ Adjacent(a, b)
    BY <1>2, <2>1
  <2>3. (a \in members /\ b \in flags) \/ (b \in members /\ a \in flags)
    BY <2>1, <2>2
  <2> QED
    BY <2>2, <2>3, AdjacentIsSymmetric
<1>4. ASSUME NEW x \in members, NEW y \in flags, Adjacent(x, y)
      PROVE  Touches(O, flags, members)
  <2>1. PICK e \in DOMAIN Graph(O) : Ends(e) = {x, y}
    BY <1>2, <1>4
  <2>2. Ends(e) \cap members # {} /\ Ends(e) \cap flags # {}
    BY <2>1
  <2> QED
    BY <2>1, <2>2 DEF Touches
<1> QED
  BY <1>3, <1>4

(* The flags an observation leaves: every one in a component too large. *)
LEMMA FlagsAreLarge ==
  ASSUME NEW J, NEW O \in SUBSET J, NEW flags \in SUBSET O, NEW o, o \notin O,
         J \cup {o} \subseteq Observations,
         \A x \in flags : IsTooLarge(Walk(J, {}, x)),
         NEW members, members = Walk(O \cup {o}, flags, o),
         NEW large, large = (Touches(O \cup {o}, flags, members) \/ IsTooLarge(members)),
         NEW x \in (IF large THEN flags \cup members ELSE flags)
  PROVE  IsTooLarge(Walk(J \cup {o}, {}, x))
<1> DEFINE K == J \cup {o}
           N == O \cup {o}
<1>0. o \in N \ flags /\ N \ flags \subseteq K /\ N \in SUBSET K /\ K \in SUBSET Observations
  OBVIOUS
<1>1. o \in members /\ IsClosed(N \ flags, members)
  BY <1>0, WalkFacts
<1>2. members \subseteq N \ flags
  BY <1>1 DEF IsClosed
<1>3. \A z \in K : Walk(K, {}, z) \in SUBSET Observations
  <2>1. \A z \in K : Walk(K, {}, z) \subseteq K
    <3> HIDE DEF K
    <3> QED
      BY WalkIsWithin
  <2> QED
    BY <1>0, <2>1
<1>4. ASSUME NEW z \in flags
      PROVE  IsTooLarge(Walk(K, {}, z))
  <2>1. z \in J \ {} /\ J \ {} \subseteq K /\ z \in K
    BY <1>4
  <2> HIDE DEF K
  <2>2. Walk(J, {}, z) \in SUBSET Walk(K, {}, z)
    BY <2>1, WalkGrows
  <2> QED
    BY <1>3, <1>4, <2>1, <2>2, LargerIsTooLarge
<1>5. ASSUME large, NEW z \in members
      PROVE  IsTooLarge(Walk(K, {}, z))
  <2>1. z \in N \ flags /\ z \in K
    BY <1>0, <1>2, <1>5
  <2>2. Walk(N, flags, z) = members
    <3>1. members = Walk(N, flags, o)
      OBVIOUS
    <3> HIDE DEF N
    <3> QED
      BY <1>0, <1>5, <3>1, WalksAgree
  <2> HIDE DEF K, N
  <2>3. members \in SUBSET Walk(K, {}, z)
    BY <1>0, <2>1, <2>2, WalkGrows
  <2>4. CASE IsTooLarge(members)
    BY <1>3, <2>1, <2>3, <2>4, LargerIsTooLarge
  <2>5. CASE Touches(N, flags, members)
    <3>1. flags \in SUBSET N /\ members \in SUBSET N /\ members \cap flags = {}
      BY <1>2 DEF N
    <3>2. PICK m \in members, y \in flags : Adjacent(m, y)
      BY <2>5, <3>1, TouchesMeans
    <3>3. m \in Walk(K, {}, z) /\ IsClosed(K, Walk(K, {}, z))
      BY <2>1, <2>3, WalkIsWithin
    <3>4. y \in K
      BY <1>0, <3>1
    <3>5. y \in Walk(K, {}, z)
      BY <3>2, <3>3, <3>4 DEF IsClosed
    <3>6. Walk(K, {}, y) = Walk(K, {}, z)
      BY <2>1, <3>5, WalkIsWithin
    <3> QED
      BY <1>4, <3>6
  <2> QED
    BY <1>5, <2>4, <2>5 DEF N
<1> QED
  BY <1>4, <1>5 DEF K

(* What an observation makes of the flags and of the neighbours counted. *)
FlagsAfter(O, flags, o) ==
  LET members == Walk(O \cup {o}, flags, o)
  IN  IF Touches(O \cup {o}, flags, members) \/ IsTooLarge(members) THEN flags \cup members ELSE flags

CountAfter(count, o) == IF Span > 0 THEN count \cup {o} ELSE count

(* The first half of an entry that adds an observation. *)
LEMMA AddKeepsBatch ==
  ASSUME NEW S \in SUBSET Observations, NEW p, NEW f, ClocksAreSane(S, p, f),
         NEW J \in SUBSET S, NEW o \in Joinable, o \notin S, ~ IsUnder(p, f, o.at),
         NEW O, NEW Q, NEW flags, NEW count, NEW cur, BatchInv(J, O, Q, flags, count, cur, p),
         NEW cur1, \A x \in J \ O : cur1[x].verdict = cur[x].verdict
  PROVE  BatchInv(J \cup {o}, O \cup {o}, Q \cup {o}, FlagsAfter(O, flags, o),
                  CountAfter(count, o), cur1, p)
<1> DEFINE K == J \cup {o}
           N == O \cup {o}
           members == Walk(N, flags, o)
           large == Touches(N, flags, members) \/ IsTooLarge(members)
           flags1 == IF large THEN flags \cup members ELSE flags
           count1 == IF Span > 0 THEN count \cup {o} ELSE count
<1>0. FlagsAfter(O, flags, o) = flags1 /\ CountAfter(count, o) = count1
  BY DEF FlagsAfter, CountAfter
<1>1. /\ J \in SUBSET Joinable /\ J \in SUBSET Observations
      /\ O \in SUBSET J /\ Q \in SUBSET O /\ flags \in SUBSET O
      /\ \A x \in J \ Q : IsPassed(x, p)
      /\ \A x \in O \ flags, y \in flags : ~ Adjacent(x, y)
      /\ \A x \in O \ flags, y \in J \ O : ~ Adjacent(x, y)
      /\ \A x \in flags : IsTooLarge(Walk(J, {}, x))
      /\ \A x \in J \ O : IsSaidOf(J, O, x, cur[x].verdict)
      /\ Span > 0 => count \subseteq J /\ \A z \in J \ count : IsForgotten(z, O, p)
  BY BatchInvMeans
<1>2. /\ o \in Observations /\ o \notin J /\ o \notin O
      /\ K \in SUBSET Observations /\ K \subseteq Joinable
  BY <1>1 DEF Joinable
<1>3. o \in members /\ IsClosed(N \ flags, members) /\ members \subseteq N \ flags
  <2>1. o \in N \ flags
    BY <1>1, <1>2
  <2>2. o \in members /\ IsClosed(N \ flags, members)
    BY <2>1, WalkFacts
  <2> QED
    BY <2>2 DEF IsClosed
<1>4. large \in BOOLEAN
  BY DEF Touches, IsTooLarge
<1>40. /\ members = Walk(O \cup {o}, flags, o)
       /\ large = (Touches(O \cup {o}, flags, members) \/ IsTooLarge(members))
       /\ flags1 = (IF large THEN flags \cup members ELSE flags)
  OBVIOUS
<1> HIDE DEF members, large, flags1
<1>5. flags1 \subseteq N /\ flags \subseteq flags1 /\ (large => flags1 = flags \cup members)
      /\ (~ large => flags1 = flags)
  BY <1>1, <1>3, <1>4, <1>40
<1>6. Touches(N, flags, members) <=> \E x \in members, y \in flags : Adjacent(x, y)
  <2>1. flags \in SUBSET N /\ members \in SUBSET N /\ members \cap flags = {}
    BY <1>1, <1>3
  <2> HIDE DEF N
  <2> QED
    BY <2>1, TouchesMeans
<1>7. ASSUME NEW x \in N \ flags1, NEW y \in flags1
      PROVE  ~ Adjacent(x, y)
  <2>1. CASE y \in flags
    <3>1. CASE x \in O
      BY <1>1, <1>5, <1>7, <2>1, <3>1
    <3>2. CASE x = o
      <4>1. ~ large
        BY <1>3, <1>5, <1>7, <3>2
      <4>2. ~ Touches(N, flags, members)
        BY <4>1 DEF large
      <4> QED
        BY <1>3, <1>6, <2>1, <3>2, <4>2
    <3> QED
      BY <1>7, <3>1, <3>2
  <2>2. CASE y \in members /\ large
    <3>1. x \in N \ flags /\ x \notin members
      BY <1>5, <1>7, <2>2
    <3>2. ~ Adjacent(y, x)
      BY <1>3, <2>2, <3>1 DEF IsClosed
    <3> QED
      BY <3>2, AdjacentIsSymmetric
  <2> QED
    BY <1>5, <1>7, <2>1, <2>2
<1>8. K \ N = J \ O
  BY <1>2
<1>9. ASSUME NEW x \in N \ flags1, NEW y \in J \ O
      PROVE  ~ Adjacent(x, y)
  <2>1. CASE x \in O
    BY <1>1, <1>5, <1>9, <2>1
  <2>2. CASE x = o
    <3>1. y \in S /\ IsPassed(y, p)
      BY <1>1, <1>9
    <3> QED
      BY <1>2, <2>2, <3>1, OnTimeIsNotAdjacent
  <2> QED
    BY <1>9, <2>1, <2>2
<1>10. ASSUME NEW x \in flags1
       PROVE  IsTooLarge(Walk(K, {}, x))
  <2>1. x \in (IF large THEN flags \cup members ELSE flags)
    BY <1>10, <1>40
  <2>2. J \cup {o} \subseteq Observations /\ \A z \in flags : IsTooLarge(Walk(J, {}, z))
    BY <1>1, <1>2
  <2>3. O \in SUBSET J /\ flags \in SUBSET O /\ o \notin O
    BY <1>1, <1>2
  <2>4. IsTooLarge(Walk(J \cup {o}, {}, x))
    BY <1>40, <2>1, <2>2, <2>3, FlagsAreLarge
  <2> QED
    BY <2>4
<1>11. ASSUME NEW x \in J \ O
       PROVE  IsSaidOf(K, N, x, cur1[x].verdict)
  <2>1. IsSaidOf(J, O, x, cur1[x].verdict)
    BY <1>1, <1>11
  <2>2. \A y \in J \ O : IsPassed(y, p)
    BY <1>1
  <2> QED
    BY <1>1, <1>11, <2>1, <2>2, SaidStaysOnTime
<1>12. ASSUME Span > 0
       PROVE  count1 \subseteq K /\ \A z \in K \ count1 : IsForgotten(z, N, p)
  <2>1. count1 = count \cup {o} /\ count \subseteq J
    BY <1>1, <1>12
  <2>2. ASSUME NEW z \in K \ count1
        PROVE  IsForgotten(z, N, p)
    <3>1. z \in J \ count /\ z \in Joinable /\ z \in S
      BY <1>1, <2>1, <2>2
    <3>2. IsForgotten(z, O, p)
      BY <1>1, <1>12, <3>1
    <3>3. ReferenceOf(z) \in Int /\ MaxDuration \in Nat /\ Span \in Nat
      BY <1>12, <3>1, ReferenceFacts, SpanFacts
    <3>4. ReferenceOf(z) + MaxDuration + Span \in Int
      BY <3>3
    <3>5. IsBehind(ReferenceOf(z) + MaxDuration + Span, p)
      BY <3>2 DEF IsForgotten
    <3>6. f # NoTime /\ o.at \in Nat
      BY <1>2, <3>1, ObservationFacts DEF ClocksAreSane
    <3>7. ReferenceOf(z) + MaxDuration + Span < o.at
      BY <3>4, <3>5, <3>6, OnTimeIsAfter
    <3> QED
      BY <3>2, <3>7 DEF IsForgotten
  <2> QED
    BY <2>1, <2>2
<1>13. N \subseteq K /\ Q \cup {o} \subseteq N
  BY <1>1
<1>14. \A x \in K \ (Q \cup {o}) : IsPassed(x, p)
  BY <1>1
<1>15. \A x \in K \ N : IsSaidOf(K, N, x, cur1[x].verdict)
  BY <1>8, <1>11
<1>16. \A x \in N \ flags1, y \in K \ N : ~ Adjacent(x, y)
  BY <1>8, <1>9
<1> HIDE DEF K, N, count1
<1>17. BatchInv(K, N, Q \cup {o}, flags1, count1, cur1, p)
  BY <1>2, <1>5, <1>7, <1>10, <1>12, <1>13, <1>14, <1>15, <1>16 DEF BatchInv
<1> QED
  BY <1>0, <1>17 DEF K, N

-----------------------------------------------------------------------------
(* The verdicts are the batch's *)

(* Only what was said of those that left matters. *)
LEMMA SaidMatters ==
  ASSUME NEW J, NEW O, NEW Q, NEW flags, NEW count, NEW cur, NEW p,
         BatchInv(J, O, Q, flags, count, cur, p),
         NEW cur1, \A x \in J \ O : cur1[x].verdict = cur[x].verdict
  PROVE  BatchInv(J, O, Q, flags, count, cur1, p)
BY DEF BatchInv

(* Settling tells nothing late, and what leaves was not. *)
LEMMA SettleKeepsJoined ==
  ASSUME NEW S, NEW cur, DOMAIN cur = S, NEW gone, gone \subseteq JoinedIn(S, cur),
         NEW closing, NEW finality, NEW cur1, AreSettled(cur, gone, closing, finality, cur1)
  PROVE  JoinedIn(S, cur1) = JoinedIn(S, cur)
<1>1. ASSUME NEW x \in S
      PROVE  ToldIn(cur1, x) <=> ToldIn(cur, x)
  <2>1. CASE x \in gone
    <3>1. ~ ToldIn(cur, x)
      BY <2>1 DEF JoinedIn
    <3>2. cur1[x].verdict.reason # LATE
      BY <2>1 DEF AreSettled
    <3> QED
      BY <3>1, <3>2 DEF ToldIn
  <2>2. CASE x \notin gone
    BY <2>2 DEF AreSettled, ToldIn
  <2> QED
    BY <2>1, <2>2
<1> QED
  BY <1>1 DEF JoinedIn

BatchHolds ==
  MaxSilence = Unbounded =>
    BatchInv(JoinedIn(seen, current), open, heap, flagged, counted, current, progress)

(* The second half of an entry. *)
LEMMA SettleHolds ==
  ASSUME MaxSilence = Unbounded,
         NEW S, NEW O, NEW Q, NEW flags, NEW held, NEW due, NEW count, NEW cur, NEW D, NEW p, NEW f,
         TimedInv(S, O, Q, flags, held, due, cur, D, p, f), f # NoTime, seen' = S,
         SettlesTo(p, f, O, Q, flags, held, due, cur, D),
         SettlesAlso(p, f, O, Q, flags, due, count, cur),
         BatchInv(JoinedIn(S, cur), O, Q, flags, count, cur, p)
  PROVE  BatchHolds'
<1> DEFINE J == JoinedIn(S, cur)
           mark == Watermark(p, f)
           popped == Popped(Q, mark)
           closing == Closing(O, Q, flags, mark)
           gone == Gone(O, Q, flags, due, mark)
<1>1. /\ S \in SUBSET Observations /\ DOMAIN cur = S
      /\ QueueIsSound(O, Q, flags, held, due)
      /\ ClocksAreSane(S, p, f)
  BY DEF TimedInv
<1>2. /\ progress' = p
      /\ open' = O \ gone /\ heap' = Q \ popped /\ flagged' = flags \ gone
      /\ AreSettled(cur, gone, closing, Finality(p, f), current')
  BY DEF SettlesTo
<1>3. /\ counted' = Remembered(O \ gone, count, mark)
      /\ \A x \in DOMAIN cur \cap closing :
           current'[x].verdict = Verdicts(closing, Within(Graph(O), closing), count)[x]
  BY DEF SettlesAlso
<1>4. J \in SUBSET S /\ O \in SUBSET J
  BY BatchInvMeans DEF JoinedIn
<1>5. closing \subseteq gone /\ gone \subseteq O
  <2>1. Nest(O, Q, flags, due)
    BY <1>1 DEF QueueIsSound, Nest
  <2>2. ClosesWhole(O, Q, flags, mark, Ripe(O, Q, flags, mark), closing)
    BY <2>1, ClosingFacts
  <2>3. closing \subseteq O
    BY <2>2 DEF ClosesWhole, IsClosed
  <2> QED
    BY <2>1, <2>3 DEF Gone, Leaving, Nest, Popped
<1>6. JoinedIn(S, current') = J
  <2>1. gone \subseteq JoinedIn(S, cur)
    BY <1>4, <1>5
  <2> HIDE DEF gone, closing
  <2> QED
    BY <1>1, <1>2, <2>1, SettleKeepsJoined
<1>7. VerdictsFollow(J, O, closing, gone, count, cur, current')
  <2> HIDE DEF J, gone, closing
  <2>1. \A x \in J \ gone : current'[x].verdict = cur[x].verdict
    BY <1>1, <1>2, <1>4 DEF AreSettled
  <2>2. \A x \in closing :
          current'[x].verdict = Verdicts(closing, Within(Graph(O), closing), count)[x]
    BY <1>1, <1>3, <1>4, <1>5
  <2>3. \A x \in gone \ closing : current'[x].verdict = Undecided(OVERSIZED)
    BY <1>1, <1>2, <1>4, <1>5 DEF AreSettled
  <2> QED
    BY <2>1, <2>2, <2>3 DEF VerdictsFollow
<1>8. mark = Watermark(p, f) /\ closing = Closing(O, Q, flags, mark)
      /\ gone = Gone(O, Q, flags, due, mark) /\ BatchInv(J, O, Q, flags, count, cur, p)
  OBVIOUS
<1> HIDE DEF J, mark, closing, gone
<1>9. BatchInv(J, O \ gone, Q \ popped, flags \ gone, Remembered(O \ gone, count, mark), current', p)
  BY <1>1, <1>4, <1>7, <1>8, SettleKeepsBatch
<1>10. BatchInv(JoinedIn(seen', current'), open', heap', flagged', counted', current', progress')
  BY <1>2, <1>3, <1>6, <1>9
<1> QED
  BY <1>10 DEF BatchHolds

(* One that is told late, or outside the join, is not of it. *)
LEMMA OutsideIsNotJoined ==
  ASSUME NEW S, NEW cur, NEW o, o \notin S, NEW cur1, \A x \in S : cur1[x] = cur[x],
         ToldIn(cur1, o) \/ IsOutside(o)
  PROVE  JoinedIn(S \cup {o}, cur1) = JoinedIn(S, cur)
<1>1. \A x \in S : ToldIn(cur1, x) <=> ToldIn(cur, x)
  BY DEF ToldIn
<1> QED
  BY <1>1 DEF JoinedIn

LEMMA TellHolds ==
  ASSUME Inv, BatchHolds, NEW o \in Observations, o \notin seen, seen' = seen \cup {o}, Tell(o)
  PROVE  BatchHolds'
<1> SUFFICES ASSUME MaxSilence = Unbounded
             PROVE  BatchHolds'
  BY DEF BatchHolds
<1> DEFINE J == JoinedIn(seen, current)
<1>1. seen \in SUBSET Observations /\ DOMAIN current = seen /\ ClocksAreSane(seen, progress, first_at)
  BY InvMeans
<1>2. /\ progress' = Advanced(progress, o.source, o.at)
      /\ current' = With(o, Undecided(LATE), FINAL)
      /\ UNCHANGED <<open, heap, flagged, counted>>
  BY DEF Tell
<1>3. (\A x \in seen : current'[x] = current[x]) /\ current'[o].verdict = Undecided(LATE)
  <2>1. IsWith(With(o, Undecided(LATE), FINAL), o, Undecided(LATE), FINAL)
    BY <1>1, WithFacts
  <2> QED
    BY <1>2, <2>1 DEF IsWith
<1>4. ToldIn(current', o)
  BY <1>3 DEF ToldIn, Undecided, Verdict
<1>5. JoinedIn(seen \cup {o}, current') = J
  BY <1>3, <1>4, OutsideIsNotJoined
<1>6. BatchInv(J, open, heap, flagged, counted, current, progress)
  BY DEF BatchHolds
<1>7. \A x \in J \ open : current'[x].verdict = current[x].verdict
  BY <1>3 DEF JoinedIn
<1> HIDE DEF J
<1>8. BatchInv(J, open, heap, flagged, counted, current', progress)
  BY <1>6, <1>7, SaidMatters
<1>9. o.source \in Sources /\ o.at \in Nat
  BY ObservationFacts
<1>10. BatchInv(J, open, heap, flagged, counted, current', Advanced(progress, o.source, o.at))
  BY <1>1, <1>8, <1>9, AdvancedKeepsBatch
<1>11. BatchInv(JoinedIn(seen', current'), open', heap', flagged', counted', current', progress')
  BY <1>2, <1>5, <1>10
<1> QED
  BY <1>11 DEF BatchHolds

LEMMA ExcludeHolds ==
  ASSUME Inv, BatchHolds, NEW o \in Observations, o \notin seen, seen' = seen \cup {o}, Exclude(o)
  PROVE  BatchHolds'
<1> SUFFICES ASSUME MaxSilence = Unbounded
             PROVE  BatchHolds'
  BY DEF BatchHolds
<1> DEFINE J == JoinedIn(seen, current)
           P == Advanced(progress, o.source, o.at)
           F == FirstAt(first_at, o.at)
           reason == IF o.start = NoStart THEN TIME_ABSENT ELSE TOO_LONG
           cur == With(o, Undecided(reason), FINAL)
           D == proofs \cup {Proof({o}, FINAL)}
<1>1. /\ seen \in SUBSET Observations /\ open \in SUBSET seen /\ DOMAIN current = seen
      /\ QueueIsSound(open, heap, flagged, past, {})
      /\ ProofsShareOut(seen, open, current, proofs)
      /\ ClocksAreSane(seen, progress, first_at)
  BY InvMeans
<1>2. IsOutside(o) /\ Settle(P, F, open, heap, flagged, past, {}, counted, cur, D)
  BY DEF Exclude
<1>3. /\ SettlesTo(P, F, open, heap, flagged, past, {}, cur, D)
      /\ SettlesAlso(P, F, open, heap, flagged, {}, counted, cur)
  <2> HIDE DEF P, F, cur, D
  <2> QED
    BY <1>2, SettleMeans, SettleAlso
<1>4. ClocksAreSane(seen \cup {o}, P, F) /\ F # NoTime
  BY ClocksAfter
<1>5. /\ DOMAIN cur = seen \cup {o}
      /\ \A x \in seen : cur[x] = current[x]
      /\ cur[o].verdict = Undecided(reason) /\ cur[o].status = FINAL
  <2>1. IsWith(cur, o, Undecided(reason), FINAL)
    BY <1>1, WithFacts
  <2> QED
    BY <2>1 DEF IsWith
<1>6. ~ ToldIn(cur, o)
  <2>1. Undecided(reason).reason = reason
    BY DEF Undecided, Verdict
  <2> HIDE DEF cur
  <2> QED
    BY <1>5, <2>1 DEF ToldIn, TIME_ABSENT, TOO_LONG, LATE
<1>7. o.source \in Sources /\ o.at \in Nat
  BY ObservationFacts
<1>8. BatchInv(J, open, heap, flagged, counted, current, P)
  BY <1>1, <1>7, AdvancedKeepsBatch DEF BatchHolds
<1> HIDE DEF P, F, cur, reason
<1>9. TimedInv(seen \cup {o}, open, heap, flagged, past, {}, cur, D, P, F)
  <2>1. ProofsShareOut(seen \cup {o}, open, cur, D)
    BY <1>1, <1>5, <1>6, TellingShares
  <2>2. seen \cup {o} \subseteq Observations /\ open \subseteq seen \cup {o}
    BY <1>1
  <2> QED
    BY <1>1, <1>4, <1>5, <2>1, <2>2 DEF TimedInv
<1>10. JoinedIn(seen \cup {o}, cur) = J
  BY <1>2, <1>5, OutsideIsNotJoined
<1>11. \A x \in J \ open : cur[x].verdict = current[x].verdict
  BY <1>5 DEF JoinedIn
<1> HIDE DEF J, D
<1>12. BatchInv(JoinedIn(seen \cup {o}, cur), open, heap, flagged, counted, cur, P)
  BY <1>8, <1>10, <1>11, SaidMatters
<1> QED
  BY <1>3, <1>4, <1>9, <1>12, SettleHolds

LEMMA AdvanceHolds ==
  ASSUME Inv, BatchHolds, NEW s \in Sources, NEW until \in Untils, Advance(s, until)
  PROVE  BatchHolds'
<1> SUFFICES ASSUME MaxSilence = Unbounded
             PROVE  BatchHolds'
  BY DEF BatchHolds
<1> DEFINE P == Advanced(progress, s, until)
           F == FirstAt(first_at, until)
<1>1. until \in Nat
  BY SMT, TimedFlowAssumption
<1>2. seen \in SUBSET Observations /\ ClocksAreSane(seen, progress, first_at)
  BY InvMeans
<1>3. ClocksAreSane(seen, P, F) /\ F # NoTime
  BY <1>1, <1>2, ClocksAdvance
<1>4. Settle(P, F, open, heap, flagged, past, {}, counted, current, proofs) /\ seen' = seen
  BY DEF Advance
<1>5. BatchInv(JoinedIn(seen, current), open, heap, flagged, counted, current, P)
  BY <1>1, <1>2, AdvancedKeepsBatch DEF BatchHolds
<1> HIDE DEF P, F
<1>6. /\ SettlesTo(P, F, open, heap, flagged, past, {}, current, proofs)
      /\ SettlesAlso(P, F, open, heap, flagged, {}, counted, current)
  BY <1>4, SettleMeans, SettleAlso
<1>7. TimedInv(seen, open, heap, flagged, past, {}, current, proofs, P, F)
  BY <1>3 DEF Inv, TimedInv
<1> QED
  BY <1>3, <1>4, <1>5, <1>6, <1>7, SettleHolds

LEMMA AddHolds ==
  ASSUME Inv, BatchHolds, NEW o \in Observations, o \notin seen, seen' = seen \cup {o}, Add(o)
  PROVE  BatchHolds'
<1> SUFFICES ASSUME MaxSilence = Unbounded
             PROVE  BatchHolds'
  BY DEF BatchHolds
<1> DEFINE J == JoinedIn(seen, current)
           P == Advanced(progress, o.source, o.at)
           F == FirstAt(first_at, o.at)
<1>1. /\ seen \in SUBSET Observations /\ DOMAIN current = seen
      /\ ClocksAreSane(seen, progress, first_at)
  BY InvMeans
<1>2. o \in Members(o) /\ IsClosed((open \cup {o}) \ flagged, Members(o))
  BY JoinsItsMembers
<1>3. PICK cur : /\ IsEntered(cur, o)
                 /\ SettlesTo(P, F, open \cup {o}, heap \cup {o}, Flags(o), past, Due(o), cur, proofs)
                 /\ SettlesAlso(P, F, open \cup {o}, heap \cup {o}, Flags(o), Due(o), Count(o), cur)
  BY <1>1, <1>2, AddMeans
<1>4. ~ IsUnder(progress, first_at, o.at) /\ ~ IsOutside(o)
  BY DEF Add
<1>5. F # NoTime /\ ClocksAreSane(seen \cup {o}, P, F)
  BY ClocksAfter
<1>6. TimedInv(seen \cup {o}, open \cup {o}, heap \cup {o}, Flags(o), past, Due(o), cur, proofs, P, F)
  BY <1>3, AddPrepares
<1>7. BatchInv(J, open, heap, flagged, counted, current, progress)
  BY DEF BatchHolds
<1>8. J \in SUBSET seen /\ open \in SUBSET J /\ Members(o) \subseteq open \cup {o}
  BY <1>2, <1>7, BatchInvMeans DEF JoinedIn, IsClosed
<1>9. \A x \in J \ open : cur[x].verdict = current[x].verdict
  BY <1>3, <1>8 DEF IsEntered
<1>10. JoinedIn(seen \cup {o}, cur) = J \cup {o}
  <2>1. ASSUME NEW x \in seen
        PROVE  ToldIn(cur, x) <=> ToldIn(current, x)
    <3>1. CASE x \in Members(o)
      <4>1. ~ ToldIn(current, x)
        BY <1>8, <2>1, <3>1 DEF JoinedIn
      <4>2. cur[x].verdict.reason # LATE
        BY <1>3, <2>1, <3>1 DEF IsEntered
      <4> QED
        BY <4>1, <4>2 DEF ToldIn
    <3>2. CASE x \notin Members(o)
      BY <1>3, <2>1, <3>2 DEF IsEntered, ToldIn
    <3> QED
      BY <3>1, <3>2
  <2>2. ~ ToldIn(cur, o)
    BY <1>2, <1>3 DEF IsEntered, ToldIn
  <2> QED
    BY <1>4, <2>1, <2>2 DEF JoinedIn
<1>11. o \in Joinable /\ o.source \in Sources /\ o.at \in Nat
  BY <1>4, ObservationFacts DEF Joinable
<1>12. Flags(o) = FlagsAfter(open, flagged, o) /\ Count(o) = CountAfter(counted, o)
  BY DEF Flags, IsLarge, Members, Count, FlagsAfter, CountAfter
<1> HIDE DEF J
<1>13. BatchInv(J \cup {o}, open \cup {o}, heap \cup {o}, Flags(o), Count(o), cur, progress)
  <2>1. BatchInv(J \cup {o}, open \cup {o}, heap \cup {o}, FlagsAfter(open, flagged, o),
                 CountAfter(counted, o), cur, progress)
    BY <1>1, <1>4, <1>7, <1>8, <1>9, <1>11, AddKeepsBatch
  <2> QED
    BY <1>12, <2>1
<1>14. BatchInv(J \cup {o}, open \cup {o}, heap \cup {o}, Flags(o), Count(o), cur, P)
  BY <1>1, <1>11, <1>13, AdvancedKeepsBatch
<1> HIDE DEF P, F
<1>15. BatchInv(JoinedIn(seen \cup {o}, cur), open \cup {o}, heap \cup {o}, Flags(o), Count(o),
                cur, P)
  BY <1>10, <1>14
<1> QED
  BY <1>3, <1>5, <1>6, <1>15, SettleHolds

LEMMA InitHolds == Init => BatchHolds
<1> SUFFICES ASSUME Init
             PROVE  BatchHolds
  OBVIOUS
<1>1. seen = {} /\ open = {} /\ heap = {} /\ flagged = {} /\ counted = {}
  BY DEF Init
<1>2. JoinedIn(seen, current) = {}
  BY <1>1 DEF JoinedIn
<1>3. BatchInv({}, open, heap, flagged, counted, current, progress)
  BY <1>1 DEF BatchInv
<1> QED
  BY <1>2, <1>3 DEF BatchHolds

LEMMA NextHolds ==
  ASSUME Inv, BatchHolds, [Next]_vars
  PROVE  BatchHolds'
<1>1. CASE UNCHANGED vars
  BY <1>1 DEF vars, BatchHolds
<1>2. ASSUME NEW o \in Observations, Seen(o)
      PROVE  BatchHolds'
  <2>1. o \notin seen /\ seen' = seen \cup {o} /\ (Tell(o) \/ Exclude(o) \/ Add(o))
    BY <1>2 DEF Seen
  <2> QED
    BY <2>1, TellHolds, ExcludeHolds, AddHolds
<1>3. ASSUME NEW s \in Sources, NEW until \in Untils, Advance(s, until)
      PROVE  BatchHolds'
  BY <1>3, AdvanceHolds
<1> QED
  BY <1>1, <1>2, <1>3 DEF Next

LEMMA SaidIsTheBatchs ==
  ASSUME Inv, BatchHolds
  PROVE  FinalsAgreeWithBatch
<1> DEFINE J == JoinedIn(seen, current)
<1>1. Joined = J
  BY DEF Joined, JoinedIn, Told, ToldIn
<1>2. ASSUME MaxSilence = Unbounded, NEW o \in J, current[o].status = FINAL
      PROVE  current[o].verdict = Batch(J)[o]
  <2>1. BatchInv(J, open, heap, flagged, counted, current, progress)
    BY <1>2 DEF BatchHolds
  <2>2. \A x \in open : current[x].status = PROVISIONAL
    BY InvMeans DEF ProofsShareOut
  <2>3. o \in J \ open
    BY <1>2, <2>2 DEF FINAL, PROVISIONAL
  <2> HIDE DEF J
  <2>4. J \in SUBSET Observations /\ IsSaidOf(J, open, o, current[o].verdict)
    BY <2>1, <2>3, BatchInvMeans
  <2>5. Batch(J) = Verdicts(J, Graph(J), J)
    BY DEF Batch
  <2>6. CASE IsTooLarge(Walk(J, {}, o)) /\ current[o].verdict = Undecided(OVERSIZED)
    BY <2>3, <2>4, <2>5, <2>6, LargeIsOversized
  <2>7. ASSUME NEW C, IsComponent(J, C), o \in C, current[o].verdict = Verdicts(C, Graph(C), J)[o]
        PROVE  current[o].verdict = Batch(J)[o]
    <3>1. SameCrowd(C, J, J)
      BY DEF SameCrowd
    <3>2. Verdicts(J, Graph(J), J)[o] = Verdicts(C, Graph(C), J)[o]
      BY <2>4, <2>7, <3>1, VerdictsAreLocal
    <3> QED
      BY <2>5, <2>7, <3>2
  <2> QED
    BY <2>4, <2>6, <2>7 DEF IsSaidOf
<1> HIDE DEF J
<1> QED
  BY <1>1, <1>2 DEF FinalsAgreeWithBatch

(* While no source may be left out, the flow decides a timed hop as the    *)
(* batch does (timing.py, timed_links): whatever the order of the entries, *)
(* a final verdict is the one on everything delivered on time, so far and  *)
(* later.                                                                  *)
THEOREM TimedFinalsAreTheBatchs == Spec => []FinalsAgreeWithBatch
<1>1. Init => Inv /\ BatchHolds
  BY InitInv, InitHolds
<1>2. Inv /\ BatchHolds /\ [Next]_vars => (Inv /\ BatchHolds)'
  BY NextInv, NextHolds
<1>3. Inv /\ BatchHolds => FinalsAgreeWithBatch
  BY SaidIsTheBatchs
<1> QED
  BY <1>1, <1>2, <1>3, PTL DEF Spec
=============================================================================
