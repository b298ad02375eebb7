------------------------------- MODULE Matching ------------------------------
(***************************************************************************)
(* What the assignment (correlation/assignment.py) promises: each record   *)
(* of a weighted bipartite graph is decided only if its partner, or its    *)
(* having none, is the same in every matching within the margin of the     *)
(* best one.                                                               *)
(*                                                                         *)
(* A graph is a function from edges <<left, right>> to weights; lefts and  *)
(* rights are disjoint sets of records.                                    *)
(***************************************************************************)
EXTENDS Integers, FiniteSets, FiniteSetsExt

None == "None"

MATCHED == "MATCHED"
UNMATCHED == "UNMATCHED"
AMBIGUOUS == "AMBIGUOUS"
OVERSIZED == "OVERSIZED"
NO_CANDIDATE == "NO_CANDIDATE"

MAX_WEIGHT == 10^9

Decision(status, partner) == [status |-> status, partner |-> partner]

Ends(e) == {e[1], e[2]}

(* The records joined to x by edges. *)
Neighbours(graph, x) == (UNION {Ends(e) : e \in {e \in DOMAIN graph : x \in Ends(e)}}) \ {x}

(* Those a set reaches in one more step, and the component of x. *)
Reached(graph, S) == S \cup UNION {Neighbours(graph, y) : y \in S}

ComponentOf(graph, x) ==
  LET R == (UNION {Ends(e) : e \in DOMAIN graph}) \cup {x}
  IN  CHOOSE S \in SUBSET R :
        /\ x \in S /\ Reached(graph, S) = S
        /\ \A T \in SUBSET S : x \in T /\ Reached(graph, T) = T => T = S

(* The larger side of a set of records. *)
Widest(graph, C) ==
  LET lefts == {x \in C : \E e \in DOMAIN graph : e[1] = x}
      n == Cardinality(lefts)
      m == Cardinality(C) - n
  IN  IF n > m THEN n ELSE m

Matchings(graph) ==
  {M \in SUBSET DOMAIN graph : \A e, f \in M : e # f => Ends(e) \cap Ends(f) = {}}

Total(graph, M) == MapThenSumSet(LAMBDA e : graph[e], M)

NearOptimal(graph, margin) ==
  LET all == Matchings(graph)
      best == Max({Total(graph, M) : M \in all})
  IN  {M \in all : Total(graph, M) >= best - margin}

(* The partner of x in a matching, or None. *)
PartnersIn(M, x) == (UNION {Ends(e) : e \in {e \in M : x \in Ends(e)}}) \ {x}

(* The decision the near-optimal matchings of a graph force on x. *)
Forced(near, x) ==
  LET seen == {PartnersIn(M, x) : M \in near}
  IN  IF Cardinality(seen) > 1 THEN Decision(AMBIGUOUS, None)
      ELSE IF {} \in seen THEN Decision(UNMATCHED, None)
      ELSE Decision(MATCHED, CHOOSE y \in UNION seen : TRUE)

(* One decision for each of the records R. *)
Decisions(R, graph, margin, max) ==
  LET near == NearOptimal(graph, margin)
  IN  [x \in R |->
         IF Neighbours(graph, x) = {} THEN Decision(NO_CANDIDATE, None)
         ELSE IF Widest(graph, ComponentOf(graph, x)) > max THEN Decision(OVERSIZED, None)
         ELSE Forced(near, x)]
=============================================================================
