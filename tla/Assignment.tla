------------------------------ MODULE Assignment -----------------------------
(***************************************************************************)
(* assign (correlation/assignment.py): the candidate graph is split into   *)
(* components, each is solved as a square minimum-cost assignment, and     *)
(* each record's cell of the optimum is then forbidden in turn to see      *)
(* whether the data decide it.                                             *)
(*                                                                         *)
(* A row or a column of the matrix is a record: the row of a left or the   *)
(* column of a right stands for the record, the row of a right or the      *)
(* column of a left for the other end of its being alone.  The optimum is  *)
(* any one of least cost, see Hungarian.                                   *)
(***************************************************************************)
EXTENDS Matching, TLC

CONSTANTS
  Lefts,         \* the records of each side
  Rights,
  Weights,       \* the weights an edge may have
  Margins,       \* the margins explored
  MaxComponents  \* the values of max_component explored

Records == Lefts \cup Rights

(* _validated: the calls that are not refused. *)
IsValidated ==
  /\ Weights \subseteq 1 .. MAX_WEIGHT
  /\ Margins \subseteq Nat
  /\ MaxComponents \subseteq Nat \ {0}

ASSUME AssignmentAssumption ==
  /\ IsFiniteSet(Records) /\ Lefts \cap Rights = {} /\ None \notin Records
  /\ IsValidated

VARIABLES
  graph,     \* weights: the candidate edges
  margin,
  max_component,
  todo,      \* the components left
  decided    \* the decisions so far, a function on the records decided

vars == <<graph, margin, max_component, todo, decided>>

-----------------------------------------------------------------------------
(* The cost matrix of a component *)

Weighted(C) == {e \in DOMAIN graph : Ends(e) \subseteq C}

Forbidden(C) == 1 + MapThenSumSet(LAMBDA e : graph[e], Weighted(C))

Cost(C) ==
  [r \in C |-> [c \in C |->
     IF <<r, c>> \in DOMAIN graph THEN - graph[<<r, c>>]
     ELSE IF r = c \/ (r \in Rights /\ c \in Lefts) THEN 0
     ELSE Forbidden(C)]]

TotalCost(cost, column) == MapThenSumSet(LAMBDA r : cost[r][column[r]], DOMAIN column)

LeastCost(cost) == Min({TotalCost(cost, column) : column \in Permutations(DOMAIN cost)})

(* What _min_cost_assignment may return: see Hungarian. *)
Optima(cost) ==
  LET least == LeastCost(cost)
  IN  {column \in Permutations(DOMAIN cost) : TotalCost(cost, column) = least}

-----------------------------------------------------------------------------
(* The decisions of a component, for one optimum *)

(* The cell of the optimum that is the decision of x. *)
CellOf(column, x) ==
  LET pairs == {r \in DOMAIN column \cap Lefts : column[r] \in Rights}
      cells == {<<r, column[r]>> : r \in {r \in pairs : x \in {r, column[r]}}}
  IN  IF cells = {} THEN <<x, x>> ELSE CHOOSE cell \in cells : TRUE

(* The least cost with that cell forbidden. *)
Alternative(C, cell) == LeastCost([Cost(C) EXCEPT ![cell[1]][cell[2]] = Forbidden(C)])

(* Mutant: an assignment exactly at the margin is not as good. *)
NearStrict(C, column, cell) == Alternative(C, cell) - TotalCost(Cost(C), column) < margin

near_optimal_without(C, column, cell) ==
  Alternative(C, cell) - TotalCost(Cost(C), column) <= margin

Verdict(C, column, x) ==
  LET cell == CellOf(column, x)
  IN  IF near_optimal_without(C, column, cell) THEN Decision(AMBIGUOUS, None)
      ELSE IF cell = <<x, x>> THEN Decision(UNMATCHED, None)
      ELSE Decision(MATCHED, CHOOSE y \in Ends(cell) : y # x)

-----------------------------------------------------------------------------

Components(g) == {ComponentOf(g, x) : x \in UNION {Ends(e) : e \in DOMAIN g}}

Init == /\ graph \in UNION {[E -> Weights] : E \in SUBSET (Lefts \X Rights)}
        /\ margin \in Margins
        /\ max_component \in MaxComponents
        /\ todo = Components(graph)
        /\ decided = [x \in {} |-> None]

(* A component above the bound is reported, not resolved. *)
Oversize(C) ==
  /\ Widest(graph, C) > max_component
  /\ decided' = decided @@ [x \in C |-> Decision(OVERSIZED, None)]

Resolve(C) ==
  /\ Widest(graph, C) <= max_component
  /\ \E column \in Optima(Cost(C)) :
       decided' = decided @@ [x \in C |-> Verdict(C, column, x)]

Component(C) == /\ Oversize(C) \/ Resolve(C)
                /\ todo' = todo \ {C}
                /\ UNCHANGED <<graph, margin, max_component>>

(* The records no component has decided have no edge. *)
Return ==
  /\ todo = {}
  /\ DOMAIN decided # Records
  /\ decided' = decided @@ [x \in Records |-> Decision(NO_CANDIDATE, None)]
  /\ UNCHANGED <<graph, margin, max_component, todo>>

Next == (\E C \in todo : Component(C)) \/ Return

Spec == Init /\ [][Next]_vars

Returned == todo = {} /\ DOMAIN decided = Records

-----------------------------------------------------------------------------
(* Properties *)

(* "Each record is decided only if its partner, or the absence of one, is  *)
(* the same in every assignment within margin of the optimum": forbidding  *)
(* one cell of whichever optimum was found, component by component,        *)
(* decides what all the near-optimal matchings of the whole graph force.   *)
OnlyForcedIsDecided ==
  Returned => decided = Decisions(Records, graph, margin, max_component)
=============================================================================
