------------------------------ MODULE Hungarian ------------------------------
(***************************************************************************)
(* The Hungarian algorithm (assignment.py: _min_cost_assignment), one      *)
(* action per iteration of its loops.  Rows are added one at a time: a     *)
(* search grows a tree of columns from the new row until it reaches a free *)
(* one, moving the potentials u and v so that no reduced cost is negative, *)
(* and the path back is flipped.                                           *)
(*                                                                         *)
(* Rows and columns count from 1; column 0 stands for the new row's own.   *)
(***************************************************************************)
EXTENDS Integers

CONSTANTS
  N,         \* n: the size of the matrix
  Costs,     \* the matrices explored
  Infinity   \* math.inf

ASSUME HungarianAssumption ==
  /\ N \in Nat \ {0}
  /\ Costs \subseteq [1 .. N -> [1 .. N -> Int]]
  /\ Infinity \notin Int

VARIABLES
  cost,
  i,       \* the row being added
  j0,      \* the column the search or the path is at
  u, v,    \* potentials of rows and columns
  p,       \* p[j]: the row of column j, 0 if free
  way,     \* way[j]: the column before j on the path
  minv,    \* least reduced cost known of a column outside the tree
  used,    \* the columns of the tree
  steps,   \* iterations of the search
  stage    \* what the program does next

vars == <<cost, i, j0, u, v, p, way, minv, used, steps, stage>>

Rows == 1 .. N
Columns == 1 .. N
Zeros == [k \in 0 .. N |-> 0]

SEARCH == "search"
FLIP == "flip"
RETURN == "return"

(* Mutant: the column's potential is left out. *)
CurOfRow(r, j) == cost[r][j] - u[r]

Cur(r, j) == cost[r][j] - u[r] - v[j]

(* Mutant: the columns of the tree are looked at again. *)
AllColumns(tree) == Columns

Outside(tree) == Columns \ tree

(* Mutant: the first distance seen is kept. *)
IsLessOnce(a, b) == b = Infinity

IsLess(a, b) == b = Infinity \/ a < b

Minus(a, d) == IF a = Infinity THEN Infinity ELSE a - d

-----------------------------------------------------------------------------

(* The state in which the search for row r starts. *)
Init == /\ cost \in Costs
        /\ i = 1
        /\ j0 = 0
        /\ u = Zeros /\ v = Zeros
        /\ p = [Zeros EXCEPT ![0] = 1]
        /\ way = Zeros
        /\ minv = [j \in 0 .. N |-> Infinity]
        /\ used = {}
        /\ steps = 0
        /\ stage = SEARCH

(* One iteration: the tree takes j0 and its row's reduced costs, and the   *)
(* nearest column outside it is next.  Past N + 1 iterations the code      *)
(* raises an AssertionError.                                               *)
Search ==
  LET tree == used \cup {j0}
      outside == Outside(tree)
      Closer(j) == j \in outside /\ IsLess(Cur(p[j0], j), minv[j])
      near == [j \in 0 .. N |-> IF Closer(j) THEN Cur(p[j0], j) ELSE minv[j]]
      j1 == CHOOSE j \in outside :
              \A k \in outside : near[j] < near[k] \/ (near[j] = near[k] /\ j <= k)
      delta == near[j1]
  IN  /\ stage = SEARCH
      /\ p[j0] # 0
      /\ steps <= N
      /\ steps' = steps + 1
      /\ used' = tree
      /\ way' = [j \in 0 .. N |-> IF Closer(j) THEN j0 ELSE way[j]]
      /\ u' = [r \in 0 .. N |-> IF \E j \in tree : p[j] = r THEN u[r] + delta ELSE u[r]]
      /\ v' = [j \in 0 .. N |-> IF j \in tree THEN v[j] - delta ELSE v[j]]
      /\ minv' = [j \in 0 .. N |-> IF j \in tree THEN near[j] ELSE Minus(near[j], delta)]
      /\ j0' = j1
      /\ UNCHANGED <<cost, i, p, stage>>

(* A free column ends the search, if it is seen before the bound is. *)
Found == /\ stage = SEARCH
         /\ p[j0] = 0
         /\ steps <= N
         /\ stage' = FLIP
         /\ UNCHANGED <<cost, i, j0, u, v, p, way, minv, used, steps>>

(* One step back along the path. *)
Flip == /\ stage = FLIP
        /\ j0 # 0
        /\ p' = [p EXCEPT ![j0] = p[way[j0]]]
        /\ j0' = way[j0]
        /\ UNCHANGED <<cost, i, u, v, way, minv, used, steps, stage>>

NextRow == /\ stage = FLIP
           /\ j0 = 0
           /\ i < N
           /\ i' = i + 1
           /\ p' = [p EXCEPT ![0] = i + 1]
           /\ minv' = [j \in 0 .. N |-> Infinity]
           /\ used' = {}
           /\ steps' = 0
           /\ stage' = SEARCH
           /\ UNCHANGED <<cost, j0, u, v, way>>

Return == /\ stage = FLIP
          /\ j0 = 0
          /\ i = N
          /\ stage' = RETURN
          /\ UNCHANGED <<cost, i, j0, u, v, p, way, minv, used, steps>>

Next == Search \/ Found \/ Flip \/ NextRow \/ Return

Spec == Init /\ [][Next]_vars

(* The function returned: row to column. *)
RowToCol == [r \in Rows |-> CHOOSE j \in Columns : p[j] = r]

-----------------------------------------------------------------------------
(* Properties *)

(* The rows whose potential has been set: all before i, and i once its     *)
(* search has taken a step.                                                *)
Priced == {r \in Rows : r < i \/ (r = i /\ (steps > 0 \/ stage # SEARCH))}

Reduced(r, j) == cost[r][j] - u[r] - v[j]

(* However far a search has come, the potentials are feasible (no reduced  *)
(* cost is negative), and a row's own column is tight.                     *)
PotentialsCertify ==
  /\ \A r \in Priced, j \in Columns : Reduced(r, j) >= 0
  /\ \A j \in Columns : p[j] # 0 => Reduced(p[j], j) = 0

(* "A free one is reached in at most n steps": the AssertionError past the *)
(* bound of the search is never raised, not even with the last column.     *)
SearchConverges == stage = SEARCH => steps <= N

Assignments(k) == {f \in [1 .. k -> Columns] : \A r, s \in 1 .. k : f[r] = f[s] => r = s}

(* The sum of the costs of rows 1 to k. *)
CostOf(k, f) ==
  LET sum[r \in 0 .. k] == IF r = 0 THEN 0 ELSE sum[r - 1] + cost[r][f[r]]
  IN  sum[k]

(* When a row has been added, the rows so far have their cheapest columns; *)
(* so the assignment returned is a cheapest one.                           *)
RowsAreOptimal ==
  stage \in {FLIP, RETURN} /\ j0 = 0 =>
    \A f \in Assignments(i) : CostOf(i, RowToCol) <= CostOf(i, f)
=============================================================================
