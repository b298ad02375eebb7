--------------------------- MODULE HungarianProofs ---------------------------
(***************************************************************************)
(* Proofs about Hungarian, for every size and every matrix of integer      *)
(* costs: the potentials certify the partial assignment at every step, the *)
(* search stays within its bound, and every row added leaves a cheapest    *)
(* assignment of the rows so far.                                          *)
(***************************************************************************)
EXTENDS Hungarian, FiniteSetTheorems, WellFoundedInduction, TLAPS

(* A non-empty set of naturals has a least element. *)
LEMMA LeastNatural ==
  ASSUME NEW T \in SUBSET Nat, T # {}
  PROVE  \E n \in T : \A m \in T : n <= m
<1>1. PICK n \in T : \A m \in T : ~ (<<m, n>> \in OpToRel(<, Nat))
  BY WFMin, NatLessThanWellFounded
<1>2. ASSUME NEW m \in T
      PROVE  n <= m
  <2>1. ~ (m < n)
    <3> DEFINE q == <<m, n>>
    <3>1. q \in Nat \X Nat /\ q[1] = m /\ q[2] = n
      BY <1>2
    <3>2. q \notin {ss \in Nat \X Nat : ss[1] < ss[2]}
      BY <1>1, <1>2, Zenon DEF OpToRel
    <3> HIDE DEF q
    <3>3. ~ (q[1] < q[2])
      BY <3>1, <3>2
    <3> QED
      BY <3>1, <3>3
  <2>2. m \in Nat /\ n \in Nat
    BY <1>2
  <2> QED
    BY <2>1, <2>2
<1> QED
  BY <1>1, <1>2

(* The column that the search takes next: the first of the nearest. *)
IsNearest(j, S, near) ==
  j \in S /\ \A k \in S : near[j] < near[k] \/ (near[j] = near[k] /\ j <= k)

(* There is always one: the least prefix of the columns without one would  *)
(* extend a prefix that has one by a single column.                        *)
LEMMA NearestExists ==
  ASSUME NEW S \in SUBSET Columns, S # {}, NEW near, \A j \in S : near[j] \in Int
  PROVE  \E j \in S : IsNearest(j, S, near)
<1> DEFINE Upto(n) == S \cap (1 .. n)
           Bad == {n \in Nat : Upto(n) # {} /\ ~ \E j \in Upto(n) : IsNearest(j, Upto(n), near)}
<1>0. N \in Nat
  BY HungarianAssumption
<1>1. Bad = {}
  <2> SUFFICES ASSUME Bad # {}
               PROVE  FALSE
    OBVIOUS
  <2>1. PICK n \in Bad : \A m \in Bad : n <= m
    <3>1. Bad \in SUBSET Nat
      OBVIOUS
    <3> HIDE DEF Bad
    <3> QED
      BY <3>1, LeastNatural
  <2>2. n \in Nat /\ Upto(n) # {} /\ ~ \E j \in Upto(n) : IsNearest(j, Upto(n), near)
    BY <2>1
  <2>3. n # 0
    BY <2>2
  <2>4. n - 1 \in Nat /\ n - 1 \notin Bad
    BY <2>1, <2>2, <2>3
  <2>5. Upto(n) = Upto(n - 1) \cup (S \cap {n})
    BY <2>2, <2>3, <1>0 DEF Columns
  <2>6. n \notin Upto(n - 1) /\ \A j \in Upto(n - 1) : j < n /\ j \in Int
    BY <2>2, <2>3
  <2>7. CASE Upto(n - 1) = {}
    <3>1. Upto(n) = {n} /\ n \in S
      BY <2>2, <2>5, <2>7
    <3>2. IsNearest(n, {n}, near)
      BY <2>2, <3>1 DEF IsNearest
    <3> QED
      BY <2>2, <3>1, <3>2
  <2>8. CASE Upto(n - 1) # {}
    <3>1. PICK j \in Upto(n - 1) : IsNearest(j, Upto(n - 1), near)
      BY <2>4, <2>8
    <3>2. CASE n \notin S
      BY <2>2, <2>5, <3>1, <3>2
    <3>3. CASE n \in S
      <4>1. near[n] \in Int /\ near[j] \in Int /\ j < n
        BY <2>6, <3>1, <3>3
      <4>2. \A k \in Upto(n - 1) : near[k] \in Int
        OBVIOUS
      <4>3. Upto(n) = Upto(n - 1) \cup {n}
        BY <2>5, <3>3
      <4> HIDE DEF Upto
      <4>4. CASE near[n] < near[j]
        <5>1. IsNearest(n, Upto(n), near)
          BY <2>2, <3>1, <4>1, <4>2, <4>3, <4>4 DEF IsNearest
        <5> QED
          BY <2>2, <4>3, <5>1
      <4>5. CASE near[j] <= near[n]
        <5>1. IsNearest(j, Upto(n), near)
          <6>1. ASSUME NEW k \in Upto(n - 1)
                PROVE  near[j] < near[k] \/ (near[j] = near[k] /\ j <= k)
            BY <3>1, <6>1 DEF IsNearest
          <6>2. near[j] < near[n] \/ (near[j] = near[n] /\ j <= n)
            BY <2>2, <2>6, <3>1, <4>1, <4>5
          <6> QED
            BY <3>1, <4>3, <6>1, <6>2 DEF IsNearest
        <5> QED
          BY <2>2, <3>1, <4>3, <5>1
      <4> QED
        BY <4>1, <4>4, <4>5
    <3> QED
      BY <3>2, <3>3
  <2> QED
    BY <2>7, <2>8
<1>2. Upto(N) = S
  BY DEF Columns
<1>3. N \notin Bad
  BY <1>1
<1> QED
  BY <1>0, <1>2, <1>3
-----------------------------------------------------------------------------
(* The inductive invariant *)

HungarianType ==
  /\ cost \in [Rows -> [Columns -> Int]]
  /\ i \in Rows
  /\ j0 \in 0 .. N
  /\ u \in [0 .. N -> Int] /\ v \in [0 .. N -> Int]
  /\ p \in [0 .. N -> 0 .. N] /\ way \in [0 .. N -> 0 .. N]
  /\ minv \in [0 .. N -> Int \cup {Infinity}]
  /\ used \subseteq 0 .. N
  /\ steps \in Nat
  /\ stage \in {SEARCH, FLIP, RETURN}

(* A row has one column, the one the flip is about to overwrite aside, and *)
(* the row being added has column 0 until the flip.                        *)
RowsAreAssigned ==
  /\ stage # RETURN => \A j, k \in 0 .. N : p[j] = p[k] /\ p[j] # 0 /\ j # k =>
                         stage = FLIP /\ (j = j0 \/ k = j0)
  /\ \A j \in 0 .. N : p[j] <= i
  /\ stage = SEARCH => p[0] = i /\ \A j \in Columns : p[j] < i

(* The tree starts at column 0 and holds no free column. *)
TreeIsRooted ==
  stage = SEARCH =>
    /\ used = {} => j0 = 0 /\ steps = 0 /\ \A j \in 0 .. N : minv[j] = Infinity
    /\ used # {} => 0 \in used /\ j0 \in Outside(used) /\ steps > 0 /\ minv[j0] = 0
    /\ \A k \in used : p[k] # 0
    /\ steps = Cardinality(used)

(* minv is the least reduced cost of a column outside the tree from a row  *)
(* of the tree, reached along way.                                         *)
MinvIsLeast ==
  stage = SEARCH /\ used # {} =>
    \A j \in Outside(used) :
      /\ minv[j] \in Int /\ way[j] \in used
      /\ minv[j] = Reduced(p[way[j]], j)
      /\ \A k \in used : minv[j] <= Reduced(p[k], j)

(* Column j is reached from the row of an older column, along a tight edge. *)
Follows(j, rank) ==
  /\ way[j] \in used /\ rank[way[j]] < rank[j]
  /\ p[way[j]] # 0 /\ Reduced(p[way[j]], j) = 0

(* The way back to column 0 never meets a column twice. *)
WayIsOrdered ==
  \E rank \in [0 .. N -> Nat] :
    /\ stage = SEARCH => \A j \in used : rank[j] < steps /\ (j # 0 => Follows(j, rank))
    /\ stage = FLIP => \A j \in used \cup {j0} : j # 0 /\ rank[j] <= rank[j0] => Follows(j, rank)

HungarianInv ==
  /\ HungarianType /\ RowsAreAssigned /\ TreeIsRooted /\ MinvIsLeast /\ WayIsOrdered
  /\ stage # SEARCH => steps > 0
  /\ PotentialsCertify
-----------------------------------------------------------------------------
(* Init and the steps *)

LEMMA HungarianInit ==
  ASSUME Init
  PROVE  HungarianInv
<1> USE HungarianAssumption DEF Init
<1>1. HungarianType
  BY DEF HungarianType, Rows, Columns, Zeros, SEARCH
<1>2. p[0] = 1 /\ \A j \in Columns : p[j] = 0
  BY DEF Zeros, Columns
<1>3. RowsAreAssigned
  <2>1. \A j \in 0 .. N : j = 0 \/ j \in Columns
    BY DEF Columns
  <2> QED
    BY <1>2, <2>1 DEF RowsAreAssigned, SEARCH, FLIP, RETURN
<1>4. TreeIsRooted /\ MinvIsLeast
  BY FS_EmptySet DEF TreeIsRooted, MinvIsLeast
<1>5. WayIsOrdered
  <2>1. Zeros \in [0 .. N -> Nat]
    BY DEF Zeros
  <2> QED
    BY <2>1 DEF WayIsOrdered, SEARCH, FLIP
<1>6. PotentialsCertify
  BY <1>2 DEF PotentialsCertify, Priced, Rows, Columns
<1> QED
  BY <1>1, <1>3, <1>4, <1>5, <1>6 DEF HungarianInv

LEMMA ReducedType ==
  ASSUME HungarianType, NEW r \in Rows, NEW j \in Columns
  PROVE  Reduced(r, j) \in Int
<1>1. r \in 0 .. N /\ j \in 0 .. N
  BY HungarianAssumption DEF Rows, Columns
<1>2. cost[r][j] \in Int /\ u[r] \in Int /\ v[j] \in Int
  BY <1>1 DEF HungarianType
<1> QED
  BY <1>2 DEF Reduced

(* The rows before i are too few to leave no column free. *)
LEMMA SomeColumnIsFree ==
  ASSUME HungarianInv, stage = SEARCH
  PROVE  \E j \in Columns : p[j] = 0
<1> SUFFICES ASSUME \A j \in Columns : p[j] # 0
             PROVE  FALSE
  OBVIOUS
<1>0. N \in Nat /\ i \in Int /\ 1 <= i /\ i <= N
  BY HungarianAssumption DEF HungarianInv, HungarianType, Rows
<1> DEFINE S == 1 .. N
           T == 1 .. (i - 1)
           f == [j \in S |-> p[j]]
<1>1. IsFiniteSet(S) /\ Cardinality(S) = N
  BY <1>0, FS_Interval
<1>2. IsFiniteSet(T) /\ Cardinality(T) < N
  <2>1. ASSUME NEW n \in Int, 0 <= n
        PROVE  IsFiniteSet(1 .. n) /\ Cardinality(1 .. n) = n
    BY <2>1, FS_Interval
  <2>2. i - 1 \in Int /\ 0 <= i - 1
    BY <1>0
  <2>3. IsFiniteSet(T) /\ Cardinality(T) = i - 1
    BY <2>1, <2>2
  <2> QED
    BY <1>0, <2>3
<1>3. f \in [S -> T]
  <2> SUFFICES ASSUME NEW j \in S
               PROVE  p[j] \in 1 .. (i - 1)
    OBVIOUS
  <2>0. j \in Columns /\ j \in 0 .. N
    BY <1>0 DEF Columns
  <2>1. p[j] # 0 /\ p[j] < i /\ p[j] \in 0 .. N
    BY <1>0, <2>0 DEF HungarianInv, HungarianType, RowsAreAssigned, Columns
  <2> QED
    BY <1>0, <2>1
<1>4. \E x, y \in S : x # y /\ f[x] = f[y]
  <2> HIDE DEF S, T, f
  <2> QED
    BY <1>1, <1>2, <1>3, FS_PigeonHole
<1>5. \A x, y \in S : f[x] = f[y] => x = y
  BY <1>0 DEF HungarianInv, RowsAreAssigned, Columns, SEARCH, FLIP, RETURN
<1> QED
  BY <1>4, <1>5

(* A step lowers the columns of the tree by one amount, which is not       *)
(* negative once the tree has a column besides 0.                          *)
TreeIsLowered ==
  \E d \in Int :
    /\ used # {} => 0 <= d
    /\ v' = [j \in 0 .. N |-> IF j \in used \cup {j0} THEN v[j] - d ELSE v[j]]

(* The columns that the search moves to: free of the tree and least. *)
LEMMA SearchInv ==
  ASSUME HungarianInv, Search
  PROVE  HungarianInv' /\ TreeIsLowered
<1> DEFINE tree == used \cup {j0}
           outside == Outside(tree)
           Closer(j) == j \in outside /\ IsLess(Cur(p[j0], j), minv[j])
           near == [j \in 0 .. N |-> IF Closer(j) THEN Cur(p[j0], j) ELSE minv[j]]
           j1 == CHOOSE j \in outside :
                   \A k \in outside : near[j] < near[k] \/ (near[j] = near[k] /\ j <= k)
           delta == near[j1]
           via == [j \in 0 .. N |-> IF Closer(j) THEN j0 ELSE way[j]]
           IsTreeRow(r) == \E k \in tree : p[k] = r
           U == u'
           V == v'
           After(r, j) == cost[r][j] - U[r] - V[j]
<1>1. /\ stage = SEARCH /\ p[j0] # 0 /\ steps <= N /\ steps' = steps + 1 /\ used' = tree
      /\ way' = via /\ j0' = j1
      /\ U = [r \in 0 .. N |-> IF IsTreeRow(r) THEN u[r] + delta ELSE u[r]]
      /\ V = [j \in 0 .. N |-> IF j \in tree THEN v[j] - delta ELSE v[j]]
      /\ minv' = [j \in 0 .. N |-> IF j \in tree THEN near[j] ELSE Minus(near[j], delta)]
      /\ cost' = cost /\ i' = i /\ p' = p /\ stage' = stage
  BY DEF Search
<1>2. N \in Nat /\ Infinity \notin Int
  BY HungarianAssumption
<1>3. /\ HungarianType /\ RowsAreAssigned /\ TreeIsRooted /\ MinvIsLeast /\ PotentialsCertify
  BY DEF HungarianInv
<1>4. tree \subseteq 0 .. N /\ 0 \in tree /\ \A k \in tree : p[k] \in Rows
  <2>1. 0 \in tree /\ \A k \in tree : p[k] # 0 /\ p[k] \in 0 .. N
    BY <1>1, <1>3 DEF HungarianType, TreeIsRooted
  <2>2. tree \subseteq 0 .. N
    BY <1>3 DEF HungarianType
  <2> QED
    BY <1>2, <2>1, <2>2 DEF Rows
<1>5. outside \subseteq Columns /\ outside \cap tree = {} /\ outside \subseteq 0 .. N
  BY <1>2 DEF Outside, Columns
<1>6. outside # {}
  <2>1. PICK j \in Columns : p[j] = 0
    BY <1>1, SomeColumnIsFree
  <2> QED
    BY <1>2, <1>4, <2>1 DEF Outside, Rows
<1> HIDE DEF outside
<1>7. \A r \in Rows, j \in Columns : Reduced(r, j) \in Int
  BY <1>3, ReducedType
(* The distances after the new row is taken into account. *)
<1>8. ASSUME NEW j \in outside
      PROVE  /\ near[j] \in Int /\ via[j] \in tree
             /\ near[j] = Reduced(p[via[j]], j)
             /\ \A k \in tree : near[j] <= Reduced(p[k], j)
  <2>0. j \in 0 .. N /\ j \in Columns /\ p[j0] \in Rows
    BY <1>4, <1>5, <1>8
  <2>1. Cur(p[j0], j) = Reduced(p[j0], j) /\ Reduced(p[j0], j) \in Int
    BY <1>7, <2>0 DEF Cur, Reduced
  <2>2. CASE Closer(j)
    <3>1. near[j] = Reduced(p[j0], j) /\ via[j] = j0
      BY <2>0, <2>1, <2>2
    <3>2. ASSUME NEW k \in used
          PROVE  near[j] <= Reduced(p[k], j)
      <4>1. j \in Outside(used)
        BY <1>5, <1>8, <2>0 DEF Outside
      <4>2. minv[j] \in Int /\ minv[j] <= Reduced(p[k], j)
        BY <1>1, <1>3, <3>2, <4>1 DEF MinvIsLeast
      <4>3. Reduced(p[j0], j) < minv[j]
        BY <1>2, <2>1, <2>2, <4>2 DEF IsLess
      <4>4. Reduced(p[k], j) \in Int
        BY <1>4, <1>7, <2>0, <3>2
      <4> QED
        BY <2>1, <3>1, <4>2, <4>3, <4>4
    <3>3. via[j] \in tree /\ Reduced(p[via[j]], j) = Reduced(p[j0], j)
      BY <3>1
    <3> HIDE DEF near, via
    <3> QED
      BY <2>1, <3>1, <3>2, <3>3
  <2>3. CASE ~ Closer(j)
    <3>1. near[j] = minv[j] /\ via[j] = way[j]
      BY <2>0, <2>3
    <3>2. minv[j] # Infinity /\ ~ (Reduced(p[j0], j) < minv[j])
      BY <1>8, <2>1, <2>3 DEF IsLess
    <3>3. used # {}
      BY <1>1, <1>3, <2>0, <3>2 DEF TreeIsRooted
    <3>4. j \in Outside(used)
      BY <1>5, <1>8, <2>0 DEF Outside
    <3>5. /\ minv[j] \in Int /\ way[j] \in used
          /\ minv[j] = Reduced(p[way[j]], j)
          /\ \A k \in used : minv[j] <= Reduced(p[k], j)
      BY <1>1, <1>3, <3>3, <3>4 DEF MinvIsLeast
    <3>6. minv[j] <= Reduced(p[j0], j)
      BY <2>1, <3>2, <3>5
    <3>7. via[j] \in tree /\ Reduced(p[via[j]], j) = Reduced(p[way[j]], j)
      BY <3>1, <3>5
    <3> HIDE DEF near, via
    <3> QED
      BY <3>1, <3>5, <3>6, <3>7
  <2> QED
    BY <2>2, <2>3
<1> HIDE DEF near, via
<1>9. j1 \in outside /\ delta \in Int /\ \A k \in outside : delta <= near[k]
  <2>1. \E j \in outside : IsNearest(j, outside, near)
    <3>1. outside \in SUBSET Columns
      BY <1>5
    <3> QED
      BY <1>6, <1>8, <3>1, NearestExists
  <2>2. j1 \in outside /\ \A k \in outside : near[j1] < near[k] \/ (near[j1] = near[k] /\ j1 <= k)
    BY <2>1 DEF IsNearest
  <2> HIDE DEF j1
  <2> QED
    BY <1>8, <2>2
<1> HIDE DEF j1, delta
<1>10. delta = near[j1]
  BY DEF delta
(* A priced tree has no negative distance. *)
<1>11. used # {} => 0 <= delta
  <2> SUFFICES ASSUME used # {}
               PROVE  0 <= delta
    OBVIOUS
  <2>1. steps > 0
    BY <1>1, <1>3 DEF TreeIsRooted
  <2>2. via[j1] \in tree /\ near[j1] = Reduced(p[via[j1]], j1)
    BY <1>8, <1>9
  <2>3. p[via[j1]] \in Rows /\ p[via[j1]] <= i /\ i \in Int
    <3>1. via[j1] \in 0 .. N /\ p[via[j1]] \in Rows
      BY <1>4, <2>2
    <3>2. via[j1] = 0 \/ via[j1] \in Columns
      BY <1>2, <3>1 DEF Columns
    <3>3. i \in Int /\ p[via[j1]] \in Int
      <4>1. Rows \subseteq Int
        BY <1>2 DEF Rows
      <4>2. i \in Rows
        BY <1>3 DEF HungarianType
      <4> QED
        BY <3>1, <4>1, <4>2
    <3>4. p[0] = i /\ \A j \in Columns : p[j] < i
      BY <1>1, <1>3 DEF RowsAreAssigned
    <3>5. p[via[j1]] = i \/ p[via[j1]] < i
      BY <3>2, <3>4
    <3> QED
      BY <3>1, <3>3, <3>5
  <2>4. p[via[j1]] \in Priced
    BY <1>2, <2>1, <2>3 DEF Priced, Rows
  <2>5. j1 \in Columns
    BY <1>5, <1>9
  <2> QED
    BY <1>3, <1>10, <2>2, <2>4, <2>5 DEF PotentialsCertify
(* What the move of the potentials does to a reduced cost. *)
<1>12. ASSUME NEW r \in Rows, NEW j \in Columns
       PROVE  /\ IsTreeRow(r) /\ j \in tree => After(r, j) = Reduced(r, j)
              /\ IsTreeRow(r) /\ j \notin tree => After(r, j) = Reduced(r, j) - delta
              /\ ~ IsTreeRow(r) /\ j \in tree => After(r, j) = Reduced(r, j) + delta
              /\ ~ IsTreeRow(r) /\ j \notin tree => After(r, j) = Reduced(r, j)
  <2>1. r \in 0 .. N /\ j \in 0 .. N
    BY <1>2, <1>12 DEF Rows, Columns
  <2>2. cost[r][j] \in Int /\ u[r] \in Int /\ v[j] \in Int
    BY <1>3, <2>1, <1>12 DEF HungarianType
  <2>3. After(r, j) = cost[r][j] - U[r] - V[j]
    OBVIOUS
  <2>4. U[r] = IF IsTreeRow(r) THEN u[r] + delta ELSE u[r]
    BY <1>1, <2>1
  <2>5. V[j] = IF j \in tree THEN v[j] - delta ELSE v[j]
    BY <1>1, <2>1
  <2> HIDE DEF U, V, IsTreeRow, tree, After
  <2> QED
    BY <1>9, <2>2, <2>3, <2>4, <2>5 DEF Reduced
<1>a. \A r, j : Reduced(r, j)' = After(r, j)
  BY <1>1 DEF Reduced
<1> HIDE DEF After
<1>13. HungarianType'
  <2>1. U \in [0 .. N -> Int] /\ V \in [0 .. N -> Int]
    BY <1>1, <1>3, <1>9 DEF HungarianType
  <2>2. minv' \in [0 .. N -> Int \cup {Infinity}]
    <3> SUFFICES ASSUME NEW j \in 0 .. N
                 PROVE  near[j] \in Int \cup {Infinity} /\ Minus(near[j], delta) \in Int \cup {Infinity}
      BY <1>1
    <3>1. near[j] \in Int \cup {Infinity}
      <4>1. CASE j \in outside
        BY <1>8, <4>1
      <4>2. CASE j \notin outside
        BY <1>3, <4>2 DEF near, HungarianType
      <4> QED
        BY <4>1, <4>2
    <3> QED
      BY <1>9, <3>1 DEF Minus
  <2>3. way' \in [0 .. N -> 0 .. N]
    BY <1>1, <1>3 DEF HungarianType, via
  <2>4. j0' \in 0 .. N /\ used' \subseteq 0 .. N
    BY <1>1, <1>4, <1>5, <1>9
  <2> QED
    BY <1>1, <1>3, <2>1, <2>2, <2>3, <2>4 DEF HungarianType
<1>14. RowsAreAssigned'
  BY <1>1, <1>3 DEF RowsAreAssigned, SEARCH, FLIP, RETURN
<1>15. ASSUME NEW j \in outside
       PROVE  minv'[j] = near[j] - delta
  <2>1. minv'[j] = Minus(near[j], delta)
    BY <1>1, <1>5, <1>15
  <2> QED
    BY <1>2, <1>8, <2>1, <1>15 DEF Minus
<1>16. TreeIsRooted'
  <2>1. minv'[j1] = 0
    BY <1>8, <1>9, <1>10, <1>15
  <2>2. j0' \in Outside(used')
    BY <1>1, <1>9 DEF outside
  <2>3. steps' > 0
    BY <1>1, <1>3 DEF HungarianType
  <2>4. \A k \in tree : p[k] # 0
    BY <1>2, <1>4 DEF Rows
  <2>5. steps' = Cardinality(tree)
    <3>1. IsFiniteSet(used)
      <4>1. used \in SUBSET (0 .. N)
        BY <1>3 DEF HungarianType
      <4>2. IsFiniteSet(0 .. N)
        BY <1>2, FS_Interval
      <4> QED
        BY <4>1, <4>2, FS_Subset
    <3>2. j0 \notin used /\ steps = Cardinality(used)
      BY <1>1, <1>3 DEF TreeIsRooted, Outside
    <3>3. Cardinality(tree) = Cardinality(used) + 1
      BY <3>1, <3>2, FS_AddElement
    <3> QED
      BY <1>1, <3>2, <3>3
  <2> QED
    BY <1>1, <1>4, <2>1, <2>2, <2>3, <2>4, <2>5 DEF TreeIsRooted
<1>17. MinvIsLeast'
  <2>0. ASSUME NEW j \in outside
        PROVE  /\ minv'[j] \in Int /\ via[j] \in tree
               /\ minv'[j] = After(p[via[j]], j)
               /\ \A k \in tree : minv'[j] <= After(p[k], j)
    <3>1. j \in Columns /\ j \notin tree
      BY <1>5, <2>0
    <3>2. ASSUME NEW k \in tree
          PROVE  After(p[k], j) = Reduced(p[k], j) - delta /\ Reduced(p[k], j) \in Int
      BY <1>4, <1>7, <1>12, <3>1, <3>2
    <3>3. near[j] \in Int /\ via[j] \in tree /\ near[j] = Reduced(p[via[j]], j)
          /\ \A k \in tree : near[j] <= Reduced(p[k], j)
      BY <1>8, <2>0
    <3>4. minv'[j] = near[j] - delta
      BY <1>15, <2>0
    <3>5. minv'[j] \in Int /\ minv'[j] = After(p[via[j]], j)
      BY <1>9, <3>2, <3>3, <3>4
    <3>6. ASSUME NEW k \in tree
          PROVE  minv'[j] <= After(p[k], j)
      BY <1>9, <3>2, <3>3, <3>4, <3>6
    <3> QED
      BY <3>3, <3>5, <3>6
  <2>1. Outside(used') = outside
    BY <1>1 DEF outside
  <2>2. ASSUME NEW j, NEW k
        PROVE  After(p[k], j) = cost'[p'[k]][j] - u'[p'[k]] - v'[j]
    BY <1>1 DEF After
  <2>3. ASSUME NEW j \in outside
        PROVE  /\ minv'[j] \in Int /\ way'[j] \in used'
               /\ minv'[j] = cost'[p'[way'[j]]][j] - u'[p'[way'[j]]] - v'[j]
               /\ \A k \in used' : minv'[j] <= cost'[p'[k]][j] - u'[p'[k]] - v'[j]
    <3>1. minv'[j] \in Int /\ way'[j] \in used' /\ way'[j] = via[j]
      BY <1>1, <2>0, <2>3
    <3>2. minv'[j] = cost'[p'[way'[j]]][j] - u'[p'[way'[j]]] - v'[j]
      BY <2>0, <2>2, <2>3, <3>1
    <3>3. ASSUME NEW k \in used'
          PROVE  minv'[j] <= cost'[p'[k]][j] - u'[p'[k]] - v'[j]
      <4>1. k \in tree
        BY <1>1, <3>3
      <4>2. minv'[j] <= After(p[k], j)
        BY <2>0, <2>3, <4>1
      <4> QED
        BY <2>2, <4>2
    <3> QED
      BY <3>1, <3>2, <3>3
  <2> QED
    BY <2>1, <2>3 DEF MinvIsLeast, Reduced, Outside
<1>18. WayIsOrdered'
  <2>1. PICK rank \in [0 .. N -> Nat] : \A j \in used : rank[j] < steps /\ (j # 0 => Follows(j, rank))
    BY <1>1 DEF HungarianInv, WayIsOrdered
  <2>2. j0 \in 0 .. N /\ steps \in Nat /\ j0 \notin used /\ used \subseteq 0 .. N
    BY <1>1, <1>3 DEF HungarianType, TreeIsRooted, Outside
  <2>3. PICK next \in [0 .. N -> Nat] : next[j0] = steps /\ \A j \in used : next[j] = rank[j]
    <3>1. [rank EXCEPT ![j0] = steps] \in [0 .. N -> Nat]
      BY <2>2
    <3> QED
      BY <2>2, <3>1
  <2>4. ASSUME NEW j \in tree
        PROVE  next[j] < steps'
    <3>1. CASE j = j0
      BY <1>1, <2>2, <2>3, <3>1
    <3>2. CASE j \in used
      <4>1. next[j] < steps /\ next[j] \in Nat
        BY <2>1, <2>2, <2>3, <3>2
      <4> QED
        BY <1>1, <2>2, <4>1
    <3> QED
      BY <2>4, <3>1, <3>2
  <2>5. ASSUME NEW j \in tree, j # 0
        PROVE  Follows(j, next)'
    <3>1. j \in 0 .. N /\ j \in Columns /\ j \notin outside
      BY <1>2, <1>4, <1>5, <2>5 DEF Columns
    <3>2. via[j] = way[j]
      BY <3>1 DEF via
    <3>3. way[j] \in used /\ next[way[j]] < next[j] /\ Reduced(p[way[j]], j) = 0
      <4>1. CASE j \in used
        BY <2>1, <2>3, <2>5, <4>1 DEF Follows
      <4>2. CASE j = j0
        <5>1. used # {}
          BY <1>1, <1>3, <2>5, <4>2 DEF TreeIsRooted
        <5>2. j0 \in Outside(used) /\ minv[j0] = 0
          BY <1>1, <1>3, <5>1 DEF TreeIsRooted
        <5>3. way[j0] \in used /\ minv[j0] = Reduced(p[way[j0]], j0)
          BY <1>1, <1>3, <5>1, <5>2 DEF MinvIsLeast
        <5>4. next[way[j0]] < steps
          BY <2>1, <2>3, <5>3
        <5> QED
          BY <2>3, <4>2, <5>2, <5>3, <5>4
      <4> QED
        BY <2>5, <4>1, <4>2
    <3>4. way[j] \in tree /\ p[way[j]] \in Rows /\ IsTreeRow(p[way[j]])
      BY <1>4, <3>3
    <3>5. After(p[way[j]], j) = 0
      BY <1>12, <2>5, <3>1, <3>3, <3>4
    <3>6. p[way[j]] # 0
      BY <1>2, <3>4 DEF Rows
    <3>7. /\ way'[j] \in used' /\ next[way'[j]] < next[j] /\ p'[way'[j]] # 0
          /\ cost'[p'[way'[j]]][j] - u'[p'[way'[j]]] - v'[j] = 0
      <4>1. way'[j] = way[j]
        BY <1>1, <3>2
      <4> QED
        BY <1>1, <3>3, <3>4, <3>5, <3>6, <4>1 DEF After
    <3> QED
      BY <3>7 DEF Follows, Reduced
  <2>6. \A j \in used' : next[j] < steps' /\ (j # 0 => Follows(j, next)')
    BY <1>1, <2>4, <2>5
  <2> QED
    BY <1>1, <2>3, <2>6 DEF WayIsOrdered, SEARCH, FLIP
<1>19. PotentialsCertify'
  <2>1. ASSUME NEW r \in Priced', NEW j \in Columns
        PROVE  After(r, j) >= 0
    <3>1. r \in Rows /\ (r < i \/ r = i)
      BY <1>1, <2>1 DEF Priced
    <3>2. Reduced(r, j) \in Int
      BY <1>7, <3>1
    <3>3. ASSUME IsTreeRow(r), j \notin tree
          PROVE  After(r, j) >= 0
      <4>1. j \in outside
        BY <2>1, <3>3 DEF outside, Outside
      <4>2. delta <= near[j] /\ near[j] \in Int /\ near[j] <= Reduced(r, j)
        BY <1>8, <1>9, <3>3, <4>1
      <4> QED
        BY <1>9, <1>12, <3>1, <3>2, <3>3, <4>2
    <3>4. ASSUME ~ (IsTreeRow(r) /\ j \notin tree)
          PROVE  After(r, j) >= 0
      <4>1. r \in Priced
        <5>1. CASE r < i
          BY <3>1, <5>1 DEF Priced
        <5>2. CASE r = i
          <6>1. IsTreeRow(r)
            BY <1>1, <1>3, <1>4, <5>2 DEF RowsAreAssigned
          <6>2. j \in tree /\ j # 0
            BY <1>2, <2>1, <3>4, <6>1 DEF Columns
          <6>3. used # {}
            BY <1>1, <1>3, <6>2 DEF TreeIsRooted
          <6>4. steps > 0
            BY <1>1, <1>3, <6>3 DEF TreeIsRooted
          <6> QED
            BY <3>1, <5>2, <6>4 DEF Priced
        <5> QED
          BY <3>1, <5>1, <5>2
      <4>2. Reduced(r, j) >= 0
        BY <1>3, <2>1, <4>1 DEF PotentialsCertify
      <4>3. CASE j \in tree
        <5>1. j # 0
          BY <1>2, <2>1 DEF Columns
        <5>2. used # {}
          BY <1>1, <1>3, <4>3, <5>1 DEF TreeIsRooted
        <5>3. 0 <= delta
          BY <1>11, <5>2
        <5> QED
          BY <1>9, <1>12, <2>1, <3>1, <3>2, <4>2, <4>3, <5>3
      <4>4. CASE j \notin tree
        BY <1>12, <2>1, <3>1, <3>4, <4>2, <4>4
      <4> QED
        BY <4>3, <4>4
    <3> QED
      BY <3>3, <3>4
  <2>2. ASSUME NEW j \in Columns, p[j] # 0
        PROVE  After(p[j], j) = 0
    <3>1. j \in 0 .. N /\ p[j] \in 0 .. N /\ p[j] \in Rows
      <4>1. j \in 0 .. N
        BY <1>2, <2>2 DEF Columns
      <4>2. p[j] \in 0 .. N
        BY <1>3, <4>1 DEF HungarianType
      <4> QED
        BY <1>2, <2>2, <4>1, <4>2 DEF Rows
    <3>2. Reduced(p[j], j) = 0
      BY <1>3, <2>2 DEF PotentialsCertify
    <3>3. IsTreeRow(p[j]) <=> j \in tree
      <4>1. ASSUME NEW k \in tree, p[k] = p[j]
            PROVE  k = j
        BY <1>1, <1>3, <1>4, <2>2, <3>1, <4>1 DEF RowsAreAssigned, SEARCH, FLIP, RETURN
      <4> QED
        BY <4>1
    <3> QED
      BY <1>12, <2>2, <3>1, <3>2, <3>3
  <2>3. \A r \in Priced', j \in Columns : cost'[r][j] - u'[r] - v'[j] >= 0
    BY <1>1, <2>1 DEF After
  <2>4. \A j \in Columns : p'[j] # 0 => cost'[p'[j]][j] - u'[p'[j]] - v'[j] = 0
    BY <1>1, <2>2 DEF After
  <2> QED
    BY <2>3, <2>4 DEF PotentialsCertify, Reduced
<1>20. TreeIsLowered
  BY <1>1, <1>9, <1>11 DEF TreeIsLowered
<1> QED
  BY <1>1, <1>13, <1>14, <1>16, <1>17, <1>18, <1>19, <1>20 DEF HungarianInv

LEMMA FoundInv ==
  ASSUME HungarianInv, Found
  PROVE  HungarianInv'
<1> USE DEF Found
<1>1. HungarianType' /\ TreeIsRooted' /\ MinvIsLeast'
  BY DEF HungarianInv, HungarianType, TreeIsRooted, MinvIsLeast, SEARCH, FLIP, RETURN
<1>2. RowsAreAssigned'
  BY DEF HungarianInv, RowsAreAssigned, SEARCH, FLIP, RETURN
<1>3. i \in Rows /\ p[0] = i /\ N \in Nat
  BY HungarianAssumption DEF HungarianInv, HungarianType, RowsAreAssigned
<1>4. j0 # 0 /\ used # {}
  BY <1>3 DEF HungarianInv, TreeIsRooted, Rows
<1>5. j0 \in Outside(used) /\ minv[j0] = 0 /\ steps > 0 /\ \A k \in used : p[k] # 0
  BY <1>4 DEF HungarianInv, TreeIsRooted
<1>6. way[j0] \in used /\ minv[j0] = Reduced(p[way[j0]], j0)
  BY <1>4, <1>5 DEF HungarianInv, MinvIsLeast
<1>7. WayIsOrdered'
  <2>1. PICK rank \in [0 .. N -> Nat] : \A j \in used : rank[j] < steps /\ (j # 0 => Follows(j, rank))
    BY DEF HungarianInv, WayIsOrdered
  <2>2. j0 \in 0 .. N /\ steps \in Nat /\ j0 \notin used /\ used \subseteq 0 .. N
    BY <1>5 DEF HungarianInv, HungarianType, Outside
  <2>3. PICK next \in [0 .. N -> Nat] : next[j0] = steps /\ \A j \in used : next[j] = rank[j]
    <3>1. [rank EXCEPT ![j0] = steps] \in [0 .. N -> Nat]
      BY <2>2
    <3> QED
      BY <2>2, <3>1
  <2>4. ASSUME NEW j \in used \cup {j0}, j # 0
        PROVE  Follows(j, next)
    <3>1. CASE j \in used
      BY <2>1, <2>3, <2>4, <3>1 DEF Follows
    <3>2. CASE j = j0
      <4>1. next[way[j0]] < next[j0]
        BY <1>6, <2>1, <2>3
      <4> QED
        BY <1>5, <1>6, <3>2, <4>1 DEF Follows
    <3> QED
      BY <2>4, <3>1, <3>2
  <2>5. \A j \in used' \cup {j0'} : j # 0 => Follows(j, next)'
    BY <2>4 DEF Follows, Reduced
  <2> QED
    BY <2>3, <2>5 DEF WayIsOrdered, SEARCH, FLIP
<1>8. PotentialsCertify'
  <2>1. Priced' = Priced
    BY <1>5 DEF Priced, SEARCH, FLIP
  <2> QED
    BY <2>1 DEF HungarianInv, PotentialsCertify, Reduced
<1> QED
  BY <1>1, <1>2, <1>5, <1>7, <1>8 DEF HungarianInv

LEMMA FlipInv ==
  ASSUME HungarianInv, Flip
  PROVE  HungarianInv'
<1>0. /\ stage = FLIP /\ j0 # 0 /\ stage' = stage /\ steps' = steps /\ used' = used
      /\ p' = [p EXCEPT ![j0] = p[way[j0]]] /\ j0' = way[j0]
      /\ cost' = cost /\ i' = i /\ u' = u /\ v' = v /\ way' = way /\ minv' = minv
  BY DEF Flip
<1>1. N \in Nat /\ HungarianType /\ RowsAreAssigned /\ PotentialsCertify /\ steps > 0
  BY <1>0, HungarianAssumption DEF HungarianInv, SEARCH, FLIP
<1>2. PICK rank \in [0 .. N -> Nat] :
        \A j \in used \cup {j0} : j # 0 /\ rank[j] <= rank[j0] => Follows(j, rank)
  BY <1>0 DEF HungarianInv, WayIsOrdered
<1>3. j0 \in 0 .. N /\ j0 \in Columns /\ way[j0] \in 0 .. N /\ p[way[j0]] \in 0 .. N /\ used \subseteq 0 .. N
  BY <1>0, <1>1 DEF HungarianType, Columns
<1>4. Follows(j0, rank)
  BY <1>0, <1>2, <1>3
<1>5. way[j0] \in used /\ rank[way[j0]] < rank[j0] /\ p[way[j0]] # 0 /\ Reduced(p[way[j0]], j0) = 0
  BY <1>4 DEF Follows
<1>6. p'[j0] = p[way[j0]] /\ \A k \in 0 .. N : k # j0 => p'[k] = p[k]
  BY <1>0, <1>1, <1>3 DEF HungarianType
<1>7. HungarianType'
  BY <1>0, <1>1, <1>3 DEF HungarianType
<1>8. TreeIsRooted' /\ MinvIsLeast'
  BY <1>0 DEF TreeIsRooted, MinvIsLeast, SEARCH, FLIP
<1>9. RowsAreAssigned'
  <2>1. \A j, k \in 0 .. N : p[j] = p[k] /\ p[j] # 0 /\ j # k => j = j0 \/ k = j0
    BY <1>0, <1>1 DEF RowsAreAssigned, FLIP, RETURN
  <2>2. ASSUME NEW j \in 0 .. N, NEW k \in 0 .. N, p'[j] = p'[k], p'[j] # 0, j # k
        PROVE  j = way[j0] \/ k = way[j0]
    BY <1>3, <1>5, <1>6, <2>1, <2>2
  <2>3. p[way[j0]] <= i
    BY <1>1, <1>3 DEF RowsAreAssigned
  <2>4. \A j \in 0 .. N : p'[j] <= i
    BY <1>1, <1>6, <2>3 DEF RowsAreAssigned
  <2> QED
    BY <1>0, <2>2, <2>4 DEF RowsAreAssigned, SEARCH, FLIP
<1>10. WayIsOrdered'
  <2>1. ASSUME NEW j \in used, j # 0, rank[j] <= rank[way[j0]]
        PROVE  /\ way'[j] \in used' /\ rank[way'[j]] < rank[j] /\ p'[way'[j]] # 0
               /\ cost'[p'[way'[j]]][j] - u'[p'[way'[j]]] - v'[j] = 0
    <3>1. j \in 0 .. N /\ rank[j] \in Nat /\ rank[way[j0]] \in Nat /\ rank[j0] \in Nat
      BY <1>2, <1>3, <2>1
    <3>2. rank[j] <= rank[j0]
      BY <1>5, <2>1, <3>1
    <3>3. Follows(j, rank)
      BY <1>2, <2>1, <3>2
    <3>4. way[j] \in 0 .. N /\ rank[way[j]] \in Nat /\ rank[way[j]] < rank[j]
      BY <1>2, <1>3, <3>3 DEF Follows
    <3>5. way[j] # j0
      BY <3>1, <3>2, <3>4
    <3>6. p'[way[j]] = p[way[j]]
      BY <1>6, <3>4, <3>5
    <3> QED
      BY <1>0, <3>3, <3>6 DEF Follows, Reduced
  <2>2. ASSUME NEW j \in used, j # 0, rank[j] <= rank[way[j0]]
        PROVE  Follows(j, rank)'
    BY <2>1, <2>2 DEF Follows, Reduced
  <2>3. used' \cup {j0'} = used
    BY <1>0, <1>5
  <2>4. \A j \in used' \cup {j0'} : j # 0 /\ rank[j] <= rank[j0'] => Follows(j, rank)'
    BY <1>0, <2>2, <2>3
  <2> QED
    BY <1>0, <1>2, <2>4 DEF WayIsOrdered, SEARCH, FLIP
<1>11. PotentialsCertify'
  <2>1. Priced' = Priced
    BY <1>0 DEF Priced
  <2>2. \A r \in Priced, j \in Columns : cost'[r][j] - u'[r] - v'[j] >= 0
    BY <1>0, <1>1 DEF PotentialsCertify, Reduced
  <2>3. ASSUME NEW j \in Columns, p'[j] # 0
        PROVE  cost'[p'[j]][j] - u'[p'[j]] - v'[j] = 0
    <3>1. CASE j = j0
      BY <1>0, <1>5, <1>6, <3>1 DEF Reduced
    <3>2. CASE j # j0
      <4>1. p'[j] = p[j]
        BY <1>1, <1>6, <2>3, <3>2 DEF Columns
      <4> QED
        BY <1>0, <1>1, <2>3, <4>1 DEF PotentialsCertify, Reduced
    <3> QED
      BY <3>1, <3>2
  <2> QED
    BY <2>1, <2>2, <2>3 DEF PotentialsCertify, Reduced
<1> QED
  BY <1>0, <1>1, <1>7, <1>8, <1>9, <1>10, <1>11 DEF HungarianInv

LEMMA NextRowInv ==
  ASSUME HungarianInv, NextRow
  PROVE  HungarianInv'
<1>0. /\ stage = FLIP /\ stage' = SEARCH /\ steps' = 0 /\ used' = {} /\ i < N /\ i' = i + 1
      /\ p' = [p EXCEPT ![0] = i + 1] /\ j0 = 0 /\ j0' = 0
      /\ minv' = [j \in 0 .. N |-> Infinity]
      /\ cost' = cost /\ u' = u /\ v' = v /\ way' = way
  BY DEF NextRow
<1>1. N \in Nat /\ HungarianType /\ RowsAreAssigned /\ PotentialsCertify /\ i \in 1 .. N
  BY HungarianAssumption DEF HungarianInv, HungarianType, Rows
<1>a. i + 1 \in 0 .. N /\ 0 \in 0 .. N
  <2>1. i < N
    BY <1>0
  <2> QED
    BY <1>1, <2>1
<1>b. p \in [0 .. N -> 0 .. N]
  BY <1>1 DEF HungarianType
<1>2. p'[0] = i + 1 /\ \A j \in Columns : p'[j] = p[j] /\ p[j] \in 0 .. N /\ p[j] <= i
  <2>2. p'[0] = i + 1 /\ \A j \in 1 .. N : p'[j] = p[j] /\ p[j] \in 0 .. N /\ j \in 0 .. N
    BY <1>0, <1>1, <1>a, <1>b
  <2> QED
    BY <1>1, <2>2 DEF RowsAreAssigned, Columns
<1>3. HungarianType'
  <2>1. p' \in [0 .. N -> 0 .. N]
    BY <1>0, <1>a, <1>b
  <2>2. i' \in Rows /\ 0 \in 0 .. N
    BY <1>0, <1>1 DEF Rows
  <2>3. minv' \in [0 .. N -> Int \cup {Infinity}]
    BY <1>0
  <2> QED
    BY <1>0, <1>1, <2>1, <2>2, <2>3 DEF HungarianType
<1>4. RowsAreAssigned'
  <2>1. \A j \in Columns : p'[j] < i + 1
    BY <1>1, <1>2
  <2>2. ASSUME NEW j \in 0 .. N, NEW k \in 0 .. N, p'[j] = p'[k], p'[j] # 0, j # k
        PROVE  FALSE
    <3>1. CASE j \in Columns /\ k \in Columns
      <4>1. j = j0 \/ k = j0
        BY <1>0, <1>1, <1>2, <2>2, <3>1 DEF RowsAreAssigned, FLIP, RETURN
      <4> QED
        BY <1>0, <1>1, <3>1, <4>1 DEF Columns
    <3>2. CASE j = 0 \/ k = 0
      <4>1. j \in Columns \/ k \in Columns
        BY <1>1, <2>2, <3>2 DEF Columns
      <4> QED
        BY <1>1, <1>2, <2>1, <2>2, <3>2, <4>1
    <3> QED
      BY <1>1, <2>2, <3>1, <3>2 DEF Columns
  <2>3. \A j \in 0 .. N : p'[j] <= i + 1
    <3>1. \A j \in 0 .. N : j = 0 \/ j \in Columns
      BY <1>1 DEF Columns
    <3> QED
      BY <1>1, <1>2, <3>1
  <2> QED
    BY <1>0, <1>2, <2>1, <2>2, <2>3 DEF RowsAreAssigned
<1>5. TreeIsRooted' /\ MinvIsLeast'
  BY <1>0, FS_EmptySet DEF TreeIsRooted, MinvIsLeast
<1>6. WayIsOrdered'
  <2>1. Zeros \in [0 .. N -> Nat]
    BY DEF Zeros
  <2> QED
    BY <1>0, <2>1 DEF WayIsOrdered, SEARCH, FLIP
<1>7. PotentialsCertify'
  <2>1. Priced' \subseteq Priced
    BY <1>0, <1>1 DEF Priced, Rows, SEARCH, FLIP
  <2>2. \A r \in Priced', j \in Columns : cost'[r][j] - u'[r] - v'[j] >= 0
    BY <1>0, <1>1, <2>1 DEF PotentialsCertify, Reduced
  <2>3. \A j \in Columns : p'[j] # 0 => cost'[p'[j]][j] - u'[p'[j]] - v'[j] = 0
    BY <1>0, <1>1, <1>2 DEF PotentialsCertify, Reduced
  <2> QED
    BY <2>2, <2>3 DEF PotentialsCertify, Reduced
<1> QED
  BY <1>0, <1>3, <1>4, <1>5, <1>6, <1>7 DEF HungarianInv

LEMMA ReturnInv ==
  ASSUME HungarianInv, Return
  PROVE  HungarianInv'
<1> USE DEF Return
<1>1. HungarianType' /\ RowsAreAssigned' /\ TreeIsRooted' /\ MinvIsLeast'
  BY DEF HungarianInv, HungarianType, RowsAreAssigned, TreeIsRooted, MinvIsLeast, SEARCH, FLIP, RETURN
<1>2. WayIsOrdered'
  <2>1. Zeros \in [0 .. N -> Nat]
    BY DEF Zeros
  <2> QED
    BY <2>1 DEF WayIsOrdered, SEARCH, FLIP, RETURN
<1>3. PotentialsCertify'
  <2>1. Priced' = Priced
    BY DEF Priced, SEARCH, FLIP, RETURN
  <2> QED
    BY <2>1 DEF HungarianInv, PotentialsCertify, Reduced
<1>4. steps' > 0
  BY DEF HungarianInv, SEARCH, FLIP
<1> QED
  BY <1>1, <1>2, <1>3, <1>4 DEF HungarianInv

LEMMA HungarianStutter ==
  ASSUME HungarianInv, UNCHANGED vars
  PROVE  HungarianInv'
<1> USE DEF vars
<1>1. HungarianType' /\ RowsAreAssigned' /\ TreeIsRooted' /\ MinvIsLeast'
  BY DEF HungarianInv, HungarianType, RowsAreAssigned, TreeIsRooted, MinvIsLeast, Reduced
<1>2. WayIsOrdered'
  BY DEF HungarianInv, WayIsOrdered, Follows, Reduced
<1>3. PotentialsCertify'
  BY DEF HungarianInv, PotentialsCertify, Priced, Reduced
<1> QED
  BY <1>1, <1>2, <1>3 DEF HungarianInv

LEMMA HungarianInvHolds == Spec => []HungarianInv
<1>1. HungarianInv /\ [Next]_vars => HungarianInv'
  BY SearchInv, FoundInv, FlipInv, NextRowInv, ReturnInv, HungarianStutter DEF Next
<1> QED
  BY <1>1, HungarianInit, PTL DEF Spec

(* At every step of _min_cost_assignment, for every integer matrix, the    *)
(* potentials leave no reduced cost negative on the rows priced so far and *)
(* none positive on an assigned pair: they certify the partial assignment. *)
THEOREM PotentialsAlwaysCertify == Spec => []PotentialsCertify
<1>1. HungarianInv => PotentialsCertify
  BY DEF HungarianInv
<1> QED
  BY <1>1, HungarianInvHolds, PTL

(* Every step adds a column to the tree and the next one is outside it, so *)
(* the bound of the search is never exceeded and the AssertionError never  *)
(* raised.                                                                 *)
THEOREM SearchAlwaysConverges == Spec => []SearchConverges
<1>1. ASSUME HungarianInv, stage = SEARCH
      PROVE  steps <= N
  <2>0. N \in Nat /\ used \subseteq 0 .. N /\ j0 \in (0 .. N) \ used /\ steps = Cardinality(used)
    BY <1>1, HungarianAssumption DEF HungarianInv, HungarianType, TreeIsRooted, Outside
  <2>1. IsFiniteSet(0 .. N) /\ Cardinality(0 .. N) = N + 1
    BY <2>0, FS_Interval
  <2>2. used \in SUBSET (0 .. N) /\ used # 0 .. N
    BY <2>0
  <2>3. IsFiniteSet(used) /\ Cardinality(used) <= N + 1 /\ Cardinality(used) # N + 1
    BY <2>1, <2>2, FS_Subset
  <2>4. Cardinality(used) \in Nat
    BY <2>3, FS_CardinalityType
  <2> QED
    BY <2>0, <2>3, <2>4
<1>2. HungarianInv => SearchConverges
  BY <1>1 DEF SearchConverges
<1> QED
  BY <1>2, HungarianInvHolds, PTL
-----------------------------------------------------------------------------
(* Sums.  What a sum is worth is proved by going through an interval: a    *)
(* set that holds its start and, with every point, the next one holds it   *)
(* all.                                                                    *)

LEMMA IntervalInduction ==
  ASSUME NEW n \in Nat, NEW X, 0 \in X, \A r \in 1 .. n : r - 1 \in X => r \in X
  PROVE  0 .. n \subseteq X
<1> DEFINE Bad == {r \in 0 .. n : r \notin X}
<1> SUFFICES ASSUME Bad # {}
             PROVE  FALSE
  OBVIOUS
<1>1. Bad \in SUBSET Nat
  OBVIOUS
<1>2. PICK r \in Bad : \A m \in Bad : r <= m
  <2> HIDE DEF Bad
  <2> QED
    BY <1>1, LeastNatural
<1>3. r \in 1 .. n
  BY <1>2
<1>4. r - 1 \in 0 .. n /\ r - 1 \notin Bad
  BY <1>2, <1>3
<1> QED
  BY <1>2, <1>3, <1>4

(* S holds the sums of the first terms of g. *)
IsSums(S, g, n) == S = [r \in 0 .. n |-> IF r = 0 THEN 0 ELSE S[r - 1] + g[r]]

AreTerms(g, n) == \A r \in 1 .. n : g[r] \in Int

LEMMA SumsStep ==
  ASSUME NEW n \in Nat, NEW g, NEW S, IsSums(S, g, n)
  PROVE  S[0] = 0 /\ \A r \in 1 .. n : S[r] = S[r - 1] + g[r]
<1>1. 0 \in 0 .. n /\ \A r \in 1 .. n : r \in 0 .. n /\ r # 0
  OBVIOUS
<1> QED
  BY <1>1 DEF IsSums

LEMMA SumsAreInt ==
  ASSUME NEW n \in Nat, NEW g, AreTerms(g, n), NEW S, IsSums(S, g, n)
  PROVE  \A r \in 0 .. n : S[r] \in Int
<1> DEFINE X == {r \in 0 .. n : S[r] \in Int}
<1>1. S[0] = 0 /\ \A r \in 1 .. n : S[r] = S[r - 1] + g[r]
  BY SumsStep
<1>2. 0 \in X
  BY <1>1
<1>3. ASSUME NEW r \in 1 .. n, r - 1 \in X
      PROVE  r \in X
  BY <1>1, <1>3 DEF AreTerms
<1> HIDE DEF X
<1>4. 0 .. n \subseteq X
  BY <1>2, <1>3, IntervalInduction
<1> QED
  BY <1>4 DEF X

LEMMA SumsExist ==
  ASSUME NEW n \in Nat, NEW g
  PROVE  \E S : IsSums(S, g, n)
<1> DEFINE X == {m \in 0 .. n : \E S : IsSums(S, g, m)}
<1>1. 0 \in X
  <2> DEFINE Z == [r \in 0 .. 0 |-> 0]
  <2>1. IsSums(Z, g, 0)
    <3>1. \A r \in 0 .. 0 : r = 0
      OBVIOUS
    <3> QED
      BY <3>1 DEF IsSums
  <2> QED
    BY <2>1
<1>2. ASSUME NEW m \in 1 .. n, m - 1 \in X
      PROVE  m \in X
  <2>1. PICK S : IsSums(S, g, m - 1)
    BY <1>2
  <2> DEFINE T == [r \in 0 .. m |-> IF r = m THEN S[m - 1] + g[m] ELSE S[r]]
  <2>2. ASSUME NEW r \in 0 .. m
        PROVE  T[r] = IF r = 0 THEN 0 ELSE T[r - 1] + g[r]
    <3>0. m - 1 \in Nat
      BY <1>2
    <3>1. S[0] = 0 /\ \A k \in 1 .. (m - 1) : S[k] = S[k - 1] + g[k]
      BY <2>1, <3>0, SumsStep
    <3>2. CASE r = 0
      BY <1>2, <3>1, <3>2
    <3>3. CASE r = m
      BY <1>2, <3>3
    <3>4. CASE r # 0 /\ r # m
      BY <1>2, <2>2, <3>1, <3>4
    <3> QED
      BY <3>2, <3>3, <3>4
  <2>3. T = [r \in 0 .. m |-> T[r]]
    OBVIOUS
  <2> HIDE DEF T
  <2>4. IsSums(T, g, m)
    BY <2>2, <2>3 DEF IsSums
  <2> QED
    BY <1>2, <2>4
<1> HIDE DEF X
<1>3. 0 .. n \subseteq X
  BY <1>1, <1>2, IntervalInduction
<1> QED
  BY <1>3 DEF X

(* Terms that are the same up to k have the same sum up to k. *)
SameTerms(g, h, k) == \A r \in 1 .. k : g[r] = h[r]

LEMMA SumsAgree ==
  ASSUME NEW n \in Nat, NEW k \in 0 .. n, NEW g, NEW h, SameTerms(g, h, k),
         NEW S, IsSums(S, g, n), NEW T, IsSums(T, h, n)
  PROVE  S[k] = T[k]
<1> DEFINE X == {r \in 0 .. k : S[r] = T[r]}
<1>a. S[0] = 0 /\ \A r \in 1 .. n : S[r] = S[r - 1] + g[r]
  BY SumsStep
<1>b. T[0] = 0 /\ \A r \in 1 .. n : T[r] = T[r - 1] + h[r]
  BY SumsStep
<1>1. /\ S[0] = 0 /\ \A r \in 1 .. n : S[r] = S[r - 1] + g[r]
      /\ T[0] = 0 /\ \A r \in 1 .. n : T[r] = T[r - 1] + h[r]
  BY <1>a, <1>b
<1>2. 0 \in X
  BY <1>1
<1>3. ASSUME NEW r \in 1 .. k, r - 1 \in X
      PROVE  r \in X
  BY <1>1, <1>3 DEF SameTerms
<1> HIDE DEF X
<1>4. 0 .. k \subseteq X
  BY <1>2, <1>3, IntervalInduction
<1> QED
  BY <1>4 DEF X

(* Clearing one term takes it away from the sum. *)
IsWithout(h, g, c, n) == h[c] = 0 /\ \A r \in 1 .. n : r # c => h[r] = g[r]

LEMMA SumWithoutOne ==
  ASSUME NEW n \in Nat, NEW g, AreTerms(g, n), NEW c \in 1 .. n, NEW h, IsWithout(h, g, c, n),
         NEW S, IsSums(S, g, n), NEW T, IsSums(T, h, n)
  PROVE  T[n] = S[n] - g[c]
<1> DEFINE X == {r \in 0 .. n : T[r] = IF r < c THEN S[r] ELSE S[r] - g[c]}
<1>a. S[0] = 0 /\ \A r \in 1 .. n : S[r] = S[r - 1] + g[r]
  BY SumsStep
<1>b. T[0] = 0 /\ \A r \in 1 .. n : T[r] = T[r - 1] + h[r]
  BY SumsStep
<1>1. /\ S[0] = 0 /\ \A r \in 1 .. n : S[r] = S[r - 1] + g[r]
      /\ T[0] = 0 /\ \A r \in 1 .. n : T[r] = T[r - 1] + h[r]
  BY <1>a, <1>b
<1>2. \A r \in 0 .. n : S[r] \in Int
  BY SumsAreInt
<1>3. 0 \in X
  BY <1>1
<1>4. ASSUME NEW r \in 1 .. n, r - 1 \in X
      PROVE  r \in X
  <2>1. S[r - 1] \in Int /\ g[r] \in Int /\ S[r] = S[r - 1] + g[r] /\ T[r] = T[r - 1] + h[r]
    BY <1>1, <1>2, <1>4 DEF AreTerms
  <2>2. T[r - 1] = IF r - 1 < c THEN S[r - 1] ELSE S[r - 1] - g[c]
    BY <1>4
  <2>3. h[r] = IF r = c THEN 0 ELSE g[r]
    BY DEF IsWithout
  <2>c. g[c] \in Int
    BY DEF AreTerms
  <2>4. CASE r < c
    BY <2>1, <2>2, <2>3, <2>c, <2>4
  <2>5. CASE r = c
    BY <2>1, <2>2, <2>3, <2>c, <2>5
  <2>6. CASE r > c
    BY <2>1, <2>2, <2>3, <2>c, <2>6
  <2> QED
    BY <2>4, <2>5, <2>6
<1> HIDE DEF X
<1>5. 0 .. n \subseteq X
  BY <1>3, <1>4, IntervalInduction
<1> QED
  BY <1>5 DEF X

(* A sum of terms that are not positive is not; of none, it is none. *)
LEMMA SumIsNotPositive ==
  ASSUME NEW n \in Nat, NEW g, AreTerms(g, n), \A r \in 1 .. n : g[r] <= 0, NEW S, IsSums(S, g, n)
  PROVE  S[n] <= 0 /\ ((\A r \in 1 .. n : g[r] = 0) => S[n] = 0)
<1> DEFINE X == {r \in 0 .. n : S[r] <= 0 /\ ((\A k \in 1 .. n : g[k] = 0) => S[r] = 0)}
<1>1. S[0] = 0 /\ \A r \in 1 .. n : S[r] = S[r - 1] + g[r]
  BY SumsStep
<1>2. \A r \in 0 .. n : S[r] \in Int
  BY SumsAreInt
<1>3. 0 \in X
  BY <1>1
<1>4. ASSUME NEW r \in 1 .. n, r - 1 \in X
      PROVE  r \in X
  <2>1. S[r - 1] \in Int /\ g[r] \in Int /\ S[r] = S[r - 1] + g[r] /\ g[r] <= 0
    BY <1>1, <1>2, <1>4 DEF AreTerms
  <2>2. S[r - 1] <= 0 /\ ((\A k \in 1 .. n : g[k] = 0) => S[r - 1] = 0)
    BY <1>4
  <2>3. S[r] <= 0
    BY <2>1, <2>2
  <2>4. (\A k \in 1 .. n : g[k] = 0) => S[r] = 0
    BY <1>4, <2>1, <2>2
  <2> QED
    BY <2>3, <2>4
<1> HIDE DEF X
<1>5. 0 .. n \subseteq X
  BY <1>3, <1>4, IntervalInduction
<1> QED
  BY <1>5 DEF X
(* The terms of w that f picks, for rows 1 to k. *)
Picks(w, f, k) == [r \in 1 .. k |-> w[f[r]]]

IsOneToOne(f, k, n) ==
  /\ \A r \in 1 .. k : f[r] \in 1 .. n
  /\ \A r, s \in 1 .. k : f[r] = f[s] => r = s

(* Of terms that are not positive, those picked add up to at least the     *)
(* sum of all, and to just that sum if the others are zero.                *)
PickBounds(k, w, f, n, S, T) ==
  /\ S[n] <= T[k]
  /\ (\A j \in 1 .. n : w[j] = 0 \/ \E r \in 1 .. k : f[r] = j) => T[k] = S[n]

LEMMA SumOfPicks ==
  ASSUME NEW n \in Nat, NEW m \in Nat, NEW f, IsOneToOne(f, m, n)
  PROVE  \A w \in [1 .. n -> Int] : \A S, T :
           /\ \A j \in 1 .. n : w[j] <= 0
           /\ IsSums(S, w, n)
           /\ IsSums(T, Picks(w, f, m), m)
           => PickBounds(m, w, f, n, S, T)
<1> DEFINE Premise(w, S, T) == /\ \A j \in 1 .. n : w[j] <= 0
                               /\ IsSums(S, w, n)
                               /\ IsSums(T, Picks(w, f, m), m)
           X == {k \in 0 .. m : \A w \in [1 .. n -> Int] : \A S, T :
                    Premise(w, S, T) => PickBounds(k, w, f, n, S, T)}
<1>1. 0 \in X
  <2> SUFFICES ASSUME NEW w \in [1 .. n -> Int], NEW S, NEW T, Premise(w, S, T)
               PROVE  PickBounds(0, w, f, n, S, T)
    OBVIOUS
  <2>1. T[0] = 0
    BY SumsStep
  <2>2. S[n] <= 0 /\ ((\A r \in 1 .. n : w[r] = 0) => S[n] = 0)
    <3>1. AreTerms(w, n)
      BY DEF AreTerms
    <3> QED
      BY <3>1, SumIsNotPositive
  <2>3. ~ \E r \in 1 .. 0 : TRUE
    OBVIOUS
  <2> QED
    BY <2>1, <2>2, <2>3 DEF PickBounds
<1>2. ASSUME NEW k \in 1 .. m, k - 1 \in X
      PROVE  k \in X
  <2> SUFFICES ASSUME NEW w \in [1 .. n -> Int], NEW S, NEW T, Premise(w, S, T)
               PROVE  PickBounds(k, w, f, n, S, T)
    BY <1>2
  <2> DEFINE c == f[k]
             w2 == [w EXCEPT ![c] = 0]
             g == Picks(w, f, m)
             g2 == Picks(w2, f, m)
  <2>1. c \in 1 .. n /\ w[c] \in Int /\ w[c] <= 0 /\ k - 1 \in 0 .. m
    BY <1>2 DEF IsOneToOne
  <2>2. w2 \in [1 .. n -> Int] /\ w2[c] = 0 /\ \A j \in 1 .. n : j # c => w2[j] = w[j]
    BY <2>1
  <2>3. PICK S2 : IsSums(S2, w2, n)
    BY SumsExist
  <2>4. PICK T2 : IsSums(T2, g2, m)
    BY SumsExist
  <2>5. S2[n] = S[n] - w[c]
    <3>1. IsSums(S, w, n) /\ AreTerms(w, n) /\ IsWithout(w2, w, c, n)
      BY <2>2 DEF AreTerms, IsWithout
    <3> HIDE DEF w2, c, Premise
    <3> QED
      BY <2>1, <2>3, <3>1, SumWithoutOne
  <2>6. \A j \in 1 .. n : w2[j] <= 0
    BY <2>1, <2>2
  <2>7. IsSums(T, g, m)
    OBVIOUS
  <2> HIDE DEF w2
  <2>8. SameTerms(g, g2, k - 1)
    <3> SUFFICES ASSUME NEW r \in 1 .. (k - 1)
                 PROVE  g[r] = g2[r]
      BY DEF SameTerms
    <3>1. r \in 1 .. m /\ r # k
      BY <1>2
    <3>2. f[r] \in 1 .. n /\ f[r] # c
      BY <1>2, <3>1 DEF IsOneToOne
    <3> QED
      BY <2>2, <3>1, <3>2 DEF Picks
  <2>9. g[k] = w[c]
    BY <1>2 DEF Picks
  <2>10. T[k] = T[k - 1] + g[k]
    <3> HIDE DEF g, Premise
    <3> QED
      BY <1>2, <2>7, SumsStep
  <2>11. T[k - 1] = T2[k - 1]
    <3> HIDE DEF g, g2, Premise
    <3> QED
      BY <2>1, <2>4, <2>7, <2>8, SumsAgree
  <2>12. PickBounds(k - 1, w2, f, n, S2, T2)
    <3>1. Premise(w2, S2, T2)
      BY <2>3, <2>4, <2>6
    <3> HIDE DEF Premise
    <3> QED
      BY <1>2, <2>2, <3>1
  <2>13. S[n] \in Int /\ T[k - 1] \in Int
    <3>1. AreTerms(w, n)
      BY DEF AreTerms
    <3>2. AreTerms(g, m)
      BY DEF AreTerms, IsOneToOne, Picks
    <3>3. \A r \in 0 .. n : S[r] \in Int
      BY <3>1, SumsAreInt
    <3>4. \A r \in 0 .. m : T[r] \in Int
      <4> HIDE DEF g, Premise
      <4> QED
        BY <2>7, <3>2, SumsAreInt
    <3> QED
      BY <2>1, <3>3, <3>4
  <2> HIDE DEF g, g2
  <2>14. S[n] <= T[k]
    BY <2>1, <2>5, <2>9, <2>10, <2>11, <2>12, <2>13 DEF PickBounds
  <2>15. ASSUME \A j \in 1 .. n : w[j] = 0 \/ \E r \in 1 .. k : f[r] = j
         PROVE  T[k] = S[n]
    <3>1. ASSUME NEW j \in 1 .. n, w2[j] # 0
          PROVE  \E r \in 1 .. (k - 1) : f[r] = j
      <4>1. j # c /\ w[j] # 0
        BY <2>2, <3>1
      <4>2. PICK r \in 1 .. k : f[r] = j
        BY <2>15, <4>1
      <4>3. r \in 1 .. (k - 1)
        BY <1>2, <4>1, <4>2
      <4> QED
        BY <4>2, <4>3
    <3>2. T2[k - 1] = S2[n]
      BY <2>12, <3>1 DEF PickBounds
    <3> QED
      BY <2>1, <2>5, <2>9, <2>10, <2>11, <2>13, <3>2
  <2> QED
    BY <2>14, <2>15 DEF PickBounds
<1> HIDE DEF X
<1>3. 0 .. m \subseteq X
  BY <1>1, <1>2, IntervalInduction
<1>4. m \in X
  BY <1>3
<1> QED
  BY <1>4 DEF X
-----------------------------------------------------------------------------
(* Optimality.  A column's potential only ever falls, and only while the   *)
(* column has a row; every row so far has a column apart from the one the  *)
(* flip is about to overwrite.                                             *)
ColumnsArePriced ==
  /\ \A j \in Columns : v[j] <= 0 /\ (p[j] = 0 => v[j] = 0)
  /\ \A r \in 1 .. i : \E j \in 0 .. N : p[j] = r /\ (stage # SEARCH => j # j0)
  /\ stage = RETURN => j0 = 0 /\ \A j, k \in Columns : p[j] = p[k] /\ p[j] # 0 => j = k

LEMMA PricedInit ==
  ASSUME Init
  PROVE  ColumnsArePriced
<1>1. /\ p[0] = 1 /\ stage = SEARCH /\ i = 1 /\ N \in Nat /\ 0 \in 0 .. N
      /\ \A j \in Columns : v[j] = 0
  BY HungarianAssumption DEF Init, Zeros, Columns
<1>2. \A r \in 1 .. i : r = 1
  BY <1>1
<1> QED
  BY <1>1, <1>2 DEF ColumnsArePriced, SEARCH, RETURN

LEMMA PricedSearch ==
  ASSUME HungarianInv, ColumnsArePriced, Search
  PROVE  ColumnsArePriced'
<1>1. PICK d \in Int : /\ used # {} => 0 <= d
                       /\ v' = [j \in 0 .. N |-> IF j \in used \cup {j0} THEN v[j] - d ELSE v[j]]
  <2>1. TreeIsLowered
    BY SearchInv
  <2> QED
    BY <2>1 DEF TreeIsLowered
<1>2. stage = SEARCH /\ p[j0] # 0 /\ p' = p /\ i' = i /\ stage' = stage
  BY DEF Search
<1>3. ASSUME NEW j \in Columns
      PROVE  v'[j] <= 0 /\ (p'[j] = 0 => v'[j] = 0)
  <2>1. j \in 0 .. N /\ j # 0 /\ v[j] \in Int
    <3>1. j \in 0 .. N /\ j # 0
      BY HungarianAssumption DEF Columns
    <3> QED
      BY <3>1 DEF HungarianInv, HungarianType
  <2>2. v[j] <= 0 /\ (p[j] = 0 => v[j] = 0)
    BY DEF ColumnsArePriced
  <2>3. CASE j \in used \cup {j0}
    <3>1. used # {}
      BY <1>2, <2>1, <2>3 DEF HungarianInv, TreeIsRooted
    <3>2. p[j] # 0
      BY <1>2, <2>3 DEF HungarianInv, TreeIsRooted
    <3>3. v'[j] = v[j] - d
      BY <1>1, <2>1, <2>3
    <3> QED
      BY <1>1, <1>2, <2>1, <2>2, <3>1, <3>2, <3>3
  <2>4. CASE j \notin used \cup {j0}
    BY <1>1, <1>2, <2>1, <2>2, <2>4
  <2> QED
    BY <2>3, <2>4
<1>4. \A r \in 1 .. i : \E j \in 0 .. N : p[j] = r
  BY DEF ColumnsArePriced
<1> QED
  BY <1>2, <1>3, <1>4 DEF ColumnsArePriced, SEARCH, RETURN

LEMMA PricedFound ==
  ASSUME HungarianInv, ColumnsArePriced, Found
  PROVE  ColumnsArePriced'
<1>1. p[j0] = 0 /\ stage' = FLIP /\ p' = p /\ i' = i /\ v' = v /\ j0' = j0
  BY DEF Found
<1>2. ASSUME NEW r \in 1 .. i
      PROVE  \E j \in 0 .. N : p[j] = r /\ j # j0
  <2>1. PICK j \in 0 .. N : p[j] = r
    BY DEF ColumnsArePriced
  <2>2. r # 0
    OBVIOUS
  <2> QED
    BY <1>1, <2>1, <2>2
<1> QED
  BY <1>1, <1>2 DEF ColumnsArePriced, FLIP, RETURN

LEMMA PricedFlip ==
  ASSUME HungarianInv, ColumnsArePriced, Flip
  PROVE  ColumnsArePriced'
<1>1. /\ stage = FLIP /\ j0 # 0 /\ stage' = FLIP /\ i' = i /\ v' = v /\ j0' = way[j0]
      /\ p' = [p EXCEPT ![j0] = p[way[j0]]]
  BY DEF Flip
<1>2. N \in Nat /\ j0 \in 0 .. N /\ p \in [0 .. N -> 0 .. N] /\ way[j0] \in 0 .. N
  BY HungarianAssumption DEF HungarianInv, HungarianType
<1>3. PICK rank \in [0 .. N -> Nat] :
        \A j \in used \cup {j0} : j # 0 /\ rank[j] <= rank[j0] => Follows(j, rank)
  BY <1>1 DEF HungarianInv, WayIsOrdered
<1>4. rank[j0] <= rank[j0] /\ rank[j0] \in Nat
  BY <1>2
<1>5. Follows(j0, rank)
  BY <1>1, <1>3, <1>4
<1>6. way[j0] # j0 /\ p[way[j0]] # 0
  <2>1. rank[way[j0]] < rank[j0] /\ p[way[j0]] # 0
    BY <1>5 DEF Follows
  <2>2. ~ (rank[j0] < rank[j0])
    BY <1>4
  <2> QED
    BY <2>1, <2>2
<1>7. p'[j0] = p[way[j0]] /\ \A j \in 0 .. N : j # j0 => p'[j] = p[j]
  BY <1>1, <1>2
<1>8. ASSUME NEW j \in Columns
      PROVE  v'[j] <= 0 /\ (p'[j] = 0 => v'[j] = 0)
  <2>1. j \in 0 .. N
    BY <1>2 DEF Columns
  <2> QED
    BY <1>1, <1>6, <1>7, <2>1 DEF ColumnsArePriced
<1>9. ASSUME NEW r \in 1 .. i
      PROVE  \E j \in 0 .. N : p'[j] = r /\ j # way[j0]
  <2>1. PICK j \in 0 .. N : p[j] = r /\ j # j0
    BY <1>1 DEF ColumnsArePriced, SEARCH, FLIP
  <2>2. CASE j = way[j0]
    BY <1>2, <1>6, <1>7, <2>1, <2>2
  <2>3. CASE j # way[j0]
    BY <1>7, <2>1, <2>3
  <2> QED
    BY <2>2, <2>3
<1> QED
  BY <1>1, <1>8, <1>9 DEF ColumnsArePriced, FLIP, RETURN

LEMMA PricedNextRow ==
  ASSUME HungarianInv, ColumnsArePriced, NextRow
  PROVE  ColumnsArePriced'
<1>1. /\ stage = FLIP /\ j0 = 0 /\ stage' = SEARCH /\ i' = i + 1 /\ v' = v
      /\ p' = [p EXCEPT ![0] = i + 1]
  BY DEF NextRow
<1>2. N \in Nat /\ p \in [0 .. N -> 0 .. N] /\ i \in 1 .. N
  BY HungarianAssumption DEF HungarianInv, HungarianType, Rows
<1>3. p'[0] = i + 1 /\ \A j \in 0 .. N : j # 0 => p'[j] = p[j]
  BY <1>1, <1>2
<1>4. ASSUME NEW j \in Columns
      PROVE  v'[j] <= 0 /\ (p'[j] = 0 => v'[j] = 0)
  <2>1. j \in 0 .. N /\ j # 0
    BY <1>2 DEF Columns
  <2> QED
    BY <1>1, <1>3, <2>1 DEF ColumnsArePriced
<1>5. ASSUME NEW r \in 1 .. (i + 1)
      PROVE  \E j \in 0 .. N : p'[j] = r
  <2>1. CASE r = i + 1
    BY <1>2, <1>3, <2>1
  <2>2. CASE r # i + 1
    <3>1. r \in 1 .. i
      BY <1>2, <2>2
    <3>2. PICK j \in 0 .. N : p[j] = r /\ j # j0
      BY <1>1, <3>1 DEF ColumnsArePriced, SEARCH, FLIP
    <3> QED
      BY <1>1, <1>3, <3>2
  <2> QED
    BY <2>1, <2>2
<1> QED
  BY <1>1, <1>4, <1>5 DEF ColumnsArePriced, SEARCH, RETURN

LEMMA PricedReturn ==
  ASSUME HungarianInv, ColumnsArePriced, Return
  PROVE  ColumnsArePriced'
<1>1. stage = FLIP /\ j0 = 0 /\ stage' = RETURN /\ i' = i /\ v' = v /\ p' = p /\ j0' = j0
  BY DEF Return
<1>2. ASSUME NEW j \in Columns, NEW k \in Columns, p[j] = p[k], p[j] # 0
      PROVE  j = k
  <2>1. j \in 0 .. N /\ k \in 0 .. N /\ j # 0 /\ k # 0
    BY HungarianAssumption DEF Columns
  <2> QED
    BY <1>1, <1>2, <2>1 DEF HungarianInv, RowsAreAssigned, FLIP, RETURN
<1> QED
  BY <1>1, <1>2 DEF ColumnsArePriced, SEARCH, FLIP, RETURN

LEMMA PricedStutter ==
  ASSUME ColumnsArePriced, UNCHANGED vars
  PROVE  ColumnsArePriced'
BY DEF ColumnsArePriced, vars

LEMMA ColumnsStayPriced == Spec => [](HungarianInv /\ ColumnsArePriced)
<1>1. HungarianInv /\ ColumnsArePriced /\ [Next]_vars => ColumnsArePriced'
  BY PricedSearch, PricedFound, PricedFlip, PricedNextRow, PricedReturn, PricedStutter DEF Next
<1> QED
  BY <1>1, PricedInit, HungarianInvHolds, PTL DEF Spec

(* CostOf is the last of the sums of the rows' costs. *)
CostsOf(k, f) == [r \in 1 .. k |-> cost[r][f[r]]]

LEMMA CostIsSum ==
  ASSUME NEW k \in Nat, NEW f
  PROVE  \E S : IsSums(S, CostsOf(k, f), k) /\ CostOf(k, f) = S[k]
<1> DEFINE IsIt(S) == S = [r \in 0 .. k |-> IF r = 0 THEN 0 ELSE S[r - 1] + cost[r][f[r]]]
           sum == CHOOSE S : IsIt(S)
<1>1. CostOf(k, f) = sum[k]
  BY DEF CostOf
<1>2. ASSUME NEW S
      PROVE  IsIt(S) <=> IsSums(S, CostsOf(k, f), k)
  <2>1. \A r \in 0 .. k : r # 0 => r \in 1 .. k
    OBVIOUS
  <2>2. [r \in 0 .. k |-> IF r = 0 THEN 0 ELSE S[r - 1] + cost[r][f[r]]]
          = [r \in 0 .. k |-> IF r = 0 THEN 0 ELSE S[r - 1] + CostsOf(k, f)[r]]
    BY <2>1 DEF CostsOf
  <2> QED
    BY <2>2 DEF IsSums
<1>3. \E S : IsSums(S, CostsOf(k, f), k)
  BY SumsExist
<1>4. IsIt(sum)
  <2> HIDE DEF IsIt
  <2> QED
    BY <1>2, <1>3
<1> HIDE DEF IsIt, sum
<1> QED
  BY <1>1, <1>2, <1>4
LEMMA CostTerms ==
  ASSUME HungarianInv, NEW f, IsOneToOne(f, i, N)
  PROVE  \A r \in 1 .. i : r \in Rows /\ f[r] \in Columns /\ cost[r][f[r]] \in Int
<1>1. N \in Nat /\ i \in 1 .. N
  BY HungarianAssumption DEF HungarianInv, HungarianType, Rows
<1>2. \A r \in 1 .. i : r \in Rows /\ f[r] \in Columns
  BY <1>1 DEF Rows, Columns, IsOneToOne
<1> QED
  BY <1>2 DEF HungarianInv, HungarianType

(* Once row i has its column, each row so far is the row of the column     *)
(* that RowToCol gives it, and the columns left have potential zero.       *)
LEMMA RowsHaveColumns ==
  ASSUME HungarianInv, ColumnsArePriced, stage # SEARCH, j0 = 0
  PROVE  /\ IsOneToOne(RowToCol, i, N)
         /\ \A r \in 1 .. i : p[RowToCol[r]] = r
         /\ \A j \in 1 .. N : v[j] = 0 \/ \E r \in 1 .. i : RowToCol[r] = j
<1>1. N \in Nat /\ i \in 1 .. N
  BY HungarianAssumption DEF HungarianInv, HungarianType, Rows
<1>2. ASSUME NEW r \in 1 .. i
      PROVE  RowToCol[r] \in 1 .. N /\ p[RowToCol[r]] = r
  <2>1. PICK j \in 0 .. N : p[j] = r /\ j # j0
    BY DEF ColumnsArePriced
  <2>2. j \in Columns
    BY <1>1, <2>1 DEF Columns
  <2>3. r \in Rows
    BY <1>1 DEF Rows
  <2>4. RowToCol[r] = CHOOSE k \in Columns : p[k] = r
    BY <2>3 DEF RowToCol
  <2>5. RowToCol[r] \in Columns /\ p[RowToCol[r]] = r
    BY <2>1, <2>2, <2>4
  <2> QED
    BY <2>5 DEF Columns
<1>3. IsOneToOne(RowToCol, i, N)
  BY <1>2 DEF IsOneToOne
<1>4. ASSUME NEW j \in Columns, NEW k \in Columns, p[j] = p[k], p[j] # 0
      PROVE  j = k
  <2>1. CASE stage = RETURN
    BY <1>4, <2>1 DEF ColumnsArePriced
  <2>2. CASE stage # RETURN
    <3>1. j \in 0 .. N /\ k \in 0 .. N /\ j # 0 /\ k # 0
      BY <1>1 DEF Columns
    <3> QED
      BY <1>4, <2>2, <3>1 DEF HungarianInv, RowsAreAssigned
  <2> QED
    BY <2>1, <2>2
<1>5. ASSUME NEW j \in 1 .. N, v[j] # 0
      PROVE  \E r \in 1 .. i : RowToCol[r] = j
  <2>1. j \in Columns /\ j \in 0 .. N
    BY <1>1 DEF Columns
  <2>2. p[j] # 0
    BY <1>5, <2>1 DEF ColumnsArePriced
  <2>3. p[j] \in 0 .. N /\ p[j] <= i
    BY <2>1 DEF HungarianInv, HungarianType, RowsAreAssigned
  <2>4. p[j] \in 1 .. i
    BY <1>1, <2>2, <2>3
  <2>5. RowToCol[p[j]] \in Columns /\ p[RowToCol[p[j]]] = p[j]
    BY <1>2, <2>4 DEF Columns
  <2>6. RowToCol[p[j]] = j
    BY <1>4, <2>1, <2>2, <2>5
  <2> QED
    BY <2>4, <2>6
<1> QED
  BY <1>2, <1>3, <1>5

(* The columns' potentials, as the terms of a sum. *)
Prices == [j \in 1 .. N |-> v[j]]

LEMMA PricesOfRows ==
  ASSUME HungarianInv, ColumnsArePriced, NEW f, IsOneToOne(f, i, N), NEW S, IsSums(S, Prices, N),
         NEW A, IsSums(A, Picks(Prices, f, i), i)
  PROVE  PickBounds(i, Prices, f, N, S, A)
<1>1. N \in Nat /\ i \in Nat
  BY HungarianAssumption DEF HungarianInv, HungarianType, Rows
<1>2. Prices \in [1 .. N -> Int] /\ \A j \in 1 .. N : Prices[j] <= 0
  <2>1. \A j \in 1 .. N : j \in 0 .. N /\ j \in Columns
    BY <1>1 DEF Columns
  <2>2. \A j \in 1 .. N : v[j] \in Int /\ v[j] <= 0
    BY <2>1 DEF HungarianInv, HungarianType, ColumnsArePriced
  <2> QED
    BY <2>2 DEF Prices
<1> QED
  BY <1>1, <1>2, SumOfPicks

(* Row by row, the assignment of the program costs no more than another    *)
(* but for the potentials of the columns: a row's own column is tight.     *)
LEMMA RowByRow ==
  ASSUME HungarianInv, ColumnsArePriced, stage # SEARCH, j0 = 0,
         NEW f, IsOneToOne(f, i, N),
         NEW C, IsSums(C, CostsOf(i, RowToCol), i), NEW A, IsSums(A, Picks(Prices, RowToCol, i), i),
         NEW D, IsSums(D, CostsOf(i, f), i), NEW B, IsSums(B, Picks(Prices, f, i), i)
  PROVE  C[i] \in Int /\ D[i] \in Int /\ A[i] \in Int /\ B[i] \in Int /\ C[i] - A[i] <= D[i] - B[i]
<1> DEFINE m == RowToCol
           X == {r \in 0 .. i : C[r] - A[r] <= D[r] - B[r]}
<1>0. N \in Nat /\ i \in Nat /\ i \in 0 .. i
  BY HungarianAssumption DEF HungarianInv, HungarianType, Rows
<1>1. IsOneToOne(m, i, N) /\ \A r \in 1 .. i : p[m[r]] = r
  BY RowsHaveColumns
<1> HIDE DEF m
<1>a. IsSums(C, CostsOf(i, m), i) /\ IsSums(A, Picks(Prices, m, i), i)
  BY DEF m
<1>2. \A r \in 1 .. i : r \in Rows /\ m[r] \in Columns /\ cost[r][m[r]] \in Int
  BY <1>1, CostTerms
<1>3. \A r \in 1 .. i : f[r] \in Columns /\ cost[r][f[r]] \in Int
  BY CostTerms
<1>4. \A j \in Columns : v[j] \in Int /\ j \in 1 .. N
  BY <1>0 DEF HungarianInv, HungarianType, Columns
<1>5. C[0] = 0 /\ \A r \in 1 .. i : C[r] = C[r - 1] + CostsOf(i, m)[r]
  BY <1>0, <1>a, SumsStep
<1>6. D[0] = 0 /\ \A r \in 1 .. i : D[r] = D[r - 1] + CostsOf(i, f)[r]
  BY <1>0, SumsStep
<1>7. A[0] = 0 /\ \A r \in 1 .. i : A[r] = A[r - 1] + Picks(Prices, m, i)[r]
  BY <1>0, <1>a, SumsStep
<1>8. B[0] = 0 /\ \A r \in 1 .. i : B[r] = B[r - 1] + Picks(Prices, f, i)[r]
  BY <1>0, SumsStep
<1>9. \A r \in 0 .. i : C[r] \in Int
  <2>1. AreTerms(CostsOf(i, m), i)
    BY <1>2 DEF AreTerms, CostsOf
  <2> QED
    BY <1>0, <1>a, <2>1, SumsAreInt
<1>10. \A r \in 0 .. i : D[r] \in Int
  <2>1. AreTerms(CostsOf(i, f), i)
    BY <1>3 DEF AreTerms, CostsOf
  <2> QED
    BY <1>0, <2>1, SumsAreInt
<1>11. \A r \in 0 .. i : A[r] \in Int
  <2>1. AreTerms(Picks(Prices, m, i), i)
    BY <1>2, <1>4 DEF AreTerms, Picks, Prices
  <2> QED
    BY <1>0, <1>a, <2>1, SumsAreInt
<1>12. \A r \in 0 .. i : B[r] \in Int
  <2>1. AreTerms(Picks(Prices, f, i), i)
    BY <1>3, <1>4 DEF AreTerms, Picks, Prices
  <2> QED
    BY <1>0, <2>1, SumsAreInt
<1>13. 0 \in X
  BY <1>0, <1>5, <1>6, <1>7, <1>8
<1>14. ASSUME NEW r \in 1 .. i, r - 1 \in X
       PROVE  r \in X
  <2>1. r - 1 \in 0 .. i /\ r \in 0 .. i /\ C[r - 1] - A[r - 1] <= D[r - 1] - B[r - 1]
    BY <1>0, <1>14
  <2>2. C[r] = C[r - 1] + cost[r][m[r]] /\ D[r] = D[r - 1] + cost[r][f[r]]
    BY <1>5, <1>6, <1>14 DEF CostsOf
  <2>3. A[r] = A[r - 1] + v[m[r]] /\ B[r] = B[r - 1] + v[f[r]]
    BY <1>2, <1>3, <1>4, <1>7, <1>8, <1>14 DEF Picks, Prices
  <2>4. r \in Priced /\ p[m[r]] # 0
    <3>1. r \in Rows /\ r \in Int /\ i \in Int /\ r <= i /\ r # 0
      BY <1>0, <1>2, <1>14
    <3> QED
      BY <1>1, <1>14, <3>1 DEF Priced
  <2>5. Reduced(r, m[r]) = 0 /\ Reduced(r, f[r]) >= 0
    BY <1>1, <1>2, <1>3, <1>14, <2>4 DEF HungarianInv, PotentialsCertify
  <2>6. u[r] \in Int
    <3>1. r \in 0 .. N
      BY <1>0, <1>2, <1>14 DEF Rows
    <3> QED
      BY <3>1 DEF HungarianInv, HungarianType
  <2>7. v[m[r]] \in Int /\ v[f[r]] \in Int /\ cost[r][m[r]] \in Int /\ cost[r][f[r]] \in Int
    BY <1>2, <1>3, <1>4, <1>14
  <2>8. cost[r][m[r]] - v[m[r]] <= cost[r][f[r]] - v[f[r]]
    BY <2>5, <2>6, <2>7 DEF Reduced
  <2>9. C[r - 1] \in Int /\ A[r - 1] \in Int /\ D[r - 1] \in Int /\ B[r - 1] \in Int
    BY <1>9, <1>10, <1>11, <1>12, <2>1
  <2>10. C[r] - A[r] <= D[r] - B[r]
    BY <2>1, <2>2, <2>3, <2>7, <2>8, <2>9
  <2> QED
    BY <2>1, <2>10
<1> HIDE DEF X
<1>15. 0 .. i \subseteq X
  BY <1>0, <1>13, <1>14, IntervalInduction
<1>16. C[i] - A[i] <= D[i] - B[i]
  BY <1>0, <1>15 DEF X
<1> QED
  BY <1>0, <1>9, <1>10, <1>11, <1>12, <1>16

(* When _min_cost_assignment has added a row, no one-to-one choice of      *)
(* columns for the rows so far is cheaper than the program's, for every    *)
(* size and every matrix of integers: weak duality over the potentials.    *)
THEOREM RowsStayOptimal == Spec => []RowsAreOptimal
<1>1. ASSUME HungarianInv, ColumnsArePriced, stage # SEARCH, j0 = 0, NEW f \in Assignments(i)
      PROVE  CostOf(i, RowToCol) <= CostOf(i, f)
  <2>0. N \in Nat /\ i \in Nat
    BY <1>1, HungarianAssumption DEF HungarianInv, HungarianType, Rows
  <2>1. IsOneToOne(f, i, N)
    BY <1>1 DEF Assignments, Columns, IsOneToOne
  <2>2. /\ IsOneToOne(RowToCol, i, N)
        /\ \A j \in 1 .. N : v[j] = 0 \/ \E r \in 1 .. i : RowToCol[r] = j
    BY <1>1, RowsHaveColumns
  <2>3. PICK C : IsSums(C, CostsOf(i, RowToCol), i) /\ CostOf(i, RowToCol) = C[i]
    BY <2>0, CostIsSum
  <2>4. PICK D : IsSums(D, CostsOf(i, f), i) /\ CostOf(i, f) = D[i]
    BY <2>0, CostIsSum
  <2>5. PICK S : IsSums(S, Prices, N)
    BY <2>0, SumsExist
  <2>6. PICK A : IsSums(A, Picks(Prices, RowToCol, i), i)
    BY <2>0, SumsExist
  <2>7. PICK B : IsSums(B, Picks(Prices, f, i), i)
    BY <2>0, SumsExist
  <2>8. PickBounds(i, Prices, RowToCol, N, S, A)
    BY <1>1, <2>2, <2>5, <2>6, PricesOfRows
  <2>9. PickBounds(i, Prices, f, N, S, B)
    BY <1>1, <2>1, <2>5, <2>7, PricesOfRows
  <2>10. A[i] = S[N]
    BY <2>2, <2>8 DEF PickBounds, Prices
  <2>11. S[N] <= B[i]
    BY <2>9 DEF PickBounds
  <2>12. C[i] \in Int /\ D[i] \in Int /\ A[i] \in Int /\ B[i] \in Int /\ C[i] - A[i] <= D[i] - B[i]
    BY <1>1, <2>1, <2>3, <2>4, <2>6, <2>7, RowByRow
  <2> QED
    BY <2>3, <2>4, <2>10, <2>11, <2>12
<1>2. HungarianInv /\ ColumnsArePriced => RowsAreOptimal
  BY <1>1 DEF RowsAreOptimal, SEARCH, FLIP, RETURN
<1> QED
  BY <1>2, ColumnsStayPriced, PTL
=============================================================================
