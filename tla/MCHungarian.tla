----------------------------- MODULE MCHungarian -----------------------------
(***************************************************************************)
(* The matrices that _resolve builds for candidate graphs of two lefts and *)
(* two rights, with or without one cell forbidden.                         *)
(***************************************************************************)
EXTENDS Hungarian, FiniteSetsExt

CONSTANT MCWeights

Alone == {<<1, 3>>, <<2, 4>>, <<3, 1>>, <<4, 2>>}
Slack == (3 .. 4) \X (3 .. 4)

(* A weight of 0 is no edge. *)
Matrix(graph, cell) ==
  LET forbidden == 1 + MapThenSumSet(LAMBDA e : graph[e], (1 .. 2) \X (1 .. 2))
  IN  [r \in 1 .. 4 |-> [c \in 1 .. 4 |->
         IF <<r, c>> = cell THEN forbidden
         ELSE IF r <= 2 /\ c <= 2 /\ graph[<<r, c>>] > 0 THEN - graph[<<r, c>>]
         ELSE IF <<r, c>> \in Alone \cup Slack THEN 0
         ELSE forbidden]]

MCCosts ==
  {Matrix(graph, cell) : graph \in [(1 .. 2) \X (1 .. 2) -> MCWeights],
                         cell \in Alone \cup ((1 .. 2) \X (1 .. 2)) \cup {<<0, 0>>}}
=============================================================================
