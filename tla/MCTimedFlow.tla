---------------------------- MODULE MCTimedFlow -----------------------------
(***************************************************************************)
(* The timed hop on small catalogues of observations.                      *)
(***************************************************************************)
EXTENDS TimedFlow

Obs(source, seq, side, start, end) ==
  [source |-> source, seq |-> seq, side |-> side, start |-> start, at |-> end]

StartAndEnd == <<[name |-> START, offset |-> 1, window |-> 2],
                 [name |-> END, offset |-> 1, window |-> 2]>>

(* A pair with a neighbour that closes before it; a component that grows   *)
(* past its bound after one of its members came out of the queue; an       *)
(* observation too long for the join and one without times.                *)
TimedObservations == {
  Obs("a", 0, UP, 4, 4), Obs("a", 1, UP, 5, 7), Obs("b", 0, DOWN, 6, 6),
  Obs("a", 2, UP, 7, 9), Obs("b", 1, DOWN, 8, 10), Obs("a", 3, UP, 8, 10),
  Obs("b", 2, DOWN, 3, 6), Obs("b", 3, DOWN, NoStart, 7)}
=============================================================================
