---------------------------- MODULE MCAssignment ----------------------------
(***************************************************************************)
(* Every candidate graph of two lefts and three rights; with the records   *)
(* of a side interchangeable, as assign only uses their order to number    *)
(* the components.                                                         *)
(***************************************************************************)
EXTENDS Assignment

Sym == Permutations(Lefts) \cup Permutations(Rights)
=============================================================================
