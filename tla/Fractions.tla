----------------------------- MODULE Fractions -----------------------------
(***************************************************************************)
(* The ratios of the M0 protocol.  A Decimal fraction written with three   *)
(* decimal places is an integer number of thousandths; products of two or  *)
(* three fractions are integers over Unit^2 or Unit^3, so every comparison *)
(* of the code is exact here, as it is there under ENGINE_CONTEXT.         *)
(***************************************************************************)
EXTENDS Integers

Unit == 1000

Fraction == 0 .. Unit

(* a / b to the nearest integer, a tie to the even one. *)
RoundHalfEven(a, b) ==
  LET quotient == a \div b
      twice    == 2 * (a % b)
  IN  IF twice > b \/ (twice = b /\ quotient % 2 = 1)
        THEN quotient + 1 ELSE quotient

(* _achievable: some count of denominator rounds to value. *)
Achievable(value, denominator) ==
  denominator = 0 \/
    LET k == RoundHalfEven(value * denominator, Unit)
    IN  k \in 0 .. denominator /\ RoundHalfEven(k * Unit, denominator) = value
=============================================================================
