------------------------------- MODULE PyRound -------------------------------
(***************************************************************************)
(* Python's round() of the quotient n / d of naturals: to the nearest      *)
(* integer, and a half to the even one.                                    *)
(***************************************************************************)
EXTENDS Integers

RoundHalfEven(n, d) ==
    LET q == n \div d
        r == n % d
    IN  IF 2 * r > d \/ (2 * r = d /\ q % 2 = 1) THEN q + 1 ELSE q
=============================================================================
