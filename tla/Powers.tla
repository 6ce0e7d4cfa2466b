------------------------------- MODULE Powers -------------------------------
(***************************************************************************)
(* Powers of a natural number, as a function of the exponent: the weights  *)
(* of the bits of a word and of the bytes of a number.                     *)
(***************************************************************************)
EXTENDS Naturals

Power(b) == LET p[k \in Nat] == IF k = 0 THEN 1 ELSE b * p[k - 1] IN p
=============================================================================
