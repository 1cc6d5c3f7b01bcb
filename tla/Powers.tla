------------------------------- MODULE Powers -------------------------------
(***************************************************************************)
(* Powers as a recursive function, which proofs can unfold.                *)
(***************************************************************************)
EXTENDS Integers

\* base to the power of n.
Power(base) == LET p[n \in Nat] == IF n = 0 THEN 1 ELSE base * p[n - 1] IN p
=============================================================================
