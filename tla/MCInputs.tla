------------------------------ MODULE MCInputs ------------------------------
(* Small instances of Inputs for TLC. *)
EXTENDS Inputs, TLC

CONSTANTS p1, p2, u1, u2, i1, i2

MCSize     == (p1 :> 1) @@ (p2 :> 2)
MCSymmetry == Permutations(Upload) \cup Permutations(Job)
=============================================================================
