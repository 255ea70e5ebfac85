------------------------------ MODULE MCStore ------------------------------
(* Small instances of Store for TLC. *)
EXTENDS Store, TLC

CONSTANTS j1, j2, j3, k1, k2, k3, p1, p2

\* Two projects, and jobs that wait one tick.
MCSpecs    == {[project |-> p1, expires_in |-> 1], [project |-> p2, expires_in |-> 1]}
MCNoBytes  == [t \in Text |-> 1]
MCSymmetry == Permutations(Job) \cup Permutations(Key)
=============================================================================
