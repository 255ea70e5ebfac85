----------------------------- MODULE MCMacQueue -----------------------------
(* Small instances of MacQueue for TLC. *)
EXTENDS MacQueue, TLC

CONSTANTS j1, j2, k1, k2, w1, w2, p1

MCSpecs    == {[project |-> p1, expires_in |-> 1]}
MCNoBytes  == [t \in Text |-> 1]
MCSymmetry == Permutations(Job) \cup Permutations(Key) \cup Permutations(Worker)
=============================================================================
