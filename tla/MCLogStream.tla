---------------------------- MODULE MCLogStream ----------------------------
(* A small instance of LogStream for TLC. *)
EXTENDS LogStream, TLC

CONSTANTS j1, j2, k1, p1

MCOneSpec == {[project |-> p1, expires_in |-> 1]}
MCTexts == (SUBSET (1 .. MaxEvents)) \ {{}}
MCBytes == [t \in MCTexts |-> Cardinality(t)]
=============================================================================
