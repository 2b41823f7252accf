------------------------------ MODULE MCLogRing ------------------------------
(* Instance of LogRing for TLC.  The threads are interchangeable.          *)
EXTENDS LogRing, TLC
Symmetry == Permutations(Writers)
=============================================================================
