------------------------------- MODULE MCPool -------------------------------
(* Instances of Pool for TLC. *)
EXTENDS Pool, TLC

\* Goroutines of one kind, and connections, are interchangeable.
Symmetry ==
    Permutations(Borrowers) \cup Permutations(Warmers) \cup Permutations(Conns)
=============================================================================
