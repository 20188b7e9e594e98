---------------------------- MODULE MCRateLimit ----------------------------
(* An instance of RateLimit for TLC. *)
EXTENDS RateLimit, TLC

Symmetry == Permutations(Clients)
=============================================================================
