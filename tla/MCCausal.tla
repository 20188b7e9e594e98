------------------------------ MODULE MCCausal ------------------------------
(* Instances of Causal for TLC. *)
EXTENDS Causal

CONSTANTS r1, r2

\* Two readers, and a reload to the second one alone or back.
Lists == {<<r1, r2>>, <<r2>>}

=============================================================================
