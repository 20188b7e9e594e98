----------------------------- MODULE MCReadPath -----------------------------
(* Instances of ReadPath for TLC. *)
EXTENDS ReadPath

CONSTANTS r1, r2

\* Two readers, and reloads to the second one alone and back.
Lists == {<<r1, r2>>, <<r2>>}
=============================================================================
