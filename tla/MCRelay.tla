------------------------------ MODULE MCRelay ------------------------------
(* Instances of Relay for TLC. *)
EXTENDS Relay, TLC

\* Sessions, and connections, are interchangeable.
Symmetry == Permutations(Sessions) \cup Permutations(Conns)

\* One statement per query, no savepoints.
PlainQueries == {<<"BEGIN">>, <<"END">>, <<"SELECT">>, <<"WRITE">>}

\* The same with statements that change the session, alone or behind another.
SettingQueries == PlainQueries \cup {<<"SET">>, <<"SELECT", "SET">>}

=============================================================================
