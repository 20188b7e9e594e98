---------------------------- MODULE MCHandleConn ----------------------------
(* An instance of HandleConn for TLC. *)
EXTENDS HandleConn, TLC

CONSTANTS u1, d1

NoNames == [x \in {} |-> 0]

\* One connection for everybody by default; two for u1, and at most two in all.
Tight == [user |-> [default |-> 1, named |-> NoNames], db |-> [default |-> 0, named |-> NoNames]]
Loose == [user |-> [default |-> 1, named |-> u1 :> 2], db |-> [default |-> 0, named |-> d1 :> 2]]

MCLimits == {Tight, Loose}

Symmetry == Permutations(Sessions)
=============================================================================
