------------------------------ MODULE MCCache ------------------------------
(* An instance of CacheCluster for TLC. *)
EXTENDS CacheCluster, TLC

CONSTANTS t1, t2, p1, p2, c1, c2

\* The reads at each proxy race what Redis delivers of the other's writes.
MCHome == (c1 :> {p1}) @@ (c2 :> {p2})

\* A query on one table, and a join for which the two parsers disagree.
MCReadsOf == ("k1" :> {{t1}}) @@ ("k2" :> {{t1, t2}, {t2}})

MCWrites == {{t1, t2}}
=============================================================================
