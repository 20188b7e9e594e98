----------------------------- MODULE ConnLimit -----------------------------
(***************************************************************************)
(* ConnTracker of internal/proxy/connlimit.go: the active connections of   *)
(* each user and each database, and the limits on them.  Every method      *)
(* holds the mutex, so each is an operator on the tracker.                 *)
(***************************************************************************)
EXTENDS Integers, FiniteSets

CONSTANTS Users, DBs

\* limits: for "user" and "db" the default and the limits given by name; 0 is none.
NewConnTracker(limits) ==
    [byUser |-> [u \in Users |-> 0], byDB |-> [d \in DBs |-> 0], limits |-> limits]

Limit(l, name) == IF name \in DOMAIN l.named THEN l.named[name] ELSE l.default

Room(l, name, count) == Limit(l, name) = 0 \/ count < Limit(l, name)

\* Mutant: one connection too many.
TryAcquireOneMore(t, user, db) ==
    /\ Limit(t.limits.user, user) = 0 \/ t.byUser[user] <= Limit(t.limits.user, user)
    /\ Room(t.limits.db, db, t.byDB[db])

\* TryAcquire: whether both limits leave room ...
TryAcquire(t, user, db) ==
    /\ Room(t.limits.user, user, t.byUser[user])
    /\ Room(t.limits.db, db, t.byDB[db])

\* ... and the tracker after it has succeeded.
Acquired(t, user, db) ==
    [byUser |-> [t.byUser EXCEPT ![user] = @ + 1], byDB |-> [t.byDB EXCEPT ![db] = @ + 1],
     limits |-> t.limits]

\* Mutant: the counters are not kept from going below zero.
ReleaseUnclamped(t, user, db) == [t EXCEPT !.byUser[user] = @ - 1, !.byDB[db] = @ - 1]

Release(t, user, db) ==
    [byUser |-> [t.byUser EXCEPT ![user] = IF @ > 0 THEN @ - 1 ELSE @],
     byDB |-> [t.byDB EXCEPT ![db] = IF @ > 0 THEN @ - 1 ELSE @],
     limits |-> t.limits]

\* Mutant: a new tracker for the new limits.
UpdateLimitsFresh(t, limits) == NewConnTracker(limits)

UpdateLimits(t, limits) == [t EXCEPT !.limits = limits]
=============================================================================
