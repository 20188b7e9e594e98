----------------------------- MODULE ConnLease -----------------------------
(***************************************************************************)
(* What a connection pool promises its callers, with nothing said of how   *)
(* it keeps the promise: a connection is leased to at most one borrower at *)
(* a time, and a pool that has been shut grants no lease.  Pool implements *)
(* this specification (Pool!LeaseSpec), and the session relay is written   *)
(* against it.                                                             *)
(***************************************************************************)

CONSTANTS Borrowers,  \* goroutines that borrow
          Conns,      \* backend connections
          NoConn      \* "no connection"

VARIABLES lease,      \* lease[b]: the connection b has borrowed, or NoConn
          shut        \* the pool has been closed

leaseVars == <<lease, shut>>

Init ==
    /\ lease = [b \in Borrowers |-> NoConn]
    /\ shut = FALSE

\* Acquire returns connection c to b.
Grant(b, c) ==
    /\ ~shut
    /\ lease[b] = NoConn
    /\ \A q \in Borrowers : lease[q] # c
    /\ lease' = [lease EXCEPT ![b] = c]
    /\ UNCHANGED shut

\* Release or Discard takes b's connection back.
GiveBack(b) ==
    /\ lease[b] # NoConn
    /\ lease' = [lease EXCEPT ![b] = NoConn]
    /\ UNCHANGED shut

Shut ==
    /\ ~shut
    /\ shut' = TRUE
    /\ UNCHANGED lease

Next ==
    \/ \E b \in Borrowers, c \in Conns : Grant(b, c)
    \/ \E b \in Borrowers : GiveBack(b)
    \/ Shut

Spec == Init /\ [][Next]_leaseVars
=============================================================================
