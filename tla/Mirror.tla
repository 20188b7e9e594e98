------------------------------- MODULE Mirror -------------------------------
(***************************************************************************)
(* The query mirror, internal/mirror/mirror.go: a bounded queue of jobs,   *)
(* the workers that replay them on the shadow database over a pool of      *)
(* their own, and Close.                                                   *)
(***************************************************************************)
EXTENDS Naturals

CONSTANTS Workers,
          WorkBuffer      \* capacity of workCh

VARIABLES workCh,         \* jobs in the channel
          mirrorDone,     \* done is closed
          worker,         \* worker[w]: "select", "execute" with a connection, "returned"
          mirrorPool      \* "open" or "closed"

mirrorVars == <<workCh, mirrorDone, worker, mirrorPool>>

MirrorInit ==
    /\ workCh = 0
    /\ mirrorDone = FALSE
    /\ worker = [w \in Workers |-> "select"]
    /\ mirrorPool = "open"

\* Send: a job that does not fit is dropped.
Send == workCh' = IF workCh < WorkBuffer THEN workCh + 1 ELSE workCh

WorkerTakes(w) ==
    /\ worker[w] = "select"
    /\ workCh > 0
    /\ workCh' = workCh - 1
    /\ worker' = [worker EXCEPT ![w] = "execute"]
    /\ UNCHANGED <<mirrorDone, mirrorPool>>

\* execute returns; it has released or discarded its connection.
WorkerFinishes(w) ==
    /\ worker[w] = "execute"
    /\ worker' = [worker EXCEPT ![w] = "select"]
    /\ UNCHANGED <<workCh, mirrorDone, mirrorPool>>

\* The select takes done, be there jobs or not.
WorkerReturns(w) ==
    /\ worker[w] = "select"
    /\ mirrorDone
    /\ worker' = [worker EXCEPT ![w] = "returned"]
    /\ UNCHANGED <<workCh, mirrorDone, mirrorPool>>

MirrorStep == \E w \in Workers : WorkerTakes(w) \/ WorkerFinishes(w) \/ WorkerReturns(w)

\* Mutant: Close does not wait.
WorkersReturnedUnasked == TRUE

WorkersReturned == \A w \in Workers : worker[w] = "returned"
=============================================================================
