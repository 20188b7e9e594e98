------------------------------ MODULE ReadPath ------------------------------
(***************************************************************************)
(* How a read finds a replica: handleReadQueryTraced of                    *)
(* internal/proxy/query_read.go over the balancer and the breakers of a    *)
(* database group, with the balancer's health check, reloads of the reader *)
(* list (DatabaseGroup.Reload) and replicas that come and go.              *)
(***************************************************************************)
EXTENDS Balancer, Breaker

VARIABLES breaker,  \* breaker[a]: readerCBs[a], or NoBreaker
          trouble,  \* replicas through which reads may fail, for whatever reason
          pc,       \* pc[s]: where session s is in handleReadQueryTraced
          reader,   \* reader[s]: readerAddr
          pool      \* pool[s]: rPool

vars == <<balancerVars, breaker, trouble, pc, reader, pool>>

NoBreaker == [NewCircuitBreaker EXCEPT !.state = "none"]

Init ==
    /\ BalancerInit
    /\ \E enabled \in BOOLEAN :
          breaker = [a \in Addrs |->
             IF enabled /\ \E b \in Elems(backends) : b.addr = a
             THEN NewCircuitBreaker ELSE NoBreaker]
    /\ trouble = {}
    /\ pc = [s \in Callers |-> "idle"]
    /\ reader = [s \in Callers |-> {}]
    /\ pool = [s \in Callers |-> {}]

Goto(s, l) == pc' = [pc EXCEPT ![s] = l]

Finish(s) ==
    /\ Goto(s, "idle")
    /\ reader' = [reader EXCEPT ![s] = {}]
    /\ pool' = [pool EXCEPT ![s] = {}]

\* The lookup ReaderCB(a), and what an operation makes of the breaker it finds.
Record(a, after) ==
    breaker' = [breaker EXCEPT ![a] = IF @ = NoBreaker THEN @ ELSE after]

\* A read that was not answered by the cache.
Read(s) ==
    /\ pc[s] = "idle"
    /\ NextStart(s, 0)
    /\ Goto(s, "choosing")
    /\ UNCHANGED <<breaker, trouble, reader, pool>>

Choose(s) ==
    /\ pc[s] = "choosing"
    /\ NextProbe(s)
    /\ UNCHANGED <<breaker, trouble, pc, reader, pool>>

\* Next has returned an address; the breaker is asked.
AskBreaker(s) ==
    /\ pc[s] = "choosing"
    /\ \E a \in call[s].found :
          /\ Record(a, Allow(breaker[a]))
          /\ IF breaker[a] = NoBreaker \/ Allows(breaker[a])
             THEN Goto(s, "lookup") /\ reader' = [reader EXCEPT ![s] = {a}]
             ELSE Goto(s, "fallback") /\ UNCHANGED reader
    /\ NextReturn(s)
    /\ UNCHANGED <<trouble, pool>>

\* Next has returned the empty string.
NoneFound(s) ==
    /\ pc[s] = "choosing"
    /\ call[s].found = {}
    /\ NextReturn(s)
    /\ Goto(s, "fallback")
    /\ UNCHANGED <<breaker, trouble, reader, pool>>

\* ReaderPool: a pool comes and goes with the backend of its address, so the backend
\* stands for it.
LookUpPool(s) ==
    /\ pc[s] = "lookup"
    /\ LET pools == {b \in Elems(backends) : b.addr \in reader[s]}
       IN  /\ pool' = [pool EXCEPT ![s] = pools]
           /\ Goto(s, IF pools = {} THEN "fallback" ELSE "acquire")
    /\ UNCHANGED <<balancerVars, breaker, trouble, reader>>

\* Acquire succeeds only while the pool is open, and fails once it is closed.
Acquire(s) ==
    /\ pc[s] = "acquire"
    /\ pool[s] \subseteq Elems(backends)
    /\ Goto(s, "run")
    /\ UNCHANGED <<balancerVars, breaker, trouble, reader, pool>>

AcquireFails(s) ==
    /\ pc[s] = "acquire"
    /\ reader[s] \subseteq trouble \/ ~ (pool[s] \subseteq Elems(backends))
    /\ \E a \in reader[s] : Record(a, RecordFailure(breaker[a]))
    /\ Goto(s, "mark")
    /\ UNCHANGED <<balancerVars, trouble, reader, pool>>

\* The query could not be sent: the breaker is not told.
ForwardFails(s) ==
    /\ pc[s] = "run"
    /\ reader[s] \subseteq trouble
    /\ Goto(s, "mark")
    /\ UNCHANGED <<balancerVars, breaker, trouble, reader, pool>>

\* The answer broke off.
RelayFails(s) ==
    /\ pc[s] = "run"
    /\ reader[s] \subseteq trouble
    /\ \E a \in reader[s] : Record(a, RecordFailure(breaker[a]))
    /\ Goto(s, "markEnd")
    /\ UNCHANGED <<balancerVars, trouble, reader, pool>>

\* The last step of each failure: the replica is marked, and the query goes to the
\* writer, or, after RelayFails, the session ends and another takes its place.
Mark(s) ==
    /\ pc[s] \in {"mark", "markEnd"}
    /\ \E a \in reader[s] : MarkUnhealthy(a)
    /\ IF pc[s] = "mark" THEN Goto(s, "fallback") /\ UNCHANGED <<reader, pool>> ELSE Finish(s)
    /\ UNCHANGED <<breaker, trouble>>

\* Mutant: a success is not recorded.
RelayUnrecorded(s) ==
    /\ pc[s] = "run"
    /\ Finish(s)
    /\ UNCHANGED <<balancerVars, breaker, trouble>>

Relay(s) ==
    /\ pc[s] = "run"
    /\ \E a \in reader[s] : Record(a, RecordSuccess(breaker[a]))
    /\ Finish(s)
    /\ UNCHANGED <<balancerVars, trouble>>

\* fallbackToWriter: the writer answers.
Fallback(s) ==
    /\ pc[s] = "fallback"
    /\ Finish(s)
    /\ UNCHANGED <<balancerVars, breaker, trouble>>

SessionStep(s) ==
    \/ Choose(s) \/ AskBreaker(s) \/ NoneFound(s) \/ LookUpPool(s) \/ Acquire(s)
    \/ AcquireFails(s) \/ ForwardFails(s) \/ RelayFails(s) \/ Mark(s) \/ Relay(s) \/ Fallback(s)

\* The balancer's health check dials an unhealthy backend; the dial may succeed
\* although queries fail.
CheckBackends(b) ==
    /\ Recover(b)
    /\ UNCHANGED <<breaker, trouble, pc, reader, pool>>

\* Breakers of addresses that stay are kept, the others are new; all go when the
\* configuration disables them.
Reload(l, enabled) ==
    /\ UpdateBackends(l)
    /\ breaker' = [a \in Addrs |->
          IF ~enabled \/ \A i \in 1 .. Len(l) : l[i] # a THEN NoBreaker
          ELSE IF breaker[a] = NoBreaker THEN NewCircuitBreaker ELSE breaker[a]]
    /\ UNCHANGED <<trouble, pc, reader, pool>>

OpenDurationPasses(a) ==
    /\ breaker[a].state = "open"
    /\ ~breaker[a].elapsed
    /\ breaker' = [breaker EXCEPT ![a] = Elapse(@)]
    /\ UNCHANGED <<balancerVars, trouble, pc, reader, pool>>

Break(a) ==
    /\ trouble' = trouble \cup {a}
    /\ UNCHANGED <<balancerVars, breaker, pc, reader, pool>>

Mend(a) ==
    /\ trouble' = trouble \ {a}
    /\ UNCHANGED <<balancerVars, breaker, pc, reader, pool>>

Next ==
    \/ \E s \in Callers : Read(s) \/ SessionStep(s)
    \/ \E b \in Backends : CheckBackends(b)
    \/ \E l \in ReaderLists, enabled \in BOOLEAN : Reload(l, enabled)
    \/ \E a \in Addrs : OpenDurationPasses(a) \/ Break(a) \/ Mend(a)

Spec == Init /\ [][Next]_vars

\* Handlers run on, clocks and the ticker of the health check go on, and a dial to a
\* replica that is not in trouble succeeds.  That clients keep reading is the
\* premise of Recovery, not a promise of the code.
LoadedSpec ==
    /\ Spec
    /\ \A s \in Callers : WF_vars(SessionStep(s)) /\ WF_vars(Read(s))
    /\ \A b \in Backends : WF_vars(b.addr \notin trouble /\ CheckBackends(b))
    /\ \A a \in Addrs : WF_vars(OpenDurationPasses(a))

-----------------------------------------------------------------------------
(* Properties *)

\* Whatever order results arrive in, with results of requests admitted in one state
\* recorded in another: the counters of every breaker describe its current window.
WindowsSound == \A a \in Addrs : breaker[a] # NoBreaker => WindowSound(breaker[a])

\* Under load, and once no replica fails any more, every listed replica is used
\* again: it stays healthy and its breaker closes for good.
Recovery ==
    <>[](trouble = {}) =>
        <>[](\A b \in Elems(backends) : healthy[b] /\ breaker[b.addr].state \in {"closed", "none"})
=============================================================================
