----------------------------- MODULE Balancer ------------------------------
(***************************************************************************)
(* The load balancer of internal/router/balancer.go.  A backend is an      *)
(* object of its own, an address and the reload that created it: calls     *)
(* keep the list they have read, and UpdateBackends reuses the objects of  *)
(* addresses that stay.  The operators below are parts of actions; the     *)
(* modules that extend this one say who calls them.                        *)
(***************************************************************************)
EXTENDS Integers, Sequences, FiniteSets

CONSTANTS Addrs,        \* reader addresses
          Callers,      \* goroutines that call Next
          ReaderLists,  \* lists of addresses a configuration may have
          MaxReloads,
          IndexCycle    \* a common multiple of the lengths of these lists

ASSUME BalancerAssumption ==
    /\ ReaderLists \subseteq Seq(Addrs)
    /\ MaxReloads \in Nat
    /\ IndexCycle \in Nat \ {0}
    /\ \A l \in ReaderLists : /\ l # <<>> => IndexCycle % Len(l) = 0
                              /\ \A i, j \in 1 .. Len(l) : l[i] = l[j] => i = j

Backends == [addr : Addrs, born : 0 .. MaxReloads]

VARIABLES backends,   \* r.backends
          healthy,    \* healthy[b]: b.healthy
          replayLSN,  \* replayLSN[b]: b.replayLSN
          index,      \* r.index, modulo IndexCycle
          call,       \* call[c]: locals of a call of Next by c
          reloads     \* number of reloads so far

balancerVars == <<backends, healthy, replayLSN, index, call, reloads>>

\* left: iterations left; found: the backend returned, or none.  Two fields only
\* serve to state NextComplete: alone, nobody else has advanced the index during
\* the call; steady, the backends that were eligible all through it.
NoCall == [list |-> <<>>, left |-> 0, min |-> 0, found |-> {}, alone |-> TRUE, steady |-> {}]

InitialList(l) == [i \in 1 .. Len(l) |-> [addr |-> l[i], born |-> 0]]

BalancerInit ==
    /\ \E l \in ReaderLists : backends = InitialList(l)
    /\ healthy = [b \in Backends |-> TRUE]
    /\ replayLSN = [b \in Backends |-> 0]
    /\ index = 0
    /\ call = [c \in Callers |-> NoCall]
    /\ reloads = 0

Elems(seq) == {seq[i] : i \in 1 .. Len(seq)}

Eligible(b, min) == healthy[b] /\ replayLSN[b] >= min

\* Next and NextWithLSN read the list; they return at once when it is empty.
NextStart(c, min) ==
    /\ call' = [call EXCEPT ![c] =
          [list |-> backends, left |-> Len(backends), min |-> min, found |-> {},
           alone |-> \A d \in Callers : call[d].left = 0,
           steady |-> {b \in Elems(backends) : Eligible(b, min)}]]
    /\ UNCHANGED <<backends, healthy, replayLSN, index, reloads>>

\* Mutant: the loop is one iteration short.
NextProbeShort(c) ==
    LET k == call[c]
        b == k.list[(index % Len(k.list)) + 1]
    IN  /\ k.left > 0
        /\ index' = (index + 1) % IndexCycle
        /\ call' = [d \in Callers |->
              IF d # c THEN IF call[d].left > 0 THEN [call[d] EXCEPT !.alone = FALSE] ELSE call[d]
              ELSE IF Eligible(b, k.min) THEN [k EXCEPT !.left = 0, !.found = {b.addr}]
              ELSE [k EXCEPT !.left = IF @ = 2 THEN 0 ELSE @ - 1]]
        /\ UNCHANGED <<backends, healthy, replayLSN, reloads>>

\* One iteration of the loop: the index is advanced atomically, then the backend
\* it names is tested.
NextProbe(c) ==
    LET k == call[c]
        b == k.list[(index % Len(k.list)) + 1]
    IN  /\ k.left > 0
        /\ index' = (index + 1) % IndexCycle
        /\ call' = [d \in Callers |->
              IF d # c THEN IF call[d].left > 0 THEN [call[d] EXCEPT !.alone = FALSE] ELSE call[d]
              ELSE IF Eligible(b, k.min) THEN [k EXCEPT !.left = 0, !.found = {b.addr}]
              ELSE [k EXCEPT !.left = @ - 1]]
        /\ UNCHANGED <<backends, healthy, replayLSN, reloads>>

\* The caller has the result and drops the locals of the call.
NextReturn(c) ==
    /\ call[c].left = 0
    /\ call' = [call EXCEPT ![c] = NoCall]
    /\ UNCHANGED <<backends, healthy, replayLSN, index, reloads>>

\* MarkUnhealthy: the backend of that address, if it is still listed.
MarkUnhealthy(a) ==
    LET gone == {b \in Elems(backends) : b.addr = a}
    IN  /\ healthy' = [b \in Backends |-> healthy[b] /\ b \notin gone]
        /\ call' = [c \in Callers |-> IF call[c].left > 0
                                      THEN [call[c] EXCEPT !.steady = @ \ gone] ELSE call[c]]
        /\ UNCHANGED <<backends, replayLSN, index, reloads>>

\* checkBackends: a dial to an unhealthy backend succeeded.
Recover(b) ==
    /\ b \in Elems(backends)
    /\ ~healthy[b]
    /\ healthy' = [healthy EXCEPT ![b] = TRUE]
    /\ UNCHANGED <<backends, replayLSN, index, call, reloads>>

\* Mutant: every backend is created anew.
UpdateBackendsAnew(l) ==
    /\ reloads < MaxReloads
    /\ reloads' = reloads + 1
    /\ backends' = [i \in 1 .. Len(l) |-> [addr |-> l[i], born |-> reloads + 1]]
    /\ UNCHANGED <<healthy, replayLSN, index, call>>

UpdateBackends(l) ==
    /\ reloads < MaxReloads
    /\ reloads' = reloads + 1
    /\ backends' = [i \in 1 .. Len(l) |->
          IF \E b \in Elems(backends) : b.addr = l[i]
          THEN CHOOSE b \in Elems(backends) : b.addr = l[i]
          ELSE [addr |-> l[i], born |-> reloads + 1]]
    /\ UNCHANGED <<healthy, replayLSN, index, call>>

SetReplayLSN(a, lsn) ==
    /\ replayLSN' = [b \in Backends |->
          IF b \in Elems(backends) /\ b.addr = a THEN lsn ELSE replayLSN[b]]
    /\ UNCHANGED <<backends, healthy, index, call, reloads>>

-----------------------------------------------------------------------------
\* "Returns empty string if no healthy backend is available": a call that nobody
\* else's calls interleave with finds none only if no backend of its list was
\* eligible all through it.  (With another caller advancing the index in between,
\* Next may test the same backend every time.)
NextComplete ==
    \A c \in Callers : call[c].left = 0 /\ call[c].found = {} /\ call[c].alone =>
        call[c].steady = {}

\* "preserving healthy and replayLSN state for backends that already exist": a
\* listed address that was unhealthy and is healthy after a step was mended by the
\* health check, never by a reload of the list.
HealthPreserved ==
    [][\A b \in Elems(backends) : ~healthy[b] =>
          \A n \in Elems(backends') : n.addr = b.addr /\ healthy'[n] => UNCHANGED backends]_balancerVars
=============================================================================
