--------------------------- MODULE RoutingProofs ----------------------------
(***************************************************************************)
(* Proofs about the routing of reads, for every number of sessions,        *)
(* replicas and reloads and every breaker configuration: of ReadPath, the  *)
(* counters of the breakers, the health of the replicas and what the       *)
(* balancer finds; of Causal, the consistency of writes outside            *)
(* transactions, for any number of WAL records.                            *)
(***************************************************************************)
EXTENDS ReadPath, Causal, SequenceTheorems, TLAPS

\* A breaker as the operations leave it.
Sound(b) == b \in Breakers /\ WindowSound(b)

\* NewCircuitBreaker: the counters start at zero.
LEMMA NewSound == Sound(NewCircuitBreaker)
BY BreakerAssumption, SMTT(30) DEF Sound, Breakers, WindowSound, NewCircuitBreaker

\* resetCounters empties the window and touches nothing else.
LEMMA ResetFields ==
    ASSUME NEW b \in Breakers
    PROVE  LET c == resetCounters(b)
           IN  /\ c \in Breakers
               /\ c.state = b.state /\ c.halfOpenOK = b.halfOpenOK
               /\ c.total = 0 /\ c.successes = 0 /\ c.failures = 0
<1>1. 0 \in Nat
  OBVIOUS
<1>2. resetCounters(b) \in Breakers
  BY <1>1, ZenonT(30) DEF Breakers, resetCounters
<1> QED BY <1>2, ZenonT(30) DEF Breakers, resetCounters

\* Tripping starts the clock and keeps the counters.
LEMMA OpenedFields ==
    ASSUME NEW b \in Breakers
    PROVE  LET c == Opened(b)
           IN  /\ c \in Breakers
               /\ c.state = "open"
               /\ c.total = b.total /\ c.successes = b.successes /\ c.failures = b.failures
<1>1. 0 \in Nat
  OBVIOUS
<1>2. Opened(b) \in Breakers
  BY <1>1, ZenonT(30) DEF Breakers, Opened
<1> QED BY <1>2, ZenonT(30) DEF Breakers, Opened

\* Allow and State: opening half-way starts the count of successes again.
LEMMA AllowSound == ASSUME NEW b, Sound(b) PROVE Sound(Allow(b))
<1>1. CASE b.state = "open" /\ b.elapsed
  <2> DEFINE c == [b EXCEPT !.state = "halfopen", !.halfOpenOK = 0, !.elapsed = FALSE]
  <2>1. 0 \in Nat
    OBVIOUS
  <2>2. c \in Breakers
    BY <2>1, ZenonT(30) DEF Sound, Breakers
  <2>3. /\ c.state = "halfopen" /\ c.halfOpenOK = 0
        /\ c.total = b.total /\ c.successes = b.successes /\ c.failures = b.failures
    BY ZenonT(30) DEF Sound, Breakers
  <2>4. b.total = b.successes + b.failures /\ b.total < WindowSize /\ b.total = 0
    BY <1>1, ZenonT(30) DEF Sound, WindowSound
  <2>5. Allow(b) = c
    BY <1>1 DEF Allow
  <2> HIDE DEF c
  <2>6. WindowSound(c)
    BY <2>3, <2>4, BreakerAssumption, SMTT(30) DEF WindowSound
  <2> QED BY <2>2, <2>5, <2>6 DEF Sound
<1>2. CASE ~(b.state = "open" /\ b.elapsed)
  BY <1>2, Zenon DEF Allow
<1> QED BY <1>1, <1>2

\* The passing of OpenDuration touches no counter.
LEMMA ElapseSound == ASSUME NEW b, Sound(b) PROVE Sound(Elapse(b))
<1>1. Elapse(b) \in Breakers
  BY ZenonT(30) DEF Sound, Breakers, Elapse
<1>2. /\ Elapse(b).state = b.state /\ Elapse(b).halfOpenOK = b.halfOpenOK
      /\ Elapse(b).total = b.total /\ Elapse(b).successes = b.successes
      /\ Elapse(b).failures = b.failures
  BY ZenonT(30) DEF Sound, Breakers, Elapse
<1> QED BY <1>1, <1>2, Zenon DEF Sound, WindowSound

\* evaluateWindow: a window that is full is evaluated and emptied, whatever the
\* threshold.
LEMMA EvaluateSound ==
    ASSUME NEW b \in Breakers, b.state = "closed", b.total = b.successes + b.failures
    PROVE  Sound(evaluateWindow(b))
<1>1. CASE b.total < WindowSize
  <2>1. evaluateWindow(b) = b
    BY <1>1 DEF evaluateWindow
  <2> QED BY <1>1, <2>1, Zenon DEF Sound, WindowSound
<1>2. CASE ~(b.total < WindowSize)
  <2> DEFINE d == IF b.failures * ThresholdDen >= ThresholdNum * b.total THEN Opened(b) ELSE b
  <2>1. evaluateWindow(b) = resetCounters(d)
    BY <1>2, Zenon DEF evaluateWindow
  <2>2. d \in Breakers /\ d.state \in {"open", "closed"}
    BY OpenedFields, Zenon
  <2> HIDE DEF d
  <2> DEFINE c == resetCounters(d)
  <2>3. /\ c \in Breakers /\ c.state = d.state
        /\ c.total = 0 /\ c.successes = 0 /\ c.failures = 0
    BY <2>2, ResetFields, Zenon
  <2> HIDE DEF c
  <2>4. WindowSound(c)
    BY <2>2, <2>3, BreakerAssumption, SMTT(30) DEF WindowSound
  <2> QED BY <2>1, <2>3, <2>4 DEF Sound, c
<1> QED BY <1>1, <1>2

\* RecordSuccess: a success is counted once, in the window or in the half-open
\* phase, and enough of them in the latter start an empty window.
LEMMA SuccessSound == ASSUME NEW b, Sound(b) PROVE Sound(RecordSuccess(b))
<1> /\ b \in Breakers
    /\ b.total = b.successes + b.failures /\ b.total < WindowSize
    /\ b.state # "closed" => b.total = 0
    /\ b.state = "halfopen" => b.halfOpenOK < HalfOpenMax
  BY Zenon DEF Sound, WindowSound
<1>0. /\ b.total + 1 \in Nat /\ b.successes + 1 \in Nat /\ b.halfOpenOK + 1 \in Nat
      /\ b.total + 1 = (b.successes + 1) + b.failures
  BY SMTT(30) DEF Breakers
<1>1. CASE b.state = "closed"
  <2> DEFINE c == [b EXCEPT !.successes = @ + 1, !.total = @ + 1]
  <2>1. c \in Breakers
    BY <1>0, ZenonT(30) DEF Breakers
  <2>2. /\ c.state = "closed" /\ c.total = b.total + 1
        /\ c.successes = b.successes + 1 /\ c.failures = b.failures
    BY <1>1, ZenonT(30) DEF Breakers
  <2>3. RecordSuccess(b) = evaluateWindow(c)
    BY <1>1 DEF RecordSuccess
  <2> HIDE DEF c
  <2> QED BY <1>0, <2>1, <2>2, <2>3, EvaluateSound, Zenon
<1>2. CASE b.state = "halfopen" /\ b.halfOpenOK + 1 >= HalfOpenMax
  <2> DEFINE d == [b EXCEPT !.state = "closed", !.halfOpenOK = 0]
  <2>1. 0 \in Nat
    OBVIOUS
  <2>2. d \in Breakers /\ d.state = "closed"
    BY <2>1, ZenonT(30) DEF Breakers
  <2>3. RecordSuccess(b) = resetCounters(d)
    BY <1>2, Zenon DEF RecordSuccess
  <2> HIDE DEF d
  <2> DEFINE c == resetCounters(d)
  <2>4. c \in Breakers /\ c.state = "closed" /\ c.total = 0 /\ c.successes = 0 /\ c.failures = 0
    BY <2>2, ResetFields, Zenon
  <2> HIDE DEF c
  <2>5. WindowSound(c)
    BY <2>4, BreakerAssumption, SMTT(30) DEF WindowSound
  <2> QED BY <2>3, <2>4, <2>5 DEF Sound, c
<1>3. CASE b.state = "halfopen" /\ ~(b.halfOpenOK + 1 >= HalfOpenMax)
  <2> DEFINE c == [b EXCEPT !.halfOpenOK = @ + 1]
  <2>1. c \in Breakers
    BY <1>0, ZenonT(30) DEF Breakers
  <2>2. /\ c.state = "halfopen" /\ c.halfOpenOK = b.halfOpenOK + 1
        /\ c.total = b.total /\ c.successes = b.successes /\ c.failures = b.failures
    BY <1>3, ZenonT(30) DEF Breakers
  <2>3. RecordSuccess(b) = c
    BY <1>3, Zenon DEF RecordSuccess
  <2> HIDE DEF c
  <2>4. WindowSound(c)
    BY <1>0, <1>3, <2>2, BreakerAssumption, SMTT(30) DEF WindowSound
  <2> QED BY <2>1, <2>3, <2>4 DEF Sound
<1>4. CASE b.state # "closed" /\ b.state # "halfopen"
  BY <1>4, Zenon DEF RecordSuccess
<1> QED BY <1>1, <1>2, <1>3, <1>4

\* RecordFailure: a failure is counted in the window, or opens the breaker again.
LEMMA FailureSound == ASSUME NEW b, Sound(b) PROVE Sound(RecordFailure(b))
<1> /\ b \in Breakers
    /\ b.total = b.successes + b.failures /\ b.total < WindowSize
    /\ b.state # "closed" => b.total = 0
  BY Zenon DEF Sound, WindowSound
<1>0. /\ b.total + 1 \in Nat /\ b.failures + 1 \in Nat
      /\ b.total + 1 = b.successes + (b.failures + 1)
  BY SMTT(30) DEF Breakers
<1>1. CASE b.state = "closed"
  <2> DEFINE c == [b EXCEPT !.failures = @ + 1, !.total = @ + 1]
  <2>1. c \in Breakers
    BY <1>0, ZenonT(30) DEF Breakers
  <2>2. /\ c.state = "closed" /\ c.total = b.total + 1
        /\ c.successes = b.successes /\ c.failures = b.failures + 1
    BY <1>1, ZenonT(30) DEF Breakers
  <2>3. RecordFailure(b) = evaluateWindow(c)
    BY <1>1 DEF RecordFailure
  <2> HIDE DEF c
  <2> QED BY <1>0, <2>1, <2>2, <2>3, EvaluateSound, Zenon
<1>2. CASE b.state = "halfopen"
  <2>1. RecordFailure(b) = Opened(b)
    BY <1>2, Zenon DEF RecordFailure
  <2> DEFINE c == Opened(b)
  <2>2. /\ c \in Breakers /\ c.state = "open"
        /\ c.total = b.total /\ c.successes = b.successes /\ c.failures = b.failures
    BY OpenedFields, Zenon
  <2> HIDE DEF c
  <2>3. WindowSound(c)
    BY <1>2, <2>2, SMTT(30) DEF WindowSound
  <2> QED BY <2>1, <2>2, <2>3 DEF Sound, c
<1>3. CASE b.state # "closed" /\ b.state # "halfopen"
  BY <1>3, Zenon DEF RecordFailure
<1> QED BY <1>1, <1>2, <1>3

\* The breakers of all addresses.
BreakersInv ==
    /\ breaker \in [Addrs -> Breakers \cup {NoBreaker}]
    /\ \A a \in Addrs : breaker[a] # NoBreaker => Sound(breaker[a])

\* A result recorded for one address leaves the breakers of the others alone, and an
\* address without a breaker gets none.
LEMMA RecordKeeps ==
    ASSUME BreakersInv, NEW a, NEW new,
           a \in Addrs /\ breaker[a] # NoBreaker => Sound(new),
           breaker' = [breaker EXCEPT ![a] = IF @ = NoBreaker THEN @ ELSE new]
    PROVE  BreakersInv'
<1>1. ASSUME NEW x \in Addrs
      PROVE  breaker'[x] = IF x = a /\ breaker[x] # NoBreaker THEN new ELSE breaker[x]
  BY Zenon DEF BreakersInv
<1>2. ASSUME NEW x \in Addrs
      PROVE  /\ breaker'[x] \in Breakers \cup {NoBreaker}
             /\ breaker'[x] # NoBreaker => Sound(breaker'[x])
  BY <1>1, Zenon DEF BreakersInv, Sound
<1>3. breaker' \in [Addrs -> Breakers \cup {NoBreaker}]
  BY <1>2, Zenon DEF BreakersInv
<1> QED BY <1>2, <1>3, Zenon DEF BreakersInv

\* Init: every listed reader starts with a new breaker.
LEMMA BreakersInit == Init => BreakersInv
<1> SUFFICES ASSUME Init PROVE BreakersInv
  OBVIOUS
<1>1. NewCircuitBreaker \in Breakers
  BY NewSound DEF Sound
<1> QED BY <1>1, NewSound, Zenon DEF Init, BreakersInv

\* Every step keeps the breakers sound: the steps of handleReadQueryTraced through
\* Allow, RecordSuccess and RecordFailure, a reload through NewCircuitBreaker, time
\* through the clock of an open breaker.
LEMMA BreakersStep == BreakersInv /\ [Next]_vars => BreakersInv'
<1> SUFFICES ASSUME BreakersInv, [Next]_vars PROVE BreakersInv'
  OBVIOUS
<1>1. CASE UNCHANGED breaker
  BY <1>1, Zenon DEF BreakersInv
<1>2. ASSUME NEW a, Record(a, Allow(breaker[a])) PROVE BreakersInv'
  <2> DEFINE new == Allow(breaker[a])
  <2>1. a \in Addrs /\ breaker[a] # NoBreaker => Sound(new)
    BY AllowSound, Zenon DEF BreakersInv
  <2>2. breaker' = [breaker EXCEPT ![a] = IF @ = NoBreaker THEN @ ELSE new]
    BY <1>2, Zenon DEF Record
  <2> HIDE DEF new
  <2> QED BY <2>1, <2>2, RecordKeeps
<1>3. ASSUME NEW a, Record(a, RecordSuccess(breaker[a])) PROVE BreakersInv'
  <2> DEFINE new == RecordSuccess(breaker[a])
  <2>1. a \in Addrs /\ breaker[a] # NoBreaker => Sound(new)
    BY SuccessSound, Zenon DEF BreakersInv
  <2>2. breaker' = [breaker EXCEPT ![a] = IF @ = NoBreaker THEN @ ELSE new]
    BY <1>3, Zenon DEF Record
  <2> HIDE DEF new
  <2> QED BY <2>1, <2>2, RecordKeeps
<1>4. ASSUME NEW a, Record(a, RecordFailure(breaker[a])) PROVE BreakersInv'
  <2> DEFINE new == RecordFailure(breaker[a])
  <2>1. a \in Addrs /\ breaker[a] # NoBreaker => Sound(new)
    BY FailureSound, Zenon DEF BreakersInv
  <2>2. breaker' = [breaker EXCEPT ![a] = IF @ = NoBreaker THEN @ ELSE new]
    BY <1>4, Zenon DEF Record
  <2> HIDE DEF new
  <2> QED BY <2>1, <2>2, RecordKeeps
<1>5. ASSUME NEW s \in Callers, Read(s) \/ SessionStep(s) PROVE BreakersInv'
  <2>1. CASE Read(s) \/ Choose(s) \/ NoneFound(s) \/ LookUpPool(s) \/ Acquire(s)
             \/ ForwardFails(s) \/ Mark(s) \/ Fallback(s)
    BY <1>1, <2>1, Zenon DEF Read, Choose, NoneFound, LookUpPool, Acquire, ForwardFails, Mark, Fallback
  <2>2. CASE AskBreaker(s)
    BY <1>2, <2>2, Zenon DEF AskBreaker
  <2>3. CASE AcquireFails(s)
    BY <1>4, <2>3, Zenon DEF AcquireFails
  <2>4. CASE RelayFails(s)
    BY <1>4, <2>4, Zenon DEF RelayFails
  <2>5. CASE Relay(s)
    BY <1>3, <2>5, Zenon DEF Relay
  <2> QED BY <1>5, <2>1, <2>2, <2>3, <2>4, <2>5, Zenon DEF SessionStep
<1>6. ASSUME NEW b \in Backends, CheckBackends(b) PROVE BreakersInv'
  BY <1>1, <1>6, Zenon DEF CheckBackends
<1>7. ASSUME NEW l \in ReaderLists, NEW enabled \in BOOLEAN, Reload(l, enabled) PROVE BreakersInv'
  <2>1. NewCircuitBreaker \in Breakers
    BY NewSound DEF Sound
  <2>2. ASSUME NEW a \in Addrs
        PROVE  breaker'[a] \in {NoBreaker, NewCircuitBreaker, breaker[a]}
    BY <1>7, Zenon DEF Reload
  <2>3. breaker' \in [Addrs -> Breakers \cup {NoBreaker}]
    <3>1. breaker' = [a \in Addrs |-> breaker'[a]]
      BY <1>7, Zenon DEF Reload
    <3>2. ASSUME NEW a \in Addrs PROVE breaker'[a] \in Breakers \cup {NoBreaker}
      BY <2>1, <2>2, Zenon DEF BreakersInv
    <3> QED BY <3>1, <3>2, Zenon
  <2> QED BY <2>2, <2>3, NewSound, Zenon DEF BreakersInv
<1>8. ASSUME NEW a \in Addrs, OpenDurationPasses(a) PROVE BreakersInv'
  <2> DEFINE new == Elapse(breaker[a])
  <2>1. breaker[a] # NoBreaker
    BY <1>8, Zenon DEF OpenDurationPasses, NoBreaker, NewCircuitBreaker
  <2>2. Sound(new)
    BY <2>1, ElapseSound, Zenon DEF BreakersInv
  <2>3. breaker' = [breaker EXCEPT ![a] = IF @ = NoBreaker THEN @ ELSE new]
    BY <1>8, <2>1, Zenon DEF OpenDurationPasses
  <2> HIDE DEF new
  <2> QED BY <2>2, <2>3, RecordKeeps
<1>9. ASSUME NEW a \in Addrs, Break(a) \/ Mend(a) PROVE BreakersInv'
  BY <1>1, <1>9, Zenon DEF Break, Mend
<1> QED BY <1>1, <1>5, <1>6, <1>7, <1>8, <1>9, Zenon DEF Next, vars

\* With any number of sessions whose results arrive in any order, and any reloads,
\* the counters of every breaker describe its current window (RecordSuccess,
\* RecordFailure, evaluateWindow).
THEOREM BreakerWindows == Spec => []WindowsSound
<1>1. BreakersInv => WindowsSound
  BY Zenon DEF BreakersInv, WindowsSound, Sound
<1> QED BY <1>1, BreakersInit, BreakersStep, PTL DEF Spec

-----------------------------------------------------------------------------
\* No two listed backends have the same address.
UniqueAddrs == \A b, n \in Elems(backends) : b.addr = n.addr => b = n

\* UpdateBackends: position i of the new list has the i-th address, and holds the
\* backend that had this address before, if there was one.
LEMMA UpdatedBackends ==
    ASSUME NEW l \in ReaderLists, UpdateBackends(l)
    PROVE  \A n \in Elems(backends') : \E i \in 1 .. Len(l) :
              /\ n = backends'[i]
              /\ n.addr = l[i]
              /\ (\E b \in Elems(backends) : b.addr = l[i]) => n \in Elems(backends)
<1> SUFFICES ASSUME NEW n \in Elems(backends')
             PROVE  \E i \in 1 .. Len(l) :
                       /\ n = backends'[i]
                       /\ n.addr = l[i]
                       /\ (\E b \in Elems(backends) : b.addr = l[i]) => n \in Elems(backends)
  OBVIOUS
<1>1. l \in Seq(Addrs)
  BY BalancerAssumption
<1> DEFINE f(i) == IF \E b \in Elems(backends) : b.addr = l[i]
                   THEN CHOOSE b \in Elems(backends) : b.addr = l[i]
                   ELSE [addr |-> l[i], born |-> reloads + 1]
<1>2. backends' = [i \in 1 .. Len(l) |-> f(i)]
  BY Zenon DEF UpdateBackends
<1>3. ASSUME NEW i \in 1 .. Len(l)
      PROVE  /\ f(i).addr = l[i]
             /\ (\E b \in Elems(backends) : b.addr = l[i]) => f(i) \in Elems(backends)
  BY Zenon
<1> HIDE DEF f
<1>4. Len(l) \in Nat
  BY <1>1
<1>5. Len(backends') = Len(l)
  BY <1>2, <1>4, SMTT(30)
<1>6. PICK i \in 1 .. Len(l) : n = backends'[i]
  BY <1>5, Zenon DEF Elems
<1>7. n = f(i)
  BY <1>2, <1>6, Zenon
<1> QED BY <1>3, <1>6, <1>7, Zenon

\* The configured lists have no address twice, and no list mixes old and new.
LEMMA UniqueInit == Init => UniqueAddrs
<1> SUFFICES ASSUME Init PROVE UniqueAddrs
  OBVIOUS
<1>1. PICK l \in ReaderLists : backends = InitialList(l)
  BY Zenon DEF Init, BalancerInit
<1>2. l \in Seq(Addrs) /\ \A i, j \in 1 .. Len(l) : l[i] = l[j] => i = j
  BY BalancerAssumption
<1>3. Len(l) \in Nat
  BY <1>2
<1>4. backends = [i \in 1 .. Len(l) |-> [addr |-> l[i], born |-> 0]]
  BY <1>1 DEF InitialList
<1>5. Len(backends) = Len(l)
  BY <1>3, <1>4, SMTT(30)
<1>6. \A i \in 1 .. Len(l) : backends[i].addr = l[i]
  BY <1>4, Zenon
<1>7. \A b \in Elems(backends) : \E i \in 1 .. Len(l) : b = backends[i]
  BY <1>5, Zenon DEF Elems
<1> SUFFICES ASSUME NEW b \in Elems(backends), NEW n \in Elems(backends), b.addr = n.addr
             PROVE  b = n
  BY Zenon DEF UniqueAddrs
<1>8. PICK i \in 1 .. Len(l) : b = backends[i]
  BY <1>7, Zenon
<1>9. PICK j \in 1 .. Len(l) : n = backends[j]
  BY <1>7, Zenon
<1> QED BY <1>2, <1>6, <1>8, <1>9, Zenon

\* Only a reload replaces the list.
LEMMA ListSteps ==
    ASSUME [Next]_vars
    PROVE  \/ UNCHANGED backends
           \/ \E l \in ReaderLists : UpdateBackends(l)
<1>1. ASSUME NEW s \in Callers, Read(s) \/ SessionStep(s) PROVE UNCHANGED backends
  BY <1>1, Zenon DEF Read, SessionStep, Choose, AskBreaker, NoneFound, LookUpPool, Acquire,
     AcquireFails, ForwardFails, RelayFails, Mark, Relay, Fallback, NextStart, NextProbe,
     NextReturn, MarkUnhealthy, balancerVars
<1>2. ASSUME NEW b \in Backends, CheckBackends(b) PROVE UNCHANGED backends
  BY <1>2, Zenon DEF CheckBackends, Recover
<1>3. ASSUME NEW a \in Addrs, OpenDurationPasses(a) \/ Break(a) \/ Mend(a) PROVE UNCHANGED backends
  BY <1>3, Zenon DEF OpenDurationPasses, Break, Mend, balancerVars
<1> QED BY <1>1, <1>2, <1>3, Zenon DEF Next, Reload, vars, balancerVars

\* Addresses stay unique, because a reload installs the configured list.
LEMMA UniqueStep == UniqueAddrs /\ [Next]_vars => UniqueAddrs'
<1> SUFFICES ASSUME UniqueAddrs, [Next]_vars PROVE UniqueAddrs'
  OBVIOUS
<1>1. CASE UNCHANGED backends
  <2>1. Elems(backends') = Elems(backends)
    BY <1>1
  <2> QED BY <2>1, Zenon DEF UniqueAddrs, Elems
<1>2. ASSUME NEW l \in ReaderLists, UpdateBackends(l) PROVE UniqueAddrs'
  <2>1. \A i, j \in 1 .. Len(l) : l[i] = l[j] => i = j
    BY BalancerAssumption
  <2>2. ASSUME NEW b \in Elems(backends'), NEW n \in Elems(backends'), b.addr = n.addr
        PROVE  b = n
    <3>1. PICK i \in 1 .. Len(l) : b = backends'[i] /\ b.addr = l[i]
      BY <1>2, UpdatedBackends, Zenon
    <3>2. PICK j \in 1 .. Len(l) : n = backends'[j] /\ n.addr = l[j]
      BY <1>2, UpdatedBackends, Zenon
    <3> QED BY <2>1, <2>2, <3>1, <3>2, Zenon
  <2> QED BY <2>2, Zenon DEF UniqueAddrs, Elems
<1> QED BY <1>1, <1>2, ListSteps, Zenon

\* UpdateBackends forgets no failure: through any reloads, a listed replica that was
\* marked unhealthy becomes healthy by the health check alone.
THEOREM HealthKept == Spec => HealthPreserved
<1> DEFINE Kept == \A b \in Elems(backends) : ~healthy[b] =>
                      \A n \in Elems(backends') : n.addr = b.addr /\ healthy'[n] => UNCHANGED backends
<1>1. UniqueAddrs /\ [Next]_vars => Kept
  <2> SUFFICES ASSUME UniqueAddrs, [Next]_vars,
                      NEW b \in Elems(backends), ~healthy[b],
                      NEW n \in Elems(backends'), n.addr = b.addr, healthy'[n]
               PROVE  UNCHANGED backends
    BY Zenon
  <2>1. ASSUME NEW l \in ReaderLists, UpdateBackends(l) PROVE FALSE
    <3>1. PICK i \in 1 .. Len(l) :
             n.addr = l[i] /\ ((\E c \in Elems(backends) : c.addr = l[i]) => n \in Elems(backends))
      BY <2>1, UpdatedBackends, Zenon
    <3>2. n = b
      BY <3>1, Zenon DEF UniqueAddrs
    <3> QED BY <2>1, <3>2, Zenon DEF UpdateBackends
  <2> QED BY <2>1, ListSteps, Zenon
<1> HIDE DEF Kept
<1>2. Spec => [][Kept]_balancerVars
  <2>1. [Next]_vars /\ UniqueAddrs => [Kept]_balancerVars
    BY <1>1
  <2> QED BY <2>1, UniqueInit, UniqueStep, PTL DEF Spec
<1> QED BY <1>2 DEF HealthPreserved, Kept
-----------------------------------------------------------------------------
(* NextComplete: the positions the index of an undisturbed call has yet to reach. *)

\* A positive multiple of n is no smaller than n.
LEMMA MultipleBound ==
    ASSUME NEW n \in Nat \ {0}, NEW k \in Int, k >= 1
    PROVE  k * n >= n
<1>1. (k - 1) * n >= 0
  OBVIOUS
<1>2. k * n = (k - 1) * n + n
  OBVIOUS
<1> QED BY <1>1, <1>2

\* q * n + r leaves the rest r.
LEMMA ModUnique ==
    ASSUME NEW n \in Nat \ {0}, NEW q \in Int, NEW r \in 0 .. n - 1
    PROVE  (q * n + r) % n = r
<1> DEFINE x == q * n + r
           d == x \div n
           m == x % n
<1>1. x \in Int /\ d \in Int /\ m \in 0 .. n - 1 /\ x = d * n + m
  OBVIOUS
<1>2. (q - d) * n = m - r
  BY <1>1
<1>3. (d - q) * n = r - m
  BY <1>1
<1> HIDE DEF x, d, m
<1>4. ~ (q - d >= 1)
  <2> SUFFICES ASSUME q - d >= 1 PROVE FALSE
    OBVIOUS
  <2>1. (q - d) * n >= n
    BY <1>1, MultipleBound
  <2> QED BY <1>1, <1>2, <2>1
<1>5. ~ (d - q >= 1)
  <2> SUFFICES ASSUME d - q >= 1 PROVE FALSE
    OBVIOUS
  <2>1. (d - q) * n >= n
    BY <1>1, MultipleBound
  <2> QED BY <1>1, <1>3, <2>1
<1>6. q = d
  BY <1>1, <1>4, <1>5
<1>7. m = r
  BY <1>1, <1>6 DEF x
<1> QED BY <1>7 DEF m, x

\* Every x is a multiple of n and a rest.
LEMMA ModSplit ==
    ASSUME NEW n \in Nat \ {0}, NEW x \in Int
    PROVE  /\ x \div n \in Int /\ x % n \in 0 .. n - 1
           /\ x = (x \div n) * n + (x % n)
OBVIOUS

\* r.index wraps at 2^64 in the code and at IndexCycle here: either way it names the
\* same positions of a list, whose length divides the cycle.
LEMMA ModWrap ==
    ASSUME NEW n \in Nat \ {0}, NEW C \in Nat \ {0}, C % n = 0, NEW x \in Nat, NEW j \in Nat
    PROVE  ((x % C) + j) % n = (x + j) % n
<1> DEFINE d == x \div C
           m == x % C
           e == C \div n
           f == (m + j) \div n
           r == (m + j) % n
<1>1. d \in Int /\ m \in 0 .. C - 1 /\ x = d * C + m
  BY ModSplit
<1>2. e \in Int /\ C = e * n
  <2>1. e \in Int /\ C = e * n + (C % n)
    BY ModSplit
  <2>2. e * n \in Int
    BY <2>1
  <2> QED BY <2>1, <2>2
<1>3. f \in Int /\ r \in 0 .. n - 1 /\ m + j = f * n + r
  <2>1. m + j \in Int
    BY <1>1
  <2> HIDE DEF m
  <2> QED BY <2>1, ModSplit
<1> HIDE DEF d, m, e, f, r
<1>4. x + j = d * (e * n) + (f * n + r)
  BY <1>1, <1>2, <1>3
<1>5. x + j = (d * e + f) * n + r
  BY <1>1, <1>2, <1>3, <1>4
<1>6. d * e + f \in Int
  BY <1>1, <1>2, <1>3
<1>7. ((d * e + f) * n + r) % n = r
  BY <1>3, <1>6, ModUnique
<1>8. (x + j) % n = r
  BY <1>5, <1>7
<1> QED BY <1>8 DEF r, m

\* n consecutive values of the index name every position of a list of n.
LEMMA Rotation ==
    ASSUME NEW n \in Nat \ {0}, NEW x \in Nat, NEW j \in 1 .. n
    PROVE  \E i \in 0 .. n - 1 : ((x + i) % n) + 1 = j
<1> DEFINE q == x \div n
           r == x % n
<1>1. q \in Int /\ r \in 0 .. n - 1 /\ x = q * n + r
  BY ModSplit
<1> HIDE DEF q, r
<1>2. CASE j - 1 >= r
  <2>1. j - 1 - r \in 0 .. n - 1 /\ x + (j - 1 - r) = q * n + (j - 1)
    BY <1>1, <1>2
  <2>2. (q * n + (j - 1)) % n = j - 1
    BY <1>1, ModUnique
  <2> DEFINE i == j - 1 - r
  <2>3. i \in 0 .. n - 1 /\ ((x + i) % n) + 1 = j
    BY <2>1, <2>2
  <2> HIDE DEF i
  <2> QED BY <2>3
<1>3. CASE j - 1 < r
  <2>1. j - 1 - r + n \in 0 .. n - 1 /\ x + (j - 1 - r + n) = (q + 1) * n + (j - 1)
    BY <1>1, <1>3
  <2>2. ((q + 1) * n + (j - 1)) % n = j - 1
    BY <1>1, ModUnique
  <2> DEFINE i == j - 1 - r + n
  <2>3. i \in 0 .. n - 1 /\ ((x + i) % n) + 1 = j
    BY <2>1, <2>2
  <2> HIDE DEF i
  <2> QED BY <2>3
<1> QED BY <1>1, <1>2, <1>3

\* A list of backends as a configuration makes it.
ListSound(l) == l \in Seq(Backends) /\ (l # <<>> => IndexCycle % Len(l) = 0)

\* Whether the iterations that call k has left would test backend b.
Ahead(k, b) == \E i \in 0 .. k.left - 1 : b = k.list[((index + i) % Len(k.list)) + 1]

Calls == [list : Seq(Backends), left : Nat, min : {0}, found : SUBSET Addrs,
          alone : BOOLEAN, steady : SUBSET Backends]

\* NextComplete strengthened to calls in progress: what has been eligible all through
\* a call that nobody disturbs is still ahead of the index.
CallSound(k) ==
    /\ ListSound(k.list)
    /\ k.left <= Len(k.list)
    /\ k.found # {} => k.left = 0
    /\ k.left > 0 => \A b \in k.steady : Eligible(b, k.min)
    /\ k.alone /\ k.found = {} => \A b \in k.steady : Ahead(k, b)

BalancerInv ==
    /\ ListSound(backends)
    /\ reloads \in 0 .. MaxReloads
    /\ index \in Nat
    /\ healthy \in [Backends -> BOOLEAN]
    /\ call \in [Callers -> Calls]
    /\ \A c \in Callers : CallSound(call[c])

\* Next starts with every backend of the list ahead of it.
LEMMA StartSound ==
    ASSUME BalancerInv, NEW c \in Callers, NextStart(c, 0) PROVE BalancerInv'
<1>1. PICK k : /\ k = [list |-> backends, left |-> Len(backends), min |-> 0, found |-> {},
                       alone |-> \A d \in Callers : call[d].left = 0,
                       steady |-> {b \in Elems(backends) : Eligible(b, 0)}]
               /\ call' = [call EXCEPT ![c] = k]
               /\ UNCHANGED <<backends, healthy, replayLSN, index, reloads>>
  BY Zenon DEF NextStart
<1>2. backends \in Seq(Backends) /\ Len(backends) \in Nat /\ index \in Nat
  BY DEF BalancerInv, ListSound
<1>3. Elems(backends) \subseteq Backends
  BY <1>2 DEF Elems
<1>4. /\ k.list = backends /\ k.left = Len(backends) /\ k.min = 0 /\ k.found = {}
      /\ k.steady = {b \in Elems(backends) : Eligible(b, 0)}
  BY <1>1, Zenon
<1>5. k \in Calls
  BY <1>1, <1>2, <1>3 DEF Calls
<1>6. ASSUME NEW b \in Elems(backends) PROVE Ahead(k, b)'
  <2>1. PICK j \in 1 .. Len(backends) : b = backends[j]
    BY DEF Elems
  <2>2. Len(backends) \in Nat \ {0}
    BY <1>2, <2>1
  <2>3. PICK i \in 0 .. Len(backends) - 1 : ((index + i) % Len(backends)) + 1 = j
    BY <1>2, <2>1, <2>2, Rotation
  <2>4. b = backends[((index + i) % Len(backends)) + 1]
    BY <2>1, <2>3
  <2> QED
    BY <1>1, <1>4, <2>3, <2>4 DEF Ahead
<1>7. CallSound(k)'
  <2>1. ListSound(backends)
    BY DEF BalancerInv
  <2>2. \A b \in k.steady : Eligible(b, k.min)' /\ Ahead(k, b)'
    BY <1>1, <1>4, <1>6 DEF Eligible
  <2> QED
    BY <1>2, <1>4, <2>1, <2>2 DEF CallSound, ListSound
<1>8. \A d \in Callers : d # c => CallSound(call[d])'
  BY <1>1 DEF BalancerInv, CallSound, ListSound, Eligible, Ahead
<1>9. \A d \in Callers : CallSound(call[d])'
  <2>1. call'[c] = k
    BY <1>1 DEF BalancerInv
  <2> QED
    BY <1>7, <1>8, <2>1 DEF CallSound, ListSound, Eligible, Ahead
<1> QED
  BY <1>1, <1>5, <1>9 DEF BalancerInv, ListSound

\* An iteration tests the first backend ahead of the index: it returns that one if it
\* is eligible, and otherwise leaves the others ahead of it.  Whoever else is in a call
\* is disturbed by it.
LEMMA ProbeSound ==
    ASSUME BalancerInv, NEW c \in Callers, NextProbe(c) PROVE BalancerInv'
<1>0. PICK k \in Calls : k = call[c]
  BY DEF BalancerInv
<1>1. /\ CallSound(k) /\ k.left > 0 /\ index \in Nat
      /\ UNCHANGED <<backends, healthy, replayLSN, reloads>>
  BY <1>0, Zenon DEF NextProbe, BalancerInv
<1>i. index' = (index + 1) % IndexCycle
  BY Zenon DEF NextProbe
<1>l. /\ k.list \in Seq(Backends) /\ k.left \in Nat /\ k.alone \in BOOLEAN /\ k.min = 0
      /\ k.steady \subseteq Backends
  BY DEF Calls
<1>n. PICK n \in Nat : n = Len(k.list)
  BY <1>l
<1>2. n \in Nat \ {0} /\ k.left <= n /\ k.found = {} /\ IndexCycle \in Nat \ {0}
  <2>1. k.left <= n /\ (k.found # {} => k.left = 0)
    BY <1>1, <1>n DEF CallSound
  <2> QED
    BY <1>1, <1>l, <2>1, BalancerAssumption
<1>m. IndexCycle % n = 0
  <2>1. k.list # <<>>
    BY <1>l, <1>n, <1>2
  <2> QED
    BY <1>1, <1>n, <2>1 DEF CallSound, ListSound
<1>3. index' \in Nat
  <2>1. index + 1 \in Int
    BY <1>1
  <2>2. \A x \in Int : x % IndexCycle \in 0 .. IndexCycle - 1
    BY <1>2, ModSplit
  <2>3. index' \in 0 .. IndexCycle - 1
    BY <1>i, <2>1, <2>2, Zenon
  <2> QED
    BY <1>2, <2>3
<1>4. (index % n) + 1 \in 1 .. n
  <2>1. index % n \in 0 .. n - 1
    BY <1>1, <1>2, ModSplit
  <2> QED
    BY <1>2, <2>1
<1>5. PICK b \in Backends : b = k.list[(index % n) + 1] /\ b.addr \in Addrs
  <2>1. k.list[(index % n) + 1] \in Backends
    BY <1>l, <1>n, <1>4
  <2> QED
    BY <2>1, Zenon DEF Backends
<1>6. PICK kn : /\ kn = IF Eligible(b, k.min) THEN [k EXCEPT !.left = 0, !.found = {b.addr}]
                        ELSE [k EXCEPT !.left = @ - 1]
                /\ call' = [d \in Callers |->
                      IF d # c THEN IF call[d].left > 0 THEN [call[d] EXCEPT !.alone = FALSE] ELSE call[d]
                      ELSE kn]
  BY <1>0, <1>n, <1>5, Zenon DEF NextProbe
<1>7. kn \in Calls /\ CallSound(kn)'
  <2>1. CASE Eligible(b, k.min)
    <3>1. /\ kn.list = k.list /\ kn.left = 0 /\ kn.found = {b.addr} /\ kn \in Calls
      BY <1>5, <1>6, <2>1 DEF Calls
    <3>2. kn.found # {} /\ 0 <= n /\ ~(0 > 0)
      BY <3>1
    <3>3. ListSound(kn.list)
      BY <1>1, <3>1 DEF CallSound
    <3> QED
      BY <1>n, <3>1, <3>2, <3>3, Zenon DEF CallSound, ListSound
  <2>2. CASE ~Eligible(b, k.min)
    <3>1. /\ kn.list = k.list /\ kn.left = k.left - 1 /\ kn.found = {} /\ kn.min = k.min
          /\ kn.steady = k.steady /\ kn.alone = k.alone /\ kn \in Calls
      BY <1>1, <1>2, <1>l, <1>6, <2>2 DEF Calls
    <3>2. ASSUME k.alone, NEW x \in k.steady PROVE Ahead(kn, x)'
      <4>1. PICK i \in 0 .. k.left - 1 : x = k.list[((index + i) % n) + 1]
        BY <1>1, <1>2, <1>n, <3>2 DEF CallSound, Ahead
      <4>2. Eligible(x, k.min)
        BY <1>1, <3>2 DEF CallSound
      <4>3. i # 0
        <5>1. i = 0 => index + i = index
          BY <1>1
        <5> QED
          BY <1>5, <2>2, <4>1, <4>2, <5>1
      <4>4. i \in Nat /\ i - 1 \in 0 .. k.left - 2 /\ i - 1 \in Nat
        BY <1>l, <4>1, <4>3
      <4>5. (index + 1) + (i - 1) = index + i /\ index + 1 \in Nat
        BY <1>1, <4>4
      <4>6. (((index + 1) % IndexCycle) + (i - 1)) % n = ((index + 1) + (i - 1)) % n
        <5>1. \A y, z \in Nat : ((y % IndexCycle) + z) % n = (y + z) % n
          BY <1>2, <1>m, ModWrap
        <5> QED
          BY <4>4, <4>5, <5>1, Zenon
      <4>7. x = k.list[((index' + (i - 1)) % n) + 1]
        BY <1>i, <4>1, <4>5, <4>6, Zenon
      <4>8. i - 1 \in 0 .. kn.left - 1
        BY <1>l, <3>1, <4>4
      <4> DEFINE j == i - 1
      <4>9. j \in 0 .. kn.left - 1 /\ x = kn.list[((index' + j) % Len(kn.list)) + 1]
        BY <1>n, <3>1, <4>7, <4>8, Zenon
      <4> HIDE DEF j
      <4> QED
        BY <4>9, Zenon DEF Ahead
    <3>3. \A x \in k.steady : Eligible(x, k.min)'
      BY <1>1 DEF CallSound, Eligible
    <3>4. ListSound(k.list) /\ k.left - 1 <= n
      BY <1>1, <1>2, <1>l DEF CallSound
    <3> QED
      BY <1>n, <3>1, <3>2, <3>3, <3>4, Zenon DEF CallSound, ListSound
  <2> QED
    BY <2>1, <2>2
<1>8. ASSUME NEW d \in Callers, d # c PROVE call'[d] \in Calls /\ CallSound(call[d])'
  <2>1. call[d] \in Calls /\ CallSound(call[d])
    BY DEF BalancerInv
  <2>2. CASE call[d].left > 0
    <3>1. PICK m : m = [call[d] EXCEPT !.alone = FALSE] /\ call'[d] = m
      BY <1>6, <1>8, <2>2
    <3>2. /\ m \in Calls /\ m.list = call[d].list /\ m.left = call[d].left /\ m.min = call[d].min
          /\ m.found = call[d].found /\ m.steady = call[d].steady /\ ~m.alone
      BY <2>1, <3>1 DEF Calls
    <3> QED
      BY <1>1, <2>1, <3>1, <3>2 DEF CallSound, ListSound, Eligible
  <2>3. CASE ~(call[d].left > 0)
    <3>1. call'[d] = call[d]
      BY <1>6, <1>8, <2>3
    <3>2. \A x \in call[d].steady : ~ Ahead(call[d], x)
      BY <2>1, <2>3 DEF Ahead, Calls
    <3> QED
      BY <1>1, <2>1, <2>3, <3>1, <3>2 DEF CallSound, ListSound
  <2> QED
    BY <2>2, <2>3
<1>9. call' \in [Callers -> Calls] /\ \A d \in Callers : CallSound(call[d])'
  <2>1. call'[c] = kn
    BY <1>6
  <2>2. CallSound(call[c])'
    BY <1>7, <2>1 DEF CallSound, ListSound, Eligible, Ahead
  <2> QED
    BY <1>6, <1>7, <1>8, <2>1, <2>2
<1> QED
  BY <1>1, <1>3, <1>9 DEF BalancerInv, ListSound

\* The health check, marks and reloads leave every call its list and its bounds: a call
\* stays sound when no backend in its steady set lost its health.
LEMMA OthersSound ==
    ASSUME BalancerInv, UNCHANGED <<replayLSN, index>>,
           ListSound(backends'), reloads' \in 0 .. MaxReloads,
           healthy' \in [Backends -> BOOLEAN], call' \in [Callers -> Calls],
           \A c \in Callers :
              \/ call'[c] = NoCall
              \/ /\ \A f \in {"list", "left", "min", "found", "alone"} : call'[c][f] = call[c][f]
                 /\ call'[c].steady \subseteq call[c].steady
                 /\ call[c].left > 0 =>
                       \A b \in call'[c].steady : healthy[b] => healthy'[b]
    PROVE  BalancerInv'
<1> SUFFICES ASSUME NEW c \in Callers PROVE CallSound(call[c])'
  BY DEF BalancerInv, ListSound
<1>1. call[c] \in Calls /\ CallSound(call[c])
  BY DEF BalancerInv
<1>2. CASE call'[c] = NoCall
  <2>1. <<>> \in Seq(Backends) /\ Len(<<>>) = 0
    OBVIOUS
  <2>2. /\ NoCall.list = <<>> /\ NoCall.left = 0 /\ NoCall.steady = {} /\ NoCall.found = {}
    BY Zenon DEF NoCall
  <2> QED
    BY <1>2, <2>1, <2>2 DEF CallSound, ListSound
<1>3. CASE call'[c] # NoCall
  <2>1. /\ call'[c].list = call[c].list /\ call'[c].left = call[c].left
        /\ call'[c].min = call[c].min /\ call'[c].found = call[c].found
        /\ call'[c].alone = call[c].alone
        /\ call'[c].steady \subseteq call[c].steady
        /\ call[c].left > 0 => \A b \in call'[c].steady : healthy[b] => healthy'[b]
    BY <1>3, Zenon
  <2>2. \A b \in call'[c].steady : Ahead(call[c], b) => Ahead(call[c], b)'
    BY <2>1 DEF Ahead
  <2> QED
    BY <1>1, <2>1, <2>2 DEF CallSound, ListSound, Eligible
<1> QED
  BY <1>2, <1>3

\* A caller drops the locals of a call that has returned.
LEMMA ReturnSound ==
    ASSUME BalancerInv, NEW c \in Callers, NextReturn(c) PROVE BalancerInv'
<1>1. /\ call' = [call EXCEPT ![c] = NoCall] /\ UNCHANGED <<backends, healthy, replayLSN, index, reloads>>
      /\ call \in [Callers -> Calls]
  BY DEF NextReturn, BalancerInv
<1>2. NoCall \in Calls
  BY DEF NoCall, Calls
<1>3. call' \in [Callers -> Calls]
  BY <1>1, <1>2, Zenon
<1>4. \A d \in Callers : call'[d] = NoCall \/ call'[d] = call[d]
  BY <1>1
<1> QED
  BY <1>1, <1>3, <1>4, OthersSound DEF BalancerInv

\* MarkUnhealthy takes what it marks out of the steady sets.
LEMMA MarkSound ==
    ASSUME BalancerInv, NEW a, MarkUnhealthy(a) PROVE BalancerInv'
<1>1. PICK gone : /\ healthy' = [b \in Backends |-> healthy[b] /\ b \notin gone]
                  /\ call' = [c \in Callers |-> IF call[c].left > 0
                                THEN [call[c] EXCEPT !.steady = @ \ gone] ELSE call[c]]
                  /\ UNCHANGED <<backends, replayLSN, index, reloads>>
  BY Zenon DEF MarkUnhealthy
<1>2. healthy' \in [Backends -> BOOLEAN] /\ call \in [Callers -> Calls]
  BY <1>1, Zenon DEF BalancerInv
<1>3. ASSUME NEW c \in Callers
      PROVE  /\ call'[c] \in Calls
             /\ \A f \in {"list", "left", "min", "found", "alone"} : call'[c][f] = call[c][f]
             /\ call'[c].steady \subseteq call[c].steady
             /\ call[c].left > 0 => \A b \in call'[c].steady : b \in Backends /\ b \notin gone
  <2>1. call[c] \in Calls
    BY <1>2
  <2>2. CASE call[c].left > 0
    <3>1. call'[c] = [call[c] EXCEPT !.steady = @ \ gone]
      BY <1>1, <2>2
    <3> QED
      BY <2>1, <3>1 DEF Calls
  <2>3. CASE ~(call[c].left > 0)
    <3>1. call'[c] = call[c]
      BY <1>1, <2>3
    <3> QED
      BY <2>1, <2>3, <3>1
  <2> QED
    BY <2>2, <2>3
<1>4. call' \in [Callers -> Calls]
  BY <1>1, <1>3
<1>5. \A c \in Callers : call[c].left > 0 => \A b \in call'[c].steady : healthy[b] => healthy'[b]
  BY <1>1, <1>3
<1> QED
  BY <1>1, <1>2, <1>3, <1>4, <1>5, OthersSound DEF BalancerInv

\* checkBackends only mends.
LEMMA RecoverSound ==
    ASSUME BalancerInv, NEW b, Recover(b) PROVE BalancerInv'
<1>1. /\ healthy' = [healthy EXCEPT ![b] = TRUE] /\ UNCHANGED <<backends, replayLSN, index, call, reloads>>
      /\ healthy \in [Backends -> BOOLEAN] /\ call \in [Callers -> Calls]
  BY DEF Recover, BalancerInv
<1>2. healthy' \in [Backends -> BOOLEAN] /\ \A x \in Backends : healthy[x] => healthy'[x]
  BY <1>1
<1>3. \A c \in Callers : call[c].steady \subseteq Backends
  BY <1>1 DEF Calls
<1>4. \A c \in Callers : \A x \in call'[c].steady : healthy[x] => healthy'[x]
  BY <1>1, <1>2, <1>3
<1> QED
  BY <1>1, <1>2, <1>4, OthersSound DEF BalancerInv

\* A list with the backends of the addresses of a configured list is sound.
LEMMA ListFrom ==
    ASSUME NEW l \in ReaderLists, NEW f, f = [i \in 1 .. Len(l) |-> f[i]],
           \A i \in 1 .. Len(l) : f[i] \in Backends
    PROVE  ListSound(f)
<1>1. l \in Seq(Addrs) /\ (l # <<>> => IndexCycle % Len(l) = 0)
  BY BalancerAssumption
<1>2. Len(l) \in Nat /\ (Len(l) # 0 => l # <<>>)
  BY <1>1
<1>3. f \in [1 .. Len(l) -> Backends]
  BY Zenon
<1>4. f \in Seq(Backends) /\ Len(f) = Len(l)
  BY <1>2, <1>3
<1>5. f # <<>> => Len(l) # 0
  BY <1>2, <1>4
<1> QED
  BY <1>1, <1>2, <1>4, <1>5, Zenon DEF ListSound

\* UpdateBackends installs such a list; calls keep the one they have read.
LEMMA UpdateSound ==
    ASSUME BalancerInv, NEW l \in ReaderLists, UpdateBackends(l) PROVE BalancerInv'
<1>1. /\ reloads < MaxReloads /\ reloads' = reloads + 1
      /\ UNCHANGED <<healthy, replayLSN, index, call>>
      /\ reloads \in 0 .. MaxReloads /\ MaxReloads \in Nat
      /\ healthy \in [Backends -> BOOLEAN] /\ call \in [Callers -> Calls]
  BY BalancerAssumption DEF UpdateBackends, BalancerInv
<1>2. Elems(backends) \subseteq Backends
  BY DEF Elems, BalancerInv, ListSound
<1>3. l \in Seq(Addrs)
  BY BalancerAssumption
<1> DEFINE g(i) == IF \E b \in Elems(backends) : b.addr = l[i]
                   THEN CHOOSE b \in Elems(backends) : b.addr = l[i]
                   ELSE [addr |-> l[i], born |-> reloads + 1]
<1>4. backends' = [i \in 1 .. Len(l) |-> g(i)]
  BY Zenon DEF UpdateBackends
<1>5. ASSUME NEW i \in 1 .. Len(l) PROVE g(i) \in Backends
  <2>1. CASE \E b \in Elems(backends) : b.addr = l[i]
    BY <1>2, <2>1, Zenon
  <2>2. CASE ~ \E b \in Elems(backends) : b.addr = l[i]
    <3>1. l[i] \in Addrs /\ reloads + 1 \in 0 .. MaxReloads
      BY <1>1, <1>3
    <3>2. g(i) = [addr |-> l[i], born |-> reloads + 1]
      BY <2>2, Zenon
    <3> HIDE DEF g
    <3> QED
      BY <3>1, <3>2 DEF Backends
  <2> QED
    BY <2>1, <2>2
<1> HIDE DEF g
<1>6. /\ backends' = [i \in 1 .. Len(l) |-> backends'[i]]
      /\ \A i \in 1 .. Len(l) : backends'[i] \in Backends
  BY <1>4, <1>5, Zenon
<1>7. ListSound(backends')
  <2>1. PICK f : f = backends'
    OBVIOUS
  <2>2. ListSound(f)
    BY <1>6, <2>1, ListFrom
  <2> QED
    BY <2>1, <2>2 DEF ListSound
<1>8. reloads' \in 0 .. MaxReloads
  BY <1>1
<1> QED
  BY <1>1, <1>7, <1>8, OthersSound

\* A new balancer has the configured list, and no call.
LEMMA BalancerStart == Init => BalancerInv
<1> SUFFICES ASSUME Init PROVE BalancerInv
  OBVIOUS
<1>1. PICK l \in ReaderLists : backends = InitialList(l)
  BY Zenon DEF Init, BalancerInit
<1>2. l \in Seq(Addrs) /\ MaxReloads \in Nat
  BY BalancerAssumption
<1>3. backends = [i \in 1 .. Len(l) |-> [addr |-> l[i], born |-> 0]]
  BY <1>1 DEF InitialList
<1>4. \A i \in 1 .. Len(l) : l[i] \in Addrs /\ 0 \in 0 .. MaxReloads
  BY <1>2
<1>5. /\ backends = [i \in 1 .. Len(l) |-> backends[i]]
      /\ \A i \in 1 .. Len(l) : backends[i] \in Backends
  BY <1>3, <1>4, Zenon DEF Backends
<1>6. ListSound(backends)
  <2>1. PICK f : f = backends
    OBVIOUS
  <2>2. ListSound(f)
    BY <1>5, <2>1, ListFrom
  <2> QED
    BY <2>1, <2>2
<1>7. NoCall \in Calls /\ CallSound(NoCall)
  <2>1. <<>> \in Seq(Backends) /\ Len(<<>>) = 0
    OBVIOUS
  <2>2. NoCall.list = <<>> /\ NoCall.left = 0 /\ NoCall.steady = {} /\ NoCall.found = {}
    BY Zenon DEF NoCall
  <2>3. CallSound(NoCall)
    BY <2>1, <2>2 DEF CallSound, ListSound
  <2>4. NoCall \in Calls
    BY DEF NoCall, Calls
  <2> QED
    BY <2>3, <2>4
<1>8. /\ reloads = 0 /\ index = 0 /\ healthy = [b \in Backends |-> TRUE]
      /\ call = [c \in Callers |-> NoCall]
  BY DEF Init, BalancerInit
<1>9. reloads \in 0 .. MaxReloads /\ index \in Nat
  BY <1>2, <1>8
<1> QED
  BY <1>6, <1>7, <1>8, <1>9 DEF BalancerInv

\* BalancerInv is inductive.
LEMMA BalancerStep == BalancerInv /\ [Next]_vars => BalancerInv'
<1> SUFFICES ASSUME BalancerInv, [Next]_vars PROVE BalancerInv'
  OBVIOUS
<1>1. CASE UNCHANGED balancerVars
  BY <1>1 DEF balancerVars, BalancerInv, CallSound, ListSound, Eligible, Ahead
<1>2. ASSUME NEW s \in Callers, Read(s) \/ SessionStep(s) PROVE BalancerInv'
  <2>1. CASE Read(s)
    BY <2>1, StartSound DEF Read
  <2>2. CASE Choose(s)
    BY <2>2, ProbeSound DEF Choose
  <2>3. CASE AskBreaker(s) \/ NoneFound(s)
    BY <2>3, ReturnSound, Zenon DEF AskBreaker, NoneFound
  <2>4. CASE Mark(s)
    BY <2>4, MarkSound, Zenon DEF Mark
  <2>5. CASE LookUpPool(s) \/ Acquire(s) \/ AcquireFails(s) \/ ForwardFails(s) \/ RelayFails(s)
             \/ Relay(s) \/ Fallback(s)
    BY <1>1, <2>5, Zenon DEF LookUpPool, Acquire, AcquireFails, ForwardFails, RelayFails, Relay, Fallback
  <2> QED
    BY <1>2, <2>1, <2>2, <2>3, <2>4, <2>5, Zenon DEF SessionStep
<1>3. ASSUME NEW b \in Backends, CheckBackends(b) PROVE BalancerInv'
  BY <1>3, RecoverSound, Zenon DEF CheckBackends
<1>4. ASSUME NEW l \in ReaderLists, NEW enabled \in BOOLEAN, Reload(l, enabled) PROVE BalancerInv'
  BY <1>4, UpdateSound, Zenon DEF Reload
<1>5. ASSUME NEW a \in Addrs, OpenDurationPasses(a) \/ Break(a) \/ Mend(a) PROVE BalancerInv'
  BY <1>1, <1>5, Zenon DEF OpenDurationPasses, Break, Mend
<1> QED
  BY <1>1, <1>2, <1>3, <1>4, <1>5, Zenon DEF Next, vars

\* Next finds a backend whenever there is one to find: for reader lists of any length,
\* any number of sessions and any health changes and reloads on the way, a call that no
\* other call interleaves with comes back empty only if no backend of its list was
\* healthy all through it.
THEOREM NextFinds == Spec => []NextComplete
<1>1. BalancerInv => NextComplete
  <2> SUFFICES ASSUME BalancerInv, NEW c \in Callers,
                      call[c].left = 0, call[c].found = {}, call[c].alone
               PROVE  call[c].steady = {}
    BY DEF NextComplete
  <2>1. \A b \in call[c].steady : Ahead(call[c], b)
    BY DEF BalancerInv, CallSound
  <2> QED
    BY <2>1 DEF Ahead
<1> QED
  BY <1>1, BalancerStart, BalancerStep, PTL DEF Spec

-----------------------------------------------------------------------------
(* Causal consistency *)

\* The locals of a call of NextWithLSN.
LSNCalls == [list : Seq(Backends), left : Nat, min : Nat, found : SUBSET Addrs,
          alone : BOOLEAN, steady : SUBSET Backends]

\* Positions are numbers, lists hold backends, and a loop stays inside its list.
Types ==
    /\ backends \in Seq(Backends)
    /\ replayLSN \in [Backends -> Nat]
    /\ index \in Nat
    /\ call \in [Callers -> LSNCalls]
    /\ \A s \in Callers : call[s].left <= Len(call[s].list)
    /\ wal \in Nat
    /\ replayed \in [Addrs -> Nat]
    /\ lastWriteLSN \in [Callers -> Nat]
    /\ visible \in [Callers -> [write : Nat, commit : Nat]]
    /\ stage \in [Callers -> {"idle", "written", "choosing", "reading"}]
    /\ wrote \in [Callers -> Nat]
    /\ readerAddr \in [Callers -> SUBSET Addrs]
    /\ poll \in SUBSET (Addrs \X Nat)
    /\ reloads \in Nat

\* What a session has tracked is a position the writer has reached, at or after the
\* session's own write.
Tracked(s) ==
    /\ visible[s].write <= lastWriteLSN[s]
    /\ lastWriteLSN[s] <= wal
    /\ wrote[s] <= wal

\* A call asks for the session's position, and what it has found has reached it.
Found(s) ==
    stage[s] = "choosing" =>
        /\ call[s].min = lastWriteLSN[s]
        /\ \A a \in call[s].found : replayed[a] >= call[s].min

\* So has the reader of a query under way.
Reading(s) ==
    stage[s] = "reading" => \A a \in readerAddr[s] : replayed[a] >= lastWriteLSN[s]

\* The inductive invariant.
CausalInv ==
    /\ Types
    /\ KnownPositions
    /\ \A s \in Callers : Tracked(s) /\ Found(s) /\ Reading(s)

\* CausalInv is what ReadYourWrites needs.
LEMMA InvImplies == CausalInv => ReadYourWrites
<1> SUFFICES ASSUME CausalInv, NEW s \in Callers, stage[s] = "reading", NEW a \in readerAddr[s]
             PROVE  replayed[a] >= visible[s].write
  BY Zenon DEF ReadYourWrites
<1>1. a \in Addrs
  BY Zenon DEF CausalInv, Types
<1>2. replayed[a] \in Nat /\ lastWriteLSN[s] \in Nat
  BY <1>1, Zenon DEF CausalInv, Types
<1>3. visible[s].write \in Nat
  BY Zenon DEF CausalInv, Types
<1>4. visible[s].write <= lastWriteLSN[s] /\ replayed[a] >= lastWriteLSN[s]
  BY Zenon DEF CausalInv, Tracked, Reading
<1> QED BY <1>2, <1>3, <1>4, SMTT(30)

\* Init: nothing is written, tracked or known.
LEMMA InvInit == CausalInit => CausalInv
<1> SUFFICES ASSUME CausalInit PROVE CausalInv
  OBVIOUS
<1>1. PICK l \in ReaderLists : backends = InitialList(l)
  BY Zenon DEF CausalInit, BalancerInit
<1>2. l \in Seq(Addrs) /\ Len(l) \in Nat
  BY BalancerAssumption
<1>3. \A i \in 1 .. Len(l) : [addr |-> l[i], born |-> 0] \in Backends
  BY <1>2, BalancerAssumption, SMTT(30) DEF Backends
<1>4. backends \in Seq(Backends)
  BY <1>1, <1>2, <1>3, SMTT(30) DEF InitialList
<1>5. NoCall \in LSNCalls /\ NoCall.left <= Len(NoCall.list) /\ NoCall.found = {}
  <2>1. <<>> \in Seq(Backends) /\ 0 \in Nat
    BY SMTT(30)
  <2>2. NoCall \in LSNCalls
    BY <2>1, ZenonT(30) DEF NoCall, LSNCalls
  <2>3. NoCall.left = 0 /\ NoCall.list = <<>> /\ NoCall.found = {}
    BY ZenonT(30) DEF NoCall
  <2>4. Len(<<>>) = 0
    BY SMTT(30)
  <2>5. NoCall.left <= Len(NoCall.list)
    BY <2>3, <2>4, SMTT(30)
  <2> QED BY <2>2, <2>3, <2>5
<1>6. /\ 0 \in Nat
      /\ 0 <= 0
  OBVIOUS
<1>7. Types
  <2>1. [write |-> 0, commit |-> 0] \in [write : Nat, commit : Nat]
    BY <1>6, Zenon
  <2> QED BY <1>4, <1>5, <1>6, <2>1, ZenonT(30) DEF CausalInit, BalancerInit, Types
<1>8. KnownPositions
  <2>1. \A b \in Backends : b.addr \in Addrs
    BY Zenon DEF Backends
  <2> QED BY <1>6, <2>1, ZenonT(30) DEF CausalInit, BalancerInit, KnownPositions
<1>9. \A s \in Callers : Tracked(s) /\ Found(s) /\ Reading(s)
  BY <1>6, ZenonT(30) DEF CausalInit, Tracked, Found, Reading
<1> QED BY <1>7, <1>8, <1>9 DEF CausalInv

\* A position that grew is still at or after one that did not.
LEMMA Grown == \A m, n, k \in Nat : m <= n /\ n <= k => m <= k
BY SMTT(30)

\* Transactions touch the WAL only when they end; positions tracked before stay
\* reached.
LEMMA WalStep ==
    ASSUME CausalInv, wal' = wal + 1,
           UNCHANGED <<balancerVars, replayed, lastWriteLSN, stage, wrote, readerAddr, poll>>,
           visible' \in [Callers -> [write : Nat, commit : Nat]],
           \A s \in Callers : visible'[s].write = visible[s].write
    PROVE  CausalInv'
<1>1. wal \in Nat /\ wal + 1 \in Nat /\ wal <= wal + 1
  BY SMTT(30) DEF CausalInv, Types
<1>2. Types'
  BY <1>1, ZenonT(30) DEF CausalInv, Types, balancerVars
<1>3. KnownPositions'
  BY ZenonT(30) DEF CausalInv, KnownPositions, balancerVars
<1>4. ASSUME NEW s \in Callers PROVE Tracked(s)' /\ Found(s)' /\ Reading(s)'
  <2>1. lastWriteLSN[s] \in Nat /\ wrote[s] \in Nat
    BY Zenon DEF CausalInv, Types
  <2>2. lastWriteLSN[s] <= wal + 1 /\ wrote[s] <= wal + 1
    BY <1>1, <2>1, Grown, Zenon DEF CausalInv, Tracked
  <2>3. Tracked(s)'
    BY <2>2, Zenon DEF CausalInv, Tracked
  <2> QED BY <2>3, Zenon DEF CausalInv, Found, Reading, balancerVars
<1> QED BY <1>2, <1>3, <1>4, Zenon DEF CausalInv

\* handleWriteQuery: the record of the write is within the WAL, and the position
\* asked for afterwards is at or after it.
LEMMA WriteSteps ==
    ASSUME CausalInv, NEW s \in Callers,
           Write(s) \/ QueryCurrentLSN(s) \/ QueryCurrentLSNFails(s)
    PROVE  CausalInv'
<1>0. /\ wal \in Nat /\ wal + 1 \in Nat /\ wal <= wal + 1 /\ wal <= wal /\ wal + 1 <= wal + 1
      /\ 0 \in Nat /\ 0 <= wal
  BY SMTT(30) DEF CausalInv, Types
<1>1. ASSUME NEW t \in Callers
      PROVE  /\ lastWriteLSN[t] \in Nat /\ wrote[t] \in Nat
             /\ visible[t] \in [write : Nat, commit : Nat] /\ visible[t].write \in Nat
             /\ stage[t] \in {"idle", "written", "choosing", "reading"}
  BY Zenon DEF CausalInv, Types
<1>2. CASE Write(s)
  <2>1. Types'
    BY <1>0, <1>2, ZenonT(30) DEF Write, Stage, CausalInv, Types, balancerVars
  <2>2. KnownPositions'
    BY <1>2, ZenonT(30) DEF Write, CausalInv, KnownPositions, balancerVars
  <2>3. ASSUME NEW t \in Callers PROVE Tracked(t)' /\ Found(t)' /\ Reading(t)'
    <3>1. lastWriteLSN[t] <= wal + 1 /\ wrote[t] <= wal + 1
      BY <1>0, <1>1, Grown, Zenon DEF CausalInv, Tracked
    <3>2. wrote'[t] <= wal + 1
      BY <1>0, <1>2, <3>1, ZenonT(30) DEF Write, CausalInv, Types
    <3>3. Tracked(t)'
      BY <1>2, <3>1, <3>2, Zenon DEF Write, CausalInv, Tracked
    <3>4. stage'[t] \in {"choosing", "reading"} => stage'[t] = stage[t]
      BY <1>2, ZenonT(30) DEF Write, Stage, CausalInv, Types
    <3> QED BY <1>2, <3>3, <3>4, ZenonT(30) DEF Write, CausalInv, Found, Reading, balancerVars
  <2> QED BY <2>1, <2>2, <2>3, Zenon DEF CausalInv
<1>3. CASE QueryCurrentLSN(s)
  <2>1. visible' \in [Callers -> [write : Nat, commit : Nat]]
    <3>1. CASE tx[s] = "none"
      <4>1. visible' = [visible EXCEPT ![s].write = wrote[s]]
        BY <1>3, <3>1, Zenon DEF QueryCurrentLSN
      <4>2. [visible[s] EXCEPT !.write = wrote[s]] \in [write : Nat, commit : Nat]
        BY <1>1, ZenonT(30)
      <4> QED BY <4>1, <4>2, ZenonT(30) DEF CausalInv, Types
    <3>2. CASE tx[s] # "none"
      BY <1>3, <3>2, Zenon DEF QueryCurrentLSN, CausalInv, Types
    <3> QED BY <3>1, <3>2
  <2>2. Types'
    BY <1>0, <1>3, <2>1, ZenonT(30) DEF QueryCurrentLSN, Stage, CausalInv, Types, balancerVars
  <2>3. KnownPositions'
    BY <1>3, ZenonT(30) DEF QueryCurrentLSN, CausalInv, KnownPositions, balancerVars
  <2>4. ASSUME NEW t \in Callers, t # s PROVE Tracked(t)' /\ Found(t)' /\ Reading(t)'
    <3>1. /\ visible'[t] = visible[t] /\ lastWriteLSN'[t] = lastWriteLSN[t]
          /\ wrote'[t] = wrote[t] /\ stage'[t] = stage[t]
      BY <1>3, <2>4, ZenonT(30) DEF QueryCurrentLSN, Stage, CausalInv, Types
    <3> QED BY <1>3, <3>1, ZenonT(30) DEF QueryCurrentLSN, CausalInv, Tracked, Found, Reading, balancerVars
  <2>5. Tracked(s)' /\ Found(s)' /\ Reading(s)'
    <3>1. visible'[s].write \in {wrote[s], visible[s].write}
      <4>1. CASE tx[s] = "none"
        BY <1>1, <1>3, <4>1, ZenonT(30) DEF QueryCurrentLSN, CausalInv, Types
      <4>2. CASE tx[s] # "none"
        BY <1>3, <4>2, Zenon DEF QueryCurrentLSN
      <4> QED BY <4>1, <4>2
    <3>2. visible[s].write <= wal
      BY <1>0, <1>1, Grown, Zenon DEF CausalInv, Tracked
    <3>3. visible'[s].write <= wal
      BY <3>1, <3>2, Zenon DEF CausalInv, Tracked
    <3>4. lastWriteLSN'[s] = wal /\ wrote'[s] = 0 /\ stage'[s] = "idle"
      BY <1>3, ZenonT(30) DEF QueryCurrentLSN, Stage, CausalInv, Types
    <3>5. UNCHANGED wal
      BY <1>3 DEF QueryCurrentLSN
    <3> QED BY <1>0, <3>3, <3>4, <3>5, Zenon DEF Tracked, Found, Reading
  <2> QED BY <2>2, <2>3, <2>4, <2>5, Zenon DEF CausalInv
<1>4. CASE QueryCurrentLSNFails(s)
  <2>1. Types'
    BY <1>0, <1>4, ZenonT(30) DEF QueryCurrentLSNFails, Stage, CausalInv, Types, balancerVars
  <2>2. KnownPositions'
    BY <1>4, ZenonT(30) DEF QueryCurrentLSNFails, CausalInv, KnownPositions, balancerVars
  <2>3. ASSUME NEW t \in Callers PROVE Tracked(t)' /\ Found(t)' /\ Reading(t)'
    <3>1. wrote'[t] <= wal
      BY <1>0, <1>4, ZenonT(30) DEF QueryCurrentLSNFails, CausalInv, Types, Tracked
    <3>2. stage'[t] \in {"choosing", "reading"} => stage'[t] = stage[t]
      BY <1>4, ZenonT(30) DEF QueryCurrentLSNFails, Stage, CausalInv, Types
    <3> QED BY <1>4, <3>1, <3>2, ZenonT(30) DEF QueryCurrentLSNFails, CausalInv, Tracked, Found, Reading, balancerVars
  <2> QED BY <2>1, <2>2, <2>3, Zenon DEF CausalInv
<1> QED BY <1>2, <1>3, <1>4

\* The index, reduced to the length of the list, is a position in it.
LEMMA IndexInList == ASSUME NEW i \in Nat, NEW n \in Nat, n > 0 PROVE (i % n) + 1 \in 1 .. n
BY SMTT(30)

\* NextWithLSN starts with the session's position.
LEMMA ReadStep == ASSUME CausalInv, NEW s \in Callers, LSNRead(s) PROVE CausalInv'
<1> DEFINE k == [list |-> backends, left |-> Len(backends), min |-> lastWriteLSN[s], found |-> {},
                 alone |-> \A d \in Callers : call[d].left = 0,
                 steady |-> {b \in Elems(backends) : Eligible(b, lastWriteLSN[s])}]
<1>1. backends \in Seq(Backends) /\ Len(backends) \in Nat /\ Len(backends) <= Len(backends)
  BY SMTT(30) DEF CausalInv, Types
<1>2. Elems(backends) \subseteq Backends
  BY <1>1, SMTT(30) DEF Elems
<1>3. k \in LSNCalls
  BY <1>1, <1>2, ZenonT(30) DEF CausalInv, Types, LSNCalls
<1>4. k.left = Len(k.list) /\ k.min = lastWriteLSN[s] /\ k.found = {} /\ k.list = backends
  BY Zenon
<1>5. call' = [call EXCEPT ![s] = k]
  BY Zenon DEF LSNRead, NextStart
<1> HIDE DEF k
<1>6. call'[s] = k /\ \A t \in Callers : t # s => call'[t] = call[t]
  BY <1>5, ZenonT(30) DEF CausalInv, Types
<1>7. Types'
  <2>1. call' \in [Callers -> LSNCalls]
    BY <1>3, <1>5, ZenonT(30) DEF CausalInv, Types
  <2>2. \A t \in Callers : call'[t].left <= Len(call'[t].list)
    BY <1>1, <1>4, <1>6, ZenonT(30) DEF CausalInv, Types
  <2> QED BY <2>1, <2>2, ZenonT(30) DEF LSNRead, NextStart, Stage, CausalInv, Types
<1>8. KnownPositions'
  BY ZenonT(30) DEF LSNRead, NextStart, CausalInv, KnownPositions
<1>9. ASSUME NEW t \in Callers PROVE Tracked(t)' /\ Found(t)' /\ Reading(t)'
  <2>1. Tracked(t)'
    BY Zenon DEF LSNRead, CausalInv, Tracked
  <2>2. CASE t = s
    <3>1. stage'[t] = "choosing"
      BY <2>2, ZenonT(30) DEF LSNRead, Stage, CausalInv, Types
    <3> QED BY <1>4, <1>6, <2>1, <2>2, <3>1, ZenonT(30) DEF LSNRead, Found, Reading
  <2>3. CASE t # s
    <3>1. stage'[t] = stage[t]
      BY <2>3, ZenonT(30) DEF LSNRead, Stage, CausalInv, Types
    <3> QED BY <1>6, <2>1, <2>3, <3>1, ZenonT(30) DEF LSNRead, CausalInv, Found, Reading
  <2> QED BY <2>2, <2>3
<1> QED BY <1>7, <1>8, <1>9, Zenon DEF CausalInv

\* One iteration of NextWithLSN: a backend whose known position has reached the
\* session's belongs to a reader that has reached it.
LEMMA ChooseStep == ASSUME CausalInv, NEW s \in Callers, ProbeReader(s) PROVE CausalInv'
<1> DEFINE k == call[s]
           b == k.list[(index % Len(k.list)) + 1]
<1>1. k \in LSNCalls /\ k.left <= Len(k.list) /\ k.left > 0 /\ stage[s] = "choosing"
  BY Zenon DEF ProbeReader, NextProbe, CausalInv, Types
<1>2. /\ k.list \in Seq(Backends) /\ k.left \in Nat /\ k.min \in Nat
      /\ k.found \in SUBSET Addrs
  BY <1>1, Zenon DEF LSNCalls
<1>3. b \in Backends
  <2>1. Len(k.list) \in Nat /\ Len(k.list) > 0 /\ index \in Nat
    BY <1>1, <1>2, SMTT(30) DEF CausalInv, Types
  <2>2. (index % Len(k.list)) + 1 \in 1 .. Len(k.list)
    BY <2>1, IndexInList, Zenon
  <2> QED BY <1>2, <2>2, SMTT(30)
<1>4. b.addr \in Addrs
  BY <1>3, Zenon DEF Backends
<1> DEFINE hit  == [k EXCEPT !.left = 0, !.found = {b.addr}]
           miss == [k EXCEPT !.left = @ - 1]
           other(d) == [call[d] EXCEPT !.alone = FALSE]
<1>5. 0 \in Nat /\ k.left - 1 \in Nat /\ k.left - 1 <= Len(k.list) /\ 0 <= Len(k.list)
  BY <1>1, <1>2, SMTT(30)
<1>6. /\ hit \in LSNCalls /\ hit.left = 0 /\ hit.list = k.list /\ hit.min = k.min
      /\ hit.found = {b.addr}
  BY <1>1, <1>4, <1>5, ZenonT(30) DEF LSNCalls
<1>7. /\ miss \in LSNCalls /\ miss.left = k.left - 1 /\ miss.list = k.list /\ miss.min = k.min
      /\ miss.found = k.found
  BY <1>1, <1>5, ZenonT(30) DEF LSNCalls
<1>8. ASSUME NEW d \in Callers
      PROVE  /\ other(d) \in LSNCalls /\ other(d).left = call[d].left /\ other(d).list = call[d].list
             /\ other(d).min = call[d].min /\ other(d).found = call[d].found
  <2>1. call[d] \in LSNCalls
    BY Zenon DEF CausalInv, Types
  <2> QED BY <2>1, ZenonT(30) DEF LSNCalls
<1>9. call' = [d \in Callers |->
         IF d # s THEN IF call[d].left > 0 THEN other(d) ELSE call[d]
         ELSE IF Eligible(b, k.min) THEN hit ELSE miss]
  BY Zenon DEF ProbeReader, NextProbe
<1>10. Eligible(b, k.min) => replayed[b.addr] >= k.min
  <2>1. replayLSN[b] \in Nat /\ replayed[b.addr] \in Nat /\ replayLSN[b] <= replayed[b.addr]
    BY <1>3, <1>4, Zenon DEF CausalInv, Types, KnownPositions
  <2>2. Eligible(b, k.min) => replayLSN[b] >= k.min
    BY Zenon DEF Eligible
  <2> HIDE DEF b, k, hit, miss, other
  <2> QED BY <1>2, <2>1, <2>2
<1> HIDE DEF hit, miss, other, b
<1>11. ASSUME NEW t \in Callers
       PROVE  /\ call'[t] \in LSNCalls
              /\ call'[t].left <= Len(call'[t].list)
              /\ call'[t].min = call[t].min
              /\ \A a \in call'[t].found : a \in call[t].found \/ (t = s /\ replayed[a] >= k.min)
  <2>1. CASE t # s
    <3>1. call'[t] \in {call[t], other(t)}
      BY <1>9, <2>1, Zenon
    <3> QED BY <1>8, <3>1, Zenon DEF CausalInv, Types
  <2>2. CASE t = s /\ Eligible(b, k.min)
    <3>1. call'[t] = hit
      BY <1>9, <2>2, Zenon
    <3> QED BY <1>5, <1>6, <1>10, <2>2, <3>1, Zenon
  <2>3. CASE t = s /\ ~Eligible(b, k.min)
    <3>1. call'[t] = miss
      BY <1>9, <2>3, Zenon
    <3> QED BY <1>5, <1>7, <2>3, <3>1, Zenon
  <2> QED BY <2>1, <2>2, <2>3
<1>12. index' \in Nat
  BY BalancerAssumption, SMTT(30) DEF ProbeReader, NextProbe, CausalInv, Types
<1>13. Types'
  <2>1. call' \in [Callers -> LSNCalls]
    BY <1>9, <1>11, ZenonT(30)
  <2> QED BY <1>11, <1>12, <2>1, ZenonT(30) DEF ProbeReader, NextProbe, CausalInv, Types, causalVars
<1>14. KnownPositions'
  BY ZenonT(30) DEF ProbeReader, NextProbe, CausalInv, KnownPositions, causalVars
<1>15. ASSUME NEW t \in Callers PROVE Tracked(t)' /\ Found(t)' /\ Reading(t)'
  BY <1>11, ZenonT(30) DEF ProbeReader, CausalInv, Tracked, Found, Reading, causalVars
<1> QED BY <1>13, <1>14, <1>15, Zenon DEF CausalInv

\* The end of a call forgets its locals and changes nothing else of the balancer.
LEMMA ReturnTypes ==
    ASSUME CausalInv, NEW s \in Callers, NextReturn(s)
    PROVE  /\ call' \in [Callers -> LSNCalls]
           /\ \A t \in Callers : call'[t].left <= Len(call'[t].list)
           /\ \A t \in Callers : t # s => call'[t] = call[t]
<1>1. NoCall \in LSNCalls /\ NoCall.left <= Len(NoCall.list)
  <2>1. <<>> \in Seq(Backends) /\ 0 \in Nat /\ Len(<<>>) = 0
    BY SMTT(30)
  <2>2. NoCall \in LSNCalls
    BY <2>1, ZenonT(30) DEF NoCall, LSNCalls
  <2>3. NoCall.left = 0 /\ NoCall.list = <<>>
    BY ZenonT(30) DEF NoCall
  <2>4. NoCall.left <= Len(NoCall.list)
    BY <2>1, <2>3, SMTT(30)
  <2> QED BY <2>2, <2>4
<1>2. call' = [call EXCEPT ![s] = NoCall]
  BY DEF NextReturn
<1>3. call'[s] = NoCall /\ \A t \in Callers : t # s => call'[t] = call[t]
  BY <1>2, ZenonT(30) DEF CausalInv, Types
<1> QED BY <1>1, <1>2, <1>3, ZenonT(30) DEF CausalInv, Types

\* The chosen reader, or the writer, gets the query.
LEMMA ReturnSteps ==
    ASSUME CausalInv, NEW s \in Callers, Chosen(s) \/ FallBack(s)
    PROVE  CausalInv'
<1>0. /\ NextReturn(s) /\ stage[s] = "choosing"
      /\ UNCHANGED <<backends, healthy, replayLSN, index, reloads, wal, replayed,
                     lastWriteLSN, visible, wrote, poll>>
  BY Zenon DEF Chosen, FallBack, NextReturn
<1>1. /\ readerAddr' \in [Callers -> SUBSET Addrs]
      /\ stage' \in [Callers -> {"idle", "written", "choosing", "reading"}]
      /\ \A t \in Callers : t # s => readerAddr'[t] = readerAddr[t] /\ stage'[t] = stage[t]
      /\ \/ stage'[s] = "reading" /\ readerAddr'[s] = call[s].found
         \/ stage'[s] = "idle"
  <2>1. CASE Chosen(s)
    <3>1. call[s].found \in SUBSET Addrs
      BY Zenon DEF CausalInv, Types, LSNCalls
    <3> QED BY <2>1, <3>1, ZenonT(30) DEF Chosen, Stage, CausalInv, Types
  <2>2. CASE FallBack(s)
    BY <2>2, ZenonT(30) DEF FallBack, Stage, CausalInv, Types
  <2> QED BY <2>1, <2>2
<1>2. Types'
  BY <1>0, <1>1, ReturnTypes, ZenonT(30) DEF CausalInv, Types
<1>3. KnownPositions'
  BY <1>0, ZenonT(30) DEF CausalInv, KnownPositions
<1>4. ASSUME NEW t \in Callers PROVE Tracked(t)' /\ Found(t)' /\ Reading(t)'
  <2>1. Tracked(t)'
    BY <1>0, Zenon DEF CausalInv, Tracked
  <2>2. CASE t # s
    BY <1>0, <1>1, <2>1, <2>2, ReturnTypes, ZenonT(30) DEF CausalInv, Found, Reading
  <2>3. CASE t = s
    BY <1>0, <1>1, <2>1, <2>3, ZenonT(30) DEF CausalInv, Found, Reading
  <2> QED BY <2>2, <2>3
<1> QED BY <1>2, <1>3, <1>4, Zenon DEF CausalInv

\* MarkUnhealthy touches only the health of backends and what is noted of calls.
LEMMA MarkTypes ==
    ASSUME CausalInv, NEW a, MarkUnhealthy(a)
    PROVE  /\ call' \in [Callers -> LSNCalls]
           /\ \A t \in Callers : /\ call'[t].left <= Len(call'[t].list)
                                 /\ call'[t].min = call[t].min
                                 /\ call'[t].found = call[t].found
<1> DEFINE gone == {b \in Elems(backends) : b.addr = a}
           less(t) == [call[t] EXCEPT !.steady = @ \ gone]
<1>1. call' = [t \in Callers |-> IF call[t].left > 0 THEN less(t) ELSE call[t]]
  BY Zenon DEF MarkUnhealthy
<1>2. ASSUME NEW t \in Callers
      PROVE  /\ less(t) \in LSNCalls /\ less(t).left = call[t].left /\ less(t).list = call[t].list
             /\ less(t).min = call[t].min /\ less(t).found = call[t].found
  <2>1. call[t] \in LSNCalls /\ call[t].steady \in SUBSET Backends
    BY Zenon DEF CausalInv, Types, LSNCalls
  <2> HIDE DEF gone
  <2>2. call[t].steady \ gone \in SUBSET Backends
    BY <2>1, Zenon
  <2> QED BY <2>1, <2>2, ZenonT(30) DEF LSNCalls
<1> HIDE DEF less
<1>3. ASSUME NEW t \in Callers PROVE call'[t] \in {call[t], less(t)}
  BY <1>1, Zenon
<1> QED BY <1>1, <1>2, <1>3, ZenonT(30) DEF CausalInv, Types

\* The query is over.
LEMMA AnswerStep == ASSUME CausalInv, NEW s \in Callers, Answer(s) PROVE CausalInv'
<1>1. /\ call' \in [Callers -> LSNCalls]
      /\ \A t \in Callers : /\ call'[t].left <= Len(call'[t].list)
                            /\ call'[t].min = call[t].min
                            /\ call'[t].found = call[t].found
  <2>1. CASE UNCHANGED balancerVars
    BY <2>1, ZenonT(30) DEF balancerVars, CausalInv, Types
  <2>2. CASE \E a \in readerAddr[s] : MarkUnhealthy(a)
    BY <2>2, MarkTypes, Zenon
  <2> QED BY <2>1, <2>2, Zenon DEF Answer
<1>2. UNCHANGED <<backends, replayLSN, index, reloads, wal, replayed, lastWriteLSN, visible, wrote, poll>>
  BY Zenon DEF Answer, MarkUnhealthy, balancerVars
<1>3. Types'
  BY <1>1, <1>2, ZenonT(30) DEF Answer, Stage, CausalInv, Types
<1>4. KnownPositions'
  BY <1>2, ZenonT(30) DEF CausalInv, KnownPositions
<1>5. ASSUME NEW t \in Callers PROVE Tracked(t)' /\ Found(t)' /\ Reading(t)'
  <2>1. Tracked(t)'
    BY <1>2, Zenon DEF CausalInv, Tracked
  <2>2. /\ stage'[t] \in {"choosing", "reading"} => stage'[t] = stage[t] /\ t # s
        /\ t # s => readerAddr'[t] = readerAddr[t]
    BY ZenonT(30) DEF Answer, Stage, CausalInv, Types
  <2> QED BY <1>1, <1>2, <2>1, <2>2, ZenonT(30) DEF CausalInv, Found, Reading
<1> QED BY <1>3, <1>4, <1>5, Zenon DEF CausalInv

\* Replicas only go forward, so what was known, found or chosen stays reached.
LEMMA ReplayStep == ASSUME CausalInv, NEW r \in Addrs, Replay(r) PROVE CausalInv'
<1>1. ASSUME NEW a \in Addrs
      PROVE  replayed[a] \in Nat /\ replayed'[a] \in Nat /\ replayed[a] <= replayed'[a]
  <2>1. replayed[a] \in Nat /\ replayed[a] + 1 \in Nat /\ replayed[a] <= replayed[a] + 1
        /\ replayed[a] <= replayed[a]
    BY SMTT(30) DEF CausalInv, Types
  <2>2. replayed'[a] \in {replayed[a], replayed[a] + 1}
    BY ZenonT(30) DEF Replay, CausalInv, Types
  <2> QED BY <2>1, <2>2, Zenon
<1>2. Types'
  <2>1. replayed' \in [Addrs -> Nat]
    BY <1>1, ZenonT(30) DEF Replay, CausalInv, Types
  <2> QED BY <2>1, ZenonT(30) DEF Replay, CausalInv, Types, balancerVars
<1>3. KnownPositions'
  <2>1. ASSUME NEW b \in Backends PROVE replayLSN[b] <= replayed'[b.addr]
    <3>1. b.addr \in Addrs /\ replayLSN[b] \in Nat
      BY Zenon DEF Backends, CausalInv, Types
    <3> QED BY <1>1, <3>1, Grown, Zenon DEF CausalInv, KnownPositions
  <2>2. ASSUME NEW p \in poll PROVE p[2] <= replayed'[p[1]]
    <3>1. p \in Addrs \X Nat
      BY Zenon DEF CausalInv, Types
    <3>2. p[1] \in Addrs /\ p[2] \in Nat
      BY <3>1
    <3> QED BY <1>1, <3>2, Grown, Zenon DEF CausalInv, KnownPositions
  <2> QED BY <2>1, <2>2, Zenon DEF Replay, KnownPositions, balancerVars
<1>4. ASSUME NEW t \in Callers PROVE Tracked(t)' /\ Found(t)' /\ Reading(t)'
  <2>1. Tracked(t)'
    BY Zenon DEF Replay, CausalInv, Tracked
  <2>2. \A m \in Nat, a \in Addrs : replayed[a] >= m => replayed'[a] >= m
    <3> SUFFICES ASSUME NEW m \in Nat, NEW a \in Addrs, replayed[a] >= m PROVE replayed'[a] >= m
      OBVIOUS
    <3>1. replayed[a] \in Nat /\ replayed'[a] \in Nat /\ replayed[a] <= replayed'[a]
      BY <1>1
    <3> QED BY <3>1, SMTT(30)
  <2>3. call[t] \in LSNCalls /\ lastWriteLSN[t] \in Nat /\ readerAddr[t] \in SUBSET Addrs
    BY Zenon DEF CausalInv, Types
  <2>4. call[t].min \in Nat /\ call[t].found \in SUBSET Addrs
    BY <2>3, Zenon DEF LSNCalls
  <2> QED BY <2>1, <2>2, <2>3, <2>4, ZenonT(30) DEF Replay, CausalInv, Found, Reading, balancerVars
<1> QED BY <1>2, <1>3, <1>4, Zenon DEF CausalInv

\* The poller stores what it was told, and a reader has not gone back since.
LEMMA PollSteps ==
    ASSUME CausalInv, PollStore \/ \E a \in Addrs : PollQuery(a)
    PROVE  CausalInv'
<1>1. UNCHANGED <<backends, index, call, reloads, wal, replayed, lastWriteLSN, visible, stage, wrote, readerAddr>>
  BY Zenon DEF PollStore, PollQuery, SetReplayLSN, balancerVars
<1>2. /\ replayLSN' \in [Backends -> Nat] /\ poll' \in SUBSET (Addrs \X Nat)
      /\ KnownPositions'
  <2>1. CASE PollStore
    <3>1. PICK p \in poll : SetReplayLSN(p[1], p[2])
      BY <2>1, Zenon DEF PollStore
    <3>2. p \in Addrs \X Nat
      BY Zenon DEF CausalInv, Types
    <3>3. p[1] \in Addrs /\ p[2] \in Nat /\ p[2] <= replayed[p[1]]
      BY <3>2, Zenon DEF CausalInv, KnownPositions
    <3>4. ASSUME NEW b \in Backends
          PROVE  replayLSN'[b] \in Nat /\ replayLSN'[b] <= replayed[b.addr]
      <4>1. replayLSN'[b] = IF b \in Elems(backends) /\ b.addr = p[1] THEN p[2] ELSE replayLSN[b]
        BY <3>1, Zenon DEF SetReplayLSN
      <4> QED BY <3>3, <4>1, Zenon DEF CausalInv, Types, KnownPositions
    <3>5. replayLSN' \in [Backends -> Nat]
      BY <3>1, <3>4, ZenonT(30) DEF SetReplayLSN
    <3>6. poll' = {}
      BY <2>1 DEF PollStore
    <3> QED BY <1>1, <3>4, <3>5, <3>6, Zenon DEF KnownPositions
  <2>2. ASSUME NEW a \in Addrs, PollQuery(a)
        PROVE  /\ replayLSN' \in [Backends -> Nat] /\ poll' \in SUBSET (Addrs \X Nat)
               /\ KnownPositions'
    <3>1. UNCHANGED replayLSN /\ poll' = {<<a, replayed[a]>>}
      BY <2>2, Zenon DEF PollQuery, balancerVars
    <3>2. replayed[a] \in Nat /\ replayed[a] <= replayed[a]
      BY SMTT(30) DEF CausalInv, Types
    <3>3. <<a, replayed[a]>> \in Addrs \X Nat
      BY <3>2
    <3>4. \A p \in poll' : p[2] <= replayed[p[1]]
      BY <3>1, <3>2, SMTT(30)
    <3> QED BY <1>1, <3>1, <3>3, <3>4, Zenon DEF CausalInv, Types, KnownPositions
  <2> QED BY <2>1, <2>2
<1>3. Types'
  BY <1>1, <1>2, ZenonT(30) DEF CausalInv, Types
<1>4. ASSUME NEW t \in Callers PROVE Tracked(t)' /\ Found(t)' /\ Reading(t)'
  BY <1>1, ZenonT(30) DEF CausalInv, Tracked, Found, Reading
<1> QED BY <1>2, <1>3, <1>4, Zenon DEF CausalInv

\* A reload keeps the positions of the backends it keeps; a new backend has none.
LEMMA ReloadStep == ASSUME CausalInv, NEW l \in ReaderLists, ReloadReaders(l) PROVE CausalInv'
<1>1. UNCHANGED <<replayLSN, index, call, wal, replayed, lastWriteLSN, visible, stage, wrote, readerAddr, poll>>
  BY Zenon DEF ReloadReaders, UpdateBackends, causalVars
<1>2. l \in Seq(Addrs) /\ Len(l) \in Nat
  BY BalancerAssumption
<1> DEFINE f(i) == IF \E b \in Elems(backends) : b.addr = l[i]
                   THEN CHOOSE b \in Elems(backends) : b.addr = l[i]
                   ELSE [addr |-> l[i], born |-> reloads + 1]
<1>3. backends' = [i \in 1 .. Len(l) |-> f(i)]
  BY Zenon DEF ReloadReaders, UpdateBackends
<1>4. ASSUME NEW i \in 1 .. Len(l) PROVE f(i) \in Backends
  <2>1. CASE \E b \in Elems(backends) : b.addr = l[i]
    <3>1. f(i) \in Elems(backends)
      BY <2>1, Zenon
    <3>2. Elems(backends) \subseteq Backends
      BY SMTT(30) DEF Elems, CausalInv, Types
    <3> QED BY <3>1, <3>2, Zenon
  <2>2. CASE ~ \E b \in Elems(backends) : b.addr = l[i]
    <3>1. reloads + 1 \in 0 .. MaxReloads
      BY BalancerAssumption, SMTT(30) DEF ReloadReaders, UpdateBackends, CausalInv, Types
    <3>2. l[i] \in Addrs
      BY <1>2
    <3> QED BY <2>2, <3>1, <3>2, Zenon DEF Backends
  <2> QED BY <2>1, <2>2
<1> HIDE DEF f
<1>5. backends' \in Seq(Backends)
  BY <1>2, <1>3, <1>4, SMTT(30)
<1>6. reloads' \in Nat
  BY SMTT(30) DEF ReloadReaders, UpdateBackends, CausalInv, Types
<1>7. Types'
  BY <1>1, <1>5, <1>6, ZenonT(30) DEF CausalInv, Types
<1>8. KnownPositions'
  BY <1>1, Zenon DEF CausalInv, KnownPositions
<1>9. ASSUME NEW t \in Callers PROVE Tracked(t)' /\ Found(t)' /\ Reading(t)'
  BY <1>1, ZenonT(30) DEF CausalInv, Tracked, Found, Reading
<1> QED BY <1>7, <1>8, <1>9, Zenon DEF CausalInv

\* Every step keeps the invariant.
LEMMA InvStep == CausalInv /\ [CausalNext]_lsnVars => CausalInv'
<1> SUFFICES ASSUME CausalInv, [CausalNext]_lsnVars PROVE CausalInv'
  OBVIOUS
<1>1. CASE UNCHANGED <<backends, replayLSN, index, call, reloads, wal, replayed, lastWriteLSN,
                       visible, stage, wrote, readerAddr, poll>>
  <2>1. Types' /\ KnownPositions'
    BY <1>1, ZenonT(30) DEF CausalInv, Types, KnownPositions
  <2>2. ASSUME NEW t \in Callers PROVE Tracked(t)' /\ Found(t)' /\ Reading(t)'
    BY <1>1, ZenonT(30) DEF CausalInv, Tracked, Found, Reading
  <2> QED BY <2>1, <2>2, Zenon DEF CausalInv
<1>2. ASSUME NEW s \in Callers, CausalStep(s) PROVE CausalInv'
  <2>1. CASE Begin(s) \/ Rollback(s)
    BY <1>1, <2>1, Zenon DEF Begin, Rollback, balancerVars
  <2>2. CASE Commit(s)
    <3>1. visible' \in [Callers -> [write : Nat, commit : Nat]]
          /\ \A t \in Callers : visible'[t].write = visible[t].write
      <4> DEFINE c == IF tx[s] = "wrote" THEN wal + 1 ELSE visible[s].commit
      <4>1. visible[s] \in [write : Nat, commit : Nat]
        BY Zenon DEF CausalInv, Types
      <4>2. wal + 1 \in Nat
        BY SMTT(30) DEF CausalInv, Types
      <4>3. c \in Nat
        BY <4>1, <4>2, Zenon
      <4>4. visible' = [visible EXCEPT ![s] = [visible[s] EXCEPT !.commit = c]]
        BY <2>2, Zenon DEF Commit
      <4> HIDE DEF c
      <4>5. /\ [visible[s] EXCEPT !.commit = c] \in [write : Nat, commit : Nat]
            /\ [visible[s] EXCEPT !.commit = c].write = visible[s].write
        BY <4>1, <4>3, ZenonT(30)
      <4> QED BY <4>4, <4>5, ZenonT(30) DEF CausalInv, Types
    <3> QED BY <2>2, <3>1, WalStep, Zenon DEF Commit
  <2>3. CASE Write(s) \/ QueryCurrentLSN(s) \/ QueryCurrentLSNFails(s)
    BY <2>3, WriteSteps
  <2> QED BY <1>2, <2>1, <2>2, <2>3, ReadStep, ChooseStep, ReturnSteps, AnswerStep, Zenon DEF CausalStep
<1>3. CASE ForeignWrite
  <2>1. visible' = visible
    BY <1>3 DEF ForeignWrite
  <2>2. visible' \in [Callers -> [write : Nat, commit : Nat]]
    BY <2>1, Zenon DEF CausalInv, Types
  <2> QED BY <1>3, <2>1, <2>2, WalStep, Zenon DEF ForeignWrite
<1>4. ASSUME NEW b \in Backends, CheckReaders(b) PROVE CausalInv'
  BY <1>1, <1>4, Zenon DEF CheckReaders, Recover, causalVars
<1>5. CASE UNCHANGED lsnVars
  BY <1>1, <1>5, Zenon DEF lsnVars, balancerVars, causalVars
<1> QED
  BY <1>2, <1>3, <1>4, <1>5, ReplayStep, PollSteps, ReloadStep, Zenon DEF CausalNext

\* With any number of sessions, readers and reloads: a session's query runs only on
\* readers that have its last write outside a transaction (handleWriteQuery,
\* NextWithLSN, pollReaderLSNsForGroup).
THEOREM CausalReads == CausalSpec => []ReadYourWrites
BY InvInit, InvStep, InvImplies, PTL DEF CausalSpec

\* The positions the poller stores never run ahead of the readers (SetReplayLSN).
THEOREM PositionsKnown == CausalSpec => []KnownPositions
<1>1. CausalInv => KnownPositions
  BY DEF CausalInv
<1> QED BY <1>1, InvInit, InvStep, PTL DEF CausalSpec
=============================================================================
