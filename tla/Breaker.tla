------------------------------ MODULE Breaker ------------------------------
(***************************************************************************)
(* The circuit breaker of internal/resilience/breaker.go, as operations on *)
(* the value of a breaker; each method holds cb.mu, so a caller's action   *)
(* applies one of them.  The clock behind OpenDuration is the field        *)
(* elapsed, which time sets once the breaker has been open that long.      *)
(*                                                                         *)
(* The threshold is the fraction ThresholdNum / ThresholdDen.  Division    *)
(* and the parsing of the threshold both round to the nearest float64, so  *)
(* the comparison of the code is the comparison of the fractions.          *)
(***************************************************************************)
EXTENDS Integers

CONSTANTS WindowSize, HalfOpenMax, ThresholdNum, ThresholdDen

\* NewCircuitBreaker replaces sizes and thresholds that are not positive.
ASSUME BreakerAssumption ==
    /\ WindowSize \in Nat \ {0}
    /\ HalfOpenMax \in Nat \ {0}
    /\ ThresholdNum \in Nat \ {0}
    /\ ThresholdDen \in Nat \ {0}

Breakers == [state : {"closed", "open", "halfopen"}, successes : Nat, failures : Nat,
             total : Nat, halfOpenOK : Nat, elapsed : BOOLEAN]

NewCircuitBreaker ==
    [state |-> "closed", successes |-> 0, failures |-> 0, total |-> 0,
     halfOpenOK |-> 0, elapsed |-> FALSE]

\* The breaker after Allow or State: an open one becomes half-open in time.
Allow(b) ==
    IF b.state = "open" /\ b.elapsed
    THEN [b EXCEPT !.state = "halfopen", !.halfOpenOK = 0, !.elapsed = FALSE]
    ELSE b

\* Whether Allow lets the request through.
Allows(b) == Allow(b).state # "open"

Opened(b) == [b EXCEPT !.state = "open", !.elapsed = FALSE, !.halfOpenOK = 0]

resetCounters(b) == [b EXCEPT !.successes = 0, !.failures = 0, !.total = 0]

\* Mutant: the window is not reset when the breaker trips.
evaluateWindowKeepsCounters(b) ==
    IF b.total < WindowSize THEN b
    ELSE IF b.failures * ThresholdDen >= ThresholdNum * b.total
         THEN Opened(b)
         ELSE resetCounters(b)

evaluateWindow(b) ==
    IF b.total < WindowSize THEN b
    ELSE resetCounters(IF b.failures * ThresholdDen >= ThresholdNum * b.total
                       THEN Opened(b) ELSE b)

\* Results that arrive while the breaker is open are not counted.  (halfOpenOK is
\* read again only after Allow has reset it; it is reset here already.)
RecordSuccess(b) ==
    CASE b.state = "closed" ->
           evaluateWindow([b EXCEPT !.successes = @ + 1, !.total = @ + 1])
      [] b.state = "halfopen" ->
           IF b.halfOpenOK + 1 >= HalfOpenMax
           THEN resetCounters([b EXCEPT !.state = "closed", !.halfOpenOK = 0])
           ELSE [b EXCEPT !.halfOpenOK = @ + 1]
      [] OTHER -> b

RecordFailure(b) ==
    CASE b.state = "closed" ->
           evaluateWindow([b EXCEPT !.failures = @ + 1, !.total = @ + 1])
      [] b.state = "halfopen" -> Opened(b)
      [] OTHER -> b

\* OpenDuration has passed since openedAt.
Elapse(b) == [b EXCEPT !.elapsed = TRUE]

\* The counters describe the current window and nothing else: they add up, a full
\* window has been evaluated, and no count of an earlier window or of a half-open
\* phase reaches the next closed one.
WindowSound(b) ==
    /\ b.total = b.successes + b.failures
    /\ b.total < WindowSize
    /\ b.state # "closed" => b.total = 0
    /\ b.state = "halfopen" => b.halfOpenOK < HalfOpenMax
=============================================================================
