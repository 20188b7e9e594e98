-------------------------------- MODULE Pool --------------------------------
(***************************************************************************)
(* The connection pool of internal/pool/pool.go: a LIFO list of idle       *)
(* connections, the counter numOpen, the buffered channel waitCh that      *)
(* wakes blocked callers, and the goroutines that use them: borrowers      *)
(* (Acquire / Release / Discard), the warm-up goroutine and the health     *)
(* checker.  Each action is one critical section of p.mu, or one step a    *)
(* goroutine takes outside it (a dial, closing a socket, a channel         *)
(* operation).                                                             *)
(*                                                                         *)
(* The clocks behind MaxLifetime and IdleTimeout are the set expired of    *)
(* connections that are past one of them; the timer of a blocked Acquire   *)
(* and the cancellation of its context are the action GiveUp.              *)
(***************************************************************************)
EXTENDS Integers, Sequences, FiniteSets

CONSTANTS Borrowers,       \* goroutines that call Acquire
          Warmers,         \* goroutines started by Warm (one per call)
          Checker,         \* the goroutine started by StartHealthCheck
          Conns,           \* identities of backend connections
          NoConn,
          MinConnections,
          MaxConnections,
          DialsMayFail     \* whether the backend may be unreachable

Procs == Borrowers \cup Warmers \cup {Checker}

\* config.Validate refuses any other sizes.
ASSUME SizesAssumption ==
    /\ MinConnections \in Nat
    /\ MaxConnections \in Nat \ {0}
    /\ MinConnections <= MaxConnections

ASSUME ProcsAssumption ==
    /\ IsFiniteSet(Borrowers)
    /\ IsFiniteSet(Warmers)
    /\ Warmers \cap Borrowers = {}
    /\ Checker \notin Borrowers \cup Warmers
    /\ NoConn \notin Conns
    /\ DialsMayFail \in BOOLEAN

VARIABLES idle,      \* p.idle, the last element is popped first
          numOpen,   \* p.numOpen
          closed,    \* p.closed, set together with close(p.done)
          waitCh,    \* number of tokens buffered in p.waitCh
          expired,   \* connections past MaxLifetime or IdleTimeout
          pc,        \* pc[p]: what goroutine p is doing (see States)
          conn,      \* conn[p]: the connection p holds outside the pool
          warmLeft   \* warmLeft[w]: iterations the warm-up loop of w has left

vars == <<idle, numOpen, closed, waitCh, expired, pc, conn, warmLeft>>

States == {"out",         \* outside the pool's code, holding nothing
           "woken",       \* Acquire, back at the loop head after a token
           "waiting",     \* Acquire, blocked in the select
           "dialing",     \* in newConn with a slot reserved
           "held",        \* Acquire returned a connection
           "closing",     \* slot given up, socket not yet closed
           "discarding",  \* Discard, socket closed, counter not yet updated
           "signalling",  \* Discard, after the unlock
           "warming"}     \* head of the warm-up loop

-----------------------------------------------------------------------------
Init ==
    /\ idle = <<>>
    /\ numOpen = 0
    /\ closed = FALSE
    /\ waitCh = 0
    /\ expired = {}
    /\ pc = [p \in Procs |-> "out"]
    /\ conn = [p \in Procs |-> NoConn]
    /\ warmLeft = [w \in Warmers |-> 0]

Goto(p, s) == pc' = [pc EXCEPT ![p] = s]

Elems(seq) == {seq[i] : i \in 1 .. Len(seq)}

\* Identities of connections that exist nowhere: what a dial may produce.
Fresh == Conns \ (Elems(idle) \cup {conn[p] : p \in Procs})

\* The non-blocking send "select { case p.waitCh <- struct{}{}: default: }".
Signal ==
    waitCh' = IF waitCh < MaxConnections THEN waitCh + 1 ELSE waitCh

\* Where the popping loop of Acquire stops: at the last connection of idle
\* that is not expired, or at 0 when there is none.
LastUsable(k) ==
    /\ k > 0 => idle[k] \notin expired
    /\ \A j \in k + 1 .. Len(idle) : idle[j] \in expired

-----------------------------------------------------------------------------
(* Acquire *)

\* Head of Acquire's loop: a fresh call, or one woken by a token.
AtLoopHead(p) == pc[p] \in {"out", "woken"}

AcquireClosed(p) ==
    /\ AtLoopHead(p)
    /\ closed
    /\ Goto(p, "out")
    /\ UNCHANGED <<idle, numOpen, closed, waitCh, expired, conn, warmLeft>>

\* Mutant: the connection handed out stays in the idle list.
AcquireIdleKept(p) ==
    /\ AtLoopHead(p)
    /\ ~closed
    /\ \E k \in 1 .. Len(idle) :
          /\ LastUsable(k)
          /\ conn' = [conn EXCEPT ![p] = idle[k]]
          /\ idle' = SubSeq(idle, 1, k)
          /\ numOpen' = numOpen - (Len(idle) - k)
          /\ expired' = expired \ {idle[j] : j \in k + 1 .. Len(idle)}
    /\ Goto(p, "held")
    /\ UNCHANGED <<closed, waitCh, warmLeft>>

\* Expired connections on top of the list are closed, the first usable one is
\* handed out.
AcquireIdle(p) ==
    /\ AtLoopHead(p)
    /\ ~closed
    /\ \E k \in 1 .. Len(idle) :
          /\ LastUsable(k)
          /\ conn' = [conn EXCEPT ![p] = idle[k]]
          /\ idle' = SubSeq(idle, 1, k - 1)
          /\ numOpen' = numOpen - (Len(idle) - k)
          /\ expired' = expired \ {idle[j] : j \in k + 1 .. Len(idle)}
    /\ Goto(p, "held")
    /\ UNCHANGED <<closed, waitCh, warmLeft>>

\* Mutant: the limit is off by one.
AcquireNoneOverLimit(p) ==
    /\ AtLoopHead(p)
    /\ ~closed
    /\ LastUsable(0)
    /\ LET open == numOpen - Len(idle)
       IN  IF open <= MaxConnections
           THEN numOpen' = open + 1 /\ Goto(p, "dialing")
           ELSE numOpen' = open /\ Goto(p, "waiting")
    /\ idle' = <<>>
    /\ expired' = expired \ Elems(idle)
    /\ UNCHANGED <<closed, waitCh, conn, warmLeft>>

\* Nothing usable: reserve a slot and dial, or block when the pool is full.
AcquireNone(p) ==
    /\ AtLoopHead(p)
    /\ ~closed
    /\ LastUsable(0)
    /\ LET open == numOpen - Len(idle)
       IN  IF open < MaxConnections
           THEN numOpen' = open + 1 /\ Goto(p, "dialing")
           ELSE numOpen' = open /\ Goto(p, "waiting")
    /\ idle' = <<>>
    /\ expired' = expired \ Elems(idle)
    /\ UNCHANGED <<closed, waitCh, conn, warmLeft>>

\* Mutant: the reserved slot is not given up.
AcquireDialFailsKeepsSlot(p) ==
    /\ DialsMayFail
    /\ pc[p] = "dialing"
    /\ Goto(p, "out")
    /\ UNCHANGED <<idle, numOpen, closed, waitCh, expired, conn, warmLeft>>

\* newConn failed: the slot is given up, nobody is signalled.
AcquireDialFails(p) ==
    /\ DialsMayFail
    /\ pc[p] = "dialing"
    /\ numOpen' = numOpen - 1
    /\ Goto(p, "out")
    /\ UNCHANGED <<idle, closed, waitCh, expired, conn, warmLeft>>

\* Mutants: closed is not checked again; the slot is not given up on that path.
AcquireDialedUnchecked(p) ==
    /\ pc[p] = "dialing"
    /\ \E c \in Fresh : conn' = [conn EXCEPT ![p] = c]
    /\ Goto(p, "held")
    /\ UNCHANGED <<idle, numOpen, closed, waitCh, expired, warmLeft>>

AcquireDialedKeepsSlot(p) ==
    /\ pc[p] = "dialing"
    /\ \E c \in Fresh : conn' = [conn EXCEPT ![p] = c]
    /\ Goto(p, IF closed THEN "closing" ELSE "held")
    /\ UNCHANGED <<idle, numOpen, closed, waitCh, expired, warmLeft>>

\* newConn succeeded; closed is checked again because Close may have run.
AcquireDialed(p) ==
    /\ pc[p] = "dialing"
    /\ \E c \in Fresh : conn' = [conn EXCEPT ![p] = c]
    /\ IF closed
       THEN numOpen' = numOpen - 1 /\ Goto(p, "closing")
       ELSE UNCHANGED numOpen /\ Goto(p, "held")
    /\ UNCHANGED <<idle, closed, waitCh, expired, warmLeft>>

\* conn.Close() after the unlock, on the paths that found the pool closed.
CloseSocket(p) ==
    /\ pc[p] = "closing"
    /\ conn' = [conn EXCEPT ![p] = NoConn]
    /\ expired' = expired \ {conn[p]}
    /\ Goto(p, "out")
    /\ UNCHANGED <<idle, numOpen, closed, waitCh, warmLeft>>

\* The select of a blocked Acquire: a token arrives ...
Wake(p) ==
    /\ pc[p] = "waiting"
    /\ waitCh > 0
    /\ waitCh' = waitCh - 1
    /\ Goto(p, "woken")
    /\ UNCHANGED <<idle, numOpen, closed, expired, conn, warmLeft>>

\* Mutant: a blocked Acquire has no timer.
GiveUpNever(p) ==
    /\ FALSE
    /\ pc[p] = "waiting"
    /\ Goto(p, "out")
    /\ UNCHANGED <<idle, numOpen, closed, waitCh, expired, conn, warmLeft>>

\* ... or the timer fires or the context is cancelled.
GiveUp(p) ==
    /\ pc[p] = "waiting"
    /\ Goto(p, "out")
    /\ UNCHANGED <<idle, numOpen, closed, waitCh, expired, conn, warmLeft>>

-----------------------------------------------------------------------------
(* Release, Discard, Close *)

Release(p) ==
    /\ pc[p] = "held"
    /\ conn' = [conn EXCEPT ![p] = NoConn]
    /\ Goto(p, "out")
    /\ IF closed
       THEN /\ numOpen' = IF numOpen > 0 THEN numOpen - 1 ELSE numOpen
            /\ expired' = expired \ {conn[p]}
            /\ UNCHANGED <<idle, waitCh>>
       ELSE /\ idle' = Append(idle, conn[p])
            /\ Signal
            /\ UNCHANGED <<numOpen, expired>>
    /\ UNCHANGED <<closed, warmLeft>>

\* Discard closes the socket, then updates the counter under the lock, then
\* signals after the unlock.
Discard(p) ==
    /\ pc[p] = "held"
    /\ conn' = [conn EXCEPT ![p] = NoConn]
    /\ expired' = expired \ {conn[p]}
    /\ Goto(p, "discarding")
    /\ UNCHANGED <<idle, numOpen, closed, waitCh, warmLeft>>

DiscardCount(p) ==
    /\ pc[p] = "discarding"
    /\ numOpen' = IF numOpen > 0 THEN numOpen - 1 ELSE numOpen
    /\ Goto(p, "signalling")
    /\ UNCHANGED <<idle, closed, waitCh, expired, conn, warmLeft>>

\* Mutant: Discard wakes nobody.
DiscardSilent(p) ==
    /\ pc[p] = "signalling"
    /\ Goto(p, "out")
    /\ UNCHANGED <<idle, numOpen, closed, waitCh, expired, conn, warmLeft>>

DiscardSignal(p) ==
    /\ pc[p] = "signalling"
    /\ Signal
    /\ Goto(p, "out")
    /\ UNCHANGED <<idle, numOpen, closed, expired, conn, warmLeft>>

\* Mutant: the count of borrowed connections is reset as well.
CloseResetsCount ==
    /\ ~closed
    /\ closed' = TRUE
    /\ idle' = <<>>
    /\ numOpen' = 0
    /\ expired' = expired \ Elems(idle)
    /\ UNCHANGED <<waitCh, pc, conn, warmLeft>>

\* Blocked borrowers are not woken.
Close ==
    /\ ~closed
    /\ closed' = TRUE
    /\ idle' = <<>>
    /\ numOpen' = numOpen - Len(idle)
    /\ expired' = expired \ Elems(idle)
    /\ UNCHANGED <<waitCh, pc, conn, warmLeft>>

-----------------------------------------------------------------------------
(* Warm: started with the server and again by every configuration reload *)

WarmStart(w) ==
    /\ pc[w] = "out"
    /\ MinConnections > 0
    /\ warmLeft' = [warmLeft EXCEPT ![w] = MinConnections]
    /\ Goto(w, "warming")
    /\ UNCHANGED <<idle, numOpen, closed, waitCh, expired, conn>>

WarmReserve(w) ==
    /\ pc[w] = "warming"
    /\ warmLeft[w] > 0
    /\ ~closed
    /\ numOpen < MinConnections
    /\ numOpen' = numOpen + 1
    /\ warmLeft' = [warmLeft EXCEPT ![w] = warmLeft[w] - 1]
    /\ Goto(w, "dialing")
    /\ UNCHANGED <<idle, closed, waitCh, expired, conn>>

\* The loop ends: its iterations are used up, the pool is closed or full
\* enough, or the context is cancelled, which can happen at any time.
WarmEnd(w) ==
    /\ pc[w] = "warming"
    /\ Goto(w, "out")
    /\ UNCHANGED <<idle, numOpen, closed, waitCh, expired, conn, warmLeft>>

WarmDialFails(w) ==
    /\ DialsMayFail
    /\ pc[w] = "dialing"
    /\ numOpen' = numOpen - 1
    /\ Goto(w, "warming")
    /\ UNCHANGED <<idle, closed, waitCh, expired, conn, warmLeft>>

\* Mutant: closed is not checked again after the dial.
WarmDialedUnchecked(w) ==
    /\ pc[w] = "dialing"
    /\ \E c \in Fresh : idle' = Append(idle, c)
    /\ Goto(w, "warming")
    /\ UNCHANGED <<numOpen, conn, closed, waitCh, expired, warmLeft>>

\* The new connection joins the idle list; nobody is signalled.
WarmDialed(w) ==
    /\ pc[w] = "dialing"
    /\ \E c \in Fresh :
          IF closed
          THEN /\ conn' = [conn EXCEPT ![w] = c]
               /\ numOpen' = numOpen - 1
               /\ Goto(w, "closing")
               /\ UNCHANGED idle
          ELSE /\ idle' = Append(idle, c)
               /\ Goto(w, "warming")
               /\ UNCHANGED <<conn, numOpen>>
    /\ UNCHANGED <<closed, waitCh, expired, warmLeft>>

-----------------------------------------------------------------------------
(* The health checker *)

\* pos lists, in increasing order, the positions of idle that are not expired.
KeepsUsable(n, pos) ==
    /\ \A i, j \in 1 .. n : i < j => pos[i] < pos[j]
    /\ {pos[i] : i \in 1 .. n} = {i \in 1 .. Len(idle) : idle[i] \notin expired}

\* "for p.numOpen < p.cfg.MinConnections": reserve the next slot or finish.
Replenish(open) ==
    IF open < MinConnections
    THEN numOpen' = open + 1 /\ Goto(Checker, "dialing")
    ELSE numOpen' = open /\ Goto(Checker, "out")

HealthCheck ==
    /\ pc[Checker] = "out"
    /\ ~closed
    /\ \E n \in 0 .. Len(idle) : \E pos \in [1 .. n -> 1 .. Len(idle)] :
          /\ KeepsUsable(n, pos)
          /\ idle' = [i \in 1 .. n |-> idle[pos[i]]]
          /\ Replenish(numOpen - (Len(idle) - n))
    /\ expired' = expired \ Elems(idle)
    /\ UNCHANGED <<closed, waitCh, conn, warmLeft>>

HealthDialFails ==
    /\ DialsMayFail
    /\ pc[Checker] = "dialing"
    /\ numOpen' = numOpen - 1
    /\ Goto(Checker, "out")
    /\ UNCHANGED <<idle, closed, waitCh, expired, conn, warmLeft>>

HealthDialed ==
    /\ pc[Checker] = "dialing"
    /\ \E c \in Fresh :
          IF closed
          THEN /\ conn' = [conn EXCEPT ![Checker] = c]
               /\ numOpen' = numOpen - 1
               /\ Goto(Checker, "closing")
               /\ UNCHANGED idle
          ELSE /\ idle' = Append(idle, c)
               /\ Replenish(numOpen)
               /\ UNCHANGED conn
    /\ UNCHANGED <<closed, waitCh, expired, warmLeft>>

-----------------------------------------------------------------------------
\* MaxLifetime or IdleTimeout of a connection passes.  A borrowed connection
\* can only outlive MaxLifetime: Acquire hands out none that is idle for too
\* long, and Release refreshes LastUsedAt.
Expire(c) ==
    /\ c \in Conns \ (Fresh \cup expired)
    /\ expired' = expired \cup {c}
    /\ UNCHANGED <<idle, numOpen, closed, waitCh, pc, conn, warmLeft>>

\* Steps a borrower takes by itself once it is in the pool's code.
BorrowerStep(p) ==
    \/ AcquireDialFails(p)
    \/ AcquireDialed(p)
    \/ CloseSocket(p)
    \/ Wake(p)
    \/ GiveUp(p)
    \/ DiscardCount(p)
    \/ DiscardSignal(p)

Acquire(p) == AcquireClosed(p) \/ AcquireIdle(p) \/ AcquireNone(p)

WarmerStep(w) ==
    \/ WarmReserve(w)
    \/ WarmEnd(w)
    \/ WarmDialFails(w)
    \/ WarmDialed(w)
    \/ CloseSocket(w)

CheckerDial ==
    \/ HealthDialFails
    \/ HealthDialed
    \/ CloseSocket(Checker)

Next ==
    \/ \E p \in Borrowers : Acquire(p) \/ Release(p) \/ Discard(p) \/ BorrowerStep(p)
    \/ \E w \in Warmers : WarmStart(w) \/ WarmerStep(w)
    \/ HealthCheck
    \/ CheckerDial
    \/ Close
    \/ \E c \in Conns : Expire(c)

Spec == Init /\ [][Next]_vars

\* A goroutine inside the pool's code keeps running: dials have a timeout, the
\* select of Acquire has a timer.  Nothing makes a borrower call Acquire, give
\* its connection back, or anyone close the pool.
FairSpec ==
    /\ Spec
    /\ \A p \in Borrowers : /\ WF_vars(BorrowerStep(p))
                            /\ WF_vars(pc[p] = "woken" /\ Acquire(p))
    /\ \A w \in Warmers : WF_vars(WarmerStep(w))
    /\ WF_vars(CheckerDial)

-----------------------------------------------------------------------------
(* Properties *)

TypeOK ==
    /\ idle \in Seq(Conns)
    /\ numOpen \in Nat
    /\ closed \in BOOLEAN
    /\ waitCh \in 0 .. MaxConnections
    /\ expired \subseteq Conns
    /\ pc \in [Procs -> States]
    /\ conn \in [Procs -> Conns \cup {NoConn}]
    /\ warmLeft \in [Warmers -> 0 .. MinConnections]

\* Goroutines in one of the states S; states in which numOpen counts a slot for
\* the goroutine, and states in which it has, or may be opening, a socket.
At(S) == {p \in Procs : pc[p] \in S}
SlotStates == {"dialing", "held", "discarding"}
SocketStates == {"dialing", "held", "closing"}

\* numOpen is exact: it counts the idle connections, the borrowed ones and the
\* slots reserved by goroutines that are dialing, whatever dials fail, connections
\* expire or are discarded, and whenever Close runs (pool.go: every numOpen++ and
\* numOpen--, including the "if p.numOpen > 0" clamps of Release and Discard).
SlotAccounting == numOpen = Len(idle) + Cardinality(At(SlotStates))

\* The backend never sees more than MaxConnections sockets of this pool, dials in
\* progress and sockets closed outside the lock included: Discard closes before
\* it frees the slot, and the paths that free the slot first (a dial that found
\* the pool closed) run only when no slot can be reserved any more.
SocketBound == Len(idle) + Cardinality(At(SocketStates)) <= MaxConnections

\* A connection is in one place: two borrowers never share one, and a borrowed
\* one is not in the idle list, nor in it twice.
Exclusive ==
    /\ \A i, j \in 1 .. Len(idle) : idle[i] = idle[j] => i = j
    /\ \A p \in Procs : conn[p] \notin Elems(idle)
    /\ \A p, q \in Procs : conn[p] = conn[q] /\ conn[p] # NoConn => p = q

\* A closed pool keeps no idle connection: Release, Warm and the health checker
\* re-check closed before they append to p.idle, so nothing is left unclosed.
ClosedIsEmpty == closed => idle = <<>>

\* "Without this check, a live connection can escape a closed pool" (Acquire): no
\* step of a closed pool hands a connection to a borrower.
NoEscape ==
    [][closed => \A p \in Procs : pc'[p] = "held" => pc[p] = "held"]_vars

\* No lost wakeup: while a borrower is blocked, every connection or slot it could
\* have is announced by a token in waitCh, or by a goroutine that has taken one or
\* is about to send one.  Checked for a pool whose dials succeed and that has no
\* background dials (MinConnections = 0): Acquire's failed dial, Warm and the
\* health checker free or fill slots without sending a token.
NoLostWakeup ==
    ~closed /\ (\E p \in Borrowers : pc[p] = "waiting") =>
        Len(idle) + (MaxConnections - numOpen)
            <= waitCh + Cardinality(At({"woken", "signalling"}))

\* Close does not wake blocked borrowers, yet none stays blocked: each one's
\* Acquire returns, by its timer or by a late token of a Discard.
CloseUnblocks ==
    \A p \in Borrowers : closed /\ pc[p] \in {"waiting", "woken"} ~> pc[p] = "out"

\* After Close the counter comes down to the connections still borrowed and stays
\* there ("preserve outstanding borrow count"): every dial in flight gives its slot back.
CloseDrains ==
    closed ~> [](numOpen = Cardinality({p \in Borrowers : pc[p] \in {"held", "discarding"}}))

\* The pool keeps the promises of ConnLease: a lease is a connection that Acquire
\* returned and that was neither released nor discarded.
Lease == INSTANCE ConnLease WITH
            lease <- [b \in Borrowers |-> IF pc[b] = "held" THEN conn[b] ELSE NoConn],
            shut <- closed
LeaseSpec == Lease!Spec
=============================================================================
