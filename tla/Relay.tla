------------------------------- MODULE Relay -------------------------------
(***************************************************************************)
(* The query loop of a client session, relayQueries of                     *)
(* internal/proxy/query.go, for the simple query protocol: routing by the  *)
(* SQL text (router.Session), borrowing a connection per query or per      *)
(* transaction, binding it from BEGIN to COMMIT, resetting it when it is   *)
(* dirty, and giving it back to the pool it came from while a reload may   *)
(* replace that pool.  Pools are seen from outside, as ConnLease promises  *)
(* and Pool implements.                                                    *)
(***************************************************************************)
EXTENDS Backend

CONSTANTS Sessions,        \* client connections (an id is reused after a disconnect)
          Conns,           \* backend connections
          NoConn,
          MaxConnections,  \* size of every pool
          MaxReloads,      \* reloads that replace the writer pool
          Queries,         \* queries the clients send: sequences of Statements
          CompatMode,      \* session_compatibility: "allow", "block" or "pin"
          AdminSwitches,   \* subset of {"readonly", "maintenance"} the operator uses
          Abrupt           \* whether clients may leave inside a transaction

\* A generation of the writer pool per reload, and the pool of a reader.
WriterPools == 1 .. MaxReloads + 1
Reader == 0
Pools == WriterPools \cup {Reader}
NoPool == -1

ASSUME RelayAssumption ==
    /\ MaxConnections \in Nat \ {0}
    /\ MaxReloads \in Nat
    /\ Queries \subseteq Seq(Statements) \ {<<>>}
    /\ CompatMode \in {"allow", "block", "pin"}
    /\ AdminSwitches \subseteq {"readonly", "maintenance"}
    /\ Abrupt \in BOOLEAN
    /\ NoConn \notin Conns
    /\ IsFiniteSet(Conns)

VARIABLES writerPool,   \* dbg.writerPool
          closed,       \* pools that have been closed
          idle,         \* idle[p]: connections of pool p that can be borrowed
          numOpen,      \* numOpen[p]: what pool p counts
          home,         \* home[c]: the pool that dialed c, NoPool when c is not open
          backend,      \* backend[c]: state of PostgreSQL's side of c
          switches,     \* administrative modes that are on
          pc,           \* pc[s]: "read", "acquire", "run" or "gone"
          sess,         \* sess[s]: router.Session: inTransaction, pinned, wrote
          bound,        \* bound[s]: boundWriter
          boundPool,    \* boundWriterPool
          dirty,        \* connDirty
          job           \* locals of the query in progress

poolVars == <<closed, idle, numOpen, home>>
vars == <<writerPool, closed, idle, numOpen, home, backend, switches, pc, sess,
          bound, boundPool, dirty, job>>

NewSession == [inTransaction |-> FALSE, pinned |-> FALSE, wrote |-> FALSE]
NoJob == [query |-> <<>>, route |-> "none", wasInTx |-> FALSE, conn |-> NoConn,
          acquired |-> FALSE, pool |-> NoPool]

Init ==
    /\ writerPool = 1
    /\ closed = {}
    /\ idle = [p \in Pools |-> {}]
    /\ numOpen = [p \in Pools |-> 0]
    /\ home = [c \in Conns |-> NoPool]
    /\ backend = [c \in Conns |-> Fresh]
    /\ switches = {}
    /\ pc = [s \in Sessions |-> "gone"]
    /\ sess = [s \in Sessions |-> NewSession]
    /\ bound = [s \in Sessions |-> NoConn]
    /\ boundPool = [s \in Sessions |-> NoPool]
    /\ dirty = [s \in Sessions |-> FALSE]
    /\ job = [s \in Sessions |-> NoJob]

-----------------------------------------------------------------------------
(* What the proxy reads off the text of a query *)

Has(q, kinds) == \E i \in 1 .. Len(q) : q[i] \in kinds

\* "ROLLBACK" is a prefix of "ROLLBACK TO SAVEPOINT x".
TxKeywords == {"BEGIN", "END", "ROLLBACKTO"}

\* inTransaction after q: the last transaction keyword decides.
TxAfter(q, inTx) ==
    LET ctl == {i \in 1 .. Len(q) : q[i] \in TxKeywords}
    IN  IF ctl = {} THEN inTx
        ELSE \E i \in ctl : q[i] = "BEGIN" /\ \A j \in ctl : j <= i

IsWrite(q) == Has(q, {"WRITE"})

\* isSessionModifying looks at the first statement only.
IsSessionModifying(q) == q[1] = "SET"

\* Routes routeQueryLocked may choose.  After a write outside a transaction reads
\* stay on the writer while read_after_write_delay lasts.
Routes(q, state) ==
    IF \/ state.pinned \/ state.inTransaction \/ TxAfter(q, state.inTransaction)
       \/ Has(q, TxKeywords) \/ IsWrite(q)
    THEN {"writer"}
    ELSE {"reader"} \cup (IF state.wrote THEN {"writer"} ELSE {})

-----------------------------------------------------------------------------
(* The pools, seen by a session *)

\* Pool p hands out c: an idle connection, or a new one if there is room.
Takes(p, c) ==
    /\ p \notin closed
    /\ \/ c \in idle[p] /\ UNCHANGED <<numOpen, home>>
       \/ /\ idle[p] = {}
          /\ numOpen[p] < MaxConnections
          /\ home[c] = NoPool
          /\ numOpen' = [numOpen EXCEPT ![p] = @ + 1]
          /\ home' = [home EXCEPT ![c] = p]
    /\ idle' = [idle EXCEPT ![p] = @ \ {c}]

\* Mutants: the counter is not clamped; it is not updated.
DiscardsUnclamped(p, c) ==
    /\ home' = [home EXCEPT ![c] = NoPool]
    /\ backend' = [backend EXCEPT ![c] = Fresh]
    /\ numOpen' = [numOpen EXCEPT ![p] = @ - 1]
    /\ UNCHANGED idle

DiscardsUncounted(p, c) ==
    /\ home' = [home EXCEPT ![c] = NoPool]
    /\ backend' = [backend EXCEPT ![c] = Fresh]
    /\ UNCHANGED <<idle, numOpen>>

\* p.Discard(c), and p.Release(c) of a closed pool: the socket is closed.
Discards(p, c) ==
    /\ home' = [home EXCEPT ![c] = NoPool]
    /\ backend' = [backend EXCEPT ![c] = Fresh]
    /\ numOpen' = [numOpen EXCEPT ![p] = IF @ > 0 THEN @ - 1 ELSE @]
    /\ UNCHANGED idle

\* p.Release(c) of a connection that PostgreSQL left in state b.
Releases(p, c, b) ==
    IF p \in closed
    THEN Discards(p, c)
    ELSE /\ idle' = [idle EXCEPT ![p] = @ \cup {c}]
         /\ backend' = [backend EXCEPT ![c] = b]
         /\ UNCHANGED <<numOpen, home>>

\* Mutant: the reset query is not sent.
ResetsSkipped(p, c, b) == Releases(p, c, b)

\* resetAndReleaseToPool: DISCARD ALL is refused inside a transaction, and may
\* fail with the connection; then c is discarded.
Resets(p, c, b) ==
    \/ b.tx = "I" /\ Releases(p, c, Fresh)
    \/ Discards(p, c)

\* releaseToPool or resetAndReleaseToPool, as connDirty says.
GivesBack(isDirty, p, c, b) ==
    IF isDirty THEN Resets(p, c, b) ELSE Releases(p, c, b)

-----------------------------------------------------------------------------
(* The session's goroutine *)

\* The session's locals are gone.
Ends(s) ==
    /\ pc' = [pc EXCEPT ![s] = "gone"]
    /\ sess' = [sess EXCEPT ![s] = NewSession]
    /\ bound' = [bound EXCEPT ![s] = NoConn]
    /\ boundPool' = [boundPool EXCEPT ![s] = NoPool]
    /\ dirty' = [dirty EXCEPT ![s] = FALSE]
    /\ job' = [job EXCEPT ![s] = NoJob]

\* relayQueries returns while it waits for a query or for a connection: its
\* deferred function gives a bound connection back.
Returns(s) ==
    /\ Ends(s)
    /\ IF bound[s] = NoConn
       THEN UNCHANGED <<poolVars, backend>>
       ELSE /\ GivesBack(dirty[s], boundPool[s], bound[s], backend[bound[s]])
            /\ UNCHANGED closed

Connect(s) ==
    /\ pc[s] = "gone"
    /\ "maintenance" \notin switches
    /\ pc' = [pc EXCEPT ![s] = "read"]
    /\ UNCHANGED <<writerPool, poolVars, backend, switches, sess, bound, boundPool, dirty, job>>

\* Terminate, end of file, or the idle timeout.
Disconnect(s) ==
    /\ pc[s] = "read"
    /\ (bound[s] # NoConn /\ backend[bound[s]].tx # "I") => Abrupt
    /\ Returns(s)
    /\ UNCHANGED <<writerPool, switches>>

\* In maintenance mode a message of a session without a connection ends it.
MaintenanceRejects(s) ==
    /\ pc[s] = "read"
    /\ "maintenance" \in switches
    /\ bound[s] = NoConn
    /\ Returns(s)
    /\ UNCHANGED <<writerPool, switches>>

\* A query arrives: session guard, routing, read-only check.  Routing has already
\* changed inTransaction when the read-only check rejects the query.
Query(s, q) ==
    LET pins == CompatMode = "pin" /\ Has(q, {"SET"})
        before == [sess[s] EXCEPT !.pinned = @ \/ pins]
    IN  /\ pc[s] = "read"
        /\ ~("maintenance" \in switches /\ bound[s] = NoConn)
        /\ ~(CompatMode = "block" /\ Has(q, {"SET"}))
        /\ dirty' = [dirty EXCEPT ![s] = @ \/ pins]
        /\ \E route \in Routes(q, before) :
              /\ sess' = [sess EXCEPT ![s] =
                    [before EXCEPT !.inTransaction = TxAfter(q, @),
                                   !.wrote = @ \/ (IsWrite(q) /\ ~before.pinned
                                                   /\ ~before.inTransaction /\ ~Has(q, TxKeywords))]]
              /\ IF "readonly" \in switches /\ IsWrite(q)
                 THEN UNCHANGED <<pc, job>>
                 ELSE /\ pc' = [pc EXCEPT ![s] = "acquire"]
                      /\ job' = [job EXCEPT ![s] =
                            [query |-> q, route |-> route, conn |-> NoConn, acquired |-> FALSE,
                             wasInTx |-> before.inTransaction, pool |-> writerPool]]
        /\ UNCHANGED <<writerPool, poolVars, backend, switches, bound, boundPool>>

\* acquireWriterConn with a bound connection.
UseBound(s) ==
    /\ pc[s] = "acquire"
    /\ job[s].route = "writer"
    /\ bound[s] # NoConn
    /\ job' = [job EXCEPT ![s].conn = bound[s]]
    /\ pc' = [pc EXCEPT ![s] = "run"]
    /\ UNCHANGED <<writerPool, poolVars, backend, switches, sess, bound, boundPool, dirty>>

\* acquireWriterConn without one: dbg.writerPool is read again, job.pool is the
\* pool the caller captured before.
AcquireWriter(s) ==
    /\ pc[s] = "acquire"
    /\ job[s].route = "writer"
    /\ bound[s] = NoConn
    /\ \E c \in Conns :
          /\ Takes(writerPool, c)
          /\ job' = [job EXCEPT ![s].conn = c, ![s].acquired = TRUE]
    /\ pc' = [pc EXCEPT ![s] = "run"]
    /\ UNCHANGED <<writerPool, closed, backend, switches, sess, bound, boundPool, dirty>>

\* A read borrows from the reader's pool, or from the writer's when it falls back.
AcquireReader(s) ==
    /\ pc[s] = "acquire"
    /\ job[s].route \in {"reader", "fallback"}
    /\ LET p == IF job[s].route = "reader" THEN Reader ELSE writerPool
       IN  \E c \in Conns :
              /\ Takes(p, c)
              /\ job' = [job EXCEPT ![s].conn = c, ![s].acquired = TRUE, ![s].pool = p]
    /\ pc' = [pc EXCEPT ![s] = "run"]
    /\ UNCHANGED <<writerPool, closed, backend, switches, sess, bound, boundPool, dirty>>

\* No healthy reader, an open breaker, or no connection of the reader's pool.
ReadFallsBack(s) ==
    /\ pc[s] = "acquire"
    /\ job[s].route = "reader"
    /\ job' = [job EXCEPT ![s].route = "fallback"]
    /\ UNCHANGED <<writerPool, poolVars, backend, switches, pc, sess, bound, boundPool, dirty>>

\* A read is answered from the query cache.
CacheHit(s) ==
    /\ pc[s] = "acquire"
    /\ job[s].route = "reader"
    /\ pc' = [pc EXCEPT ![s] = "read"]
    /\ job' = [job EXCEPT ![s] = NoJob]
    /\ UNCHANGED <<writerPool, poolVars, backend, switches, sess, bound, boundPool, dirty>>

\* No connection (closed pool, timeout, failed dial, open breaker), or the read
\* failed after its connection was discarded: the session ends.
AcquireFails(s) ==
    /\ pc[s] = "acquire"
    /\ \/ job[s].route = "writer" /\ bound[s] = NoConn
       \/ job[s].route \in {"fallback", "failed"}
    /\ Returns(s)
    /\ UNCHANGED <<writerPool, switches>>

\* The answer of a read is relayed, the connection returned as it is.
ServeRead(s) ==
    LET c == job[s].conn
    IN  /\ pc[s] = "run"
        /\ job[s].route \in {"reader", "fallback"}
        /\ \E b \in Outcomes(backend[c], job[s].query) : Releases(job[s].pool, c, b)
        /\ pc' = [pc EXCEPT ![s] = "read"]
        /\ job' = [job EXCEPT ![s] = NoJob]
        /\ UNCHANGED <<writerPool, closed, switches, sess, bound, boundPool, dirty>>

\* Forwarding or relaying failed: the connection is discarded and the session
\* ends, except when the query could not be sent to a reader.
ServeReadFails(s) ==
    /\ pc[s] = "run"
    /\ job[s].route \in {"reader", "fallback"}
    /\ Discards(job[s].pool, job[s].conn)
    /\ \E next \in {"failed"} \cup (IF job[s].route = "reader" THEN {"fallback"} ELSE {}) :
          job' = [job EXCEPT ![s].route = next, ![s].conn = NoConn, ![s].acquired = FALSE]
    /\ pc' = [pc EXCEPT ![s] = "acquire"]
    /\ UNCHANGED <<writerPool, closed, switches, sess, bound, boundPool, dirty>>

Binds(s, c, p) ==
    /\ bound' = [bound EXCEPT ![s] = c]
    /\ boundPool' = [boundPool EXCEPT ![s] = p]
    /\ pc' = [pc EXCEPT ![s] = "read"]

\* The connection is released or reset by pool p, and no longer bound.
Unbinds(s, isDirty, p, c, b) ==
    /\ GivesBack(isDirty, p, c, b)
    /\ Binds(s, NoConn, NoPool)
    /\ UNCHANGED sess

\* releaseToPool(wConn, nil): the panic is recovered in Start, wConn is lost.
Panics(s, c, b) ==
    /\ Ends(s)
    /\ backend' = [backend EXCEPT ![c] = b]
    /\ UNCHANGED <<idle, numOpen, home>>

\* The writer answered with ReadyForQuery; its status byte is relayed, not read.
\* The cases are those of the switch on wasInTx, nowInTx and acquired.
ServeWrite(s) ==
    LET j == job[s]
        c == j.conn
        nowInTx == sess[s].inTransaction
        isDirty == dirty[s] \/ IsSessionModifying(j.query)
        Keeps(b) == backend' = [backend EXCEPT ![c] = b] /\ UNCHANGED <<idle, numOpen, home, sess>>
        Stays(b) == Keeps(b) /\ Binds(s, bound[s], boundPool[s])
    IN  /\ pc[s] = "run"
        /\ j.route = "writer"
        /\ \E b \in Outcomes(backend[c], j.query) :
              CASE ~j.wasInTx /\ nowInTx ->
                     /\ Keeps(b)
                     /\ Binds(s, c, IF j.acquired THEN j.pool ELSE boundPool[s])
                     /\ dirty' = [dirty EXCEPT ![s] = isDirty]
                     /\ job' = [job EXCEPT ![s] = NoJob]
                [] j.wasInTx /\ ~nowInTx /\ sess[s].pinned ->
                     /\ Stays(b)
                     /\ dirty' = [dirty EXCEPT ![s] = isDirty]
                     /\ job' = [job EXCEPT ![s] = NoJob]
                [] j.wasInTx /\ ~nowInTx /\ ~sess[s].pinned /\ boundPool[s] # NoPool ->
                     /\ Unbinds(s, isDirty, boundPool[s], c, b)
                     /\ dirty' = [dirty EXCEPT ![s] = FALSE]
                     /\ job' = [job EXCEPT ![s] = NoJob]
                [] j.wasInTx /\ ~nowInTx /\ ~sess[s].pinned /\ boundPool[s] = NoPool ->
                     Panics(s, c, b)
                [] j.wasInTx = nowInTx /\ j.acquired /\ sess[s].pinned ->
                     /\ Keeps(b)
                     /\ Binds(s, c, j.pool)
                     /\ dirty' = [dirty EXCEPT ![s] = isDirty]
                     /\ job' = [job EXCEPT ![s] = NoJob]
                [] j.wasInTx = nowInTx /\ j.acquired /\ ~sess[s].pinned ->
                     /\ Unbinds(s, isDirty, j.pool, c, b)
                     /\ dirty' = [dirty EXCEPT ![s] = FALSE]
                     /\ job' = [job EXCEPT ![s] = NoJob]
                [] OTHER ->
                     /\ Stays(b)
                     /\ dirty' = [dirty EXCEPT ![s] = isDirty]
                     /\ job' = [job EXCEPT ![s] = NoJob]
        /\ UNCHANGED <<writerPool, closed, switches>>

\* The writer or the client failed during the query.
ServeWriteFails(s) ==
    /\ pc[s] = "run"
    /\ job[s].route = "writer"
    /\ Discards(IF job[s].acquired THEN job[s].pool ELSE boundPool[s], job[s].conn)
    /\ Ends(s)
    /\ UNCHANGED <<writerPool, closed, switches>>

-----------------------------------------------------------------------------
(* The rest of the proxy *)

\* DatabaseGroup.Reload closes the writer pool, then stores the new one; sessions
\* read dbg.writerPool without its lock.
ReloadClose ==
    /\ writerPool \notin closed
    /\ writerPool <= MaxReloads
    /\ closed' = closed \cup {writerPool}
    /\ home' = [c \in Conns |-> IF c \in idle[writerPool] THEN NoPool ELSE home[c]]
    /\ backend' = [c \in Conns |-> IF c \in idle[writerPool] THEN Fresh ELSE backend[c]]
    /\ numOpen' = [numOpen EXCEPT ![writerPool] = @ - Cardinality(idle[writerPool])]
    /\ idle' = [idle EXCEPT ![writerPool] = {}]
    /\ UNCHANGED <<writerPool, switches, pc, sess, bound, boundPool, dirty, job>>

ReloadSwap ==
    /\ writerPool \in closed
    /\ writerPool' = writerPool + 1
    /\ UNCHANGED <<poolVars, backend, switches, pc, sess, bound, boundPool, dirty, job>>

\* SetMaintenance and SetReadOnly, either way.
Switch(mode) ==
    /\ switches' = IF mode \in switches THEN switches \ {mode} ELSE switches \cup {mode}
    /\ UNCHANGED <<writerPool, poolVars, backend, pc, sess, bound, boundPool, dirty, job>>

SessionStep(s) ==
    \/ UseBound(s) \/ AcquireWriter(s) \/ AcquireReader(s) \/ ReadFallsBack(s) \/ CacheHit(s)
    \/ AcquireFails(s) \/ ServeRead(s) \/ ServeReadFails(s) \/ ServeWrite(s) \/ ServeWriteFails(s)

Next ==
    \/ \E s \in Sessions : \/ Connect(s) \/ Disconnect(s) \/ MaintenanceRejects(s)
                           \/ \E q \in Queries : Query(s, q)
                           \/ SessionStep(s)
    \/ ReloadClose
    \/ ReloadSwap
    \/ \E mode \in AdminSwitches : Switch(mode)

Spec == Init /\ [][Next]_vars

-----------------------------------------------------------------------------
(* Properties *)

Holds(s, c) == bound[s] = c \/ job[s].conn = c

\* "A connection is acquired when a transaction begins and released when it ends"
\* (README): no connection is in a pool with a transaction open or failed, so
\* nobody's statements run in another client's transaction.
PoolsClean == \A p \in Pools : \A c \in idle[p] : backend[c].tx = "I"

\* "Session state is reset with DISCARD ALL upon connection release" (README): no
\* connection is in a pool with a setting some client left on it.
StateReset == \A p \in Pools : \A c \in idle[p] : ~backend[c].set

\* Slots that pool p counts without having their connections, or a session that can
\* still give them back.
Lost(p) ==
    numOpen[p] - Cardinality({c \in Conns :
        home[c] = p /\ (c \in idle[p] \/ \E s \in Sessions : Holds(s, c))})

\* relayQueries reads dbg.writerPool, and acquireWriterConn reads it again: a reload
\* in between makes a session note another pool than its connection is from.
Crossed(s, p) ==
    \/ job[s].acquired /\ home[job[s].conn] = p /\ job[s].pool # p
    \/ bound[s] # NoConn /\ home[bound[s]] = p /\ boundPool[s] # p

\* Failures, resets, vanishing clients and reloads cost an open pool no slot, "we
\* must Release/Discard to the original pool" (query.go), but for the sessions
\* whose connection crossed a reload.
NoLostSlot ==
    [][\A p \in Pools \ closed' : Lost(p)' # Lost(p) => \E s \in Sessions : Crossed(s, p)]_vars

=============================================================================
