------------------------------ MODULE Extended ------------------------------
(***************************************************************************)
(* The extended query protocol in relayQueries (internal/proxy/query.go    *)
(* and query_extended.go), on top of the simple one of Relay.  A session   *)
(* collects Parse, Bind, Execute and Close until a Sync and then runs the  *)
(* batch.  In proxy mode the messages are forwarded, and a batch without   *)
(* Execute keeps its connection for the batch that follows.  In multiplex  *)
(* mode the proxy answers them itself and runs a synthesized simple query. *)
(*                                                                         *)
(* Until the Sync the messages touch nothing but the session's own state,  *)
(* so one action reads a whole batch.                                      *)
(***************************************************************************)
EXTENDS Relay

CONSTANTS Batches,   \* batches the clients send: sequences of Messages
          Modes      \* prepared_statement_mode: subset of {"proxy", "multiplex"}

ASSUME ExtendedAssumption ==
    /\ Batches \subseteq Seq(Messages)
    /\ Modes \subseteq {"proxy", "multiplex"}

VARIABLES ext,     \* ext[s]: what the session keeps between batches
          batch    \* batch[s]: the batch being run

extVars == <<ext, batch>>
allVars == <<vars, ext, batch>>

\* stmts: stmtRoutes, stmtWrite and the Synthesizer's statements; route: extRoute,
\* RouteWriter being the zero value; reader, readerPool: boundReader and its pool.
\* parsed is auxiliary: what a batch without Execute has just prepared.
NewExt == [mode |-> "proxy", stmts |-> {}, route |-> "writer", reader |-> NoConn,
           readerPool |-> NoPool, parsed |-> {}]

NoBatch == [kind |-> "none", msgs |-> <<>>, txStart |-> FALSE, txEnd |-> FALSE,
            isWrite |-> FALSE, hasExecute |-> FALSE]

ExtInit ==
    /\ Init
    /\ ext = [s \in Sessions |-> NewExt]
    /\ batch = [s \in Sessions |-> NoBatch]

-----------------------------------------------------------------------------
(* Reading the messages of a batch *)

\* routeLocked.  COMMIT and ROLLBACK are listed there, END and ABORT are not, and
\* all four are "END" here; the last disjunct is read_after_write_delay.
StatementRoutes(q, state) ==
    IF q[1] \in {"BEGIN", "ROLLBACKTO"} \/ state.pinned \/ state.inTransaction \/ IsWrite(q)
    THEN {"writer"}
    ELSE {"reader"} \cup (IF q[1] = "END" \/ state.wrote THEN {"writer"} ELSE {})

Named(stmts, name) == {r \in stmts : r.name = name}

\* Parse: the statement is registered and decides extRoute anew, unless the
\* session is in a transaction, bound or pinned.
ReadParse(s, st, m, choice) ==
    LET routes == StatementRoutes(m.query, st.sess)
        route == IF choice \in routes THEN choice ELSE CHOOSE r \in routes : TRUE
        detected == Has(m.query, {"SET"})
        pinned == st.sess.pinned \/ (CompatMode = "pin" /\ detected)
    IN  [st EXCEPT !.stmts = (@ \ Named(@, m.name))
                             \cup {[name |-> m.name, route |-> route, query |-> m.query]},
                   !.txStart = @ \/ m.query[1] = "BEGIN",
                   !.txEnd = @ \/ m.query[1] \in {"END", "ROLLBACKTO"},
                   !.isWrite = @ \/ IsWrite(m.query),
                   !.blocked = @ \/ (CompatMode = "block" /\ detected),
                   !.sess.pinned = pinned,
                   !.dirty = @ \/ (CompatMode = "pin" /\ detected),
                   !.route = IF st.sess.inTransaction \/ bound[s] # NoConn \/ pinned
                             THEN "writer" ELSE route]

\* Mutant: a statement the session does not know goes to a reader.
ReadBindTrusting(st, m) ==
    LET known == Named(st.stmts, m.name)
    IN  [st EXCEPT !.route = IF \E r \in known : r.route = "writer" THEN "writer" ELSE @,
                   !.isWrite = @ \/ known = {} \/ \E r \in known : IsWrite(r.query),
                   !.bind = {m.name}]

\* Bind: StatementRoute and StatementIsWrite, for an unknown statement writer and
\* TRUE.  The last Bind is the one multiplex mode runs.
ReadBind(st, m) ==
    LET known == Named(st.stmts, m.name)
    IN  [st EXCEPT !.route = IF \A r \in known : r.route = "writer" THEN "writer" ELSE @,
                   !.isWrite = @ \/ \A r \in known : IsWrite(r.query),
                   !.bind = {m.name}]

ReadClose(st, m) == [st EXCEPT !.stmts = @ \ Named(@, m.name)]

\* Only proxy mode notes that there is an Execute.
ReadExecute(s, st) == [st EXCEPT !.hasExecute = ext[s].mode = "proxy"]

ReadMessage(s, st, m, choice) ==
    CASE m.kind = "Parse" -> ReadParse(s, st, m, choice)
      [] m.kind = "Bind" -> ReadBind(st, m)
      [] m.kind = "Close" -> ReadClose(st, m)
      [] m.kind = "Execute" -> ReadExecute(s, st)

\* The batch state when the Sync arrives; choice settles the routes left open.
ReadBatch(s, msgs, choice) ==
    LET After[i \in 0 .. Len(msgs)] ==
          IF i = 0
          THEN [stmts |-> ext[s].stmts, route |-> ext[s].route, txStart |-> FALSE, txEnd |-> FALSE,
                isWrite |-> FALSE, hasExecute |-> FALSE, blocked |-> FALSE, bind |-> {},
                sess |-> sess[s], dirty |-> dirty[s]]
          ELSE ReadMessage(s, After[i - 1], msgs[i], choice)
    IN  After[Len(msgs)]

-----------------------------------------------------------------------------
(* Sync *)

\* How the batch is run: the branches at Sync after the rejections.
SyncKind(s, st, msgs) ==
    LET reads == st.route = "reader" /\ ~st.sess.inTransaction /\ bound[s] = NoConn
    IN  CASE ext[s].mode = "multiplex" ->
               IF \E r \in st.stmts : r.name \in st.bind
               THEN IF reads THEN "synthRead" ELSE "synthWrite"
               ELSE "none"
          [] ext[s].mode = "proxy" /\ ~reads -> "write"
          [] ext[s].mode = "proxy" /\ reads ->
               IF ext[s].reader # NoConn THEN "reuse"
               ELSE IF ~st.hasExecute /\ msgs # <<>> THEN "parse" ELSE "read"

Synthesized(st) == (CHOOSE r \in st.stmts : r.name \in st.bind).query

\* A bound reader is not kept for a batch that goes elsewhere or is rejected.
StaleReader(s, st, rejected) ==
    /\ ext[s].reader # NoConn
    /\ st.route = "writer" \/ st.sess.inTransaction \/ bound[s] # NoConn \/ rejected

\* A batch ends with Sync: the session guard and read-only mode reject it, multiplex
\* mode answers one without a known Bind, and any other waits for a connection.
Sync(s, msgs, choice) ==
    LET st == ReadBatch(s, msgs, choice)
        rejected == st.blocked \/ ("readonly" \in switches /\ st.isWrite)
        kind == IF rejected THEN "none" ELSE SyncKind(s, st, msgs)
        stale == StaleReader(s, st, rejected)
    IN  /\ pc[s] = "read"
        /\ ~("maintenance" \in switches /\ bound[s] = NoConn)
        /\ sess' = [sess EXCEPT ![s] = st.sess]
        /\ dirty' = [dirty EXCEPT ![s] = st.dirty]
        /\ IF stale THEN Resets(ext[s].readerPool, ext[s].reader, backend[ext[s].reader])
                    ELSE UNCHANGED <<idle, numOpen, home, backend>>
        /\ ext' = [ext EXCEPT ![s].stmts = st.stmts, ![s].route = "reader",
                              ![s].parsed = IF kind = "none" THEN {} ELSE @,
                              ![s].reader = IF stale THEN NoConn ELSE @,
                              ![s].readerPool = IF stale THEN NoPool ELSE @]
        /\ IF kind = "none"
           THEN UNCHANGED <<pc, job, batch>>
           ELSE /\ pc' = [pc EXCEPT ![s] = IF kind = "reuse" THEN "run" ELSE "acquire"]
                /\ batch' = [batch EXCEPT ![s] =
                      [kind |-> kind, msgs |-> msgs, txStart |-> st.txStart, txEnd |-> st.txEnd,
                       isWrite |-> st.isWrite, hasExecute |-> st.hasExecute]]
                /\ job' = [job EXCEPT ![s] =
                      [query |-> IF kind \in {"synthRead", "synthWrite"} THEN Synthesized(st) ELSE <<>>,
                       route |-> IF kind \in {"write", "synthWrite"} THEN "writer" ELSE "reader",
                       wasInTx |-> sess[s].inTransaction, acquired |-> FALSE,
                       conn |-> IF kind = "reuse" THEN ext[s].reader ELSE NoConn,
                       pool |-> IF kind = "reuse" THEN ext[s].readerPool ELSE writerPool]]
        /\ UNCHANGED <<writerPool, closed, switches, bound, boundPool>>

-----------------------------------------------------------------------------
(* Running the batch *)

Synthetic(s) == batch[s].kind \in {"synthRead", "synthWrite"}

\* forwardExtBatch and relayUntilReady, or the synthesized simple query.
Answers(s) ==
    IF Synthetic(s) THEN Outcomes(backend[job[s].conn], job[s].query)
    ELSE BatchOutcomes(backend[job[s].conn], batch[s].msgs)

\* What the batch leaves prepared on its connection, if it has no Execute.
Parsed(s, b) ==
    IF batch[s].hasExecute \/ Synthetic(s) THEN {}
    ELSE {p \in b.prep : \E i \in 1 .. Len(batch[s].msgs) :
              batch[s].msgs[i] = [kind |-> "Parse", name |-> p[1], query |-> p[2]]}

\* The batch is over: reader and its pool are what stays bound.
Finishes(s, reader, readerPool, parsed) ==
    /\ ext' = [ext EXCEPT ![s].reader = reader, ![s].readerPool = readerPool, ![s].parsed = parsed]
    /\ batch' = [batch EXCEPT ![s] = NoBatch]

\* The session is over, but for the deferred release of a bound reader.
Leaves(s) ==
    /\ ext' = [ext EXCEPT ![s] = [NewExt EXCEPT !.reader = ext[s].reader,
                                                !.readerPool = ext[s].readerPool]]
    /\ batch' = [batch EXCEPT ![s] = NoBatch]

\* handleExtendedRead and handleSynthesizedRead: a reader's connection is released
\* as it is, one of the writer they fell back to is reset.
ServeExtRead(s) ==
    /\ pc[s] = "run"
    /\ batch[s].kind \in {"read", "synthRead"}
    /\ \E b \in Answers(s) :
          IF job[s].route = "reader" THEN Releases(job[s].pool, job[s].conn, b)
                                     ELSE Resets(job[s].pool, job[s].conn, b)
    /\ pc' = [pc EXCEPT ![s] = "read"]
    /\ job' = [job EXCEPT ![s] = NoJob]
    /\ Finishes(s, NoConn, NoPool, {})
    /\ UNCHANGED <<writerPool, closed, switches, sess, bound, boundPool, dirty>>

\* Mutant: the connection is released although Bind and Execute will follow.
ServeParseReleases(s) ==
    /\ pc[s] = "run"
    /\ batch[s].kind = "parse"
    /\ \E b \in Answers(s) :
          /\ Releases(job[s].pool, job[s].conn, b)
          /\ Finishes(s, NoConn, NoPool, Parsed(s, b))
    /\ pc' = [pc EXCEPT ![s] = "read"]
    /\ job' = [job EXCEPT ![s] = NoJob]
    /\ UNCHANGED <<writerPool, closed, switches, sess, bound, boundPool, dirty>>

\* A batch without Execute on the connection of acquireReaderForBind, which stays
\* bound.
ServeParse(s) ==
    /\ pc[s] = "run"
    /\ batch[s].kind = "parse"
    /\ \E b \in Answers(s) :
          /\ backend' = [backend EXCEPT ![job[s].conn] = b]
          /\ Finishes(s, job[s].conn, job[s].pool, Parsed(s, b))
    /\ pc' = [pc EXCEPT ![s] = "read"]
    /\ job' = [job EXCEPT ![s] = NoJob]
    /\ UNCHANGED <<writerPool, poolVars, switches, sess, bound, boundPool, dirty>>

\* Mutant: boundReader is not cleared after the release.
ServeReuseKept(s) ==
    /\ pc[s] = "run"
    /\ batch[s].kind = "reuse"
    /\ \E b \in Answers(s) : Releases(job[s].pool, job[s].conn, b)
    /\ Finishes(s, job[s].conn, job[s].pool, {})
    /\ pc' = [pc EXCEPT ![s] = "read"]
    /\ job' = [job EXCEPT ![s] = NoJob]
    /\ UNCHANGED <<writerPool, closed, switches, sess, bound, boundPool, dirty>>

\* The next batch on the bound reader, released after an Execute.
ServeReuse(s) ==
    LET c == job[s].conn
    IN  /\ pc[s] = "run"
        /\ batch[s].kind = "reuse"
        /\ \E b \in Answers(s) :
              IF batch[s].hasExecute
              THEN Releases(job[s].pool, c, b) /\ Finishes(s, NoConn, NoPool, {})
              ELSE /\ backend' = [backend EXCEPT ![c] = b]
                   /\ Finishes(s, c, job[s].pool, Parsed(s, b))
                   /\ UNCHANGED <<idle, numOpen, home>>
        /\ pc' = [pc EXCEPT ![s] = "read"]
        /\ job' = [job EXCEPT ![s] = NoJob]
        /\ UNCHANGED <<writerPool, closed, switches, sess, bound, boundPool, dirty>>

\* Either of the two failed: no fallback, the session ends.
ServeBoundReaderFails(s) ==
    /\ pc[s] = "run"
    /\ batch[s].kind \in {"parse", "reuse"}
    /\ Discards(job[s].pool, job[s].conn)
    /\ Ends(s)
    /\ ext' = [ext EXCEPT ![s] = NewExt]
    /\ batch' = [batch EXCEPT ![s] = NoBatch]
    /\ UNCHANGED <<writerPool, closed, switches>>

\* Mutant: SetInTransaction is not called.
TxAfterBatchOld(s) == sess[s].inTransaction

\* SetInTransaction after the writer's answer.
TxAfterBatch(s) == (sess[s].inTransaction \/ batch[s].txStart) /\ ~batch[s].txEnd

\* A session goes on with connection c of pool p bound, or with none.
GoesOn(s, c, p, b) ==
    /\ Binds(s, c, p)
    /\ sess' = [sess EXCEPT ![s].inTransaction = TxAfterBatch(s)]
    /\ job' = [job EXCEPT ![s] = NoJob]
    /\ Finishes(s, ext[s].reader, ext[s].readerPool, Parsed(s, b))

\* The connection is not given back, and bound as the pair c, p says.
KeepsConn(s, c, p, b) ==
    /\ GoesOn(s, c, p, b)
    /\ backend' = [backend EXCEPT ![job[s].conn] = b]
    /\ UNCHANGED <<idle, numOpen, home, dirty>>

\* The connection is given back to pool p, reset if it is dirty.
GivesUpConn(s, isDirty, p, b) ==
    /\ GoesOn(s, NoConn, NoPool, b)
    /\ GivesBack(isDirty, p, job[s].conn, b)
    /\ dirty' = [dirty EXCEPT ![s] = FALSE]

\* Mutant: the case of a batch that begins a transaction is missing.
WriteEffectNoBegin(s, b) ==
    IF ~batch[s].txEnd /\ (~batch[s].hasExecute \/ sess[s].pinned \/ ~job[s].acquired)
    THEN KeepsConn(s, job[s].conn, IF job[s].acquired THEN job[s].pool ELSE boundPool[s], b)
    ELSE GivesUpConn(s, dirty[s], job[s].pool, b)

\* The switch on extTxStart, extTxEnd, acquired and extHasExecute.  A batch that
\* ends a transaction releases to boundWriterPool even if it has just acquired its
\* connection; in a pinned session it then leaves that connection to nobody.
WriteEffect(s, b) ==
    LET x == batch[s]
        c == job[s].conn
        acquired == job[s].acquired
        pool == IF acquired THEN job[s].pool ELSE boundPool[s]
    IN  CASE x.txStart /\ ~x.txEnd -> KeepsConn(s, c, pool, b)
          [] x.txEnd /\ sess[s].pinned -> KeepsConn(s, bound[s], boundPool[s], b)
          [] x.txEnd /\ ~sess[s].pinned /\ ~acquired -> GivesUpConn(s, dirty[s], pool, b)
          [] x.txEnd /\ ~sess[s].pinned /\ acquired ->
               Panics(s, c, b) /\ Leaves(s)
          [] ~x.txStart /\ ~x.txEnd ->
               IF ~x.hasExecute \/ sess[s].pinned \/ (~acquired /\ sess[s].inTransaction)
               THEN KeepsConn(s, c, pool, b)
               ELSE GivesUpConn(s, dirty[s], pool, b)

ServeExtWrite(s) ==
    /\ pc[s] = "run"
    /\ batch[s].kind = "write"
    /\ \E b \in Answers(s) : WriteEffect(s, b)
    /\ UNCHANGED <<writerPool, closed, switches>>

\* executeSynthesizedQuery: every return to a pool is with a reset.  BEGIN records
\* the pool captured for this query, also for a connection that was bound before.
SynthEffect(s, b) ==
    LET x == batch[s]
        c == job[s].conn
        acquired == job[s].acquired
    IN  CASE x.txStart /\ ~x.txEnd -> KeepsConn(s, c, job[s].pool, b)
          [] x.txEnd /\ acquired -> Panics(s, c, b) /\ Leaves(s)
          [] x.txEnd /\ ~acquired ->
               GoesOn(s, NoConn, NoPool, b) /\ Resets(boundPool[s], c, b) /\ UNCHANGED dirty
          [] ~x.txStart /\ ~x.txEnd /\ acquired ->
               GoesOn(s, NoConn, NoPool, b) /\ Resets(job[s].pool, c, b) /\ UNCHANGED dirty
          [] ~x.txStart /\ ~x.txEnd /\ ~acquired -> KeepsConn(s, c, boundPool[s], b)

ServeSynthWrite(s) ==
    /\ pc[s] = "run"
    /\ batch[s].kind = "synthWrite"
    /\ \E b \in Answers(s) : SynthEffect(s, b)
    /\ UNCHANGED <<writerPool, closed, switches>>

-----------------------------------------------------------------------------
(* Describe in multiplex mode *)

\* handleMultiplexDescribe borrows a writer connection of its own, also while the
\* session has one bound; when it gets none it reports an error and goes on.
AcquireDescribe(s) ==
    /\ pc[s] = "read"
    /\ ~("maintenance" \in switches /\ bound[s] = NoConn)
    /\ ext[s].mode = "multiplex"
    /\ ext[s].stmts # {}
    /\ \E c \in Conns :
          /\ Takes(writerPool, c)
          /\ job' = [job EXCEPT ![s] = [NoJob EXCEPT !.conn = c, !.pool = writerPool]]
    /\ pc' = [pc EXCEPT ![s] = "describe"]
    /\ UNCHANGED <<writerPool, closed, backend, switches, sess, bound, boundPool, dirty, extVars>>

\* Parse and Close of a temporary statement, then the reset.
ServeDescribe(s) ==
    /\ pc[s] = "describe"
    /\ Resets(job[s].pool, job[s].conn, backend[job[s].conn])
    /\ pc' = [pc EXCEPT ![s] = "read"]
    /\ job' = [job EXCEPT ![s] = NoJob]
    /\ UNCHANGED <<writerPool, closed, switches, sess, bound, boundPool, dirty, extVars>>

\* The session ends with its second connection; in a transaction that is the same
\* as a client that leaves, and the same switch of the model allows it.
DescribeFails(s) ==
    /\ pc[s] = "describe"
    /\ (bound[s] # NoConn /\ backend[bound[s]].tx # "I") => Abrupt
    /\ Discards(job[s].pool, job[s].conn)
    /\ pc' = [pc EXCEPT ![s] = "acquire"]
    /\ job' = [job EXCEPT ![s] = [NoJob EXCEPT !.route = "failed"]]
    /\ UNCHANGED <<writerPool, closed, switches, sess, bound, boundPool, dirty, extVars>>

-----------------------------------------------------------------------------
(* The session *)

ExtConnect(s) ==
    /\ Connect(s)
    /\ ext[s].reader = NoConn
    /\ \E mode \in Modes : ext' = [ext EXCEPT ![s] = [NewExt EXCEPT !.mode = mode]]
    /\ UNCHANGED batch

\* A simple query leaves a bound reader where it is.
ExtQuery(s, q) ==
    /\ Query(s, q)
    /\ ext' = [ext EXCEPT ![s].parsed = {}]
    /\ UNCHANGED batch

\* The deferred release of the bound reader, after that of the writer.
ReleaseReader(s) ==
    /\ pc[s] = "gone"
    /\ ext[s].reader # NoConn
    /\ Resets(ext[s].readerPool, ext[s].reader, backend[ext[s].reader])
    /\ ext' = [ext EXCEPT ![s] = NewExt]
    /\ UNCHANGED <<writerPool, closed, switches, pc, sess, bound, boundPool, dirty, job, batch>>

\* The simple protocol, and the steps the two protocols share.
RelayStep(s) ==
    \/ /\ UseBound(s) \/ AcquireWriter(s) \/ AcquireReader(s) \/ ReadFallsBack(s)
       /\ UNCHANGED extVars
    \/ /\ batch[s].kind = "none"
       /\ CacheHit(s) \/ ServeRead(s) \/ ServeReadFails(s)
       /\ UNCHANGED extVars
    \/ /\ batch[s].kind = "none"
       /\ ServeWrite(s)
       /\ IF pc'[s] = "gone" THEN Leaves(s) ELSE UNCHANGED extVars
    \/ /\ Disconnect(s) \/ MaintenanceRejects(s) \/ AcquireFails(s) \/ ServeWriteFails(s)
       /\ Leaves(s)

ExtStep(s) ==
    \/ /\ batch[s].kind = "read" /\ batch[s].msgs # <<>> /\ batch[s].msgs[1].kind = "Parse"
       /\ CacheHit(s)
       /\ Finishes(s, NoConn, NoPool, {})
    \/ /\ batch[s].kind \in {"read", "synthRead"}
       /\ ServeReadFails(s)
       /\ UNCHANGED extVars
    \/ ServeExtRead(s) \/ ServeParse(s) \/ ServeReuse(s) \/ ServeBoundReaderFails(s)
    \/ ServeExtWrite(s) \/ ServeSynthWrite(s)
    \/ AcquireDescribe(s) \/ ServeDescribe(s) \/ DescribeFails(s)
    \/ ReleaseReader(s)

ExtNext ==
    \/ \E s \in Sessions :
          \/ ExtConnect(s)
          \/ \E q \in Queries : ExtQuery(s, q)
          \/ \E msgs \in Batches, choice \in {"reader", "writer"} : Sync(s, msgs, choice)
          \/ RelayStep(s)
          \/ ExtStep(s)
    \/ (ReloadClose \/ ReloadSwap \/ \E mode \in AdminSwitches : Switch(mode)) /\ UNCHANGED extVars

ExtSpec == ExtInit /\ [][ExtNext]_allVars

-----------------------------------------------------------------------------
(* Properties *)

ExtHolds(s, c) == Holds(s, c) \/ ext[s].reader = c

ExtTypeOK ==
    /\ backend \in [Conns -> BackendStates]
    /\ numOpen \in [Pools -> 0 .. MaxConnections]
    /\ pc \in [Sessions -> {"read", "acquire", "run", "describe", "gone"}]
    /\ \A s \in Sessions :
          /\ ext[s].reader = NoConn <=> ext[s].readerPool = NoPool
          /\ bound[s] = NoConn <=> boundPool[s] = NoPool
          /\ batch[s].kind # "none" => pc[s] \in {"acquire", "run"}
          /\ pc[s] \in {"run", "describe"} => job[s].conn \in Conns

\* A connection bound for a Bind that has yet to come, or borrowed for a Describe
\* beside a bound one, is nobody else's: in both protocols together a backend
\* connection serves one session, and none while it is idle.
ExtOneHolder ==
    \A c \in Conns :
        /\ \A s, t \in Sessions : ExtHolds(s, c) /\ ExtHolds(t, c) => s = t
        /\ \A p \in Pools : c \in idle[p] => \A s \in Sessions : ~ExtHolds(s, c)

\* Transaction control read off Parse messages and off simple queries agrees with
\* PostgreSQL: between batches a session believed in a transaction has the
\* connection on which it is open, and whatever else stays bound is not in one.
ExtTxAgreement ==
    \A s \in Sessions : pc[s] = "read" =>
        /\ IF sess[s].inTransaction
           THEN bound[s] # NoConn /\ backend[bound[s]].tx # "I"
           ELSE bound[s] # NoConn => backend[bound[s]].tx = "I"
        /\ ext[s].reader # NoConn => backend[ext[s].reader].tx = "I"

\* "lib/pq sends Parse+Describe+Sync then Bind+Execute+Sync in two rounds -- the
\* backend must be the same for both" (query.go): a Bind right after the batch
\* that prepared its statement runs where that statement is.
ParsedAvailable ==
    \A s \in Sessions : pc[s] = "run" /\ ~Synthetic(s) =>
        \A p \in ext[s].parsed :
            (batch[s].msgs # <<>> /\ batch[s].msgs[1].kind = "Bind" /\ batch[s].msgs[1].name = p[1])
            => p \in backend[job[s].conn].prep

\* A batch with a write in it, or with a statement the session does not know, does
\* not run on a reader.
WritesOnWriter ==
    \A s \in Sessions : pc[s] = "run" /\ batch[s].isWrite => job[s].pool # Reader
=============================================================================
