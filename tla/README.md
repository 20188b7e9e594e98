# A TLA+ model of pgmux

pgmux is a PostgreSQL proxy: clients connect to it as to a server, it routes
their queries by SQL text to a writer or to read replicas, and it lends them
backend connections for one query or one transaction at a time. This directory
holds TLA+ modules translated from the code, TLC runs over small instances, and
TLAPS proofs about the modules for instances of any size.

## The system and its parts

| part | code | state | operations |
|---|---|---|---|
| connection pool | `internal/pool` | idle list, open counter, wakeup channel, closed flag | Acquire, Release, Discard, Close, Warm, health check |
| session relay | `internal/proxy/query*.go`, `backend.go` | bound connections and their pools, dirty flag, batch of extended messages, statement table | one turn of the query loop |
| router | `internal/router` | inTransaction, pinned, last write, prepared statement routes | RouteWithTxState, RegisterStatement |
| database group | `internal/proxy/dbgroup.go`, `server.go` | writer pool, reader pools, balancer, breakers | Reload, Close |
| balancer | `internal/router/balancer.go` | backends with health and replay LSN, counter | Next, NextWithLSN, MarkUnhealthy, health check, UpdateBackends |
| circuit breaker | `internal/resilience/breaker.go` | state, window counters | Allow, RecordSuccess, RecordFailure |
| rate limiter | `internal/resilience/ratelimit*.go` | buckets by user and by address | Allow, evict |
| connection limits | `internal/proxy/connlimit.go` | counts by user and by database | TryAcquire, Release, UpdateLimits |
| query cache | `internal/cache` | LRU list, table index | Get, Set, InvalidateTable, FlushAll, publish/subscribe |
| causal consistency | `internal/proxy/lsn.go`, `router/lsn.go` | LSN of the last write per session, replay LSN per reader | poll, choose |
| cancel, session registry | `cancel.go`, `session.go` | key of the backend serving each session | set, clear, forward |
| session life | `handleConn` in `server.go`, `auth.go` | how far a client has got | accept, admit, authenticate, relay, deferred calls |
| mirror, audit, digest | `internal/mirror`, `audit`, `digest` | bounded queues and tables | send, work, drain |
| process | `Start` in `server.go`, `cmd/pgmux/main.go`, `internal/config/watcher.go` | wait group, configuration in force | accept, reload, shut down |
| Data API, admin | `internal/dataapi`, `internal/admin` | none of their own | HTTP handlers over the parts above |

The parts meet in `relayQueries`: a session goroutine asks the router for a
route, borrows from a pool of the group (readers through balancer and breaker),
runs the query, and gives the connection back, while reloads replace pools,
health checkers mend them and operators switch modes.

What makes this hard to test: a pool drops its lock around every dial; the
transaction state is guessed from SQL text while the truth is in the backend;
a bound connection outlives the pool it came from; reloads run between a read
of a pointer and its use; a cached answer outlives what it was read from; cancel
requests and timers use keys of connections that move on; clients leave at any
point.

## Modules

**ConnLease** is what a pool promises its borrowers: a connection is leased to
one borrower at a time, and none is leased after the pool is shut.

**Pool** is `pool.go`. An action is one critical section of `p.mu`, or one step a
goroutine takes without it: a dial, closing a socket, a channel operation.
Borrowers, warm-up goroutines and the health checker are processes with a
program counter. `expired` replaces the clocks of MaxLifetime and IdleTimeout,
`GiveUp` the timer and the context of a blocked Acquire. The dial has three
outcomes: failed, succeeded, and succeeded after the pool was closed.

| code | actions |
|---|---|
| Acquire | AcquireClosed, AcquireIdle, AcquireNone, AcquireDialed, AcquireDialFails, CloseSocket, Wake, GiveUp |
| Release, Discard, Close | Release; Discard, DiscardCount, DiscardSignal; Close |
| Warm | WarmStart, WarmReserve, WarmDialed, WarmDialFails, WarmEnd |
| healthCheck | HealthCheck, HealthDialed, HealthDialFails |

**Backend** is the PostgreSQL side of a connection, external to the repository:
the transaction status, whether a client left settings on it, and the outcomes
of a query made of several statements, which PostgreSQL abandons at the first
error.

**Relay** is the loop of `relayQueries` for simple queries, with the router and
the pools as sessions see them. A query is a sequence of statement classes
(BEGIN, END, ROLLBACKTO, SELECT, WRITE, SET). Query covers the session guard, the
routing and the read-only check; AcquireWriter, UseBound, AcquireReader,
ReadFallsBack, CacheHit and AcquireFails the ways to a connection; ServeWrite the
switch on wasInTx, nowInTx and acquired; Returns the deferred function. The
generation of the writer pool grows with each reload, which closes the old pool
and then stores the new one, in two steps that sessions can see. Rate limits and
the firewall reject a query and change none of these variables.

**Extended** is the extended query protocol, on top of Relay, whose actions it
reuses: both protocols share a session's state. A client sends a batch of Parse,
Bind, Describe, Execute and Close up to a Sync. Until the Sync only the session's
own state changes, so reading a batch is one action (Sync, which folds
ReadMessage over it); acquiring, running and giving back are actions of their
own. A batch is run in one of five ways:

| code | actions |
|---|---|
| reads in proxy mode, `handleExtendedRead` | ServeExtRead |
| Parse without Execute on a reader, and the batch after it | ServeParse; ServeReuse, ServeBoundReaderFails |
| writes in proxy mode, the switch at `query.go:960` | ServeExtWrite |
| multiplex mode, `executeSynthesizedQuery` | the reads of Relay, ServeSynthWrite |
| Describe in multiplex mode | AcquireDescribe, ServeDescribe, DescribeFails |

`parsed` is no state of the code; it remembers what the last batch prepared, for
ParsedAvailable. Backend has the statements prepared on each connection.

**Balancer** is `balancer.go`. A backend is an object, the pair of an address and
the reload that created it, because a call of Next keeps the list it has read
while UpdateBackends replaces it. Each iteration of the loop in Next and
NextWithLSN is a step: the index is shared by all callers. Lists have no address
twice; the configuration check does not insist on that, but a repeated reader
is not a configuration the code is written for.

**Breaker** is `breaker.go`: operations on the value of a breaker, applied by the
actions of the module below. The clock is a flag that time sets.

**ReadPath** composes both into `handleReadQueryTraced`: choose, ask the breaker,
look up the pool, acquire, run, record, mark, or fall back to the writer. Each
access to shared state is a step. A replica in trouble may fail an acquire, a
send or an answer, whatever the cause (the replica, the network, an exhausted
pool, a client that left: the code treats them alike). Reload keeps, adds and
removes backends, pools and breakers together, as `DatabaseGroup.Reload` does
under its lock; changed credentials are not modelled.

**Causal** is the LSN mode: `handleWriteQuery` up to SetLastWriteLSN, the poller of
`lsn.go`, and reads with NextWithLSN. `visible` is no state of the code; it
records the commit records a session may expect to see: those of writes whose
position could be read, since the code only warns when it could not. Replicas
never go back.

**Cache** is `cache.go`: list, map and table index as a value, each method an
operator on it, since each holds the mutex. **CacheCluster** composes caches of
several proxies with a database (the log of its commits and the prefix the reader
has replayed) and Redis. A read is three steps, Lookup, Fetch and Store, a write
executes, invalidates table by table and publishes; everything else may happen
in between. Publish reaches any subset of the proxies, which covers a Redis that
fails and a subscriber that is away. WriteUnseen is a commit nobody invalidates
for. An entry has the position it was read at instead of rows; `cleared` is no
state of the code but records up to which commit each table was invalidated at a
proxy.

**ConnLimit** is ConnTracker, **HandleConn** the life of a client connection around
it: Accept, the startup message, Rejected or Admitted, authentication, the
queries, and the deferred calls in their order (Unregister, Uncount). A query is
Acquire, Start (which sets the cancel target and arms the timer), StopTimer, Clear
and Finish, which keeps or releases the connection. CancelRequest, CancelSession and
TimerFires/TimerSends read the target at any moment; a timer's callback that has
begun is not stopped by StopTimer. Reload changes limits, takes the tracker away
or puts a new one in; `replaced` records that the latter happened.

**RateLimit** is the token bucket and the registry: Lookup under the read lock,
Create under the write lock with its second look, Touch, Allow, Evict and the
reload that installs an empty registry under calls that are under way. Tokens are
integers, Cost of them for a request, so a tick may bring a fraction of one.

**Audit**, **Mirror** and **ConfigWatch** are components without a Next of their own;
**Shutdown** composes them with Server.Start, its accept loop and its wait group.
The two channels are counters, as contents do not matter; the `select` of each
goroutine chooses freely, as Go does. ConfigWatch has the debounce timer, the
file as it is being written, and reloads of two origins that read the file
outside the mutex and are applied in any order.

## Runs

| run | checks | instance |
|---|---|---|
| pool | TypeOK, SlotAccounting, SocketBound, Exclusive, ClosedIsEmpty, NoEscape, CloseUnblocks, CloseDrains, LeaseSpec | 3 borrowers, a warm-up, the checker, 2 connections, failing dials |
| pool_wakeup | NoLostWakeup | 4 borrowers, 2 connections, dials succeed, no background dials |
| relay | StateReset, NoLostSlot | 2 sessions of simple queries that set state under the pin guard and may vanish, in a transaction too; pools of one connection, a reload, maintenance |
| readpath | WindowsSound, NextComplete, HealthPreserved, Recovery | 1 session, 2 readers, two reloads, window 2, 2 half-open successes |
| causal | KnownPositions, ReadYourWrites | 1 session, foreign writes, 2 readers, two reloads, 2 WAL records |
| causal_tx | ReadYourCommits, violated | 1 session, no reload |
| extended | ExtTypeOK, ExtOneHolder, PoolsClean, ExtTxAgreement, ParsedAvailable, WritesOnWriter, StateReset | 1 session, both protocols and both modes, pin guard, a reload, both administrative switches |
| extended_pipeline | PoolsClean, violated | the same session, BEGIN and SELECT in one batch |
| cache | TypeOK, IndexExact, StaleOnlyIfLate, EventuallyFresh | 2 proxies, a client each, 2 queries over 2 tables, caches of 1 entry, one commit |
| sessions | TypeOK, NeverOvercounted, CountsExact, LimitsRespected, CancelsOwn | 3 clients, 2 users, 1 database, 1 backend connection, 2 sets of limits or none |
| shutdown | DrainedFirst, AuditComplete, MirrorPoolUnused, ShutdownCompletes, ConfigCurrent | 2 clients, channels of 2 and 1, 2 workers, one edit |
| ratelimit | Conforms | 3 clients of a key, bursts of 2, 1.5 tokens a tick, 6 ticks |

What they show, beyond the pool: a client that leaves, is refused or fails
leaves neither its settings nor a lost slot behind (relay). Drivers that prepare
in one round and execute in the next, and control transactions in one round, are
served by one connection where they must be, in both modes and mixed with simple
queries (extended). An entry of a cache is stale after an invalidation only if it
was stored by a read that was under way, and never beyond its time to live, even
when Redis loses everything (cache). Limits are exact while a tracker lives and
err only in favour of clients after one was replaced; a forwarded cancel request
names a connection of its own client (sessions). Shutdown drains before it closes
and ends (shutdown). Eviction, recreation and races do not change what the
bucket in the registry lets through (ratelimit).

Bounds. Two connections and three borrowers are the smallest pool in which a
borrower waits while another dials and a third releases; the proofs remove the
bound. In run relay two sessions show every interference through a shared
connection; pools of two connections pass as well, in ten minutes. Run extended has
one session and needs no second one: a connection that is idle while held, in a transaction or with settings is visible in the pool
before anybody takes it, and pools of one connection make a session meet its own
leavings. One reload shows every stale pool reference, since a session keeps at
most one of each kind. Two readers are the smallest list a round robin can go
wrong on, and two reloads remove a reader and add it again. Breaker windows of two
requests tell a full window from a started one. NextComplete is stated for calls
that no other call overlaps, since overlapping calls may make each other test one
reader twice. A cache of one entry evicts at every other store, and one commit is
enough for a store to be early or late, a join of two tables for an invalidation
to be half done. Three clients are the fewest that reach a limit of two and are
refused; one backend connection passes between all of them. Three requests race
for the creation of a bucket, its eviction and its second creation. The time to
live of a bucket is one in which it fills (RateAssumption); with a shorter one
eviction refills it early.

Fairness. FairSpec of Pool says only that a goroutine inside the pool's code
takes its next step: dials have a timeout and the select has a timer. Nothing
makes a borrower call Acquire, return its connection, or anyone close the pool.
LoadedSpec of ReadPath says that handlers run on, that the ticker of the health
check and the clock of OpenDuration go on, and that a dial to a replica without
trouble succeeds. It also says that clients keep reading, which is an assumption
about the load and no promise of the code: a half-open breaker closes only by
successful requests, so Recovery is a statement about groups in use. FairSpec of
CacheCluster says that requests end, that replication proceeds and that time
passes, and nothing of Redis or the clients. FairSpec of Shutdown says that Start
and the goroutines of audit, mirror and watcher run, that webhooks end (their HTTP
client has a timeout), that the shadow database answers the mirror, which has no
deadline of its own, and that an edit begun is finished. Clients may hang for
ever: the shutdown timeout is there for them.

## Disagreements between code and documentation

Shown by runs:

- causal_tx: the WAL position is asked for after each write and not after COMMIT,
  so what is tracked for a transaction lies before its commit record.
- extended_pipeline: each Parse sets the route of its batch anew, so BEGIN and
  SELECT before one Sync run on a reader, and the connection returns to the pool
  with the transaction open.

The others follow from definitions of the modules or from lines quoted in the
list of hazards; the instances of the runs leave out what leads to them, or the
properties except it.

- The timer of Acquire restarts with every wakeup (`pool.go:232`), so a caller that
  keeps losing the race waits beyond `connection_timeout`.
- A client that leaves inside a transaction returns its connection with the
  transaction open, unless a session-modifying statement made it dirty (Returns
  in Relay). Run relay has such clients and does not check PoolsClean.
- `query.go:28` says "We must Release/Discard to the original pool to avoid
  cross-pool contamination", but relayQueries notes `dbg.writerPool` and
  acquireWriterConn reads it again. When a reload comes in between, the connection
  is the new pool's and is given back to the old one, which is closed, and the new
  pool has one slot less for good. NoLostSlot says that nothing else loses a slot
  (Crossed in Relay).
- The read-only check comes after routing has entered the transaction (Query in
  Relay); the COMMIT that follows releases to no pool, the panic is recovered, and
  the slot is gone. A COMMIT of the extended protocol without a BEGIN does the same.
- ROLLBACK TO SAVEPOINT counts as the end of a transaction (TxKeywords), and a
  multi-statement query that fails before its COMMIT counts as committed (TxAfter
  against Outcomes). BEGIN or COMMIT prepared once and executed again goes
  unnoticed.
- SET is no write keyword, so outside a transaction it goes to a reader, whose
  connection is released without a reset; the pin guard is what makes StateReset
  hold.
- Writes of the extended protocol track no LSN and invalidate no cached result.
- Limits switched off and on again start from zero (`server.go:563`).
- Groups added by a reload get no health checks (`server.go:508`), so Recovery is
  about those of the startup; LSN polling starts at startup only (`server.go:266`).
- Of two overlapping reloads the one with the older file may win (`main.go:255`),
  which ConfigCurrent excepts.

## Proofs

**PoolProofs** proves, for every number of borrowers, warm-ups and connections
and every size of the pool, the safety properties of run pool and the refinement
of ConnLease. SlotAccounting is not inductive alone. PoolInv adds to the typing
and to SlotAccounting:

- UseBound: slots in use and sockets being closed stay within MaxConnections,
  which needs that a goroutine closes a socket without a slot only in a closed pool
  (ClosingMeansClosed), because there no slot is reserved again;
- HoldsConn: which program counters go with a connection in hand;
- Exclusive and ClosedIsEmpty themselves.

Each action has a lemma; the cardinality of the set of goroutines in a state
changes by one exactly as the counter does, which the lemmas on At state once.
WakeupsKept (NoLostWakeup) is about pools whose dials succeed and that keep no
minimum of connections: a dial that fails gives its slot back and wakes nobody, and
so do the dials of the health check, until the caller's own timeout. Its invariant
is PoolInv with NoLostWakeup itself; WakeLedger compares, for each step, what becomes
free with the tokens sent. The assumptions are those of the module: finite sets of
goroutines and 0 <= MinConnections <= MaxConnections, which the configuration check enforces.

**RoutingProofs** has two parts. The first, on ReadPath, proves WindowsSound, HealthPreserved and NextComplete for every
number of sessions, replicas and reloads and every breaker configuration. Each operation of
Breaker has a lemma that it keeps a breaker Sound; a step of ReadPath applies at
most one of them to one breaker. HealthPreserved needs that listed addresses are
unique, which is inductive because a reload installs a configured list. NextComplete
follows from BalancerInv: as long as nobody else moves the index, every backend that
was eligible all through the call is still among the positions the call has left to
probe (Ahead), which is arithmetic modulo the length of the list.

The second part, on Causal, proves ReadYourWrites and KnownPositions for every number of
sessions, readers, reloads and WAL records. CausalInv chains three inequalities:
the session's own commit record is at most its tracked position, which is at most
the known position of the reader found, which is at most the reader's true one;
and each of these survives the steps of everybody else because positions only
grow. Why the chain breaks for transactions is visible in Commit, the only action
that moves `visible` without moving `lastWriteLSN`.

The assumptions of both are those of the modules: lists over the addresses,
without repetition, and positive breaker parameters, which NewCircuitBreaker
enforces.

**ServerProofs** has two parts as well. The first, on HandleConn, proves all properties of run sessions for every number of
clients, users, databases, connections and pending cancel requests and all
limits. There are two invariants. CancelInv says that a target is set only while a
query runs and is then the connection the session has; it is independent of the
tracker, and CancelsForwardedToOwn follows since each way to cancel reads the
target in the step that sends. CountInv adds to CountsExact and NeverOvercounted
that the tracker is well typed and that whoever is counted has logged in, which
is what ties a session to the user it is released for; admission and departure
change one cardinality each by one (CountAdmitted, CountUncounted), and the
clamp at zero in Release is what keeps NeverOvercounted after a tracker was
replaced. LimitsKept is then a property of the step of admission alone.

The second part, on Shutdown, proves the safety properties of run shutdown for every finite
set of clients (ShutdownAssumption) and any sizes of the channels. Each rests on
an invariant of its own, since the three parts meet only in the order in which
Start closes them. DrainInv says that the wait group counts the clients being
served, so that it is zero only when there are none; a client that begins adds
one, which Start does in its accept loop and therefore before it waits. AuditInv
says that the stop channel is closed only after the drain and that the goroutine
leaves its select loop only when it is, so that nothing is sent to a channel whose
reader has found it empty. MirrorInv says that the pool of the shadow database is
closed only when all workers have returned, from which no step leads back.

**RelayProofs** proves NoLostSlot and StateReset for every number of sessions,
connections and reloads and for queries of any statements. RelayInv says where
connections are: each is idle in one pool or in the hands of one session (Places),
idle with the pool that dialed it (IdleHome), and a session that has one knows which
of its variables it is in (Shape) and, unless a reload came between, which pool it is
from (Noted); a session in a transaction has a connection bound (Transactional).
Every action of a session is then one of a few moves (Effect): nothing, take one
connection, give one back.

- SlotsKeptOnRelay: under RelayInv the slots of an open pool that nobody can give
  back change only with a move of a session that crossed a reload. It assumes that
  read-only mode is never switched: a session whose BEGIN was refused believes in a
  transaction it has no connection for, and the COMMIT that follows loses a slot (see
  the disagreements above).
- PinResets assumes session_compatibility: pin. CleanInv adds that a session whose
  bound connection may carry a setting is marked dirty, which makes the release reset
  it. What a query does to a connection is defined by recursion over its statements
  (Outcomes of Backend); that a query without SET sets nothing, whatever fails, is
  proved by induction (NatInd, whose property is a set), from the well-ordering of the
  naturals.

RelayAssumption gives the connections as a finite set; the proofs count them.

**SessionLemmas** has what the proofs about Relay and Extended share: where connections
are, the types of a session's variables, and what the recursive operators do (a query
or a batch on a connection, the reading of a batch).

**ExtendedLemmas** and **ExtendedProofs** prove, for clients that mix simple queries with extended batches
of any messages in any order:

- ExtOneHolderHolds: a connection is in one place, without any hypothesis;
- ExtTypes: ExtTypeOK in proxy mode;
- WritesRunOnWriter: WritesOnWriter in both modes, for batches in which no message but
  the first is a Parse (OneParse), which is what drivers send outside pipelines.

ExtInv carries over Places, now with three hands per session (the bound writer, the
bound reader and the one in use), and says how these three relate at each place of the
session (HandsOf). The part NotesOf and Counted speak about proxy mode only: there an
open pool counts at least the connections it dialed and still has, so numOpen stays
within its limits. In multiplex mode that is false with two reloads: a synthesized
BEGIN on a connection that is already bound notes the current pool for it, so that it
may join the idle connections of a pool that never counted it, and Close, which
subtracts the idle connections from the counter, then makes numOpen negative; hence
the hypothesis of ExtTypes. What reading a batch and running it do to the state is
defined by recursion over the messages (ReadBatch, BatchOutcomes) and typed by
induction as above.

WritesRunOnWriter adds two facts to ExtInv. Of a session: a statement in its table whose
text has a write has the route "writer" (Routed). Of a batch that is being run: if it
has a write, its route is the writer, and the pool of that route is no reader
(WriteOf). That a batch keeps the first and establishes the second
is an induction over its messages (MessageRouted, BatchRouted), and there the
hypothesis is needed: extRoute is the route of the last Parse, so of two statements in
one batch the first may be a write and the second send both to a reader.

**CacheProofs** proves the safety properties of run cache for every number of
proxies, clients, keys, tables and commits and every size of the caches. A cache is
Sane when its list repeats no key and has those of the map, and its index is the
function of the map that IndexOf computes; each method is shown to keep that and to
do to the map what its name says (Shrinks, Stores). Unlisted, which removes elements
from the list, is defined by recursion, and what it returns is proved by induction.
StaleOnlyIfLate then needs no more than that an invalidation of a table removes every
entry that reads it, which is the point of the exact index: `cleared` moves for a table
only in the steps that empty its part of the index. Nothing is assumed of Redis.

Only model-checked:

- liveness (CloseUnblocks, CloseDrains, Recovery, EventuallyFresh, ShutdownCompletes,
  ConfigCurrent), which is out of the prover's reach;
- PoolsClean, ExtTxAgreement and ParsedAvailable of Extended: they depend on the shape of
  the batches (run extended_pipeline shows one that breaks PoolsClean), so a theorem needs
  a description of the batches that drivers send, and of what remains parsed after each
  of them;
- StateReset in run extended, which is proved for the simple protocol only. In multiplex
  mode it is false in general: a SET that one batch prepares is in the statement table
  with the route it had before the session was pinned, and the batch that binds it later
  runs it on a reader, whose connection is released as it is;
- ExtTypeOK in multiplex mode, for the reason above;
- Conforms of RateLimit, which compares a bucket with sums of requests over stretches
  of time: a fold, and products of constants and times.

## Not modelled

- SQL lexing, rewriting, firewall and the literals of the synthesizer: text
  processing on syntax trees of an external parser; the modules work on classes of
  statements.
- MD5, SCRAM and TLS: cryptography in a fixed exchange, whose result is
  Authenticated or AuthFails.
- COPY streaming and message framing: byte relaying, whose outcomes are those of a
  query.
- Reload of groups added, removed or with new credentials; the modules have the
  parts of Reload that touch their state.
- executeOnPool of the Data API, which borrows, resets and releases one connection
  per request; its caching is in CacheCluster.
- Statistics of the mirror, deduplication of webhooks, the digest, metrics,
  tracing and JSON rendering: written by all parts and read by none.
