---------------------------- MODULE CacheCluster ----------------------------
(***************************************************************************)
(* Proxies that answer reads from their query caches while clients write:  *)
(* the read path from the lookup to the store (query_read.go,              *)
(* query_extended.go, dataapi/handler.go), the write path from the answer  *)
(* of the writer to the invalidation (backend.go, dataapi/handler.go) and  *)
(* the broadcast over Redis (cache/invalidator.go).                        *)
(*                                                                         *)
(* The database is the log of its commits, each the set of tables it       *)
(* changes, and the prefix of it that the reader has replayed.             *)
(***************************************************************************)
EXTENDS Cache

CONSTANTS Proxies,
          Clients,      \* clients of the wire protocols and of the Data API
          Home,         \* Home[c]: the proxies that client c connects to
          Tables,
          Keys,         \* cache keys: a query in the namespace of its path
          ReadsOf,      \* ReadsOf[k]: the table sets the parsers may extract for k
          Writes,       \* the table sets that commits change
          Flushes,      \* what operators flush: tables, or Star for everything
          Star,
          MaxCommits,   \* bound on the log
          MaxPending    \* bound on the messages under way when an operator flushes

ASSUME ClusterAssumption ==
    /\ Home \in [Clients -> SUBSET Proxies]
    /\ ReadsOf \in [Keys -> SUBSET SUBSET Tables]
    /\ \A k \in Keys : ReadsOf[k] # {}
    /\ Writes \subseteq (SUBSET Tables) \ {{}}
    /\ Flushes \subseteq Tables \cup {Star}
    /\ Star \notin Tables
    /\ MaxCommits \in Nat /\ MaxPending \in Nat

VARIABLES cache,      \* cache[p]: queryCache of proxy p
          log,        \* commits, in order
          replayed,   \* how many of them the reader has
          op,         \* op[c]: what the request of client c is at
          channel,    \* channel[p]: messages Redis has yet to deliver to p
          cleared     \* cleared[p][t]: auxiliary, the last commit on t invalidated at p

vars == <<cache, log, replayed, op, channel, cleared>>

Idle == [step |-> "idle"]

Init ==
    /\ cache = [p \in Proxies |-> EmptyCache]
    /\ log = <<>>
    /\ replayed = 0
    /\ op = [c \in Clients |-> Idle]
    /\ channel = [p \in Proxies |-> <<>>]
    /\ cleared = [p \in Proxies |-> [t \in Tables |-> 0]]

-----------------------------------------------------------------------------
(* Reads *)

\* Lookup: a hit answers the client.
Lookup(c, p, k) ==
    /\ op[c] = Idle
    /\ cache' = [cache EXCEPT ![p] = AfterGet(@, k)]
    /\ op' = [op EXCEPT ![c] = IF Hit(cache[p], k) THEN Idle
                               ELSE [step |-> "fetch", proxy |-> p, key |-> k]]
    /\ UNCHANGED <<log, replayed, channel, cleared>>

\* Mutant: the answer of the writer, standing in for the reader, is kept for caching.
FetchFromWriter(c) ==
    /\ op[c].step = "fetch"
    /\ op' = [op EXCEPT ![c] = [step |-> "store", proxy |-> @.proxy, key |-> @.key, pos |-> Len(log)]]
    /\ UNCHANGED <<cache, log, replayed, channel, cleared>>

\* The reader answers with what it has replayed.
Fetch(c) ==
    /\ op[c].step = "fetch"
    /\ op' = [op EXCEPT ![c] = [step |-> "store", proxy |-> @.proxy, key |-> @.key, pos |-> replayed]]
    /\ UNCHANGED <<cache, log, replayed, channel, cleared>>

\* No reader: the writer's answer is not cached.  Nor is one that is too large,
\* and a read that fails stores nothing.
FetchUncached(c) ==
    /\ op[c].step \in {"fetch", "store"}
    /\ op' = [op EXCEPT ![c] = Idle]
    /\ UNCHANGED <<cache, log, replayed, channel, cleared>>

\* Set, after the connection has been released.  cleared is noted in the entry.
Store(c) ==
    /\ op[c].step = "store"
    /\ LET p == op[c].proxy
           k == op[c].key
       IN  \E tables \in ReadsOf[k] :
              cache' = [cache EXCEPT ![p] =
                  AfterSet(@, k, [pos |-> op[c].pos, tables |-> tables, age |-> 0,
                                  missed |-> {t \in tables : cleared[p][t] > op[c].pos}])]
    /\ op' = [op EXCEPT ![c] = Idle]
    /\ UNCHANGED <<log, replayed, channel, cleared>>

-----------------------------------------------------------------------------
(* Writes *)

\* A write outside a transaction has been executed; handleWriteQuery and
\* executeWrite go on to invalidate the tables of the statement.
Write(c, p, tables) ==
    /\ op[c] = Idle
    /\ Len(log) < MaxCommits
    /\ log' = Append(log, tables)
    /\ op' = [op EXCEPT ![c] = [step |-> "invalidate", proxy |-> p, left |-> tables,
                                pos |-> Len(log) + 1, news |-> tables]]
    /\ UNCHANGED <<cache, replayed, channel, cleared>>

\* A commit nobody invalidates for: a transaction, whose tables were invalidated
\* before, a batch of the extended protocol, or a client of the database itself.
WriteUnseen(tables) ==
    /\ Len(log) < MaxCommits
    /\ log' = Append(log, tables)
    /\ UNCHANGED <<cache, replayed, op, channel, cleared>>

Clears(p, tables, pos) ==
    cleared' = [cleared EXCEPT ![p] =
        [t \in Tables |-> IF t \in tables /\ pos > @[t] THEN pos ELSE @[t]]]

\* Mutant: the loop ends after its first pass.
InvalidateNextOnce(c) ==
    /\ op[c].step = "invalidate"
    /\ \E t \in op[c].left : cache' = [cache EXCEPT ![op[c].proxy] = Invalidated(@, t)]
    /\ Clears(op[c].proxy, op[c].left, op[c].pos)
    /\ op' = [op EXCEPT ![c].step = "publish", ![c].left = {}]
    /\ UNCHANGED <<log, replayed, channel>>

\* One pass of the loop over the tables.
InvalidateNext(c) ==
    /\ op[c].step = "invalidate"
    /\ \E t \in op[c].left :
          /\ cache' = [cache EXCEPT ![op[c].proxy] = Invalidated(@, t)]
          /\ Clears(op[c].proxy, {t}, op[c].pos)
          /\ op' = [op EXCEPT ![c].step = IF op[c].left = {t} THEN "publish" ELSE @,
                              ![c].left = @ \ {t}]
    /\ UNCHANGED <<log, replayed, channel>>

\* The names in a message, one after the other.
Listed(S) == CHOOSE f \in [1 .. Cardinality(S) -> S] : IsInjective(f)

\* Publish: Redis sends the message to every subscriber, the publisher included.
\* It may fail, and a subscriber that is not connected misses it.
Publish(c) ==
    /\ op[c].step = "publish"
    /\ \E reached \in SUBSET Proxies :
          channel' = [p \in Proxies |->
              IF p \in reached
              THEN channel[p] \o Listed({[table |-> t, pos |-> op[c].pos] : t \in op[c].news})
              ELSE channel[p]]
    /\ op' = [op EXCEPT ![c] = Idle]
    /\ UNCHANGED <<cache, log, replayed, cleared>>

\* handleMessage: the names in a message are invalidated one by one, "*" flushes.
Deliver(p) ==
    /\ channel[p] # <<>>
    /\ LET m == Head(channel[p])
       IN  /\ cache' = [cache EXCEPT ![p] = IF m.table = Star THEN Flushed(@) ELSE Invalidated(@, m.table)]
           /\ Clears(p, IF m.table = Star THEN Tables ELSE {m.table}, m.pos)
    /\ channel' = [channel EXCEPT ![p] = Tail(@)]
    /\ UNCHANGED <<log, replayed, op>>

\* handleCacheFlush of the admin API: of one table or of everything, then published.
AdminFlush(c, p, table) ==
    /\ op[c] = Idle
    /\ Cardinality({d \in Clients : op[d].step = "publish"}) < MaxPending
    /\ \A q \in Proxies : Len(channel[q]) < MaxPending
    /\ cache' = [cache EXCEPT ![p] = IF table = Star THEN Flushed(@) ELSE Invalidated(@, table)]
    /\ Clears(p, IF table = Star THEN Tables ELSE {table}, Len(log))
    /\ op' = [op EXCEPT ![c] = [step |-> "publish", proxy |-> p, left |-> {},
                                pos |-> Len(log), news |-> {table}]]
    /\ UNCHANGED <<log, replayed, channel>>

-----------------------------------------------------------------------------
(* The reader catches up, and time passes *)

Replay ==
    /\ replayed < Len(log)
    /\ replayed' = replayed + 1
    /\ UNCHANGED <<cache, log, op, channel, cleared>>

Tick ==
    /\ cache' = [p \in Proxies |-> Aged(cache[p])]
    /\ UNCHANGED <<log, replayed, op, channel, cleared>>

Proceed(c) == Fetch(c) \/ FetchUncached(c) \/ Store(c) \/ InvalidateNext(c) \/ Publish(c)

Next ==
    \/ \E c \in Clients :
          \/ Proceed(c)
          \/ \E p \in Home[c] :
                \/ \E k \in Keys : Lookup(c, p, k)
                \/ \E tables \in Writes : Write(c, p, tables)
                \/ \E table \in Flushes : AdminFlush(c, p, table)
    \/ \E tables \in Writes : WriteUnseen(tables)
    \/ \E p \in Proxies : Deliver(p)
    \/ Replay
    \/ Tick

Spec == Init /\ [][Next]_vars

\* Requests end, replication proceeds and time passes; Redis need not deliver.
FairSpec ==
    /\ Spec
    /\ \A c \in Clients : WF_vars(Proceed(c))
    /\ WF_vars(Replay)
    /\ WF_vars(Tick)

-----------------------------------------------------------------------------
(* Properties *)

\* Types; and an entry is an answer of a reader, at a position it has replayed:
\* answers of the writer standing in for it are not stored.
TypeOK ==
    /\ log \in Seq(Writes)
    /\ replayed \in 0 .. Len(log)
    /\ \A p \in Proxies :
          \A k \in DOMAIN cache[p].items :
              LET e == cache[p].items[k]
              IN  k \in Keys /\ e.tables \in ReadsOf[k] /\ e.age \in 0 .. TTL + 1
                  /\ e.pos \in 0 .. replayed
    /\ \A c \in Clients : op[c].step \in {"idle", "fetch", "store", "invalidate", "publish"}

\* Stores, updates in place, evictions, expiries and invalidations leave list, map
\* and table index of every cache consistent: an entry the index forgot could not
\* be invalidated any more.
IndexExact == \A p \in Proxies : WellFormed(cache[p])

\* "Automatic table-level invalidation on writes" (README): once a write has been
\* invalidated at a proxy, by itself or through Redis, no entry there is without
\* it, except one already without it when a read still under way stored it.
StaleOnlyIfLate ==
    \A p \in Proxies : \A k \in DOMAIN cache[p].items :
        LET e == cache[p].items[k]
        IN  {t \in e.tables : cleared[p][t] > e.pos} \subseteq e.missed

Stale(e) == \E i \in e.pos + 1 .. Len(log) : log[i] \cap e.tables # {}

\* "TTL expiration": whatever was lost, missed or stored late, once nothing is
\* written any more every answer a cache can give is current, and stays so.
EventuallyFresh ==
    <>[](\A p \in Proxies : \A k \in DOMAIN cache[p].items :
            Hit(cache[p], k) => ~Stale(cache[p].items[k]))
=============================================================================
