------------------------------- MODULE Cache -------------------------------
(***************************************************************************)
(* The query cache of one proxy, internal/cache/cache.go: an LRU list with *)
(* a time to live and an index from tables to the keys that read them.     *)
(* Every method holds the mutex, so each is an operator on the cache.      *)
(***************************************************************************)
EXTENDS Integers, Sequences, FiniteSets, Functions

CONSTANTS MaxEntries,   \* max_entries
          TTL           \* cache_ttl, in ticks of the clock

ASSUME CacheAssumption == MaxEntries \in Nat \ {0} /\ TTL \in Nat

\* order: evictList, most recently used first; items: key -> entry, an entry having
\* the result, its tables and the age that stands for expiresAt; index: tableIndex.
EmptyCache == [order |-> <<>>, items |-> <<>>, index |-> <<>>]

\* An entry older than TTL has expired; how much older does not matter.
Expired(e) == e.age > TTL

Older(e) == [e EXCEPT !.age = IF @ > TTL THEN @ ELSE @ + 1]

Aged(c) == [c EXCEPT !.items = [k \in DOMAIN c.items |-> Older(c.items[k])]]

\* Mutant: the keys stay in the index.
UnindexedKept(c, keys) == c.index

\* removeTableIndex for the tables of each of the keys: a table without keys is
\* dropped.
Unindexed(c, keys) ==
    LET left(t) == {k \in c.index[t] : k \in keys => t \notin c.items[k].tables}
    IN  [t \in {u \in DOMAIN c.index : left(u) # {}} |-> left(t)]

\* updateTableIndex.
Indexed(index, key, tables) ==
    [t \in DOMAIN index \cup tables |->
        (IF t \in DOMAIN index THEN index[t] ELSE {}) \cup (IF t \in tables THEN {key} ELSE {})]

\* The list without the elements of some keys.
Unlisted(order, keys) ==
    LET from[n \in 0 .. Len(order)] ==
            IF n = 0 THEN <<>>
            ELSE IF order[n] \in keys THEN from[n - 1] ELSE Append(from[n - 1], order[n])
    IN  from[Len(order)]

\* removeElement for each of the keys, which have entries.
Removed(c, keys) ==
    [order |-> Unlisted(c.order, keys),
     items |-> Restrict(c.items, DOMAIN c.items \ keys),
     index |-> Unindexed(c, keys)]

MovedToFront(order, key) == <<key>> \o Unlisted(order, {key})

\* evictOldest.
Evicted(c) == Removed(c, {c.order[Len(c.order)]})

\* Mutant: the time to live is not looked at.
HitExpired(c, key) == key \in DOMAIN c.items

Hit(c, key) == key \in DOMAIN c.items /\ ~Expired(c.items[key])

\* Get: an expired entry is removed, a live one moves to the front.
AfterGet(c, key) ==
    IF Hit(c, key) THEN [c EXCEPT !.order = MovedToFront(@, key)]
    ELSE IF key \in DOMAIN c.items THEN Removed(c, {key}) ELSE c

\* Set of a result that is not too large.
AfterSet(c, key, e) ==
    IF key \in DOMAIN c.items
    THEN [order |-> MovedToFront(c.order, key),
          items |-> [c.items EXCEPT ![key] = e],
          index |-> Indexed(Unindexed(c, {key}), key, e.tables)]
    ELSE LET d == IF Len(c.order) >= MaxEntries THEN Evicted(c) ELSE c
         IN  [order |-> <<key>> \o d.order,
              items |-> [k \in DOMAIN d.items \cup {key} |-> IF k = key THEN e ELSE d.items[k]],
              index |-> Indexed(d.index, key, e.tables)]

\* FlushAll.
Flushed(c) == EmptyCache

\* InvalidateTable: removeElement for every key the index has for the table.
Invalidated(c, table) ==
    IF table \notin DOMAIN c.index THEN c
    ELSE LET d == Removed(c, c.index[table] \cap DOMAIN c.items)
         IN  [d EXCEPT !.index = Restrict(@, DOMAIN @ \ {table})]

\* What the methods maintain: list and map have the same keys, and the index has
\* exactly the tables of the entries.
WellFormed(c) ==
    /\ Range(c.order) = DOMAIN c.items
    /\ Len(c.order) = Cardinality(DOMAIN c.items)
    /\ Len(c.order) <= MaxEntries
    /\ DOMAIN c.index = UNION {c.items[k].tables : k \in DOMAIN c.items}
    /\ \A t \in DOMAIN c.index : c.index[t] = {k \in DOMAIN c.items : t \in c.items[k].tables}
=============================================================================
