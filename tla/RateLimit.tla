----------------------------- MODULE RateLimit -----------------------------
(***************************************************************************)
(* The rate limiters: the token bucket of internal/resilience/ratelimit.go *)
(* and the registry of one bucket for each user or address,                *)
(* ratelimit_registry.go, whose idle entries a goroutine evicts and which  *)
(* Server.Reload replaces.  Requests of several clients for the same key   *)
(* are checked concurrently, as relayQueries does for every message.       *)
(*                                                                         *)
(* Time is counted in ticks and tokens in fractions of a token: a tick     *)
(* brings Rate of them, a request takes Cost.                              *)
(***************************************************************************)
EXTENDS Integers, FiniteSets

LOCAL INSTANCE FiniteSetsExt

CONSTANTS Clients,
          Keys,           \* users, or addresses
          Rate, Burst,    \* rate and burst
          Cost,
          TTL,            \* cleanup_ttl
          NoBucket,
          MaxTime         \* bound on the clock

Capacity == Burst * Cost

\* A bucket that is not used for the time to live is full.
ASSUME RateAssumption ==
    /\ Rate \in Nat /\ Burst \in Nat /\ Cost \in Nat \ {0} /\ TTL \in Nat /\ MaxTime \in Nat
    /\ Rate * TTL >= Capacity

Time == 0 .. MaxTime

\* Addresses of buckets: one for each key and each client still using an old one.
Ids == 1 .. Cardinality(Keys) + Cardinality(Clients)

VARIABLES now,
          limiters,     \* limiters[k]: the address of the entry, 0 when there is none
          bucket,       \* bucket[i]: the limiter with the time it was last touched
          pc, key, ref, \* what a client's call of Allow is at, its key and its entry
          stale,        \* the clients whose calls are on a registry that was replaced
          admitted      \* auxiliary: admitted[k][t], requests let through in tick t

vars == <<now, limiters, bucket, pc, key, ref, stale, admitted>>

Init ==
    /\ now = 0
    /\ limiters = [k \in Keys |-> 0]
    /\ bucket = [i \in Ids |-> NoBucket]
    /\ pc = [c \in Clients |-> "idle"]
    /\ key \in [Clients -> Keys]
    /\ ref = [c \in Clients |-> 0]
    /\ stale = {}
    /\ admitted = [k \in Keys |-> [t \in Time |-> 0]]

-----------------------------------------------------------------------------
(* The bucket *)

NewRateLimiter == [tokens |-> Capacity, lastTime |-> now, lastAccess |-> now]

Refilled(b) == Min({b.tokens + (now - b.lastTime) * Rate, Capacity})

\* Allow of a RateLimiter.
Takes(b) == Refilled(b) >= Cost

AfterAllow(b) ==
    [b EXCEPT !.lastTime = now, !.tokens = IF Takes(b) THEN Refilled(b) - Cost ELSE Refilled(b)]

-----------------------------------------------------------------------------
(* The registry *)

\* Buckets that neither the registry nor a call refers to are gone.
Collect(b, lims, refs) ==
    bucket' = [i \in Ids |-> IF (\E k \in Keys : lims[k] = i) \/ (\E c \in Clients : refs[c] = i)
                             THEN b[i] ELSE NoBucket]

\* The fast path: a lookup under the read lock.
Lookup(c, k) ==
    /\ pc[c] = "idle"
    /\ key' = [key EXCEPT ![c] = k]
    /\ ref' = [ref EXCEPT ![c] = limiters[k]]
    /\ pc' = [pc EXCEPT ![c] = IF limiters[k] = 0 THEN "create" ELSE "touch"]
    /\ UNCHANGED <<now, limiters, bucket, stale, admitted>>

\* The slow path, under the write lock: the entry is there by now, or is made.
Put(c, b) ==
    /\ pc[c] = "create"
    /\ LET k == key[c]
           found == limiters[k] # 0 /\ c \notin stale
           i == IF found THEN limiters[k] ELSE Min({j \in Ids : bucket[j] = NoBucket})
       IN  /\ bucket' = IF found THEN bucket ELSE [bucket EXCEPT ![i] = b]
           /\ limiters' = IF c \in stale THEN limiters ELSE [limiters EXCEPT ![k] = i]
           /\ ref' = [ref EXCEPT ![c] = i]
           /\ pc' = [pc EXCEPT ![c] = IF found THEN "touch" ELSE "allow"]
    /\ UNCHANGED <<now, key, stale, admitted>>

\* Mutant: the new entry is not touched.
CreateUntouched(c) == Put(c, [NewRateLimiter EXCEPT !.lastAccess = -1])

Create(c) == Put(c, NewRateLimiter)

Touch(c) ==
    /\ pc[c] = "touch"
    /\ bucket' = [bucket EXCEPT ![ref[c]].lastAccess = now]
    /\ pc' = [pc EXCEPT ![c] = "allow"]
    /\ UNCHANGED <<now, limiters, key, ref, stale, admitted>>

\* The entry is the one in the registry, not one that was evicted meanwhile.
Current(c) == limiters[key[c]] = ref[c]

Allow(c) ==
    /\ pc[c] = "allow"
    /\ admitted' = IF Takes(bucket[ref[c]]) /\ Current(c)
                   THEN [admitted EXCEPT ![key[c]][now] = @ + 1] ELSE admitted
    /\ ref' = [ref EXCEPT ![c] = 0]
    /\ Collect([bucket EXCEPT ![ref[c]] = AfterAllow(@)], limiters, ref')
    /\ pc' = [pc EXCEPT ![c] = "idle"]
    /\ stale' = stale \ {c}
    /\ UNCHANGED <<now, limiters, key>>

\* evict, by the ticker of cleanupLoop.
Evict ==
    /\ limiters' = [k \in Keys |->
           IF limiters[k] # 0 /\ bucket[limiters[k]].lastAccess < now - TTL THEN 0 ELSE limiters[k]]
    /\ Collect(bucket, limiters', ref)
    /\ UNCHANGED <<now, pc, key, ref, stale, admitted>>

\* Reload puts an empty registry in place: budgets start anew, and calls under way
\* go on with the old one.
Reload ==
    /\ limiters' = [k \in Keys |-> 0]
    /\ Collect(bucket, limiters', ref)
    /\ admitted' = [k \in Keys |-> [t \in Time |-> 0]]
    /\ stale' = {c \in Clients : pc[c] # "idle"}
    /\ UNCHANGED <<now, pc, key, ref>>

\* A call of Allow takes less than a tick.
Tick ==
    /\ now < MaxTime
    /\ \A c \in Clients : pc[c] = "idle"
    /\ now' = now + 1
    /\ UNCHANGED <<limiters, bucket, pc, key, ref, stale, admitted>>

Next ==
    \/ \E c \in Clients :
          \/ \E k \in Keys : Lookup(c, k)
          \/ Create(c) \/ Touch(c) \/ Allow(c)
    \/ Evict
    \/ Reload
    \/ Tick

Spec == Init /\ [][Next]_vars

-----------------------------------------------------------------------------
(* Properties *)

\* The requests of key k let through from tick t on, and their budget.
Since(k, t) == MapThenSumSet(LAMBDA u : admitted[k][u], t .. now)

Budget(t) == Capacity + Rate * (now - t)

\* What a token bucket is: a request is let through exactly when no stretch of
\* time that ends with it would have more requests than the burst and what the rate
\* brings in that time.  The bucket of the registry decides so although entries
\* are evicted, made again full, and shared by requests that race to make them.
Conforms ==
    [][\A c \in Clients : pc[c] = "allow" /\ pc'[c] = "idle" /\ Current(c) =>
          (Takes(bucket[ref[c]]) <=> \A t \in 0 .. now : Cost * (Since(key[c], t) + 1) <= Budget(t))]_vars
=============================================================================
