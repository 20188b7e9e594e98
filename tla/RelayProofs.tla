---------------------------- MODULE RelayProofs ----------------------------
(***************************************************************************)
(* Proofs about Relay for any number of sessions and connections, any      *)
(* queries, pool size and number of reloads.                               *)
(***************************************************************************)
EXTENDS SessionLemmas

-----------------------------------------------------------------------------
(* The inductive invariant of the simple protocol. *)

\* Types.  Only pools that a reload has replaced, or is replacing, are closed.
RelayType ==
    /\ writerPool \in WriterPools
    /\ switches \subseteq AdminSwitches
    /\ closed \subseteq 1 .. MaxReloads
    /\ \A p \in WriterPools : p < writerPool => p \in closed
    /\ numOpen \in [Pools -> Int]
    /\ pc \in [Sessions -> {"read", "acquire", "run", "gone"}]
    /\ sess \in [Sessions -> SessionStates]
    /\ bound \in [Sessions -> Conns \cup {NoConn}]
    /\ boundPool \in [Sessions -> Pools \cup {NoPool}]
    /\ dirty \in [Sessions -> BOOLEAN]
    /\ job \in [Sessions -> Jobs]

\* The connections in a session's locals, by the place it is at: none of its own at
\* the head of the loop, and while a query runs either the bound one or one acquired
\* for that query.
Shape(s) ==
    /\ bound[s] = NoConn <=> boundPool[s] = NoPool
    /\ pc[s] = "gone" => bound[s] = NoConn
    /\ pc[s] \in {"gone", "read"} => job[s] = NoJob
    /\ pc[s] = "acquire" => /\ job[s].conn = NoConn /\ ~job[s].acquired
                            /\ job[s].route = "writer" => job[s].pool \in 1 .. writerPool
    /\ pc[s] = "run" =>
          /\ job[s].route \in {"writer", "reader", "fallback"}
          /\ job[s].conn \in Conns /\ job[s].pool \in Pools
          /\ job[s].route = "writer" => IF job[s].acquired THEN bound[s] = NoConn
                                                          ELSE job[s].conn = bound[s]
          /\ job[s].route # "writer" => job[s].acquired /\ job[s].conn # bound[s]

\* The pool a session has noted for a connection is the one that dialed it, unless a
\* reload came between (then the noted one is closed).
Noted(s) ==
    /\ job[s].acquired /\ job[s].pool \notin closed => home[job[s].conn] = job[s].pool
    /\ bound[s] # NoConn /\ boundPool[s] \notin closed => home[bound[s]] = boundPool[s]

\* Without the read-only mode, a session that believes it is in a transaction has a
\* connection bound for it, and its queries go to the writer.
Transactional(s) ==
    "readonly" \notin AdminSwitches =>
        /\ pc[s] = "gone" => ~sess[s].inTransaction
        /\ pc[s] = "read" /\ sess[s].inTransaction => bound[s] # NoConn
        /\ pc[s] \in {"acquire", "run"} /\ job[s].wasInTx => bound[s] # NoConn
        /\ pc[s] \in {"acquire", "run"} /\ job[s].route # "writer" => ~sess[s].inTransaction

Held == [s \in Sessions |-> {bound[s], job[s].conn} \ {NoConn}]

RelayInv ==
    /\ RelayType
    /\ Places(Held)
    /\ IdleHome
    /\ \A s \in Sessions : Shape(s) /\ Noted(s) /\ Transactional(s)

\* A step of session s leaves the locals of the others alone.
Others(s) ==
    /\ UNCHANGED <<writerPool, closed>>
    /\ \A t \in Sessions \ {s} :
          /\ pc'[t] = pc[t] /\ sess'[t] = sess[t] /\ bound'[t] = bound[t]
          /\ boundPool'[t] = boundPool[t] /\ dirty'[t] = dirty[t] /\ job'[t] = job[t]

\* What a step of session s may do with connections: nothing, take one from a pool, or
\* give one back to the pool it has noted for it.
SlotsKept(s) == UNCHANGED <<idle, numOpen, home>> /\ Held'[s] = Held[s]

SlotTaken(s) ==
    \E p \in Pools, c \in Conns : Takes(p, c) /\ Held'[s] = Held[s] \cup {c}

SlotGiven(s) ==
    \E p \in Pools, c \in Conns :
        /\ c \in Held[s]
        /\ \/ job[s].acquired /\ c = job[s].conn /\ p = job[s].pool
           \/ c = bound[s] /\ p = boundPool[s]
        /\ Given(p, c)
        /\ Held'[s] = Held[s] \ {c}

\* The read-only mode may make a session forget a connection: routing has changed the
\* session's state when the query is rejected.
Forgets(s) ==
    /\ "readonly" \in AdminSwitches
    /\ UNCHANGED <<idle, numOpen, home>> /\ Held'[s] \subseteq Held[s]

Effect(s) == SlotsKept(s) \/ SlotTaken(s) \/ SlotGiven(s) \/ Forgets(s)

\* Such a step keeps RelayInv when the session's own part holds after it.
LEMMA SessionInv ==
    ASSUME RelayInv, RelayType', NEW s \in Sessions, Others(s), Shape(s)', Noted(s)',
           Transactional(s)', Effect(s)
    PROVE  RelayInv'
<1> PICK H : H = Held
  OBVIOUS
<1> PICK N : N = Held'
  OBVIOUS
<1>1. N \in [Sessions -> SUBSET Conns]
  BY DEF Held, RelayType, Jobs
<1>2. \A t \in Sessions \ {s} : N[t] = H[t] /\ Held[t] \subseteq Conns
  BY DEF Held, Others, RelayInv, RelayType, Jobs
<1>3. Places(H)
  BY DEF RelayInv
<1>4. /\ Places(N)'
      /\ \A t \in Sessions \ {s} : \A c \in Held[t] : home'[c] = home[c]
      /\ IdleHome'
  <2>1. CASE SlotsKept(s) \/ Forgets(s)
    <3>1. \A t \in Sessions : N[t] \subseteq H[t]
      BY <1>2, <2>1 DEF SlotsKept, Forgets
    <3>2. Places(N)'
      BY <1>1, <1>3, <2>1, <3>1, PlacesKeep DEF SlotsKept, Forgets
    <3> QED
      BY <2>1, <3>2 DEF SlotsKept, Forgets, RelayInv, IdleHome
  <2>2. CASE SlotTaken(s)
    <3>1. PICK p \in Pools, c \in Conns : Takes(p, c) /\ N[s] \subseteq H[s] \cup {c}
      BY <2>2 DEF SlotTaken
    <3>2. \A t \in Sessions \ {s} : c \notin H[t]
      BY <1>3, <3>1 DEF Places, Takes
    <3>3. \A t \in Sessions \ {s} : N[t] = H[t]
      BY <1>2
    <3>4. IdleHome /\ \A t \in Sessions \ {s} : Held[t] \subseteq Conns /\ c \notin Held[t]
      BY <1>2, <3>2 DEF RelayInv
    <3>5. Places(N)' /\ \A d \in Conns \ {c} : home'[d] = home[d]
      BY <1>1, <1>3, <3>1, <3>3, PlacesTake
    <3>6. IdleHome'
      <4>1. \A q \in Pools : idle'[q] \subseteq idle[q] /\ c \notin idle'[q] /\ idle'[q] \subseteq Conns
        BY <1>3, <3>1, <3>5, PoolNumbers DEF Places, Takes
      <4> QED
        BY <3>4, <3>5, <4>1 DEF IdleHome
    <3> QED
      BY <3>4, <3>5, <3>6
  <2>3. CASE SlotGiven(s)
    <3>1. PICK p \in Pools, c \in H[s] :
            /\ Returned(p, c) /\ (p \in Pools \ closed => home[c] = p) /\ N[s] \subseteq H[s] \ {c}
      <4>1. Noted(s) /\ bound[s] \in Conns \cup {NoConn}
        BY DEF RelayInv, RelayType
      <4> QED
        BY <2>3, <4>1, RelayAssumption DEF SlotGiven, Given, Returned, Noted
    <3>2. \A t \in Sessions \ {s} : c \notin H[t]
      BY <1>3, <3>1 DEF Places
    <3>3. \A t \in Sessions \ {s} : N[t] = H[t]
      BY <1>2
    <3>4. IdleHome /\ \A t \in Sessions \ {s} : Held[t] \subseteq Conns /\ c \notin Held[t]
      BY <1>2, <3>2 DEF RelayInv
    <3>5. Places(N)' /\ \A d \in Conns \ {c} : home'[d] = home[d]
      BY <1>1, <1>3, <3>1, <3>3, PlacesGive
    <3>6. IdleHome'
      <4>1. \A q \in Pools : /\ idle'[q] \subseteq idle[q] \cup {c} /\ idle'[q] \subseteq Conns
                             /\ c \in idle'[q] => q \in Pools \ closed /\ q = p /\ home' = home
        BY <1>3, <3>1, <3>5 DEF Places, Returned
      <4> QED
        BY <3>1, <3>4, <3>5, <4>1 DEF IdleHome
    <3> QED
      BY <3>4, <3>5, <3>6
  <2> QED
    BY <2>1, <2>2, <2>3 DEF Effect
<1>5. ASSUME NEW t \in Sessions, t # s PROVE Shape(t)' /\ Noted(t)' /\ Transactional(t)'
  <2>1. Shape(t) /\ Noted(t) /\ Transactional(t) /\ job[t] \in Jobs /\ bound[t] \in Conns \cup {NoConn}
    BY DEF RelayInv, RelayType
  <2>2. /\ pc'[t] = pc[t] /\ sess'[t] = sess[t] /\ bound'[t] = bound[t] /\ boundPool'[t] = boundPool[t] /\ job'[t] = job[t]
        /\ UNCHANGED <<writerPool, closed>>
    BY <1>5 DEF Others
  <2>3. Shape(t)' /\ Transactional(t)'
    BY <2>1, <2>2, Zenon DEF Shape, Transactional
  <2>4. job[t].acquired => job[t].conn \in Conns
    <3>1. job[t].acquired => pc[t] = "run"
      BY <2>1, Blanks, Zenon DEF Shape, RelayInv, RelayType
    <3> QED
      BY <2>1, <3>1 DEF Shape
  <2>5. /\ job[t].acquired => home'[job[t].conn] = home[job[t].conn]
        /\ bound[t] # NoConn => home'[bound[t]] = home[bound[t]]
    BY <1>4, <1>5, <2>1, <2>4, RelayAssumption, Zenon DEF Held
  <2> QED
    BY <2>1, <2>2, <2>3, <2>5 DEF Noted
<1>6. Places(Held)'
  <2>1. Places(N)' /\ Held' = N
    BY <1>4
  <2> QED
    BY <2>1 DEF Places
<1> QED
  BY <1>4, <1>5, <1>6 DEF RelayInv

\* What the action of a session has to show.
Kept(s) ==
    /\ RelayType'
    /\ Others(s)
    /\ Shape(s)'
    /\ Noted(s)'
    /\ Transactional(s)'
    /\ Effect(s)

\* A connection that pool p hands out to session s is then one of p, and was in nobody's
\* hands.
LEMMA TakeFacts ==
    ASSUME RelayInv, NEW p \in Pools, NEW c \in Conns, Takes(p, c)
    PROVE  /\ home'[c] = p
           /\ \A d \in Conns \ {c} : home'[d] = home[d]
           /\ \A t \in Sessions : c # bound[t] /\ c # job[t].conn
           /\ numOpen' \in [Pools -> Int]
<1>1. Places(Held) /\ IdleHome /\ numOpen \in [Pools -> Int]
  BY DEF RelayInv, RelayType
<1>2. \A t \in Sessions : c \notin Held[t]
  BY <1>1 DEF Places, Takes
<1>3. \A t \in Sessions : c # bound[t] /\ c # job[t].conn
  BY <1>2, RelayAssumption DEF Held
<1> QED
  BY <1>1, <1>3 DEF Places, IdleHome, Takes

\* Release, Discard and the reset give the connection to the pool, or close it.
LEMMA GiveFacts ==
    ASSUME RelayInv, NEW p, NEW c \in Conns, NEW b, NEW d,
           Discards(p, c) \/ Releases(p, c, b) \/ Resets(p, c, b) \/ GivesBack(d, p, c, b)
    PROVE  /\ Given(p, c)
           /\ \A e \in Conns \ {c} : home'[e] = home[e]
           /\ numOpen' \in [Pools -> Int]
<1>1. Given(p, c)
  BY DEF Discards, Releases, Resets, GivesBack, Given
<1>2. home \in [Conns -> Pools \cup {NoPool}] /\ numOpen \in [Pools -> Int]
  BY DEF RelayInv, RelayType, Places
<1> QED
  BY <1>1, <1>2 DEF Given

\* The session ends: what it was bound to is given back, nothing else was in its hands.
LEMMA ReturnsKept ==
    ASSUME RelayInv, NEW s \in Sessions, pc[s] \in {"read", "acquire"}, Returns(s),
           UNCHANGED <<writerPool, switches>>
    PROVE  Kept(s)
<1>1. /\ RelayType /\ Shape(s) /\ Noted(s)
      /\ bound[s] \in Conns \cup {NoConn} /\ boundPool[s] \in Pools \cup {NoPool}
      /\ job[s].conn = NoConn
  BY Blanks DEF RelayInv, RelayType, Shape
<1>2. Ends(s) /\ closed' = closed
  BY DEF Returns, poolVars
<1>3. Others(s)
  BY <1>1, <1>2 DEF Others, Ends, RelayType
<1>4. NoJob \in Jobs /\ NewSession \in SessionStates
  BY Blanks
<1>5. /\ pc'[s] = "gone" /\ sess'[s] = NewSession /\ bound'[s] = NoConn /\ boundPool'[s] = NoPool
      /\ job'[s] = NoJob
  BY <1>1, <1>2 DEF Ends, RelayType
<1>6. Shape(s)' /\ Transactional(s)' /\ Noted(s)'
  BY <1>5, Blanks DEF Shape, Transactional, Noted
<1>7. Held'[s] = {} /\ Held[s] = {bound[s]} \ {NoConn}
  BY <1>1, <1>5, Blanks DEF Held
<1>8. CASE bound[s] = NoConn
  <2>1. UNCHANGED <<idle, numOpen, home>>
    BY <1>8 DEF Returns, poolVars
  <2>2. RelayType'
    BY <1>1, <1>2, <1>4, <2>1 DEF RelayType, Ends
  <2>3. SlotsKept(s)
    BY <1>7, <1>8, <2>1 DEF SlotsKept
  <2> QED
    BY <1>3, <1>6, <2>2, <2>3 DEF Kept, Effect
<1>9. CASE bound[s] # NoConn
  <2>1. GivesBack(dirty[s], boundPool[s], bound[s], backend[bound[s]])
    BY <1>9 DEF Returns
  <2>2. bound[s] \in Conns /\ boundPool[s] \in Pools
    BY <1>1, <1>9 DEF Shape
  <2>3. Given(boundPool[s], bound[s]) /\ numOpen' \in [Pools -> Int]
    BY <2>1, <2>2, GiveFacts
  <2>4. RelayType'
    BY <1>1, <1>2, <1>4, <2>3 DEF RelayType, Ends
  <2>5. SlotGiven(s)
    BY <1>7, <1>9, <2>2, <2>3 DEF SlotGiven
  <2> QED
    BY <1>3, <1>6, <2>4, <2>5 DEF Kept, Effect
<1> QED
  BY <1>8, <1>9

\* A new client, and the queries that need no connection.
LEMMA ConnectKept ==
    ASSUME RelayInv, NEW s \in Sessions, Connect(s)
    PROVE  Kept(s)
<1>1. RelayType /\ Shape(s) /\ Noted(s) /\ Transactional(s)
  BY DEF RelayInv
<1>2. RelayType' /\ Others(s) /\ Shape(s)' /\ Noted(s)' /\ Transactional(s)'
  BY <1>1 DEF Connect, poolVars, RelayType, Others, Shape, Noted, Transactional
<1>3. SlotsKept(s)
  BY DEF Connect, poolVars, SlotsKept, Held
<1> QED
  BY <1>2, <1>3 DEF Kept, Effect

\* Query puts the pool that is the writer's now into the locals.
LEMMA QueryKept ==
    ASSUME RelayInv, NEW s \in Sessions, NEW q \in Queries, Query(s, q)
    PROVE  Kept(s)
<1> DEFINE pins == CompatMode = "pin" /\ Has(q, {"SET"})
           before == [sess[s] EXCEPT !.pinned = @ \/ pins]
<1>1. RelayType /\ Shape(s) /\ Noted(s) /\ Transactional(s) /\ sess[s] \in SessionStates
  BY DEF RelayInv, RelayType
<1>2. /\ before \in SessionStates
      /\ before.inTransaction = sess[s].inTransaction
  BY <1>1, Zenon DEF SessionStates
<1>3. PICK route \in Routes(q, before) :
        /\ sess' = [sess EXCEPT ![s] =
              [before EXCEPT !.inTransaction = TxAfter(q, @),
                             !.wrote = @ \/ (IsWrite(q) /\ ~before.pinned
                                             /\ ~before.inTransaction /\ ~Has(q, TxKeywords))]]
        /\ IF "readonly" \in switches /\ IsWrite(q)
           THEN UNCHANGED <<pc, job>>
           ELSE /\ pc' = [pc EXCEPT ![s] = "acquire"]
                /\ job' = [job EXCEPT ![s] =
                      [query |-> q, route |-> route, conn |-> NoConn, acquired |-> FALSE,
                       wasInTx |-> before.inTransaction, pool |-> writerPool]]
  BY DEF Query
<1>4. /\ route \in {"writer", "reader"}
      /\ before.inTransaction \/ TxAfter(q, before.inTransaction) => route = "writer"
  BY DEF Routes
<1>5. q \in Seq(Statements)
  BY RelayAssumption
<1>6. TxAfter(q, before.inTransaction) \in BOOLEAN
  BY <1>2, Zenon DEF TxAfter, SessionStates
<1>7. /\ pc[s] = "read" /\ job[s] = NoJob
      /\ UNCHANGED <<writerPool, closed, idle, numOpen, home, switches, bound, boundPool>>
      /\ dirty' = [dirty EXCEPT ![s] = @ \/ pins]
  BY <1>1 DEF Query, poolVars, Shape
<1>8. /\ sess' = [sess EXCEPT ![s] = sess'[s]]
      /\ sess'[s] \in SessionStates
      /\ sess'[s].inTransaction = TxAfter(q, before.inTransaction)
  <2> HIDE DEF before, pins
  <2>1. /\ IsWrite(q) \in BOOLEAN
        /\ Has(q, TxKeywords) \in BOOLEAN
    BY DEF IsWrite, Has
  <2>2. PICK w \in BOOLEAN :
          sess' = [sess EXCEPT ![s] = [before EXCEPT !.inTransaction = TxAfter(q, before.inTransaction),
                                                     !.wrote = w]]
    <3>1. PICK w : w = (before.wrote \/ (IsWrite(q) /\ ~before.pinned
                                        /\ ~before.inTransaction /\ ~Has(q, TxKeywords)))
      OBVIOUS
    <3>2. w \in BOOLEAN
      BY <3>1
    <3> QED
      BY <1>2, <1>3, <3>1, <3>2, Zenon DEF SessionStates
  <2>3. PICK r : r = [before EXCEPT !.inTransaction = TxAfter(q, before.inTransaction), !.wrote = w]
    OBVIOUS
  <2>4. r \in SessionStates /\ r.inTransaction = TxAfter(q, before.inTransaction)
    BY <1>2, <1>6, <2>3, Zenon DEF SessionStates
  <2>5. sess' = [sess EXCEPT ![s] = r]
    BY <2>2, <2>3
  <2>6. sess'[s] = r
    BY <1>1, <2>5 DEF RelayType
  <2> QED
    BY <2>4, <2>5, <2>6, Zenon
<1>9. /\ pins \in BOOLEAN
      /\ "readonly" \in switches => "readonly" \in AdminSwitches
  BY <1>1 DEF RelayType
<1> HIDE DEF before, pins
<1>10. Others(s)
  BY <1>1, <1>3, <1>7, <1>8 DEF Others, RelayType
<1>11. CASE "readonly" \in switches /\ IsWrite(q)
  <2>1. UNCHANGED <<pc, job>>
    BY <1>3, <1>11
  <2>2. RelayType'
    BY <1>1, <1>7, <1>8, <1>9, <2>1 DEF RelayType
  <2>3. Shape(s)' /\ Noted(s)'
    BY <1>1, <1>7, <2>1, Zenon DEF Shape, Noted
  <2>4. Transactional(s)'
    BY <1>9, <1>11 DEF Transactional
  <2>5. SlotsKept(s)
    BY <1>7, <2>1, Zenon DEF SlotsKept, Held
  <2> QED
    BY <1>10, <2>2, <2>3, <2>4, <2>5 DEF Kept, Effect
<1>12. CASE ~("readonly" \in switches /\ IsWrite(q))
  <2> DEFINE j == [query |-> q, route |-> route, conn |-> NoConn, acquired |-> FALSE,
                   wasInTx |-> before.inTransaction, pool |-> writerPool]
  <2>1. pc' = [pc EXCEPT ![s] = "acquire"] /\ job' = [job EXCEPT ![s] = j]
    BY <1>3, <1>12
  <2>2. /\ j \in Jobs /\ j.conn = NoConn /\ j.acquired = FALSE /\ j.route = route
        /\ j.pool = writerPool /\ j.wasInTx = before.inTransaction
    BY <1>1, <1>2, <1>4, <1>5, PoolNumbers DEF Jobs, SessionStates, RelayType
  <2> HIDE DEF j
  <2>3. RelayType'
    BY <1>1, <1>7, <1>8, <1>9, <2>1, <2>2 DEF RelayType
  <2>4. job'[s] = j /\ pc'[s] = "acquire"
    BY <1>1, <2>1 DEF RelayType
  <2>5. writerPool \in 1 .. writerPool
    BY <1>1, RelayAssumption DEF RelayType, WriterPools
  <2>6. Shape(s)' /\ Noted(s)'
    BY <1>1, <1>7, <2>2, <2>4, <2>5, Zenon DEF Shape, Noted
  <2>7. Transactional(s)'
    BY <1>1, <1>2, <1>4, <1>7, <1>8, <2>2, <2>4, Zenon DEF Transactional
  <2>8. SlotsKept(s)
    <3>1. job[s].conn = NoConn /\ job'[s].conn = NoConn /\ bound' = bound
      BY <1>7, <2>2, <2>4, Blanks
    <3>2. Held'[s] = Held[s]
      BY <3>1 DEF Held
    <3> QED
      BY <1>7, <3>2, Zenon DEF SlotsKept
  <2> QED
    BY <1>10, <2>3, <2>6, <2>7, <2>8 DEF Kept, Effect
<1> QED
  BY <1>11, <1>12

\* The bound connection is used; a read falls back to the writer; a read is answered
\* from the cache.
LEMMA UseBoundKept ==
    ASSUME RelayInv, NEW s \in Sessions, UseBound(s) \/ ReadFallsBack(s) \/ CacheHit(s)
    PROVE  Kept(s)
<1>1. RelayType /\ Shape(s) /\ Noted(s) /\ Transactional(s) /\ job[s] \in Jobs
  BY DEF RelayInv, RelayType
<1>2. /\ UNCHANGED <<writerPool, closed, idle, numOpen, home, switches, sess, bound, boundPool, dirty>>
      /\ pc[s] = "acquire" /\ job[s].conn = NoConn /\ ~job[s].acquired
  BY <1>1 DEF UseBound, ReadFallsBack, CacheHit, poolVars, Shape
<1>3. PICK j \in Jobs, at \in {"read", "acquire", "run"} :
        /\ job' = [job EXCEPT ![s] = j] /\ pc' = [pc EXCEPT ![s] = at]
        /\ \/ /\ at = "run" /\ job[s].route = "writer" /\ bound[s] # NoConn
              /\ j = [job[s] EXCEPT !.conn = bound[s]]
           \/ /\ at = "acquire" /\ job[s].route = "reader"
              /\ j = [job[s] EXCEPT !.route = "fallback"]
           \/ at = "read" /\ j = NoJob /\ job[s].route = "reader"
  <2>1. NoJob \in Jobs
    BY Blanks
  <2>2. CASE UseBound(s)
    <3>1. [job[s] EXCEPT !.conn = bound[s]] \in Jobs
      BY <1>1, Zenon DEF Jobs, RelayType
    <3> QED
      BY <2>2, <3>1, Zenon DEF UseBound
  <2>3. CASE ReadFallsBack(s)
    <3>1. [job[s] EXCEPT !.route = "fallback"] \in Jobs
      BY <1>1 DEF Jobs
    <3>2. pc' = [pc EXCEPT ![s] = "acquire"]
      BY <1>1, <1>2, <2>3 DEF ReadFallsBack, RelayType
    <3> QED
      BY <2>3, <3>1, <3>2, Zenon DEF ReadFallsBack
  <2>4. CASE CacheHit(s)
    BY <2>1, <2>4, Zenon DEF CacheHit
  <2> QED
    BY <2>2, <2>3, <2>4
<1>4. job'[s] = j /\ pc'[s] = at
  BY <1>1, <1>3 DEF RelayType
<1>5. RelayType' /\ Others(s)
  BY <1>1, <1>2, <1>3 DEF RelayType, Others
<1>6. /\ j.conn = IF at = "run" THEN bound[s] ELSE NoConn
      /\ ~j.acquired
      /\ at # "read" => j.wasInTx = job[s].wasInTx /\ j.pool = job[s].pool
      /\ at = "read" => job[s].route = "reader" /\ j = NoJob
      /\ at = "run" => j.route = "writer" /\ bound[s] # NoConn
      /\ at = "acquire" => j.route = "fallback" /\ job[s].route = "reader"
  <2>1. CASE at = "run"
    BY <1>1, <1>2, <1>3, <2>1 DEF Jobs
  <2>2. CASE at = "acquire"
    BY <1>1, <1>2, <1>3, <2>2 DEF Jobs
  <2>3. CASE at = "read"
    BY <1>3, <2>3, Blanks
  <2> QED
    BY <1>3, <2>1, <2>2, <2>3
<1>7. at = "run" => j.pool \in Pools
  <2>1. at = "run" => job[s].pool \in 1 .. writerPool
    BY <1>1, <1>2, <1>3 DEF Shape
  <2>2. 1 .. writerPool \subseteq Pools
    BY <1>1, RelayAssumption DEF RelayType, Pools, WriterPools
  <2> QED
    BY <1>6, <2>1, <2>2
<1>8. Shape(s)' /\ Noted(s)' /\ Transactional(s)'
  <2>1. Shape(s)'
    BY <1>1, <1>2, <1>4, <1>6, <1>7, Zenon DEF Shape, RelayType
  <2>2. Noted(s)' /\ Transactional(s)'
    BY <1>1, <1>2, <1>4, <1>6, Zenon DEF Noted, Transactional
  <2> QED
    BY <2>1, <2>2
<1>9. SlotsKept(s)
  BY <1>2, <1>4, <1>6 DEF SlotsKept, Held
<1> QED
  BY <1>5, <1>8, <1>9 DEF Kept, Effect

\* A connection is borrowed: from the writer's pool of the moment, while the locals may
\* say an earlier one, which a reload has closed then; or from the pool noted with it.
LEMMA AcquireKept ==
    ASSUME RelayInv, NEW s \in Sessions, AcquireWriter(s) \/ AcquireReader(s)
    PROVE  Kept(s)
<1>1. RelayType /\ Shape(s) /\ Noted(s) /\ Transactional(s) /\ job[s] \in Jobs
  BY DEF RelayInv, RelayType
<1>2. /\ UNCHANGED <<writerPool, closed, switches, sess, bound, boundPool, dirty>>
      /\ pc[s] = "acquire" /\ job[s].conn = NoConn /\ ~job[s].acquired
      /\ pc' = [pc EXCEPT ![s] = "run"]
  BY <1>1, Zenon DEF AcquireWriter, AcquireReader, Shape
<1>3. writerPool \in Pools /\ 1 .. writerPool \subseteq Pools
  BY <1>1, RelayAssumption DEF RelayType, Pools, WriterPools
<1>4. PICK p \in Pools, c \in Conns, n \in Pools :
        /\ Takes(p, c)
        /\ job' = [job EXCEPT ![s] = [job[s] EXCEPT !.conn = c, !.acquired = TRUE, !.pool = n]]
        /\ \/ /\ job[s].route = "writer" /\ bound[s] = NoConn /\ p = writerPool
              /\ n \in 1 .. writerPool
           \/ job[s].route \in {"reader", "fallback"} /\ n = p
  <2>1. CASE AcquireWriter(s)
    <3>1. PICK c \in Conns : Takes(writerPool, c) /\ job' = [job EXCEPT ![s].conn = c, ![s].acquired = TRUE]
      BY <2>1, Zenon DEF AcquireWriter
    <3>2. job[s].route = "writer" /\ bound[s] = NoConn /\ job[s].pool \in 1 .. writerPool
      BY <1>1, <1>2, <2>1 DEF AcquireWriter, Shape
    <3>3. [job[s] EXCEPT !.conn = c, !.acquired = TRUE]
            = [job[s] EXCEPT !.conn = c, !.acquired = TRUE, !.pool = job[s].pool]
      BY <1>1, Zenon DEF Jobs
    <3>4. job' = [job EXCEPT ![s] = [job[s] EXCEPT !.conn = c, !.acquired = TRUE]]
      BY <1>1, <3>1, Zenon DEF RelayType
    <3> QED
      BY <1>3, <3>1, <3>2, <3>3, <3>4, Zenon
  <2>2. CASE AcquireReader(s)
    <3> DEFINE p == IF job[s].route = "reader" THEN Reader ELSE writerPool
    <3>1. PICK c \in Conns :
            /\ Takes(p, c)
            /\ job' = [job EXCEPT ![s].conn = c, ![s].acquired = TRUE, ![s].pool = p]
      BY <2>2, Zenon DEF AcquireReader
    <3>2. job[s].route \in {"reader", "fallback"} /\ p \in Pools
      BY <1>3, <2>2, PoolNumbers, Zenon DEF AcquireReader
    <3> HIDE DEF p
    <3>3. job' = [job EXCEPT ![s] = [job[s] EXCEPT !.conn = c, !.acquired = TRUE, !.pool = p]]
      BY <1>1, <3>1, Zenon DEF RelayType
    <3> QED
      BY <3>1, <3>2, <3>3, Zenon
  <2> QED
    BY <2>1, <2>2, Zenon
<1>5. PICK j : j = [job[s] EXCEPT !.conn = c, !.acquired = TRUE, !.pool = n]
  OBVIOUS
<1>6. /\ j \in Jobs /\ j.conn = c /\ j.acquired /\ j.pool = n
      /\ j.route = job[s].route /\ j.wasInTx = job[s].wasInTx
  BY <1>1, <1>5, Zenon DEF Jobs
<1>7. job' = [job EXCEPT ![s] = j]
  BY <1>4, <1>5
<1>8. job'[s] = j /\ pc'[s] = "run"
  BY <1>1, <1>2, <1>7 DEF RelayType
<1>9. /\ home'[c] = p /\ \A d \in Conns \ {c} : home'[d] = home[d]
      /\ c # bound[s]
      /\ numOpen' \in [Pools -> Int]
  BY <1>4, TakeFacts
<1>10. RelayType' /\ Others(s)
  BY <1>1, <1>2, <1>6, <1>7, <1>9, Zenon DEF RelayType, Others
<1>11. Shape(s)'
  BY <1>1, <1>2, <1>4, <1>6, <1>8, <1>9 DEF Shape
<1>12. n \notin closed => n = p
  <2>1. CASE n \in 1 .. writerPool /\ p = writerPool
    <3>1. n < writerPool => n \in closed
      BY <1>1, <2>1, RelayAssumption DEF RelayType, WriterPools
    <3> QED
      BY <1>1, <2>1, <3>1, RelayAssumption DEF RelayType, WriterPools
  <2> QED
    BY <1>4, <2>1
<1>13. Noted(s)' /\ Transactional(s)'
  <2>1. bound[s] # NoConn => home'[bound[s]] = home[bound[s]]
    BY <1>1, <1>9 DEF RelayType
  <2>2. Noted(s)'
    BY <1>1, <1>2, <1>6, <1>8, <1>9, <1>12, <2>1 DEF Noted
  <2>3. Transactional(s)'
    BY <1>1, <1>2, <1>6, <1>8, Zenon DEF Transactional
  <2> QED
    BY <2>2, <2>3
<1>14. SlotTaken(s)
  <2>1. Held'[s] = Held[s] \cup {c}
    BY <1>2, <1>6, <1>8, RelayAssumption, Zenon DEF Held
  <2> QED
    BY <1>4, <2>1 DEF SlotTaken
<1> QED
  BY <1>10, <1>11, <1>13, <1>14 DEF Kept, Effect

\* A read gives its own connection back, and the bound one stays as it is.
LEMMA ServeReadKept ==
    ASSUME RelayInv, NEW s \in Sessions, ServeRead(s) \/ ServeReadFails(s)
    PROVE  Kept(s)
<1>1. RelayType /\ Shape(s) /\ Noted(s) /\ Transactional(s) /\ job[s] \in Jobs
  BY DEF RelayInv, RelayType
<1>2. /\ UNCHANGED <<writerPool, closed, switches, sess, bound, boundPool, dirty>>
      /\ pc[s] = "run" /\ job[s].route \in {"reader", "fallback"}
  BY Zenon DEF ServeRead, ServeReadFails
<1>3. /\ job[s].conn \in Conns /\ job[s].pool \in Pools /\ job[s].acquired /\ job[s].conn # bound[s]
      /\ bound[s] = NoConn <=> boundPool[s] = NoPool
  BY <1>1, <1>2 DEF Shape
<1>4. \E b : Discards(job[s].pool, job[s].conn) \/ Releases(job[s].pool, job[s].conn, b)
  BY Zenon DEF ServeRead, ServeReadFails
<1>5. /\ Given(job[s].pool, job[s].conn)
      /\ \A d \in Conns \ {job[s].conn} : home'[d] = home[d]
      /\ numOpen' \in [Pools -> Int]
  BY <1>3, <1>4, GiveFacts, Zenon
<1>6. PICK j \in Jobs, at \in {"read", "acquire"} :
        /\ job' = [job EXCEPT ![s] = j] /\ pc' = [pc EXCEPT ![s] = at]
        /\ j.conn = NoConn /\ ~j.acquired /\ j.route # "writer"
        /\ at = "read" => j = NoJob
        /\ at = "acquire" => j.wasInTx = job[s].wasInTx
  <2>1. CASE ServeRead(s)
    <3>1. NoJob \in Jobs /\ NoJob.conn = NoConn /\ ~NoJob.acquired /\ NoJob.route # "writer"
      BY Blanks
    <3> QED
      BY <2>1, <3>1, Zenon DEF ServeRead
  <2>2. CASE ServeReadFails(s)
    <3>1. PICK next \in {"failed", "fallback"} :
            job' = [job EXCEPT ![s].route = next, ![s].conn = NoConn, ![s].acquired = FALSE]
      BY <2>2, Zenon DEF ServeReadFails
    <3>2. PICK j : j = [job[s] EXCEPT !.route = next, !.conn = NoConn, !.acquired = FALSE]
      OBVIOUS
    <3>3. /\ j \in Jobs /\ j.conn = NoConn /\ ~j.acquired /\ j.route # "writer"
          /\ j.wasInTx = job[s].wasInTx
      BY <1>1, <3>1, <3>2, Zenon DEF Jobs
    <3>4. job' = [job EXCEPT ![s] = j]
      BY <1>1, <3>1, <3>2, Zenon DEF RelayType
    <3> QED
      BY <2>2, <3>3, <3>4, Zenon DEF ServeReadFails
  <2> QED
    BY <2>1, <2>2
<1>7. job'[s] = j /\ pc'[s] = at
  BY <1>1, <1>6 DEF RelayType
<1>8. RelayType' /\ Others(s)
  BY <1>1, <1>2, <1>5, <1>6, Zenon DEF RelayType, Others
<1>9. Shape(s)'
  BY <1>2, <1>3, <1>6, <1>7 DEF Shape
<1>10. Noted(s)'
  BY <1>1, <1>2, <1>3, <1>5, <1>6, <1>7, Zenon DEF Noted, RelayType
<1>11. Transactional(s)'
  BY <1>1, <1>2, <1>6, <1>7, Zenon DEF Transactional
<1>12. SlotGiven(s)
  <2>1. Held'[s] = Held[s] \ {job[s].conn} /\ job[s].conn \in Held[s]
    BY <1>2, <1>3, <1>6, <1>7, RelayAssumption DEF Held
  <2> QED
    BY <1>3, <1>5, <2>1, Zenon DEF SlotGiven
<1> QED
  BY <1>8, <1>9, <1>10, <1>11, <1>12 DEF Kept, Effect

\* The writer's answer: the connection stays bound, becomes bound, or is given back; a
\* session that forgets it was misled by the read-only mode.
LEMMA ServeWriteKept ==
    ASSUME RelayInv, NEW s \in Sessions, ServeWrite(s)
    PROVE  Kept(s)
<1> DEFINE j == job[s]
           c == j.conn
           Stays == /\ UNCHANGED <<idle, numOpen, home, sess>>
                    /\ Binds(s, bound[s], boundPool[s])
           Becomes == /\ UNCHANGED <<idle, numOpen, home, sess>>
                      /\ Binds(s, c, j.pool)
           Gone(p) == \E b, d : Unbinds(s, d, p, c, b)
<1>1. /\ RelayType /\ Shape(s) /\ Noted(s) /\ Transactional(s) /\ j \in Jobs
      /\ sess[s] \in SessionStates
  BY DEF RelayInv, RelayType
<1>2. /\ UNCHANGED <<writerPool, closed, switches>>
      /\ pc[s] = "run" /\ j.route = "writer"
  BY DEF ServeWrite
<1>3. /\ c \in Conns /\ j.pool \in Pools
      /\ IF j.acquired THEN bound[s] = NoConn ELSE c = bound[s]
      /\ bound[s] = NoConn <=> boundPool[s] = NoPool
      /\ bound[s] \in Conns \cup {NoConn} /\ boundPool[s] \in Pools \cup {NoPool}
  BY <1>1, <1>2 DEF Shape, RelayType
<1>4. NoJob \in Jobs /\ NoJob.conn = NoConn /\ ~NoJob.acquired
  BY Blanks
<1>5. \/ ~j.acquired /\ Stays
      \/ j.acquired /\ Becomes
      \/ /\ sess[s].inTransaction => "readonly" \in AdminSwitches
         /\ j.acquired /\ Gone(j.pool)
      \/ ~sess[s].inTransaction /\ ~j.acquired /\ Gone(boundPool[s])
      \/ "readonly" \in AdminSwitches /\ j.acquired /\ Stays
      \/ /\ "readonly" \in AdminSwitches /\ Ends(s) /\ UNCHANGED <<idle, numOpen, home>>
  <2>1. j.wasInTx /\ j.acquired => "readonly" \in AdminSwitches
    BY <1>1, <1>2, <1>3, Zenon DEF Transactional
  <2>2. j.wasInTx \in BOOLEAN /\ j.acquired \in BOOLEAN /\ sess[s].inTransaction \in BOOLEAN
        /\ sess[s].pinned \in BOOLEAN
    BY <1>1 DEF Jobs, SessionStates
  <2>3. CASE ~j.wasInTx /\ sess[s].inTransaction
    BY <1>3, <2>3, Zenon DEF ServeWrite
  <2>4. CASE j.wasInTx /\ ~sess[s].inTransaction /\ sess[s].pinned
    BY <1>3, <2>1, <2>4, Zenon DEF ServeWrite
  <2>5. CASE j.wasInTx /\ ~sess[s].inTransaction /\ ~sess[s].pinned /\ boundPool[s] # NoPool
    BY <1>3, <2>5, Zenon DEF ServeWrite
  <2>6. CASE j.wasInTx /\ ~sess[s].inTransaction /\ ~sess[s].pinned /\ boundPool[s] = NoPool
    BY <1>3, <2>1, <2>6, RelayAssumption, Zenon DEF ServeWrite, Panics
  <2>7. CASE j.wasInTx = sess[s].inTransaction /\ j.acquired /\ sess[s].pinned
    BY <1>3, <2>7 DEF ServeWrite
  <2>8. CASE j.wasInTx = sess[s].inTransaction /\ j.acquired /\ ~sess[s].pinned
    BY <1>3, <2>1, <2>8 DEF ServeWrite
  <2>9. CASE j.wasInTx = sess[s].inTransaction /\ ~j.acquired
    BY <1>3, <2>9 DEF ServeWrite
  <2> QED
    BY <2>2, <2>3, <2>4, <2>5, <2>6, <2>7, <2>8, <2>9, Zenon
<1>6. \/ /\ job' = [job EXCEPT ![s] = NoJob] /\ dirty' = [dirty EXCEPT ![s] = dirty'[s]]
         /\ dirty'[s] \in BOOLEAN
      \/ Ends(s)
  <2>1. (dirty[s] \/ IsSessionModifying(j.query)) \in BOOLEAN
    OBVIOUS
  <2> QED
    BY <1>1, <2>1, Zenon DEF ServeWrite, Panics, RelayType
<1>7. /\ job' = [job EXCEPT ![s] = NoJob] /\ job'[s] = NoJob
      /\ dirty' = [dirty EXCEPT ![s] = dirty'[s]] /\ dirty'[s] \in BOOLEAN
  BY <1>1, <1>6, Zenon DEF Ends, RelayType
<1>8. Held[s] = {c}
  BY <1>3, RelayAssumption DEF Held
<1>9. CASE Ends(s) /\ "readonly" \in AdminSwitches /\ UNCHANGED <<idle, numOpen, home>>
  <2>1. NewSession \in SessionStates
    BY Blanks
  <2>2. RelayType' /\ Others(s)
    BY <1>1, <1>2, <1>4, <1>9, <2>1 DEF RelayType, Others, Ends
  <2>3. pc'[s] = "gone" /\ bound'[s] = NoConn /\ boundPool'[s] = NoPool
    BY <1>1, <1>9 DEF Ends, RelayType
  <2>4. Shape(s)' /\ Noted(s)' /\ Transactional(s)'
    BY <1>4, <1>7, <1>9, <2>3, Zenon DEF Shape, Noted, Transactional
  <2>5. Forgets(s)
    BY <1>4, <1>7, <1>9, <2>3, Zenon DEF Forgets, Held
  <2> QED
    BY <2>2, <2>4, <2>5 DEF Kept, Effect
<1>10. CASE \/ ~j.acquired /\ Stays
            \/ j.acquired /\ Becomes
            \/ "readonly" \in AdminSwitches /\ j.acquired /\ Stays
  <2>1. PICK d \in Conns \cup {NoConn}, p \in Pools \cup {NoPool} :
          /\ Binds(s, d, p) /\ UNCHANGED <<idle, numOpen, home, sess>>
          /\ (d = bound[s] /\ p = boundPool[s]) \/ (d = c /\ p = j.pool /\ j.acquired)
          /\ "readonly" \notin AdminSwitches => d = c
    BY <1>3, <1>10
  <2>2. pc'[s] = "read" /\ bound'[s] = d /\ boundPool'[s] = p
    BY <1>1, <2>1 DEF Binds, RelayType
  <2>3. RelayType' /\ Others(s)
    BY <1>1, <1>2, <1>4, <1>7, <2>1 DEF RelayType, Others, Binds
  <2>4. d = NoConn <=> p = NoPool
    BY <1>3, <2>1, PoolNumbers, RelayAssumption
  <2>5. Shape(s)'
    BY <1>7, <2>2, <2>4 DEF Shape
  <2>6. Noted(s)'
    BY <1>1, <1>2, <1>4, <1>7, <2>1, <2>2, Zenon DEF Noted
  <2>7. Transactional(s)'
    BY <1>3, <2>1, <2>2, RelayAssumption, Zenon DEF Transactional
  <2>8. Effect(s)
    <3>1. Held'[s] = {d} \ {NoConn}
      BY <1>4, <1>7, <2>2 DEF Held
    <3> QED
      BY <1>3, <1>8, <2>1, <3>1, RelayAssumption, Zenon DEF Effect, SlotsKept, Forgets
  <2> QED
    BY <2>3, <2>5, <2>6, <2>7, <2>8 DEF Kept
<1>11. ASSUME NEW p \in Pools, Gone(p), sess[s].inTransaction => "readonly" \in AdminSwitches,
              (j.acquired /\ p = j.pool) \/ (~j.acquired /\ p = boundPool[s])
       PROVE  Kept(s)
  <2>1. PICK b, d : GivesBack(d, p, c, b) /\ Binds(s, NoConn, NoPool) /\ UNCHANGED sess
    BY <1>11 DEF Unbinds
  <2>2. Given(p, c) /\ numOpen' \in [Pools -> Int]
    BY <1>3, <2>1, GiveFacts, Zenon
  <2>3. pc'[s] = "read" /\ bound'[s] = NoConn /\ boundPool'[s] = NoPool
    BY <1>1, <2>1 DEF Binds, RelayType
  <2>4. RelayType' /\ Others(s)
    BY <1>1, <1>2, <1>4, <1>7, <2>1, <2>2 DEF RelayType, Others, Binds
  <2>5. Shape(s)' /\ Noted(s)'
    BY <1>4, <1>7, <2>3 DEF Shape, Noted
  <2>6. Transactional(s)'
    BY <1>11, <2>1, <2>3, Zenon DEF Transactional
  <2>7. SlotGiven(s)
    <3>1. Held'[s] = {}
      BY <1>4, <1>7, <2>3 DEF Held
    <3> QED
      BY <1>3, <1>8, <1>11, <2>2, <3>1, Zenon DEF SlotGiven
  <2> QED
    BY <2>4, <2>5, <2>6, <2>7 DEF Kept, Effect
<1>12. ~j.acquired => boundPool[s] \in Pools
  BY <1>3, RelayAssumption
<1> HIDE DEF j, c, Stays, Becomes, Gone
<1> QED
  BY <1>3, <1>5, <1>9, <1>10, <1>11, <1>12, Zenon

\* The connection of a write that fails is closed, and the session ends.
LEMMA ServeWriteFailsKept ==
    ASSUME RelayInv, NEW s \in Sessions, ServeWriteFails(s)
    PROVE  Kept(s)
<1>1. RelayType /\ Shape(s) /\ Noted(s) /\ Transactional(s) /\ job[s] \in Jobs
  BY DEF RelayInv, RelayType
<1>2. /\ UNCHANGED <<writerPool, closed, switches>> /\ Ends(s)
      /\ pc[s] = "run" /\ job[s].route = "writer"
  BY DEF ServeWriteFails
<1>3. /\ job[s].conn \in Conns /\ job[s].pool \in Pools
      /\ IF job[s].acquired THEN bound[s] = NoConn ELSE job[s].conn = bound[s]
      /\ bound[s] = NoConn <=> boundPool[s] = NoPool
      /\ bound[s] \in Conns \cup {NoConn} /\ boundPool[s] \in Pools \cup {NoPool}
  BY <1>1, <1>2 DEF Shape, RelayType
<1>4. PICK p \in Pools :
        /\ Discards(p, job[s].conn)
        /\ p = IF job[s].acquired THEN job[s].pool ELSE boundPool[s]
  BY <1>3, RelayAssumption DEF ServeWriteFails
<1>5. Given(p, job[s].conn) /\ numOpen' \in [Pools -> Int]
  BY <1>3, <1>4, GiveFacts
<1>6. /\ NewSession \in SessionStates /\ ~NewSession.inTransaction
      /\ NoJob \in Jobs /\ NoJob.conn = NoConn /\ ~NoJob.acquired
  BY Blanks
<1>7. RelayType' /\ Others(s)
  BY <1>1, <1>2, <1>5, <1>6, Zenon DEF RelayType, Others, Ends
<1>8. /\ pc'[s] = "gone" /\ bound'[s] = NoConn /\ boundPool'[s] = NoPool
      /\ job'[s] = NoJob /\ sess'[s] = NewSession
  BY <1>1, <1>2 DEF Ends, RelayType
<1>9. Shape(s)' /\ Noted(s)' /\ Transactional(s)'
  BY <1>6, <1>8 DEF Shape, Noted, Transactional
<1>10. SlotGiven(s)
  <2>1. Held'[s] = {} /\ Held[s] = {job[s].conn}
    BY <1>3, <1>6, <1>8, RelayAssumption, Zenon DEF Held
  <2> QED
    BY <1>3, <1>4, <1>5, <2>1 DEF SlotGiven
<1> QED
  BY <1>7, <1>9, <1>10 DEF Kept, Effect

\* Every session step is one of those.
LEMMA SessionKept ==
    ASSUME RelayInv, NEW s \in Sessions,
           \/ Connect(s) \/ Disconnect(s) \/ MaintenanceRejects(s)
           \/ \E q \in Queries : Query(s, q)
           \/ SessionStep(s)
    PROVE  Kept(s)
<1>1. CASE Connect(s)
  BY <1>1, ConnectKept
<1>2. CASE Disconnect(s) \/ MaintenanceRejects(s) \/ AcquireFails(s)
  BY <1>2, ReturnsKept DEF Disconnect, MaintenanceRejects, AcquireFails
<1>3. CASE \E q \in Queries : Query(s, q)
  BY <1>3, QueryKept
<1>4. CASE UseBound(s) \/ ReadFallsBack(s) \/ CacheHit(s)
  BY <1>4, UseBoundKept
<1>5. CASE AcquireWriter(s) \/ AcquireReader(s)
  BY <1>5, AcquireKept
<1>6. CASE ServeRead(s) \/ ServeReadFails(s)
  BY <1>6, ServeReadKept
<1>7. CASE ServeWrite(s)
  BY <1>7, ServeWriteKept
<1>8. CASE ServeWriteFails(s)
  BY <1>8, ServeWriteFailsKept
<1> QED
  BY <1>1, <1>2, <1>3, <1>4, <1>5, <1>6, <1>7, <1>8 DEF SessionStep

\* The initial state.
LEMMA RelayStart == Init => RelayInv
<1> SUFFICES ASSUME Init PROVE RelayInv
  OBVIOUS
<1>1. NoJob \in Jobs /\ NoJob.conn = NoConn /\ ~NoJob.acquired /\ NewSession \in SessionStates
      /\ ~NewSession.inTransaction
  BY Blanks
<1>2. RelayType
  BY <1>1, RelayAssumption DEF Init, RelayType, WriterPools
<1>3. Held = [s \in Sessions |-> {}]
  BY <1>1 DEF Init, Held
<1>4. Places(Held)
  BY <1>3 DEF Init, Places
<1>5. IdleHome
  BY DEF Init, IdleHome
<1>6. \A s \in Sessions : Shape(s) /\ Noted(s) /\ Transactional(s)
  BY <1>1 DEF Init, Shape, Noted, Transactional
<1> QED
  BY <1>2, <1>4, <1>5, <1>6 DEF RelayInv

\* A reload closes the pool, then puts the new one in place.
LEMMA ReloadInv ==
    ASSUME RelayInv, ReloadClose \/ ReloadSwap
    PROVE  RelayInv'
<1>1. /\ RelayType /\ Places(Held) /\ IdleHome /\ writerPool \in Pools /\ writerPool \in Nat
      /\ \A s \in Sessions : Shape(s) /\ Noted(s) /\ Transactional(s)
  BY RelayAssumption DEF RelayInv, RelayType, Pools, WriterPools
<1>2. PICK H : H = Held
  OBVIOUS
<1>3. UNCHANGED <<switches, pc, sess, bound, boundPool, dirty, job>> /\ Held' = Held
  BY DEF ReloadClose, ReloadSwap, Held
<1>4. CASE ReloadClose
  <2>1. Places(H)' /\ \A s \in Sessions : \A c \in H[s] : home'[c] = home[c]
    BY <1>1, <1>2, <1>4, PlacesReload
  <2>2. Places(Held)'
    BY <1>2, <1>3, <2>1 DEF Places
  <2>3. Cardinality(idle[writerPool]) \in Int
    BY <1>1, RelayAssumption, FS_CardinalityType, FS_Subset DEF Places
  <2>4. RelayType'
    <3>1. numOpen' \in [Pools -> Int]
      <4>1. PICK n \in Int : n = Cardinality(idle[writerPool])
        BY <2>3, Zenon
      <4>2. numOpen' = [numOpen EXCEPT ![writerPool] = @ - n]
        BY <1>4, <4>1, Zenon DEF ReloadClose
      <4>3. numOpen \in [Pools -> Int] /\ numOpen[writerPool] \in Int
        BY <1>1, Zenon DEF RelayType
      <4>4. numOpen[writerPool] - n \in Int
        BY <4>1, <4>3
      <4> QED
        BY <4>2, <4>3, <4>4, Zenon
    <3>2. closed' = closed \cup {writerPool} /\ writerPool <= MaxReloads /\ writerPool' = writerPool
      BY <1>4, Zenon DEF ReloadClose
    <3>3. closed' \subseteq 1 .. MaxReloads
      BY <1>1, <3>2, RelayAssumption DEF RelayType, WriterPools
    <3> QED
      BY <1>1, <1>3, <3>1, <3>2, <3>3, Zenon DEF RelayType
  <2>5. IdleHome'
    BY <1>1, <1>4 DEF IdleHome, Places, ReloadClose
  <2>6. ASSUME NEW s \in Sessions PROVE Shape(s)' /\ Noted(s)' /\ Transactional(s)'
    <3>0. writerPool' = writerPool
      BY <1>4, Zenon DEF ReloadClose
    <3>1. Shape(s)' /\ Transactional(s)'
      BY <1>1, <1>3, <3>0, Zenon DEF Shape, Transactional
    <3>2. job[s].acquired => job[s].conn \in Conns
      BY <1>1, Blanks DEF Shape, RelayType
    <3>3. /\ job[s].acquired => home'[job[s].conn] = home[job[s].conn]
          /\ bound[s] # NoConn => home'[bound[s]] = home[bound[s]]
      <4>1. /\ job[s].acquired => job[s].conn \in Held[s]
            /\ bound[s] # NoConn => bound[s] \in Held[s]
        BY <3>2, RelayAssumption DEF Held
      <4> QED
        BY <1>2, <2>1, <4>1, Zenon
    <3>4. closed \subseteq closed'
      BY <1>4, Zenon DEF ReloadClose
    <3>5. Noted(s)'
      BY <1>1, <1>3, <3>3, <3>4, Zenon DEF Noted
    <3> QED
      BY <3>1, <3>5
  <2> QED
    BY <2>2, <2>4, <2>5, <2>6 DEF RelayInv
<1>5. CASE ReloadSwap
  <2>1. /\ UNCHANGED <<closed, idle, numOpen, home>>
        /\ writerPool' = writerPool + 1 /\ writerPool \in closed
    BY <1>5 DEF ReloadSwap, poolVars
  <2>2. writerPool' \in WriterPools /\ \A p \in WriterPools : p < writerPool' => p \in closed'
    BY <1>1, <2>1, RelayAssumption DEF RelayType, WriterPools
  <2>3. RelayType'
    BY <1>1, <1>3, <2>1, <2>2 DEF RelayType
  <2>4. Places(Held)' /\ IdleHome'
    BY <1>1, <1>3, <2>1 DEF Places, IdleHome
  <2>5. 1 .. writerPool \subseteq 1 .. writerPool'
    BY <1>1, <2>1
  <2>6. \A s \in Sessions : Shape(s)' /\ Noted(s)' /\ Transactional(s)'
    BY <1>1, <1>3, <2>1, <2>5, Zenon DEF Shape, Noted, Transactional
  <2> QED
    BY <2>3, <2>4, <2>6 DEF RelayInv
<1> QED
  BY <1>4, <1>5

\* Steps that leave pools and sessions alone.
LEMMA IdleInv ==
    ASSUME RelayInv, switches' \subseteq AdminSwitches,
           UNCHANGED <<writerPool, poolVars, pc, sess, bound, boundPool, dirty, job>>
    PROVE  RelayInv'
<1>1. RelayType'
  BY DEF RelayInv, RelayType, poolVars
<1>2. Places(Held)' /\ IdleHome'
  BY Zenon DEF RelayInv, Places, Held, IdleHome, poolVars
<1>3. \A s \in Sessions : Shape(s)' /\ Noted(s)' /\ Transactional(s)'
  BY Zenon DEF RelayInv, Shape, Noted, Transactional, poolVars
<1> QED
  BY <1>1, <1>2, <1>3 DEF RelayInv

\* Every step, and what it does with the pools.
LEMMA RelayInductive ==
    ASSUME RelayInv, [Next]_vars
    PROVE  /\ RelayInv'
           /\ \/ \E s \in Sessions : Others(s) /\ Effect(s)
              \/ ReloadClose
              \/ UNCHANGED <<poolVars, bound, boundPool, job>>
<1>1. CASE \E s \in Sessions : \/ Connect(s) \/ Disconnect(s) \/ MaintenanceRejects(s)
                               \/ \E q \in Queries : Query(s, q)
                               \/ SessionStep(s)
  <2>1. PICK s \in Sessions : Kept(s)
    BY <1>1, SessionKept
  <2> QED
    BY <2>1, SessionInv DEF Kept
<1>2. CASE ReloadClose \/ ReloadSwap
  BY <1>2, ReloadInv DEF ReloadSwap
<1>3. CASE \E mode \in AdminSwitches : Switch(mode)
  <2>1. switches' \subseteq AdminSwitches
    BY <1>3 DEF Switch, RelayInv, RelayType
  <2> QED
    BY <1>3, <2>1, IdleInv DEF Switch
<1>4. CASE UNCHANGED vars
  <2>1. switches' \subseteq AdminSwitches
    BY <1>4 DEF vars, RelayInv, RelayType
  <2>2. UNCHANGED <<writerPool, poolVars, pc, sess, bound, boundPool, dirty, job>>
    BY <1>4 DEF vars, poolVars
  <2> QED
    BY <2>1, <2>2, IdleInv
<1> QED
  BY <1>1, <1>2, <1>3, <1>4 DEF Next

-----------------------------------------------------------------------------
(* Slots *)

\* The connections pool p counts and can still get back.
Mine(p) ==
    {c \in Conns : home[c] = p /\ (c \in idle[p] \/ \E s \in Sessions : c \in Held[s])}

LostIsMissing ==
    \A p \in Pools : /\ Lost(p) = numOpen[p] - Cardinality(Mine(p))
                     /\ IsFiniteSet(Mine(p)) /\ Cardinality(Mine(p)) \in Nat

\* Lost in these terms.
LEMMA LostMine == LostIsMissing
<1> SUFFICES ASSUME NEW p \in Pools
             PROVE  /\ Lost(p) = numOpen[p] - Cardinality(Mine(p))
                    /\ IsFiniteSet(Mine(p)) /\ Cardinality(Mine(p)) \in Nat
  BY DEF LostIsMissing
<1>1. \A c \in Conns, s \in Sessions : Holds(s, c) <=> c \in Held[s]
  BY RelayAssumption DEF Holds, Held
<1>2. Mine(p) = {c \in Conns : home[c] = p /\ (c \in idle[p] \/ \E s \in Sessions : Holds(s, c))}
  BY <1>1 DEF Mine
<1>3. IsFiniteSet(Mine(p))
  BY RelayAssumption, FS_Subset DEF Mine
<1> QED
  BY <1>2, <1>3, FS_CardinalityType, Zenon DEF Lost

\* No open pool counts fewer connections than it has.
LostInv == \A p \in Pools \ closed : Lost(p) >= 0

\* What a step may do to pool p: it keeps Lost(p), or gives up a slot of a connection that
\* crossed a reload.
SlotStep(p) ==
    \/ Lost(p)' = Lost(p)
    \/ Lost(p)' = Lost(p) + 1 /\ \E s \in Sessions : Crossed(s, p)

\* A connection is borrowed.
LEMMA TakenSlots ==
    ASSUME RelayInv, RelayInv', NEW s \in Sessions, Others(s), SlotTaken(s), NEW q \in Pools
    PROVE  Lost(q)' = Lost(q)
<1>1. PICK p \in Pools, c \in Conns : Takes(p, c) /\ Held'[s] = Held[s] \cup {c}
  BY DEF SlotTaken
<1>2. /\ idle \in [Pools -> SUBSET Conns] /\ home \in [Conns -> Pools \cup {NoPool}]
      /\ numOpen \in [Pools -> Int] /\ IdleHome
      /\ \A r \in Pools : home[c] = NoPool => c \notin idle[r]
      /\ \A t \in Sessions : home[c] = NoPool => c \notin Held[t]
  BY DEF RelayInv, RelayType, Places
<1>3. \A t \in Sessions \ {s} : Held'[t] = Held[t]
  BY Zenon DEF Others, Held
<1>4. \A d \in Conns \ {c} : (\E t \in Sessions : d \in Held'[t]) <=> \E t \in Sessions : d \in Held[t]
  BY <1>1, <1>3, Zenon
<1>5. \E t \in Sessions : c \in Held'[t]
  BY <1>1
<1>6. /\ \A d \in Conns \ {c} : home'[d] = home[d]
      /\ \A d \in Conns \ {c} : d \in idle'[q] <=> d \in idle[q]
      /\ home'[c] = p /\ c \notin idle'[q]
  <2>1. home'[c] = p /\ \A d \in Conns \ {c} : home'[d] = home[d]
    BY <1>1, TakeFacts, Zenon
  <2>2. \A d \in Conns \ {c} : d \in idle'[q] <=> d \in idle[q]
    BY <1>1, <1>2, Zenon DEF Takes
  <2>3. c \notin idle'[q]
    BY <1>1, <1>2, PoolNumbers, Zenon DEF Takes, IdleHome
  <2> QED
    BY <2>1, <2>2, <2>3, Zenon
<1>7. \A d \in Conns \ {c} : d \in Mine(q)' <=> d \in Mine(q)
  BY <1>4, <1>6, Zenon DEF Mine
<1>8. c \in Mine(q)' <=> q = p
  BY <1>5, <1>6, Zenon DEF Mine
<1>9. Lost(q) = numOpen[q] - Cardinality(Mine(q)) /\ IsFiniteSet(Mine(q)) /\ Cardinality(Mine(q)) \in Nat
  BY LostMine DEF LostIsMissing
<1>10. Lost(q)' = numOpen'[q] - Cardinality(Mine(q)')
  <2>1. LostIsMissing'
    BY LostMine, PTL
  <2> QED
    BY <2>1 DEF LostIsMissing
<1>11. CASE c \in idle[p]
  <2>1. home[c] = p /\ numOpen' = numOpen
    BY <1>1, <1>2, <1>11, PoolNumbers, Zenon DEF IdleHome, Takes
  <2>2. c \in Mine(q) <=> q = p
    BY <1>11, <2>1 DEF Mine
  <2>3. Mine(q)' = Mine(q)
    BY <1>7, <1>8, <2>2 DEF Mine
  <2> QED
    BY <1>9, <1>10, <2>1, <2>3
<1>12. CASE c \notin idle[p]
  <2>1. home[c] = NoPool /\ numOpen' = [numOpen EXCEPT ![p] = @ + 1]
    BY <1>1, <1>12 DEF Takes
  <2>2. c \notin Mine(q)
    BY <2>1, PoolNumbers DEF Mine
  <2>3. CASE q = p
    <3>1. Mine(q)' = Mine(q) \cup {c}
      BY <1>7, <1>8, <2>3 DEF Mine
    <3>2. Cardinality(Mine(q)') = Cardinality(Mine(q)) + 1
      BY <1>9, <2>2, <3>1, FS_AddElement, Zenon
    <3>3. numOpen'[q] = numOpen[q] + 1
      BY <1>2, <2>1, <2>3
    <3> QED
      BY <1>2, <1>9, <1>10, <3>2, <3>3
  <2>4. CASE q # p
    <3>1. Mine(q)' = Mine(q)
      BY <1>7, <1>8, <2>2, <2>4 DEF Mine
    <3>2. numOpen'[q] = numOpen[q]
      BY <1>2, <2>1, <2>4
    <3> QED
      BY <1>9, <1>10, <3>1, <3>2
  <2> QED
    BY <2>3, <2>4
<1> QED
  BY <1>11, <1>12

\* A connection is given back: the slot too, unless the session has noted a pool that a
\* reload has closed, while the connection is of another.
LEMMA GivenSlots ==
    ASSUME RelayInv, LostInv, NEW s \in Sessions, Others(s), SlotGiven(s), NEW q \in Pools \ closed
    PROVE  SlotStep(q)
<1>1. PICK p \in Pools, c \in Conns :
        /\ c \in Held[s] /\ Given(p, c) /\ Held'[s] = Held[s] \ {c}
        /\ \/ job[s].acquired /\ c = job[s].conn /\ p = job[s].pool
           \/ c = bound[s] /\ p = boundPool[s]
  BY Zenon DEF SlotGiven
<1>2. /\ idle \in [Pools -> SUBSET Conns] /\ home \in [Conns -> Pools \cup {NoPool}]
      /\ numOpen \in [Pools -> Int]
      /\ \A r \in Pools : c \notin idle[r]
      /\ \A t \in Sessions \ {s} : c \notin Held[t]
      /\ home[c] # NoPool /\ Noted(s)
  BY <1>1, Zenon DEF RelayInv, RelayType, Places
<1>3. \A t \in Sessions \ {s} : Held'[t] = Held[t]
  BY Zenon DEF Others, Held
<1>4. \A d \in Conns \ {c} : (\E t \in Sessions : d \in Held'[t]) <=> \E t \in Sessions : d \in Held[t]
  BY <1>1, <1>3
<1>5. \A t \in Sessions : c \notin Held'[t]
  BY <1>1, <1>2, <1>3
<1>6. p \notin closed => home[c] = p
  BY <1>1, <1>2, RelayAssumption, Zenon DEF Noted
<1>7. home[c] # p /\ home[c] \in Pools => Crossed(s, home[c])
  BY <1>1, RelayAssumption, Zenon DEF Crossed
<1>8. \A d \in Conns \ {c} : home'[d] = home[d] /\ (d \in idle'[q] <=> d \in idle[q])
  <2>1. CASE idle' = [idle EXCEPT ![p] = @ \cup {c}] /\ UNCHANGED home
    BY <1>2, <2>1
  <2>2. CASE home' = [home EXCEPT ![c] = NoPool] /\ UNCHANGED idle
    BY <1>2, <2>2
  <2> QED
    BY <1>1, <2>1, <2>2, Zenon DEF Given
<1>9. \A d \in Conns \ {c} : d \in Mine(q)' <=> d \in Mine(q)
  BY <1>4, <1>8, Zenon DEF Mine
<1>10. c \in Mine(q) <=> home[c] = q
  BY <1>1 DEF Mine
<1>11. Lost(q) = numOpen[q] - Cardinality(Mine(q)) /\ IsFiniteSet(Mine(q)) /\ Cardinality(Mine(q)) \in Nat
  BY LostMine DEF LostIsMissing
<1>12. Lost(q)' = numOpen'[q] - Cardinality(Mine(q)')
  <2>1. LostIsMissing'
    BY LostMine, PTL
  <2> QED
    BY <2>1 DEF LostIsMissing
<1>13. CASE p \notin closed /\ idle' = [idle EXCEPT ![p] = @ \cup {c}] /\ UNCHANGED <<numOpen, home>>
  <2>1. c \in Mine(q)' <=> home[c] = q
    BY <1>2, <1>5, <1>6, <1>13 DEF Mine
  <2>2. Mine(q)' = Mine(q)
    BY <1>9, <1>10, <2>1 DEF Mine
  <2> QED
    BY <1>11, <1>12, <1>13, <2>2 DEF SlotStep
<1>14. CASE /\ home' = [home EXCEPT ![c] = NoPool]
            /\ numOpen' = [numOpen EXCEPT ![p] = IF @ > 0 THEN @ - 1 ELSE @]
  <2>1. c \notin Mine(q)'
    BY <1>2, <1>14, PoolNumbers DEF Mine
  <2>2. CASE home[c] # q
    <3>1. Mine(q)' = Mine(q)
      BY <1>9, <1>10, <2>1, <2>2 DEF Mine
    <3>2. numOpen'[q] = numOpen[q]
      BY <1>2, <1>6, <1>14, <2>2, Zenon
    <3> QED
      BY <1>11, <1>12, <3>1, <3>2 DEF SlotStep
  <2>3. CASE home[c] = q
    <3>1. Mine(q)' = Mine(q) \ {c} /\ c \in Mine(q)
      BY <1>9, <1>10, <2>1, <2>3, Zenon DEF Mine
    <3>2. Cardinality(Mine(q)') = Cardinality(Mine(q)) - 1
      BY <1>11, <3>1, FS_RemoveElement, Zenon
    <3>3. CASE p = q
      <4>1. Cardinality(Mine(q)) > 0
        BY <1>11, <3>1, FS_EmptySet
      <4>a. Lost(q) >= 0 /\ numOpen[q] \in Int
        BY <1>2, Zenon DEF LostInv
      <4>2. numOpen[q] \in Int /\ numOpen[q] > 0
        BY <1>11, <4>1, <4>a
      <4>3. numOpen'[q] = numOpen[q] - 1
        BY <1>2, <1>14, <3>3, <4>2
      <4> QED
        BY <1>11, <1>12, <3>2, <4>2, <4>3 DEF SlotStep
    <3>4. CASE p # q
      <4>1. numOpen'[q] = numOpen[q] /\ numOpen[q] \in Int
        BY <1>2, <1>14, <3>4
      <4>2. \E t \in Sessions : Crossed(t, q)
        BY <1>7, <2>3, <3>4
      <4> QED
        BY <1>11, <1>12, <3>2, <4>1, <4>2 DEF SlotStep
    <3> QED
      BY <3>3, <3>4
  <2> QED
    BY <2>2, <2>3
<1> QED
  BY <1>1, <1>13, <1>14, Zenon DEF Given

\* Every step, without the read-only mode.
LEMMA NextSlots ==
    ASSUME RelayInv, LostInv, [Next]_vars, "readonly" \notin AdminSwitches, NEW q \in Pools \ closed'
    PROVE  closed \subseteq closed' /\ SlotStep(q)
<1>1. /\ RelayInv'
      /\ \/ \E s \in Sessions : Others(s) /\ Effect(s)
         \/ ReloadClose
         \/ UNCHANGED <<poolVars, bound, boundPool, job>>
  BY RelayInductive
<1>2. closed \subseteq closed'
  BY <1>1 DEF Others, ReloadClose, poolVars
<1>3. LostIsMissing /\ LostIsMissing'
  BY LostMine, PTL
<1>4. ASSUME numOpen'[q] = numOpen[q], Mine(q)' = Mine(q) PROVE SlotStep(q)
  BY <1>3, <1>4, Zenon DEF LostIsMissing, SlotStep
<1>5. ASSUME NEW s \in Sessions, Others(s), SlotsKept(s) PROVE SlotStep(q)
  <2>1. \A t \in Sessions : Held'[t] = Held[t]
    BY <1>5 DEF Others, Held, SlotsKept
  <2> QED
    BY <1>4, <1>5, <2>1 DEF Mine, SlotsKept
<1>6. ASSUME NEW s \in Sessions, Others(s), SlotTaken(s) PROVE SlotStep(q)
  BY <1>1, <1>6, TakenSlots DEF SlotStep
<1>7. ASSUME NEW s \in Sessions, Others(s), SlotGiven(s) PROVE SlotStep(q)
  BY <1>2, <1>7, GivenSlots
<1>8. CASE ReloadClose
  <2>1. q # writerPool
    BY <1>8 DEF ReloadClose
  <2>2. /\ idle \in [Pools -> SUBSET Conns] /\ numOpen \in [Pools -> Int]
        /\ home \in [Conns -> Pools \cup {NoPool}] /\ IdleHome /\ writerPool \in Pools
    BY PoolNumbers DEF RelayInv, RelayType, Places
  <2>3. numOpen'[q] = numOpen[q] /\ idle'[q] = idle[q]
    BY <1>8, <2>1, <2>2 DEF ReloadClose
  <2>4. \A c \in Conns : home'[c] = q <=> home[c] = q
    BY <1>8, <2>1, <2>2, PoolNumbers DEF ReloadClose, IdleHome
  <2>5. Held' = Held
    BY <1>8 DEF ReloadClose, Held
  <2>6. \A c \in Conns : c \in Mine(q)' <=> c \in Mine(q)
    BY <2>3, <2>4, <2>5 DEF Mine
  <2>7. Mine(q)' = Mine(q)
    BY <2>6 DEF Mine
  <2> QED
    BY <1>2, <1>4, <2>3, <2>7
<1>9. CASE UNCHANGED <<poolVars, bound, boundPool, job>>
  <2>1. Held' = Held
    BY <1>9 DEF Held
  <2> QED
    BY <1>4, <1>9, <2>1 DEF Mine, poolVars
<1> QED
  BY <1>1, <1>2, <1>5, <1>6, <1>7, <1>8, <1>9, Zenon DEF Effect, Forgets

\* Failures, resets, vanishing clients and reloads cost an open pool no slot, but for the
\* sessions whose connection crossed a reload (Release and Discard go to the pool the
\* session noted with the connection).  Without the read-only mode; with it, a session
\* forgets a connection.
THEOREM SlotsKeptOnRelay ==
    ASSUME "readonly" \notin AdminSwitches
    PROVE  Spec => NoLostSlot
<1>1. Init => RelayInv /\ LostInv
  <2> SUFFICES ASSUME Init PROVE LostInv
    BY RelayStart
  <2>1. \A p \in Pools : Mine(p) = {} /\ numOpen[p] = 0
    BY PoolNumbers, Zenon DEF Init, Mine
  <2>2. LostIsMissing
    BY LostMine
  <2> QED
    BY <2>1, <2>2, FS_EmptySet DEF LostIsMissing, LostInv
<1>2. RelayInv /\ LostInv /\ [Next]_vars =>
        /\ RelayInv' /\ LostInv'
        /\ \A p \in Pools \ closed' : Lost(p)' # Lost(p) => \E s \in Sessions : Crossed(s, p)
  <2> SUFFICES ASSUME RelayInv, LostInv, [Next]_vars
               PROVE  /\ RelayInv' /\ LostInv'
                      /\ \A p \in Pools \ closed' : Lost(p)' # Lost(p) => \E s \in Sessions : Crossed(s, p)
    OBVIOUS
  <2>1. RelayInv'
    BY RelayInductive
  <2>2. ASSUME NEW p \in Pools \ closed' PROVE closed \subseteq closed' /\ SlotStep(p)
    BY <2>2, NextSlots
  <2>3. \A p \in Pools : Lost(p) \in Int
    <3>1. numOpen \in [Pools -> Int] /\ LostIsMissing
      BY LostMine DEF RelayInv, RelayType
    <3> QED
      BY <3>1 DEF LostIsMissing
  <2>4. LostInv'
    BY <2>2, <2>3 DEF LostInv, SlotStep
  <2> QED
    BY <2>1, <2>2, <2>4 DEF SlotStep
<1> QED
  BY <1>1, <1>2, PTL DEF Spec, NoLostSlot

-----------------------------------------------------------------------------
(* Settings of the session, with session_compatibility: pin *)

\* What session s knows: a connection it has not marked dirty is clean, a query that sets
\* something has marked and pinned it, and goes to the writer.
Settings(s) ==
    /\ sess[s].pinned => dirty[s]
    /\ bound[s] # NoConn /\ ~dirty[s] => backend[bound[s]] \in CleanStates
    /\ pc[s] = "run" /\ job[s].acquired => backend[job[s].conn] \in CleanStates
    /\ pc[s] \in {"acquire", "run"} /\ Has(job[s].query, {"SET"}) =>
          dirty[s] /\ job[s].route = "writer"

CleanInv ==
    /\ backend \in [Conns -> BackendStates]
    /\ \A p \in Pools : \A c \in idle[p] : backend[c] \in CleanStates
    /\ \A c \in Conns : home[c] = NoPool => backend[c] \in CleanStates
    /\ \A s \in Sessions : Settings(s)

\* What a step of session s has to show.
KeptClean(s) ==
    /\ backend' \in [Conns -> BackendStates]
    /\ \A c \in Conns \ Held[s] : backend'[c] = backend[c]
    /\ \A c \in Held[s] : home'[c] = NoPool \/ (\E p \in Pools : c \in idle'[p])
                             => backend'[c] \in CleanStates
    /\ Settings(s)'

\* Then everything stays clean.
LEMMA SessionClean ==
    ASSUME RelayInv, RelayInv', CleanInv, NEW s \in Sessions, Kept(s), KeptClean(s)
    PROVE  CleanInv'
<1>1. /\ idle \in [Pools -> SUBSET Conns] /\ home \in [Conns -> Pools \cup {NoPool}]
      /\ idle' \in [Pools -> SUBSET Conns]
      /\ Held \in [Sessions -> SUBSET Conns]
      /\ \A t \in Sessions \ {s} : Held[t] \cap Held[s] = {}
  BY DEF RelayInv, Places
<1>2. ASSUME NEW c \in Conns \ Held[s]
      PROVE  /\ \A p \in Pools : c \in idle'[p] => c \in idle[p]
             /\ home'[c] = NoPool => home[c] = NoPool
  <2>1. CASE SlotsKept(s) \/ Forgets(s)
    BY <2>1 DEF SlotsKept, Forgets
  <2>2. CASE SlotTaken(s)
    BY <1>1, <2>2, PoolNumbers DEF SlotTaken, Takes
  <2>3. CASE SlotGiven(s)
    <3>1. PICK q \in Pools, d \in Held[s] : Given(q, d)
      BY <2>3, Zenon DEF SlotGiven
    <3>2. c # d /\ c \in Conns
      BY <1>2
    <3> QED
      BY <1>1, <3>1, <3>2 DEF Given
  <2> QED
    BY <2>1, <2>2, <2>3, Zenon DEF Kept, Effect
<1>3. \A p \in Pools : \A c \in idle'[p] : backend'[c] \in CleanStates
  BY <1>1, <1>2 DEF KeptClean, CleanInv
<1>4. \A c \in Conns : home'[c] = NoPool => backend'[c] \in CleanStates
  BY <1>2 DEF KeptClean, CleanInv
<1>5. ASSUME NEW t \in Sessions, t # s PROVE Settings(t)'
  <2>1. /\ pc'[t] = pc[t] /\ sess'[t] = sess[t] /\ bound'[t] = bound[t]
        /\ dirty'[t] = dirty[t] /\ job'[t] = job[t]
    BY <1>5, Zenon DEF Kept, Others
  <2>2. Settings(t) /\ Shape(t) /\ bound[t] \in Conns \cup {NoConn}
    BY Zenon DEF CleanInv, RelayInv, RelayType
  <2>3. /\ bound[t] # NoConn => bound[t] \in Conns \ Held[s]
        /\ pc[t] = "run" => job[t].conn \in Conns \ Held[s]
    BY <1>1, <1>5, <2>2, RelayAssumption, Zenon DEF Held, Shape
  <2>4. /\ bound[t] # NoConn => backend'[bound[t]] = backend[bound[t]]
        /\ pc[t] = "run" => backend'[job[t].conn] = backend[job[t].conn]
    BY <2>3, Zenon DEF KeptClean
  <2> QED
    BY <2>1, <2>2, <2>4, Zenon DEF Settings
<1> QED
  BY <1>3, <1>4, <1>5 DEF CleanInv, KeptClean

\* A connection is given back clean, or fresh, when it is marked or not dirty as it should.
LEMMA GiveClean ==
    ASSUME NEW p, NEW c, NEW d, NEW b \in BackendStates, ~d => b \in CleanStates,
           GivesBack(d, p, c, b) \/ (~d /\ Releases(p, c, b)) \/ Discards(p, c)
    PROVE  \E x \in CleanStates : backend' = [backend EXCEPT ![c] = x]
<1>1. Fresh \in CleanStates
  BY Zenon DEF Fresh, CleanStates, BackendStates
<1> QED
  BY <1>1 DEF GivesBack, Resets, Releases, Discards

\* A step that gives c back in a clean state, and keeps what else the session has.
LEMMA GivenClean ==
    ASSUME RelayInv, CleanInv, NEW s \in Sessions, NEW c \in Held[s],
           NEW x \in CleanStates, backend' = [backend EXCEPT ![c] = x], Settings(s)',
           \A d \in Held[s] \ {c} : home'[d] # NoPool /\ \A p \in Pools : d \notin idle'[p]
    PROVE  KeptClean(s)
<1>1. Held[s] \subseteq Conns /\ backend \in [Conns -> BackendStates] /\ x \in BackendStates
  BY Zenon DEF RelayInv, Places, CleanInv, CleanStates
<1> QED
  BY <1>1, Zenon DEF KeptClean

\* The session ends, or its connections stay as they are.
LEMMA ReturnsClean ==
    ASSUME RelayInv, CleanInv, NEW s \in Sessions, pc[s] \in {"read", "acquire"}, Returns(s),
           UNCHANGED <<writerPool, switches>>
    PROVE  KeptClean(s)
<1>1. /\ RelayType /\ Shape(s) /\ Settings(s) /\ job[s].conn = NoConn
      /\ backend \in [Conns -> BackendStates]
      /\ bound[s] \in Conns \cup {NoConn}
  <2>1. RelayType /\ Shape(s) /\ Settings(s) /\ backend \in [Conns -> BackendStates]
    BY Zenon DEF RelayInv, CleanInv
  <2>2. job[s].conn = NoConn
    BY <2>1, Blanks DEF Shape
  <2> QED
    BY <2>1, <2>2 DEF RelayType
<1>2. pc'[s] = "gone" /\ sess'[s] = NewSession /\ bound'[s] = NoConn
  BY <1>1, Zenon DEF Returns, Ends, RelayType
<1>3. Settings(s)'
  BY <1>2, Blanks, Zenon DEF Settings
<1>4. CASE bound[s] = NoConn
  <2>1. backend' = backend /\ Held[s] = {}
    BY <1>1, <1>4, Zenon DEF Returns, Held
  <2> QED
    BY <1>1, <1>3, <2>1, Zenon DEF KeptClean
<1>5. CASE bound[s] # NoConn
  <2>1. /\ GivesBack(dirty[s], boundPool[s], bound[s], backend[bound[s]])
        /\ backend[bound[s]] \in BackendStates
        /\ ~dirty[s] => backend[bound[s]] \in CleanStates
        /\ Held[s] = {bound[s]}
    BY <1>1, <1>5, Zenon DEF Returns, Settings, Held
  <2>2. PICK x \in CleanStates : backend' = [backend EXCEPT ![bound[s]] = x]
    BY <2>1, GiveClean, Zenon
  <2> QED
    BY <1>3, <2>1, <2>2, GivenClean, Zenon
<1> QED
  BY <1>4, <1>5, Zenon

\* A query that sets something is marked.
LEMMA QueryClean ==
    ASSUME RelayInv, CleanInv, CompatMode = "pin",
           NEW s \in Sessions, NEW q \in Queries, Query(s, q)
    PROVE  KeptClean(s)
<1> DEFINE pins == CompatMode = "pin" /\ Has(q, {"SET"})
           before == [sess[s] EXCEPT !.pinned = @ \/ pins]
<1>1. /\ RelayType /\ Shape(s) /\ Settings(s) /\ sess[s] \in SessionStates
      /\ backend \in [Conns -> BackendStates] /\ pc[s] = "read" /\ job[s] = NoJob
  BY DEF RelayInv, RelayType, CleanInv, Shape, Query
<1>2. before.pinned = (sess[s].pinned \/ pins)
  BY <1>1 DEF SessionStates
<1>3. PICK route \in Routes(q, before) :
        /\ sess' = [sess EXCEPT ![s] =
              [before EXCEPT !.inTransaction = TxAfter(q, @),
                             !.wrote = @ \/ (IsWrite(q) /\ ~before.pinned
                                             /\ ~before.inTransaction /\ ~Has(q, TxKeywords))]]
        /\ IF "readonly" \in switches /\ IsWrite(q)
           THEN UNCHANGED <<pc, job>>
           ELSE /\ pc' = [pc EXCEPT ![s] = "acquire"]
                /\ job' = [job EXCEPT ![s] =
                      [query |-> q, route |-> route, conn |-> NoConn, acquired |-> FALSE,
                       wasInTx |-> before.inTransaction, pool |-> writerPool]]
  BY DEF Query
<1>4. dirty'[s] = (dirty[s] \/ Has(q, {"SET"})) /\ UNCHANGED <<idle, home, backend, bound>>
  BY <1>1 DEF Query, RelayType, poolVars
<1>5. sess'[s].pinned = before.pinned
  <2>1. before \in SessionStates
    <3>1. pins \in BOOLEAN
      OBVIOUS
    <3> HIDE DEF pins
    <3> QED
      BY <1>1, <3>1 DEF SessionStates
  <2> HIDE DEF before, pins
  <2> QED
    BY <1>1, <1>3, <2>1 DEF SessionStates, RelayType
<1>6. Has(q, {"SET"}) => route = "writer"
  <2> HIDE DEF before
  <2> QED
    BY <1>2, <1>3, Zenon DEF Routes
<1>7. \/ pc'[s] = "read"
      \/ pc'[s] = "acquire" /\ job'[s].query = q /\ job'[s].route = route
  <2> HIDE DEF before
  <2> QED
    BY <1>1, <1>3 DEF RelayType
<1>8. Settings(s)'
  <2> HIDE DEF before
  <2> QED
    BY <1>1, <1>2, <1>4, <1>5, <1>6, <1>7, Zenon DEF Settings
<1>9. \A c \in Held[s] : home[c] # NoPool /\ \A p \in Pools : c \notin idle[p]
  BY DEF RelayInv, Places
<1> QED
  BY <1>1, <1>4, <1>8, <1>9 DEF KeptClean

\* Steps that send nothing to a backend.
LEMMA LocalClean ==
    ASSUME RelayInv, CleanInv, NEW s \in Sessions,
           Connect(s) \/ UseBound(s) \/ ReadFallsBack(s) \/ CacheHit(s)
    PROVE  KeptClean(s)
<1>1. /\ RelayType /\ Shape(s) /\ Settings(s) /\ job[s] \in Jobs
      /\ backend \in [Conns -> BackendStates]
  BY Zenon DEF RelayInv, RelayType, CleanInv
<1>2. UNCHANGED <<idle, home, backend, sess, bound, dirty>>
  BY DEF Connect, UseBound, ReadFallsBack, CacheHit, poolVars
<1>3. pc[s] \in {"gone", "acquire"} /\ ~job[s].acquired
  BY <1>1, Blanks DEF Connect, UseBound, ReadFallsBack, CacheHit, Shape
<1>4. /\ job'[s].acquired = job[s].acquired \/ pc'[s] = "read"
      /\ pc'[s] \in {"acquire", "run"} =>
            /\ pc[s] = "acquire" /\ job'[s].query = job[s].query
            /\ job[s].route = "writer" => job'[s].route = "writer"
  <2>1. CASE Connect(s) \/ CacheHit(s)
    BY <1>1, <2>1 DEF Connect, CacheHit, RelayType
  <2>2. CASE UseBound(s)
    BY <1>1, <2>2 DEF UseBound, RelayType, Jobs
  <2>3. CASE ReadFallsBack(s)
    BY <1>1, <2>3 DEF ReadFallsBack, RelayType, Jobs
  <2> QED
    BY <2>1, <2>2, <2>3, Zenon
<1>5. Settings(s)'
  BY <1>1, <1>2, <1>3, <1>4, Zenon DEF Settings
<1>6. \A c \in Held[s] : home[c] # NoPool /\ \A p \in Pools : c \notin idle[p]
  BY DEF RelayInv, Places
<1> QED
  BY <1>1, <1>2, <1>5, <1>6, Zenon DEF KeptClean

\* What the pools hand out is clean.
LEMMA AcquireClean ==
    ASSUME RelayInv, CleanInv, NEW s \in Sessions, AcquireWriter(s) \/ AcquireReader(s)
    PROVE  KeptClean(s)
<1>1. /\ RelayType /\ Shape(s) /\ Settings(s) /\ job[s] \in Jobs
      /\ backend \in [Conns -> BackendStates] /\ writerPool \in Pools
  BY PoolNumbers, Zenon DEF RelayInv, RelayType, CleanInv
<1>2. UNCHANGED <<backend, sess, bound, dirty>> /\ pc[s] = "acquire"
  BY Zenon DEF AcquireWriter, AcquireReader
<1>3. PICK p \in Pools, c \in Conns :
        /\ Takes(p, c)
        /\ job'[s].conn = c /\ job'[s].query = job[s].query /\ job'[s].route = job[s].route
  <2>1. CASE AcquireWriter(s)
    <3>1. PICK c \in Conns :
            Takes(writerPool, c) /\ job' = [job EXCEPT ![s].conn = c, ![s].acquired = TRUE]
      BY <2>1, Zenon DEF AcquireWriter
    <3> QED
      BY <1>1, <3>1 DEF RelayType, Jobs
  <2>2. CASE AcquireReader(s)
    <3> DEFINE p == IF job[s].route = "reader" THEN Reader ELSE writerPool
    <3>1. p \in Pools
      BY <1>1, PoolNumbers
    <3>2. PICK c \in Conns :
            /\ Takes(p, c)
            /\ job' = [job EXCEPT ![s].conn = c, ![s].acquired = TRUE, ![s].pool = p]
      BY <2>2, Zenon DEF AcquireReader
    <3> HIDE DEF p
    <3> QED
      BY <1>1, <3>1, <3>2 DEF RelayType, Jobs
  <2> QED
    BY <2>1, <2>2
<1>4. backend[c] \in CleanStates
  <2>1. c \in idle[p] \/ home[c] = NoPool
    BY <1>3 DEF Takes
  <2> QED
    BY <2>1 DEF CleanInv
<1>5. Settings(s)'
  BY <1>1, <1>2, <1>3, <1>4, Zenon DEF Settings
<1>6. \A d \in Held[s] : d # c /\ home[d] # NoPool /\ \A q \in Pools : d \notin idle[q]
  <2>1. c \in idle[p] \/ home[c] = NoPool
    BY <1>3 DEF Takes
  <2> QED
    BY <2>1 DEF RelayInv, Places
<1>7. \A d \in Held[s] : home'[d] # NoPool /\ \A q \in Pools : d \notin idle'[q]
  <2>1. idle \in [Pools -> SUBSET Conns] /\ Held[s] \subseteq Conns
    BY DEF RelayInv, Places
  <2>2. \A q \in Pools : idle'[q] \subseteq idle[q]
    BY <1>3, <2>1, Zenon DEF Takes
  <2>3. \A d \in Held[s] : home'[d] = home[d]
    <3>1. \A d \in Conns \ {c} : home'[d] = home[d]
      BY <1>3, TakeFacts
    <3> QED
      BY <1>6, <2>1, <3>1
  <2> QED
    BY <1>6, <2>2, <2>3, Zenon
<1> QED
  BY <1>1, <1>2, <1>5, <1>7 DEF KeptClean

\* A read sets nothing, and its own connection goes back as clean as it came.
LEMMA ServeReadClean ==
    ASSUME RelayInv, CleanInv, NEW s \in Sessions, ServeRead(s) \/ ServeReadFails(s)
    PROVE  KeptClean(s)
<1>1. /\ RelayType /\ Shape(s) /\ Settings(s) /\ job[s] \in Jobs /\ bound[s] \in Conns \cup {NoConn}
      /\ backend \in [Conns -> BackendStates]
  BY Zenon DEF RelayInv, RelayType, CleanInv
<1>2. /\ UNCHANGED <<sess, bound, dirty>> /\ pc[s] = "run" /\ job[s].route \in {"reader", "fallback"}
      /\ job[s].conn \in Conns /\ job[s].acquired /\ job[s].conn # bound[s]
  BY <1>1, Zenon DEF ServeRead, ServeReadFails, Shape
<1>3. ~Has(job[s].query, {"SET"}) /\ backend[job[s].conn] \in CleanStates
  BY <1>1, <1>2, Zenon DEF Settings
<1>4. Outcomes(backend[job[s].conn], job[s].query) \subseteq CleanStates
  BY <1>1, <1>2, <1>3, QueryOutcomes, Zenon DEF Jobs
<1>5. PICK b \in CleanStates : Releases(job[s].pool, job[s].conn, b) \/ Discards(job[s].pool, job[s].conn)
  <2>1. Fresh \in CleanStates
    BY DEF Fresh, CleanStates, BackendStates
  <2> QED
    BY <1>4, <2>1, Zenon DEF ServeRead, ServeReadFails
<1>6. PICK x \in CleanStates : backend' = [backend EXCEPT ![job[s].conn] = x]
  <2>1. b \in BackendStates
    BY DEF CleanStates
  <2> QED
    BY <1>5, <2>1, GiveClean, Zenon
<1>7. /\ pc'[s] \in {"read", "acquire"}
      /\ pc'[s] = "acquire" => job'[s].query = job[s].query
  <2>1. CASE ServeRead(s)
    BY <1>1, <2>1 DEF ServeRead, RelayType
  <2>2. CASE ServeReadFails(s)
    <3>1. PICK next : job' = [job EXCEPT ![s].route = next, ![s].conn = NoConn, ![s].acquired = FALSE]
      BY <2>2, Zenon DEF ServeReadFails
    <3>2. pc'[s] = "acquire"
      BY <1>1, <2>2, Zenon DEF ServeReadFails, RelayType
    <3> QED
      BY <1>1, <3>1, <3>2 DEF RelayType, Jobs
  <2> QED
    BY <2>1, <2>2, Zenon
<1>8. Settings(s)'
  <2>1. bound[s] # NoConn => backend'[bound[s]] = backend[bound[s]]
    BY <1>1, <1>2, <1>6, Zenon
  <2> QED
    BY <1>1, <1>2, <1>3, <1>7, <2>1, Zenon DEF Settings
<1>9. \A d \in Held[s] \ {job[s].conn} : home'[d] # NoPool /\ \A q \in Pools : d \notin idle'[q]
  <2>1. /\ Held[s] \subseteq Conns /\ idle \in [Pools -> SUBSET Conns]
        /\ \A d \in Held[s] : home[d] # NoPool /\ \A q \in Pools : d \notin idle[q]
    BY DEF RelayInv, Places
  <2>2. /\ Given(job[s].pool, job[s].conn)
        /\ \A d \in Conns \ {job[s].conn} : home'[d] = home[d]
    BY <1>2, <1>5, GiveFacts, Zenon
  <2> QED
    BY <2>1, <2>2, Zenon DEF Given
<1>10. job[s].conn \in Held[s]
  BY <1>2, RelayAssumption, Zenon DEF Held
<1> QED
  BY <1>6, <1>8, <1>9, <1>10, GivenClean, Zenon

\* The writer's answer: while the connection is not marked it is clean, before and after
\* the query; when it is, it is reset before a pool gets it.
LEMMA ServeWriteClean ==
    ASSUME RelayInv, CleanInv, NEW s \in Sessions, ServeWrite(s)
    PROVE  KeptClean(s)
<1> DEFINE j == job[s]
           c == j.conn
           isDirty == dirty[s] \/ IsSessionModifying(j.query)
<1>1. /\ RelayType /\ Shape(s) /\ Settings(s) /\ j \in Jobs
      /\ backend \in [Conns -> BackendStates] /\ pc[s] = "run" /\ j.route = "writer"
  BY DEF RelayInv, RelayType, CleanInv, ServeWrite
<1>2. /\ c \in Conns
      /\ IF j.acquired THEN bound[s] = NoConn ELSE c = bound[s]
      /\ bound[s] = NoConn <=> boundPool[s] = NoPool
  BY <1>1, Zenon DEF Shape
<1>3. Held[s] = {c} /\ home[c] # NoPool /\ \A p \in Pools : c \notin idle[p]
  <2>1. Held[s] = {c}
    BY <1>2, RelayAssumption, Zenon DEF Held
  <2> QED
    BY <1>2, <2>1, Zenon DEF RelayInv, Places
<1>4. ASSUME NEW b \in Outcomes(backend[c], j.query)
      PROVE  b \in BackendStates /\ (~isDirty => b \in CleanStates)
  <2>1. ~dirty[s] => backend[c] \in CleanStates /\ ~Has(j.query, {"SET"})
    BY <1>1, <1>2, RelayAssumption, Zenon DEF Settings
  <2>2. backend[c] \in BackendStates /\ j.query \in Seq(Statements)
    BY <1>1, <1>2, Zenon DEF Jobs
  <2> HIDE DEF j, c
  <2> QED
    BY <1>4, <2>1, <2>2, QueryOutcomes
<1>5. PICK b \in Outcomes(backend[c], j.query) :
        \/ /\ backend' = [backend EXCEPT ![c] = b] /\ UNCHANGED <<idle, home, sess>>
           /\ pc'[s] = "read" /\ dirty'[s] = isDirty /\ bound'[s] \in {bound[s], c}
        \/ /\ backend' = [backend EXCEPT ![c] = b] /\ UNCHANGED <<idle, home>> /\ Ends(s)
        \/ /\ \E p : GivesBack(isDirty, p, c, b)
           /\ sess' = sess /\ ~sess[s].pinned /\ pc'[s] = "read" /\ bound'[s] = NoConn
  <2>1. /\ j.wasInTx \in BOOLEAN /\ j.acquired \in BOOLEAN
        /\ sess[s].inTransaction \in BOOLEAN /\ sess[s].pinned \in BOOLEAN
        /\ pc \in [Sessions -> {"read", "acquire", "run", "gone"}]
        /\ bound \in [Sessions -> Conns \cup {NoConn}]
        /\ dirty \in [Sessions -> BOOLEAN]
    BY <1>1, Zenon DEF Jobs, SessionStates, RelayType
  <2>2. CASE ~j.wasInTx /\ sess[s].inTransaction
    BY <2>1, <2>2, Zenon DEF ServeWrite, Binds
  <2>3. CASE j.wasInTx /\ ~sess[s].inTransaction /\ sess[s].pinned
    BY <2>1, <2>3, Zenon DEF ServeWrite, Binds
  <2>4. CASE j.wasInTx /\ ~sess[s].inTransaction /\ ~sess[s].pinned /\ boundPool[s] # NoPool
    BY <2>1, <2>4, Zenon DEF ServeWrite, Unbinds, Binds
  <2>5. CASE j.wasInTx /\ ~sess[s].inTransaction /\ ~sess[s].pinned /\ boundPool[s] = NoPool
    BY <2>1, <2>5, Zenon DEF ServeWrite, Panics
  <2>6. CASE j.wasInTx = sess[s].inTransaction /\ j.acquired /\ sess[s].pinned
    BY <2>1, <2>6 DEF ServeWrite, Binds
  <2>7. CASE j.wasInTx = sess[s].inTransaction /\ j.acquired /\ ~sess[s].pinned
    BY <2>1, <2>7 DEF ServeWrite, Unbinds, Binds
  <2>8. CASE j.wasInTx = sess[s].inTransaction /\ ~j.acquired
    BY <2>1, <2>8 DEF ServeWrite, Binds
  <2> QED
    BY <2>1, <2>2, <2>3, <2>4, <2>5, <2>6, <2>7, <2>8, Zenon
<1>6. b \in BackendStates /\ (~isDirty => b \in CleanStates)
  BY <1>4, Zenon
<1> HIDE DEF isDirty
<1>7. CASE backend' = [backend EXCEPT ![c] = b] /\ UNCHANGED <<idle, home>>
  <2>1. Settings(s)'
    <3>1. CASE Ends(s)
      <4>1. pc'[s] = "gone" /\ sess'[s] = NewSession /\ bound'[s] = NoConn
        BY <1>1, <3>1 DEF Ends, RelayType
      <4> QED
        BY <4>1, Blanks DEF Settings
    <3>2. CASE /\ sess' = sess /\ pc'[s] = "read" /\ dirty'[s] = isDirty
               /\ bound'[s] \in {bound[s], c}
      <4>1. bound'[s] # NoConn => bound'[s] = c
        BY <1>2, <3>2, Zenon
      <4>2. sess'[s].pinned => dirty'[s]
        BY <1>1, <3>2, Zenon DEF Settings, isDirty
      <4>3. backend'[c] = b
        BY <1>1, <1>2, <1>7, Zenon
      <4> QED
        BY <1>6, <3>2, <4>1, <4>2, <4>3, Zenon DEF Settings
    <3>3. CASE /\ \E p : GivesBack(isDirty, p, c, b)
               /\ sess' = sess /\ ~sess[s].pinned /\ pc'[s] = "read" /\ bound'[s] = NoConn
      BY <3>3, Zenon DEF Settings
    <3> QED
      BY <1>5, <3>1, <3>2, <3>3, Zenon
  <2> QED
    BY <1>1, <1>2, <1>3, <1>6, <1>7, <2>1, Zenon DEF KeptClean
<1>8. CASE /\ \E p : GivesBack(isDirty, p, c, b)
           /\ sess' = sess /\ ~sess[s].pinned /\ pc'[s] = "read" /\ bound'[s] = NoConn
  <2>1. PICK p : GivesBack(isDirty, p, c, b)
    BY <1>8, Zenon
  <2>2. PICK x \in CleanStates : backend' = [backend EXCEPT ![c] = x]
    BY <1>6, <2>1, GiveClean
  <2>3. Settings(s)'
    BY <1>8, Zenon DEF Settings
  <2> HIDE DEF c
  <2> QED
    BY <1>3, <2>2, <2>3, GivenClean, Zenon
<1> QED
  BY <1>5, <1>7, <1>8, Zenon

\* The connection of a write that fails is closed.
LEMMA ServeWriteFailsClean ==
    ASSUME RelayInv, CleanInv, NEW s \in Sessions, ServeWriteFails(s)
    PROVE  KeptClean(s)
<1>1. /\ RelayType /\ Shape(s) /\ pc[s] = "run" /\ job[s].route = "writer" /\ Ends(s)
  BY Zenon DEF RelayInv, ServeWriteFails
<1>2. Held[s] = {job[s].conn}
  BY <1>1, RelayAssumption, Zenon DEF Held, Shape
<1>3. backend' = [backend EXCEPT ![job[s].conn] = Fresh] /\ Fresh \in CleanStates
  BY Zenon DEF ServeWriteFails, Discards, Fresh, CleanStates, BackendStates
<1>4. pc'[s] = "gone" /\ sess'[s] = NewSession /\ bound'[s] = NoConn
  BY <1>1 DEF Ends, RelayType
<1>5. Settings(s)'
  BY <1>4, Blanks, Zenon DEF Settings
<1> QED
  BY <1>2, <1>3, <1>5, GivenClean, Zenon

\* Every step of a session.
LEMMA SessionStepClean ==
    ASSUME RelayInv, CleanInv, CompatMode = "pin", NEW s \in Sessions,
           \/ Connect(s) \/ Disconnect(s) \/ MaintenanceRejects(s)
           \/ \E q \in Queries : Query(s, q)
           \/ SessionStep(s)
    PROVE  KeptClean(s)
<1>1. CASE Connect(s) \/ UseBound(s) \/ ReadFallsBack(s) \/ CacheHit(s)
  BY <1>1, LocalClean
<1>2. CASE Disconnect(s) \/ MaintenanceRejects(s) \/ AcquireFails(s)
  BY <1>2, ReturnsClean, Zenon DEF Disconnect, MaintenanceRejects, AcquireFails
<1>3. CASE \E q \in Queries : Query(s, q)
  BY <1>3, QueryClean
<1>4. CASE AcquireWriter(s) \/ AcquireReader(s)
  BY <1>4, AcquireClean
<1>5. CASE ServeRead(s) \/ ServeReadFails(s)
  BY <1>5, ServeReadClean
<1>6. CASE ServeWrite(s)
  BY <1>6, ServeWriteClean
<1>7. CASE ServeWriteFails(s)
  BY <1>7, ServeWriteFailsClean
<1> QED
  BY <1>1, <1>2, <1>3, <1>4, <1>5, <1>6, <1>7 DEF SessionStep

\* With session_compatibility: pin no connection is in a pool with a setting some client
\* left on it: for any queries, a SET behind other statements of a query, in a transaction
\* or in a failed one included, whatever fails, and through reloads.
THEOREM PinResets ==
    ASSUME CompatMode = "pin"
    PROVE  Spec => []StateReset
<1>1. Init => RelayInv /\ CleanInv
  <2> SUFFICES ASSUME Init PROVE CleanInv
    BY RelayStart
  <2>1. Fresh \in CleanStates /\ CleanStates \subseteq BackendStates
    BY DEF Fresh, CleanStates, BackendStates
  <2>2. \A s \in Sessions : Settings(s)
    BY Blanks, Zenon DEF Init, Settings
  <2> QED
    BY <2>1, <2>2 DEF Init, CleanInv
<1>2. RelayInv /\ CleanInv /\ [Next]_vars => RelayInv' /\ CleanInv'
  <2> SUFFICES ASSUME RelayInv, CleanInv, [Next]_vars PROVE CleanInv'
    BY RelayInductive
  <2>1. RelayInv'
    BY RelayInductive
  <2>2. CASE \E s \in Sessions : \/ Connect(s) \/ Disconnect(s) \/ MaintenanceRejects(s)
                                 \/ \E q \in Queries : Query(s, q)
                                 \/ SessionStep(s)
    <3>1. PICK s \in Sessions : Kept(s) /\ KeptClean(s)
      BY <2>2, SessionKept, SessionStepClean
    <3> QED
      BY <2>1, <3>1, SessionClean
  <2>3. CASE ReloadClose
    <3>1. /\ idle \in [Pools -> SUBSET Conns] /\ writerPool \in Pools
          /\ \A s \in Sessions : \A c \in Held[s] : c \notin idle[writerPool]
          /\ \A s \in Sessions : Shape(s) /\ bound[s] \in Conns \cup {NoConn}
      BY PoolNumbers DEF RelayInv, RelayType, Places
    <3>2. Fresh \in CleanStates /\ Fresh \in BackendStates
      BY Zenon DEF Fresh, CleanStates, BackendStates
    <3>3. \A c \in Conns : backend'[c] = IF c \in idle[writerPool] THEN Fresh ELSE backend[c]
      BY <2>3, Zenon DEF ReloadClose
    <3>4. /\ backend' \in [Conns -> BackendStates]
          /\ \A p \in Pools : \A c \in idle'[p] : backend'[c] \in CleanStates
          /\ \A c \in Conns : home'[c] = NoPool => backend'[c] \in CleanStates
      BY <2>3, <3>1, <3>2, <3>3, Zenon DEF CleanInv, ReloadClose
    <3>5. ASSUME NEW s \in Sessions PROVE Settings(s)'
      <4>1. /\ bound[s] # NoConn => backend'[bound[s]] = backend[bound[s]]
            /\ pc[s] = "run" => backend'[job[s].conn] = backend[job[s].conn]
        BY <3>1, <3>3, RelayAssumption, Zenon DEF Held, Shape
      <4>2. Settings(s) /\ UNCHANGED <<pc, sess, bound, dirty, job>>
        BY <2>3, Zenon DEF CleanInv, ReloadClose
      <4> QED
        BY <4>1, <4>2, Zenon DEF Settings
    <3> QED
      BY <3>4, <3>5 DEF CleanInv
  <2>4. CASE ReloadSwap \/ (\E mode \in AdminSwitches : Switch(mode)) \/ UNCHANGED vars
    <3>1. UNCHANGED <<idle, home, backend, pc, sess, bound, dirty, job>>
      BY <2>4 DEF ReloadSwap, Switch, vars, poolVars
    <3>2. \A s \in Sessions : Settings(s)'
      BY <3>1, Zenon DEF CleanInv, Settings
    <3> QED
      BY <3>1, <3>2, Zenon DEF CleanInv
  <2> QED
    BY <2>2, <2>3, <2>4 DEF Next
<1>3. CleanInv => StateReset
  BY DEF CleanInv, CleanStates, StateReset
<1> QED
  BY <1>1, <1>2, <1>3, PTL DEF Spec
=============================================================================
