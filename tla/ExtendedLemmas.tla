--------------------------- MODULE ExtendedLemmas ---------------------------
(***************************************************************************)
(* The inductive invariant of Extended, what a batch and PostgreSQL do to  *)
(* the state, the steps that keep the invariant by their shape, the        *)
(* actions of the simple protocol and of reads, and where writes are       *)
(* routed.  ExtendedProofs has the other actions and the theorems.         *)
(***************************************************************************)
EXTENDS SessionLemmas

-----------------------------------------------------------------------------
(* The inductive invariant *)

PoolTypes ==
    /\ writerPool \in WriterPools
    /\ closed \subseteq 1 .. MaxReloads
    /\ \A p \in WriterPools : p < writerPool => p \in closed
    /\ numOpen \in [Pools -> Int]
    /\ backend \in [Conns -> BackendStates]

\* The connections in the hands of each session: the bound writer, the bound reader and
\* the one of the query, batch or Describe in progress.
InHands == [s \in Sessions |-> {bound[s], job[s].conn, ext[s].reader} \ {NoConn}]

\* How these three relate in a session at place k, with connection b of pool bp bound, and
\* locals j, e and x: job, ext and batch.
HandsOf(k, b, bp, j, e, x) ==
    /\ b = NoConn <=> bp = NoPool
    /\ e.reader = NoConn <=> e.readerPool = NoPool
    /\ b # NoConn => b # e.reader
    /\ k = "gone" => b = NoConn
    /\ k \in {"gone", "read", "acquire"} => j.conn = NoConn /\ ~j.acquired
    /\ k = "acquire" /\ j.route = "writer" => j.pool \in 1 .. writerPool
    /\ k \in {"run", "describe"} => j.conn \in Conns /\ j.pool \in Pools
    /\ k = "run" =>
          /\ j.conn = e.reader <=> x.kind = "reuse"
          /\ IF j.route # "writer" THEN j.conn # b
             ELSE IF j.acquired THEN b = NoConn ELSE j.conn = b
    /\ k = "describe" => j.conn \notin {b, e.reader} /\ ~j.acquired
    /\ x.kind # "none" => k \in {"acquire", "run"}
    /\ x.kind = "reuse" => k = "run"
    /\ x.kind \in {"write", "synthWrite"} => j.route = "writer"
    /\ x.kind \in {"read", "synthRead", "parse", "reuse"} => j.route \in {"reader", "fallback", "failed"}

Hands(s) == HandsOf(pc[s], bound[s], boundPool[s], job[s], ext[s], batch[s])

ProxyOnly == Modes \subseteq {"proxy"}

\* In proxy mode, the pool a session has noted for a connection is the one that dialed it,
\* unless a reload came between (then the noted one is closed).  h[c] is where c was dialed.
NotesOf(h, k, b, bp, j, e, x) == ProxyOnly =>
    /\ e.mode = "proxy" /\ x.kind \notin {"synthRead", "synthWrite"} /\ k # "describe"
    /\ j.acquired /\ j.pool \notin closed => h[j.conn] = j.pool
    /\ b # NoConn /\ bp \notin closed => h[b] = bp
    /\ e.reader # NoConn /\ e.readerPool \notin closed => h[e.reader] = e.readerPool
    /\ x.kind = "reuse" => j.pool = e.readerPool /\ ~j.acquired
    /\ k = "run" /\ ~j.acquired /\ x.kind # "reuse" => j.route = "writer"

Notes(s) == NotesOf(home, pc[s], bound[s], boundPool[s], job[s], ext[s], batch[s])

HomeOf(p) == {c \in Conns : home[c] = p}

\* Then an open pool counts at least the connections it has dialed.
Counted == ProxyOnly =>
    /\ IdleHome
    /\ numOpen \in [Pools -> 0 .. MaxConnections]
    /\ \A p \in Pools \ closed : Cardinality(HomeOf(p)) <= numOpen[p]

ExtInv ==
    /\ PoolTypes /\ SessionTypes /\ Places(InHands) /\ Counted
    /\ \A s \in Sessions : Hands(s) /\ Notes(s)

-----------------------------------------------------------------------------
(* Steps of a session *)

\* Session s moves on: its locals after the step are these.
Sets(s, k, r, b, bp, d, j, e, x) ==
    /\ pc' = [pc EXCEPT ![s] = k]
    /\ sess' = [sess EXCEPT ![s] = r]
    /\ bound' = [bound EXCEPT ![s] = b]
    /\ boundPool' = [boundPool EXCEPT ![s] = bp]
    /\ dirty' = [dirty EXCEPT ![s] = d]
    /\ job' = [job EXCEPT ![s] = j]
    /\ ext' = [ext EXCEPT ![s] = e]
    /\ batch' = [batch EXCEPT ![s] = x]

LocalTypes(k, r, b, bp, d, j, e, x) ==
    /\ k \in {"read", "acquire", "run", "describe", "gone"}
    /\ r \in SessionStates /\ b \in Conns \cup {NoConn} /\ bp \in Pools \cup {NoPool}
    /\ d \in BOOLEAN /\ j \in Jobs /\ e \in ExtStates /\ x \in BatchStates

\* What it may do with connections, having those of N after the step: nothing, take one
\* from a pool, or give one back; in proxy mode to the pool that dialed it.
Moves(s, N) ==
    \/ UNCHANGED <<idle, numOpen, home>> /\ N \subseteq InHands[s]
    \/ \E p \in Pools, c \in Conns : Takes(p, c) /\ N \subseteq InHands[s] \cup {c}
    \/ \E p \in Pools, c \in InHands[s] :
          /\ Given(p, c) /\ N \subseteq InHands[s] \ {c}
          /\ ProxyOnly /\ p \notin closed => home[c] = p

\* What such a step leaves: its locals, and the connections in everybody's hands.
Settled(s, k, b, bp, j, e, x) ==
    /\ pc'[s] = k /\ bound'[s] = b /\ boundPool'[s] = bp
    /\ job'[s] = j /\ ext'[s] = e /\ batch'[s] = x
    /\ \A t \in Sessions \ {s} :
          /\ pc'[t] = pc[t] /\ bound'[t] = bound[t] /\ boundPool'[t] = boundPool[t]
          /\ job'[t] = job[t] /\ ext'[t] = ext[t] /\ batch'[t] = batch[t]
    /\ InHands' \in [Sessions -> SUBSET Conns]
    /\ InHands'[s] = {b, j.conn, e.reader} \ {NoConn}
    /\ \A t \in Sessions \ {s} : InHands'[t] = InHands[t]

\* The other sessions keep their locals and connections.
LEMMA SetsTyped ==
    ASSUME SessionTypes, NEW s \in Sessions,
           NEW k, NEW r, NEW b, NEW bp, NEW d, NEW j, NEW e, NEW x,
           LocalTypes(k, r, b, bp, d, j, e, x), Sets(s, k, r, b, bp, d, j, e, x)
    PROVE  SessionTypes' /\ Settled(s, k, b, bp, j, e, x)
<1>1. SessionTypes'
  BY Zenon DEF SessionTypes, LocalTypes, Sets
<1>2. /\ pc'[s] = k /\ bound'[s] = b /\ boundPool'[s] = bp
      /\ job'[s] = j /\ ext'[s] = e /\ batch'[s] = x
  BY Zenon DEF SessionTypes, Sets
<1>3. \A t \in Sessions \ {s} :
         /\ pc'[t] = pc[t] /\ bound'[t] = bound[t] /\ boundPool'[t] = boundPool[t]
         /\ job'[t] = job[t] /\ ext'[t] = ext[t] /\ batch'[t] = batch[t]
  BY Zenon DEF SessionTypes, Sets
<1>4. \A t \in Sessions : {bound'[t], job'[t].conn, ext'[t].reader} \ {NoConn} \subseteq Conns
  BY <1>1 DEF SessionTypes, Jobs, ExtStates
<1>5. InHands' \in [Sessions -> SUBSET Conns]
  BY <1>4 DEF InHands
<1>6. InHands'[s] = {b, j.conn, e.reader} \ {NoConn}
  BY <1>2 DEF InHands
<1>7. \A t \in Sessions \ {s} : InHands'[t] = InHands[t]
  BY <1>3 DEF InHands
<1> QED
  BY <1>1, <1>2, <1>3, <1>5, <1>6, <1>7, Zenon DEF Settled

\* Sets of connections can be counted.
LEMMA ConnSets ==
    ASSUME NEW S, S \subseteq Conns
    PROVE  IsFiniteSet(S) /\ Cardinality(S) \in Nat
BY RelayAssumption, FS_Subset, FS_CardinalityType

\* Taking a connection keeps the count, in proxy mode.
LEMMA CountTake ==
    ASSUME PoolTypes, Places(InHands), Counted, ProxyOnly, UNCHANGED closed,
           NEW p \in Pools, NEW c \in Conns, Takes(p, c)
    PROVE  Counted'
<1>1. /\ idle \in [Pools -> SUBSET Conns] /\ home \in [Conns -> Pools \cup {NoPool}]
      /\ numOpen \in [Pools -> 0 .. MaxConnections] /\ IdleHome
      /\ \A q \in Pools \ closed : Cardinality(HomeOf(q)) <= numOpen[q]
      /\ home[c] = NoPool => \A q \in Pools : c \notin idle[q]
  BY DEF Places, Counted
<1>2. \A q \in Pools : idle'[q] \subseteq idle[q]
  BY <1>1 DEF Takes
<1>3. CASE UNCHANGED <<numOpen, home>>
  <2>1. IdleHome'
    BY <1>1, <1>2, <1>3 DEF IdleHome
  <2>2. \A q \in Pools : HomeOf(q)' = HomeOf(q)
    BY <1>3 DEF HomeOf
  <2> QED
    BY <1>1, <1>3, <2>1, <2>2 DEF Counted
<1>4. CASE /\ numOpen[p] < MaxConnections /\ home[c] = NoPool
           /\ numOpen' = [numOpen EXCEPT ![p] = @ + 1] /\ home' = [home EXCEPT ![c] = p]
  <2>1. IdleHome'
    BY <1>1, <1>2, <1>4 DEF IdleHome
  <2>2. numOpen' \in [Pools -> 0 .. MaxConnections]
    BY <1>1, <1>4, RelayAssumption
  <2>3. ASSUME NEW q \in Pools \ closed PROVE Cardinality(HomeOf(q)') <= numOpen'[q]
    <3>1. CASE q = p
      <4>1. HomeOf(q)' = HomeOf(q) \cup {c} /\ c \notin HomeOf(q)
        BY <1>1, <1>4, <3>1, PoolNumbers DEF HomeOf
      <4>2. IsFiniteSet(HomeOf(q)) /\ Cardinality(HomeOf(q)) \in Nat
        BY ConnSets DEF HomeOf
      <4>3. Cardinality(HomeOf(q)') = Cardinality(HomeOf(q)) + 1
        BY <4>1, <4>2, FS_AddElement, Zenon
      <4> QED
        BY <1>1, <1>4, <3>1, <4>2, <4>3
    <3>2. CASE q # p
      <4>1. HomeOf(q)' = HomeOf(q)
        BY <1>1, <1>4, <3>2, PoolNumbers DEF HomeOf
      <4> QED
        BY <1>1, <1>4, <3>2, <4>1
    <3> QED
      BY <3>1, <3>2
  <2> QED
    BY <2>1, <2>2, <2>3 DEF Counted
<1> QED
  BY <1>3, <1>4 DEF Takes

\* So does giving one back to the pool that dialed it, or to one that is closed.
LEMMA CountGive ==
    ASSUME PoolTypes, Places(InHands), Counted, ProxyOnly, UNCHANGED closed,
           NEW s \in Sessions, NEW p \in Pools, NEW c \in InHands[s], Given(p, c),
           p \notin closed => home[c] = p
    PROVE  Counted'
<1>1. /\ idle \in [Pools -> SUBSET Conns] /\ home \in [Conns -> Pools \cup {NoPool}]
      /\ numOpen \in [Pools -> 0 .. MaxConnections] /\ IdleHome /\ c \in Conns
      /\ \A q \in Pools \ closed : Cardinality(HomeOf(q)) <= numOpen[q]
      /\ \A q \in Pools : c \notin idle[q]
  BY DEF Places, Counted
<1>2. CASE /\ p \notin closed /\ idle' = [idle EXCEPT ![p] = @ \cup {c}]
           /\ UNCHANGED <<numOpen, home>>
  <2>1. IdleHome'
    BY <1>1, <1>2 DEF IdleHome
  <2>2. \A q \in Pools : HomeOf(q)' = HomeOf(q)
    BY <1>2 DEF HomeOf
  <2> QED
    BY <1>1, <1>2, <2>1, <2>2 DEF Counted
<1>3. CASE /\ home' = [home EXCEPT ![c] = NoPool] /\ idle' = idle
           /\ numOpen' = [numOpen EXCEPT ![p] = IF @ > 0 THEN @ - 1 ELSE @]
  <2>1. IdleHome'
    BY <1>1, <1>3 DEF IdleHome
  <2>2. numOpen' \in [Pools -> 0 .. MaxConnections]
    BY <1>1, <1>3, RelayAssumption
  <2>3. ASSUME NEW q \in Pools \ closed PROVE Cardinality(HomeOf(q)') <= numOpen'[q]
    <3>1. HomeOf(q)' = HomeOf(q) \ {c}
      BY <1>1, <1>3, PoolNumbers DEF HomeOf
    <3>2. IsFiniteSet(HomeOf(q)) /\ Cardinality(HomeOf(q)) \in Nat
      BY ConnSets DEF HomeOf
    <3>3. CASE q = p
      <4>1. c \in HomeOf(q)
        BY <1>1, <3>3 DEF HomeOf
      <4>2. Cardinality(HomeOf(q)') = Cardinality(HomeOf(q)) - 1
        BY <3>1, <3>2, <4>1, FS_RemoveElement, Zenon
      <4>3. Cardinality(HomeOf(q)) > 0
        BY <3>2, <4>1, FS_EmptySet
      <4> QED
        BY <1>1, <1>3, <3>2, <3>3, <4>2, <4>3
    <3>4. CASE q # p
      <4>1. Cardinality(HomeOf(q)') <= Cardinality(HomeOf(q))
        BY <3>1, <3>2, FS_Subset
      <4>2. numOpen'[q] = numOpen[q] /\ numOpen[q] \in Int /\ Cardinality(HomeOf(q)') \in Nat
        <5>1. Cardinality(HomeOf(q)') \in Nat
          BY <3>1, ConnSets DEF HomeOf
        <5> QED
          BY <1>1, <1>3, <3>4, <5>1
      <4> QED
        BY <1>1, <3>2, <4>1, <4>2
    <3> QED
      BY <3>3, <3>4
  <2> QED
    BY <2>1, <2>2, <2>3 DEF Counted
<1> QED
  BY <1>2, <1>3 DEF Given

\* Where connections are after such a step.
LEMMA MovesPlaces ==
    ASSUME Places(InHands), NEW s \in Sessions, NEW N, Moves(s, N), N = InHands'[s],
           InHands' \in [Sessions -> SUBSET Conns],
           \A t \in Sessions \ {s} : InHands'[t] = InHands[t]
    PROVE  /\ Places(InHands)'
           /\ \A t \in Sessions \ {s} : \A d \in InHands[t] : home'[d] = home[d]
<1>1. PICK H, M : H = InHands /\ M = InHands'
  BY Zenon
<1>2. /\ Places(H) /\ M \in [Sessions -> SUBSET Conns] /\ N = M[s]
      /\ \A t \in Sessions \ {s} : M[t] = H[t]
  BY <1>1, Zenon
<1>3. /\ Places(M)'
      /\ \A t \in Sessions \ {s} : \A d \in H[t] : home'[d] = home[d]
  <2>1. CASE UNCHANGED <<idle, numOpen, home>> /\ N \subseteq InHands[s]
    <3>1. \A t \in Sessions : M[t] \subseteq H[t]
      BY <1>1, <1>2, <2>1
    <3> QED
      BY <1>2, <2>1, <3>1, PlacesKeep, Zenon
  <2>2. CASE \E p \in Pools, c \in Conns : Takes(p, c) /\ N \subseteq InHands[s] \cup {c}
    <3>1. PICK p \in Pools, c \in Conns : Takes(p, c) /\ M[s] \subseteq H[s] \cup {c}
      BY <1>1, <1>2, <2>2, Zenon
    <3>2. Places(M)' /\ \A d \in Conns \ {c} : home'[d] = home[d]
      BY <1>2, <3>1, PlacesTake
    <3>3. \A t \in Sessions : c \notin H[t] /\ H[t] \subseteq Conns
      BY <1>2, <3>1 DEF Places, Takes
    <3> QED
      BY <3>2, <3>3
  <2>3. CASE \E p \in Pools, c \in InHands[s] : Given(p, c) /\ N \subseteq InHands[s] \ {c}
    <3>1. PICK p \in Pools, c \in H[s] : Given(p, c) /\ M[s] \subseteq H[s] \ {c}
      BY <1>1, <1>2, <2>3, Zenon
    <3>2. Returned(p, c)
      BY <3>1 DEF Given, Returned
    <3>3. Places(M)' /\ \A d \in Conns \ {c} : home'[d] = home[d]
      BY <1>2, <3>1, <3>2, PlacesGive
    <3>4. \A t \in Sessions \ {s} : c \notin H[t] /\ H[t] \subseteq Conns
      BY <1>2 DEF Places
    <3> QED
      BY <3>3, <3>4
  <2> QED
    BY <2>1, <2>2, <2>3, Zenon DEF Moves
<1> QED
  BY <1>1, <1>3 DEF Places

\* A step of a session keeps ExtInv if it leaves the session's own part in order.
LEMMA StepInv ==
    ASSUME ExtInv, NEW s \in Sessions,
           NEW k, NEW r, NEW b, NEW bp, NEW d, NEW j, NEW e, NEW x,
           LocalTypes(k, r, b, bp, d, j, e, x), Sets(s, k, r, b, bp, d, j, e, x),
           HandsOf(k, b, bp, j, e, x), NotesOf(home', k, b, bp, j, e, x),
           Moves(s, {b, j.conn, e.reader} \ {NoConn}), UNCHANGED <<writerPool, closed>>,
           numOpen' \in [Pools -> Int], backend' \in [Conns -> BackendStates]
    PROVE  ExtInv'
<1>1. /\ PoolTypes /\ SessionTypes /\ Places(InHands) /\ Counted
      /\ \A t \in Sessions : Hands(t) /\ Notes(t)
  BY Zenon DEF ExtInv
<1>2. SessionTypes' /\ Settled(s, k, b, bp, j, e, x)
  BY <1>1, SetsTyped
<1>3. \A t \in Sessions \ {s} :
        /\ pc'[t] = pc[t] /\ bound'[t] = bound[t] /\ boundPool'[t] = boundPool[t]
        /\ job'[t] = job[t] /\ ext'[t] = ext[t] /\ batch'[t] = batch[t]
  BY <1>2, Zenon DEF Settled
<1>4. /\ InHands' \in [Sessions -> SUBSET Conns] /\ InHands'[s] = {b, j.conn, e.reader} \ {NoConn}
      /\ \A t \in Sessions \ {s} : InHands'[t] = InHands[t]
  BY <1>2, Zenon DEF Settled
<1>5. PoolTypes'
  BY <1>1 DEF PoolTypes
<1>6. /\ Places(InHands)'
      /\ \A t \in Sessions \ {s} : \A c \in InHands[t] : home'[c] = home[c]
  BY <1>1, <1>4, MovesPlaces, Zenon
<1>7. Counted'
  <2>1. CASE ~ProxyOnly
    BY <2>1, Zenon DEF Counted, ProxyOnly
  <2>2. CASE UNCHANGED <<idle, numOpen, home>>
    BY <1>1, <2>2 DEF Counted, IdleHome, HomeOf, ProxyOnly
  <2>3. CASE ProxyOnly /\ \E p \in Pools, c \in Conns : Takes(p, c)
    BY <1>1, <2>3, CountTake, Zenon
  <2>4. CASE ProxyOnly /\ \E p \in Pools, c \in InHands[s] : Given(p, c) /\ (p \notin closed => home[c] = p)
    BY <1>1, <2>4, CountGive, Zenon
  <2> QED
    BY <2>1, <2>2, <2>3, <2>4, Zenon DEF Moves
<1>8. ASSUME NEW t \in Sessions PROVE Hands(t)' /\ Notes(t)'
  <2>1. CASE t = s
    <3>1. /\ pc'[s] = k /\ bound'[s] = b /\ boundPool'[s] = bp
          /\ job'[s] = j /\ ext'[s] = e /\ batch'[s] = x
      BY <1>2, Zenon DEF Settled
    <3>2. Hands(s)'
      BY <3>1, Zenon DEF Hands, HandsOf
    <3>3. Notes(s)'
      BY <3>1, Zenon DEF Notes, NotesOf, ProxyOnly
    <3> QED
      BY <2>1, <3>2, <3>3
  <2>2. CASE t # s
    <3>1. Hands(t) /\ Notes(t)
      BY <1>1, Zenon
    <3>2. Hands(t)'
      BY <1>3, <2>2, <3>1, Zenon DEF Hands, HandsOf
    <3>3. /\ job[t].acquired => job[t].conn \in InHands[t]
          /\ bound[t] # NoConn => bound[t] \in InHands[t]
          /\ ext[t].reader # NoConn => ext[t].reader \in InHands[t]
      <4>1. job[t].acquired => job[t].conn \in Conns
        BY <1>1, <3>1, Zenon DEF Hands, HandsOf, SessionTypes
      <4> QED
        BY <4>1, RelayAssumption, Zenon DEF InHands
    <3>4. Notes(t)'
      <4>1. /\ job[t].acquired => home'[job[t].conn] = home[job[t].conn]
            /\ bound[t] # NoConn => home'[bound[t]] = home[bound[t]]
            /\ ext[t].reader # NoConn => home'[ext[t].reader] = home[ext[t].reader]
        BY <1>6, <2>2, <3>3
      <4>2. NotesOf(home', pc[t], bound[t], boundPool[t], job[t], ext[t], batch[t])
        BY <3>1, <4>1, Zenon DEF Notes, NotesOf
      <4>3. closed' = closed
        OBVIOUS
      <4> QED
        BY <1>3, <2>2, <4>2, <4>3, Zenon DEF Notes, NotesOf, ProxyOnly
    <3> QED
      BY <3>2, <3>4, Zenon
  <2> QED
    BY <2>1, <2>2
<1> QED
  BY <1>2, <1>5, <1>6, <1>7, <1>8 DEF ExtInv

\* What ExtInv says of one session, and its locals as the step that changes nothing.
Own(s) ==
    /\ LocalTypes(pc[s], sess[s], bound[s], boundPool[s], dirty[s], job[s], ext[s], batch[s])
    /\ HandsOf(pc[s], bound[s], boundPool[s], job[s], ext[s], batch[s])
    /\ NotesOf(home, pc[s], bound[s], boundPool[s], job[s], ext[s], batch[s])
    /\ pc = [pc EXCEPT ![s] = pc[s]] /\ sess = [sess EXCEPT ![s] = sess[s]]
    /\ bound = [bound EXCEPT ![s] = bound[s]] /\ boundPool = [boundPool EXCEPT ![s] = boundPool[s]]
    /\ dirty = [dirty EXCEPT ![s] = dirty[s]] /\ job = [job EXCEPT ![s] = job[s]]
    /\ ext = [ext EXCEPT ![s] = ext[s]] /\ batch = [batch EXCEPT ![s] = batch[s]]

\* It says that of every session.
LEMMA OwnPart ==
    ASSUME ExtInv, NEW s \in Sessions
    PROVE  Own(s)
<1>1. SessionTypes /\ Hands(s) /\ Notes(s)
  BY DEF ExtInv
<1>2. LocalTypes(pc[s], sess[s], bound[s], boundPool[s], dirty[s], job[s], ext[s], batch[s])
  BY <1>1, Zenon DEF SessionTypes, LocalTypes
<1>3. /\ pc = [pc EXCEPT ![s] = pc[s]] /\ sess = [sess EXCEPT ![s] = sess[s]]
      /\ bound = [bound EXCEPT ![s] = bound[s]] /\ boundPool = [boundPool EXCEPT ![s] = boundPool[s]]
      /\ dirty = [dirty EXCEPT ![s] = dirty[s]] /\ job = [job EXCEPT ![s] = job[s]]
      /\ ext = [ext EXCEPT ![s] = ext[s]] /\ batch = [batch EXCEPT ![s] = batch[s]]
  BY <1>1 DEF SessionTypes
<1> QED
  BY <1>1, <1>2, <1>3, Zenon DEF Own, Hands, Notes

\* The session's own part after the step is in order; h[c] is where c was dialed.
InOrder(s, h, k, r, b, bp, d, j, e, x) ==
    /\ LocalTypes(k, r, b, bp, d, j, e, x) /\ Sets(s, k, r, b, bp, d, j, e, x)
    /\ HandsOf(k, b, bp, j, e, x) /\ NotesOf(h, k, b, bp, j, e, x)

\* A step that does not touch the pools keeps ExtInv,
LEMMA QuietInv ==
    ASSUME ExtInv, NEW s \in Sessions,
           NEW k, NEW r, NEW b, NEW bp, NEW d, NEW j, NEW e, NEW x,
           InOrder(s, home, k, r, b, bp, d, j, e, x),
           {b, j.conn, e.reader} \ {NoConn} \subseteq InHands[s],
           UNCHANGED <<writerPool, poolVars>>, backend' \in [Conns -> BackendStates]
    PROVE  ExtInv'
<1>1. NotesOf(home', k, b, bp, j, e, x)
  BY Zenon DEF InOrder, NotesOf, poolVars
<1>2. Moves(s, {b, j.conn, e.reader} \ {NoConn}) /\ UNCHANGED <<writerPool, closed>>
  BY DEF Moves, poolVars
<1>3. numOpen' \in [Pools -> Int]
  BY Zenon DEF ExtInv, PoolTypes, poolVars
<1>4. /\ LocalTypes(k, r, b, bp, d, j, e, x) /\ Sets(s, k, r, b, bp, d, j, e, x)
      /\ HandsOf(k, b, bp, j, e, x)
  BY Zenon DEF InOrder
<1> QED
  BY <1>1, <1>2, <1>3, <1>4, StepInv, Zenon

\* one that takes a connection,
LEMMA TakeInv ==
    ASSUME ExtInv, NEW s \in Sessions, NEW p \in Pools, NEW c \in Conns, Takes(p, c),
           NEW k, NEW r, NEW b, NEW bp, NEW d, NEW j, NEW e, NEW x,
           InOrder(s, home', k, r, b, bp, d, j, e, x),
           {b, j.conn, e.reader} \ {NoConn} \subseteq InHands[s] \cup {c},
           UNCHANGED <<writerPool, closed, backend>>
    PROVE  ExtInv'
<1>1. Moves(s, {b, j.conn, e.reader} \ {NoConn})
  BY Zenon DEF Moves
<1>2. numOpen' \in [Pools -> Int] /\ backend' \in [Conns -> BackendStates]
  <2>1. numOpen \in [Pools -> Int] /\ backend \in [Conns -> BackendStates]
    BY Zenon DEF ExtInv, PoolTypes
  <2>2. numOpen' = numOpen \/ numOpen' = [numOpen EXCEPT ![p] = @ + 1]
    BY Zenon DEF Takes
  <2>3. backend' = backend
    BY Zenon
  <2> QED
    BY <2>1, <2>2, <2>3
<1>3. /\ LocalTypes(k, r, b, bp, d, j, e, x) /\ Sets(s, k, r, b, bp, d, j, e, x)
      /\ HandsOf(k, b, bp, j, e, x) /\ NotesOf(home', k, b, bp, j, e, x)
  BY Zenon DEF InOrder
<1> QED
  BY <1>1, <1>2, <1>3, StepInv, Zenon

\* which comes from nobody's hands,
LEMMA TakenConn ==
    ASSUME ExtInv, NEW p \in Pools, NEW c \in Conns, Takes(p, c)
    PROVE  /\ \A t \in Sessions : c \notin InHands[t]
           /\ \A d \in Conns \ {c} : home'[d] = home[d]
           /\ ProxyOnly => home'[c] = p
<1>1. Places(InHands) /\ (ProxyOnly => IdleHome)
  BY DEF ExtInv, Counted
<1>2. \A t \in Sessions : c \notin InHands[t]
  BY <1>1 DEF Places, Takes
<1>3. home \in [Conns -> Pools \cup {NoPool}]
  BY <1>1 DEF Places
<1> QED
  BY <1>1, <1>2, <1>3 DEF IdleHome, Takes

\* and one that gives a connection back.
LEMMA GiveInv ==
    ASSUME ExtInv, NEW s \in Sessions, NEW p \in Pools, NEW c \in InHands[s], Given(p, c),
           ProxyOnly /\ p \notin closed => home[c] = p,
           NEW k, NEW r, NEW b, NEW bp, NEW d, NEW j, NEW e, NEW x,
           InOrder(s, home, k, r, b, bp, d, j, e, x),
           {b, j.conn, e.reader} \ {NoConn} \subseteq InHands[s] \ {c},
           UNCHANGED <<writerPool, closed>>,
           numOpen' \in [Pools -> Int], backend' \in [Conns -> BackendStates]
    PROVE  ExtInv'
<1>1. Moves(s, {b, j.conn, e.reader} \ {NoConn})
  BY Zenon DEF Moves
<1>2. /\ LocalTypes(k, r, b, bp, d, j, e, x) /\ Sets(s, k, r, b, bp, d, j, e, x)
      /\ HandsOf(k, b, bp, j, e, x) /\ NotesOf(home, k, b, bp, j, e, x)
  BY Zenon DEF InOrder
<1>3. \A q \in Conns \ {c} : home'[q] = home[q]
  BY Zenon DEF ExtInv, Places, Given
<1>4. InHands[s] \subseteq Conns
  BY Zenon DEF ExtInv, Places
<1>5. j.acquired => j.conn \in Conns
  BY <1>2, Zenon DEF HandsOf, LocalTypes
<1>6. NotesOf(home', k, b, bp, j, e, x)
  BY <1>2, <1>3, <1>4, <1>5, RelayAssumption, Zenon DEF NotesOf
<1> QED
  BY <1>1, <1>2, <1>6, StepInv, Zenon

\* Every way to give it back does so.
LEMMA Gives ==
    ASSUME ExtInv, NEW p \in Pools, NEW c \in Conns, NEW b \in BackendStates, NEW d,
           Discards(p, c) \/ Releases(p, c, b) \/ Resets(p, c, b) \/ GivesBack(d, p, c, b)
    PROVE  /\ Given(p, c)
           /\ numOpen' \in [Pools -> Int]
           /\ backend' \in [Conns -> BackendStates]
<1>1. Given(p, c)
  BY DEF Discards, Releases, Resets, GivesBack, Given
<1>2. PoolTypes
  BY DEF ExtInv
<1>3. numOpen' \in [Pools -> Int]
  BY <1>1, <1>2 DEF Given, PoolTypes
<1>4. Fresh \in BackendStates
  BY StatementsTyped DEF Fresh, BackendStates
<1>5. \E a \in BackendStates : backend' = [backend EXCEPT ![c] = a]
  BY <1>4 DEF Discards, Releases, Resets, GivesBack
<1> QED
  BY <1>1, <1>2, <1>3, <1>5 DEF PoolTypes

\* A session without batches, and none in progress.
LEMMA ExtBlanks ==
    /\ NewExt \in ExtStates /\ NewExt.reader = NoConn /\ NewExt.readerPool = NoPool
    /\ NewExt.mode = "proxy"
    /\ NoBatch \in BatchStates /\ NoBatch.kind = "none"
BY DEF NewExt, ExtStates, NoBatch, BatchStates, BatchKinds

\* What a batch or a synthesized query leaves.
LEMMA AnswersTyped ==
    ASSUME ExtInv, NEW s \in Sessions, job[s].conn \in Conns
    PROVE  /\ Answers(s) \subseteq BackendStates
           /\ Outcomes(backend[job[s].conn], job[s].query) \subseteq BackendStates
<1>1. backend[job[s].conn] \in BackendStates
  BY DEF ExtInv, PoolTypes
<1>2. job[s].query \in Seq(Statements) /\ batch[s].msgs \in Seq(Messages)
  BY DEF ExtInv, SessionTypes, Jobs, BatchStates
<1> QED
  BY <1>1, <1>2, QueryOutcomes, BatchOutcomesTyped DEF Answers

-----------------------------------------------------------------------------
(* The actions *)

\* A client connects.
LEMMA ConnectInv ==
    ASSUME ExtInv, NEW s \in Sessions, ExtConnect(s)
    PROVE  ExtInv'
<1>1. Own(s)
  BY OwnPart
<1>2. PICK mode \in Modes : ext' = [ext EXCEPT ![s] = [NewExt EXCEPT !.mode = mode]]
  BY Zenon DEF ExtConnect
<1> DEFINE e == [NewExt EXCEPT !.mode = mode]
<1>3. mode \in {"proxy", "multiplex"} /\ (ProxyOnly => mode = "proxy")
  BY ExtendedAssumption DEF ProxyOnly
<1>4. e \in ExtStates /\ e.reader = NoConn /\ e.readerPool = NoPool /\ e.mode = mode
  BY <1>3, ExtBlanks DEF ExtStates
<1>5. Sets(s, "read", sess[s], bound[s], boundPool[s], dirty[s], job[s], e, batch[s])
  BY <1>1, <1>2, Zenon DEF Own, Sets, ExtConnect, Connect
<1> HIDE DEF e
<1>6. pc[s] = "gone" /\ UNCHANGED <<writerPool, poolVars, backend>>
  BY DEF ExtConnect, Connect
<1>7. LocalTypes("read", sess[s], bound[s], boundPool[s], dirty[s], job[s], e, batch[s])
  BY <1>1, <1>4 DEF Own, LocalTypes
<1>8. /\ HandsOf(pc[s], bound[s], boundPool[s], job[s], ext[s], batch[s])
      /\ NotesOf(home, pc[s], bound[s], boundPool[s], job[s], ext[s], batch[s])
  BY <1>1 DEF Own
<1>9. HandsOf("read", bound[s], boundPool[s], job[s], e, batch[s])
  BY <1>4, <1>6, <1>8, Zenon DEF HandsOf
<1>10. NotesOf(home, "read", bound[s], boundPool[s], job[s], e, batch[s])
  BY <1>3, <1>4, <1>6, <1>8, Zenon DEF NotesOf, HandsOf
<1>11. {bound[s], job[s].conn, e.reader} \ {NoConn} \subseteq InHands[s]
  BY <1>4 DEF InHands
<1>12. backend' \in [Conns -> BackendStates]
  BY <1>6 DEF ExtInv, PoolTypes
<1> QED
  BY <1>5, <1>6, <1>7, <1>9, <1>10, <1>11, <1>12, QuietInv, Zenon DEF InOrder

\* A simple query is routed.
LEMMA QueryInv ==
    ASSUME ExtInv, NEW s \in Sessions, NEW q \in Queries, ExtQuery(s, q)
    PROVE  ExtInv'
<1>1. Own(s)
  BY OwnPart
<1> DEFINE pins == CompatMode = "pin" /\ Has(q, {"SET"})
           before == [sess[s] EXCEPT !.pinned = @ \/ pins]
           r == [before EXCEPT !.inTransaction = TxAfter(q, @),
                               !.wrote = @ \/ (IsWrite(q) /\ ~before.pinned
                                               /\ ~before.inTransaction /\ ~Has(q, TxKeywords))]
           d == dirty[s] \/ pins
           e == [ext[s] EXCEPT !.parsed = {}]
<1>2. PICK route \in Routes(q, before) :
        /\ sess' = [sess EXCEPT ![s] = r]
        /\ IF "readonly" \in switches /\ IsWrite(q)
           THEN UNCHANGED <<pc, job>>
           ELSE /\ pc' = [pc EXCEPT ![s] = "acquire"]
                /\ job' = [job EXCEPT ![s] =
                      [query |-> q, route |-> route, conn |-> NoConn, acquired |-> FALSE,
                       wasInTx |-> before.inTransaction, pool |-> writerPool]]
  BY Zenon DEF ExtQuery, Query
<1> DEFINE j == [query |-> q, route |-> route, conn |-> NoConn, acquired |-> FALSE,
                 wasInTx |-> before.inTransaction, pool |-> writerPool]
<1>3. /\ sess[s] \in SessionStates /\ dirty[s] \in BOOLEAN /\ ext[s] \in ExtStates
      /\ job[s] \in Jobs /\ pc[s] = "read"
  BY <1>1 DEF Own, LocalTypes, ExtQuery, Query
<1>4. before \in SessionStates
  BY <1>3, Zenon DEF SessionStates
<1>5. r \in SessionStates
  <2>1. TxAfter(q, before.inTransaction) \in BOOLEAN
    BY <1>4, Zenon DEF TxAfter, SessionStates
  <2> HIDE DEF before
  <2> QED
    BY <1>4, <2>1, Zenon DEF SessionStates
<1>6. d \in BOOLEAN
  BY <1>3
<1>7. e \in ExtStates /\ e.reader = ext[s].reader /\ e.readerPool = ext[s].readerPool
      /\ e.mode = ext[s].mode
  BY <1>3 DEF ExtStates
<1>8. writerPool \in WriterPools /\ writerPool \in Pools /\ writerPool \in 1 .. writerPool
  BY PoolNumbers, RelayAssumption DEF ExtInv, PoolTypes, WriterPools
<1>9. /\ j \in Jobs /\ j.conn = NoConn /\ j.acquired = FALSE /\ j.pool = writerPool
      /\ j.route = route
  <2>1. q \in Seq(Statements) /\ route \in {"reader", "writer"}
    BY RelayAssumption DEF Routes
  <2>2. before.inTransaction \in BOOLEAN
    BY <1>4 DEF SessionStates
  <2> HIDE DEF before
  <2> QED
    BY <1>8, <2>1, <2>2, Zenon DEF Jobs
<1>10. /\ dirty' = [dirty EXCEPT ![s] = d] /\ ext' = [ext EXCEPT ![s] = e]
       /\ UNCHANGED <<writerPool, poolVars, backend, bound, boundPool, batch>>
  BY <1>3 DEF ExtQuery, Query
<1> HIDE DEF r, d, e, j
<1>11. /\ HandsOf(pc[s], bound[s], boundPool[s], job[s], ext[s], batch[s])
       /\ NotesOf(home, pc[s], bound[s], boundPool[s], job[s], ext[s], batch[s])
       /\ batch[s].kind = "none"
  BY <1>1, <1>3 DEF Own, HandsOf
<1>12. backend' \in [Conns -> BackendStates]
  BY <1>10 DEF ExtInv, PoolTypes
<1>13. CASE "readonly" \in switches /\ IsWrite(q)
  <2>1. Sets(s, pc[s], r, bound[s], boundPool[s], d, job[s], e, batch[s])
    BY <1>1, <1>2, <1>10, <1>13, Zenon DEF Own, Sets
  <2>2. LocalTypes(pc[s], r, bound[s], boundPool[s], d, job[s], e, batch[s])
    BY <1>1, <1>5, <1>6, <1>7 DEF Own, LocalTypes
  <2>3. HandsOf(pc[s], bound[s], boundPool[s], job[s], e, batch[s])
    BY <1>7, <1>11 DEF HandsOf
  <2>4. NotesOf(home, pc[s], bound[s], boundPool[s], job[s], e, batch[s])
    BY <1>7, <1>11 DEF NotesOf
  <2>5. {bound[s], job[s].conn, e.reader} \ {NoConn} \subseteq InHands[s]
    BY <1>7 DEF InHands
  <2> QED
    BY <1>10, <1>12, <2>1, <2>2, <2>3, <2>4, <2>5, QuietInv DEF InOrder
<1>14. CASE ~("readonly" \in switches /\ IsWrite(q))
  <2>1. Sets(s, "acquire", r, bound[s], boundPool[s], d, j, e, batch[s])
    <3>1. pc' = [pc EXCEPT ![s] = "acquire"] /\ job' = [job EXCEPT ![s] = j]
      BY <1>2, <1>14, Zenon DEF j
    <3> QED
      BY <1>1, <1>2, <1>10, <3>1, Zenon DEF Own, Sets
  <2>2. LocalTypes("acquire", r, bound[s], boundPool[s], d, j, e, batch[s])
    BY <1>1, <1>5, <1>6, <1>7, <1>9 DEF Own, LocalTypes
  <2>3. HandsOf("acquire", bound[s], boundPool[s], j, e, batch[s])
    BY <1>7, <1>8, <1>9, <1>11 DEF HandsOf
  <2>4. NotesOf(home, "acquire", bound[s], boundPool[s], j, e, batch[s])
    BY <1>7, <1>9, <1>11 DEF NotesOf
  <2>5. {bound[s], j.conn, e.reader} \ {NoConn} \subseteq InHands[s]
    BY <1>7, <1>9 DEF InHands
  <2> QED
    BY <1>10, <1>12, <2>1, <2>2, <2>3, <2>4, <2>5, QuietInv DEF InOrder
<1> QED
  BY <1>13, <1>14

\* A step in which only the place and the locals j of the query change.
LEMMA JobInv ==
    ASSUME ExtInv, NEW s \in Sessions, NEW k \in {"read", "acquire", "run"}, NEW j \in Jobs,
           NEW x \in BatchStates, NEW e \in ExtStates,
           pc' = [pc EXCEPT ![s] = k], job' = [job EXCEPT ![s] = j],
           ext' = [ext EXCEPT ![s] = e], batch' = [batch EXCEPT ![s] = x],
           UNCHANGED <<writerPool, poolVars, backend, sess, bound, boundPool, dirty>>,
           HandsOf(k, bound[s], boundPool[s], j, e, x),
           NotesOf(home, k, bound[s], boundPool[s], j, e, x),
           {j.conn, e.reader} \ {NoConn} \subseteq InHands[s]
    PROVE  ExtInv'
<1>1. Own(s)
  BY OwnPart
<1>2. Sets(s, k, sess[s], bound[s], boundPool[s], dirty[s], j, e, x)
  BY <1>1, Zenon DEF Own, Sets
<1>3. LocalTypes(k, sess[s], bound[s], boundPool[s], dirty[s], j, e, x)
  BY <1>1 DEF Own, LocalTypes
<1>4. {bound[s], j.conn, e.reader} \ {NoConn} \subseteq InHands[s]
  BY Zenon DEF InHands
<1>5. backend' \in [Conns -> BackendStates] /\ UNCHANGED <<writerPool, poolVars>>
  BY Zenon DEF ExtInv, PoolTypes
<1>6. InOrder(s, home, k, sess[s], bound[s], boundPool[s], dirty[s], j, e, x)
  BY <1>2, <1>3, Zenon DEF InOrder
<1> QED
  BY <1>4, <1>5, <1>6, QuietInv, Zenon

\* A bound connection is used, a read falls back, or is answered from the cache.
LEMMA LocalInv ==
    ASSUME ExtInv, NEW s \in Sessions,
           \/ (UseBound(s) \/ ReadFallsBack(s)) /\ UNCHANGED extVars
           \/ CacheHit(s) /\ batch[s].kind = "none" /\ UNCHANGED extVars
           \/ CacheHit(s) /\ batch[s].kind = "read" /\ Finishes(s, NoConn, NoPool, {})
    PROVE  ExtInv'
<1>1. Own(s)
  BY OwnPart
<1>2. /\ job[s] \in Jobs /\ ext[s] \in ExtStates /\ batch[s] \in BatchStates
      /\ HandsOf("acquire", bound[s], boundPool[s], job[s], ext[s], batch[s])
      /\ NotesOf(home, "acquire", bound[s], boundPool[s], job[s], ext[s], batch[s])
  BY <1>1 DEF Own, LocalTypes, UseBound, ReadFallsBack, CacheHit
<1>3. /\ UNCHANGED <<writerPool, poolVars, backend, sess, bound, boundPool, dirty>>
      /\ pc[s] = "acquire"
  BY DEF UseBound, ReadFallsBack, CacheHit
<1>4. /\ UNCHANGED extVars => ext' = [ext EXCEPT ![s] = ext[s]] /\ batch' = [batch EXCEPT ![s] = batch[s]]
      /\ UNCHANGED pc => pc' = [pc EXCEPT ![s] = "acquire"]
  BY <1>1, <1>3 DEF Own, extVars
<1>5. {ext[s].reader} \ {NoConn} \subseteq InHands[s] /\ {bound[s]} \ {NoConn} \subseteq InHands[s]
  BY Zenon DEF InHands
<1>6. CASE UseBound(s) /\ UNCHANGED extVars
  <2> DEFINE j == [job[s] EXCEPT !.conn = bound[s]]
  <2>1. /\ bound[s] \in Conns /\ job[s].route = "writer" /\ pc' = [pc EXCEPT ![s] = "run"]
        /\ bound[s] # NoConn
    BY <1>1, <1>6 DEF Own, LocalTypes, UseBound
  <2>2. /\ j \in Jobs /\ j.conn = bound[s] /\ j.route = "writer" /\ j.pool = job[s].pool
        /\ j.acquired = job[s].acquired
    BY <1>2, <2>1 DEF Jobs
  <2>3. job' = [job EXCEPT ![s] = j]
    BY <1>6 DEF UseBound
  <2> HIDE DEF j
  <2>4. HandsOf("run", bound[s], boundPool[s], j, ext[s], batch[s])
    <3>1. 1 .. writerPool \subseteq Pools
      BY PoolNumbers, RelayAssumption DEF ExtInv, PoolTypes, Pools, WriterPools
    <3>2. j.pool \in Pools /\ ~j.acquired
      BY <1>2, <2>1, <2>2, <3>1, Zenon DEF HandsOf
    <3>3. bound[s] # ext[s].reader /\ batch[s].kind # "reuse"
      BY <1>2, <2>1, Zenon DEF HandsOf
    <3>4. /\ bound[s] = NoConn <=> boundPool[s] = NoPool
          /\ ext[s].reader = NoConn <=> ext[s].readerPool = NoPool
          /\ batch[s].kind \notin {"read", "synthRead", "parse", "reuse"}
      BY <1>2, <2>1, Zenon DEF HandsOf
    <3> QED
      BY <2>1, <2>2, <3>2, <3>3, <3>4, Zenon DEF HandsOf
  <2>5. NotesOf(home, "run", bound[s], boundPool[s], j, ext[s], batch[s])
    BY <1>2, <2>2, Zenon DEF HandsOf, NotesOf
  <2>6. {j.conn, ext[s].reader} \ {NoConn} \subseteq InHands[s]
    BY <1>5, <2>2, Zenon
  <2>7. ext' = [ext EXCEPT ![s] = ext[s]] /\ batch' = [batch EXCEPT ![s] = batch[s]]
    BY <1>4, <1>6
  <2> QED
    BY <1>2, <1>3, <2>1, <2>2, <2>3, <2>4, <2>5, <2>6, <2>7, JobInv, Zenon
<1>7. CASE ReadFallsBack(s) /\ UNCHANGED extVars
  <2> DEFINE j == [job[s] EXCEPT !.route = "fallback"]
  <2>1. job[s].route = "reader" /\ pc' = [pc EXCEPT ![s] = "acquire"]
    BY <1>4, <1>7 DEF ReadFallsBack
  <2>2. /\ j \in Jobs /\ j.conn = job[s].conn /\ j.route = "fallback" /\ j.pool = job[s].pool
        /\ j.acquired = job[s].acquired
    BY <1>2, <2>1 DEF Jobs
  <2>3. job' = [job EXCEPT ![s] = j]
    BY <1>7 DEF ReadFallsBack
  <2> HIDE DEF j
  <2>4. HandsOf("acquire", bound[s], boundPool[s], j, ext[s], batch[s])
    BY <1>2, <2>1, <2>2, Zenon DEF HandsOf
  <2>5. NotesOf(home, "acquire", bound[s], boundPool[s], j, ext[s], batch[s])
    BY <1>2, <2>2, Zenon DEF HandsOf, NotesOf
  <2>6. {j.conn, ext[s].reader} \ {NoConn} \subseteq InHands[s]
    BY <2>2 DEF InHands
  <2>7. ext' = [ext EXCEPT ![s] = ext[s]] /\ batch' = [batch EXCEPT ![s] = batch[s]]
    BY <1>4, <1>7
  <2> QED
    BY <1>2, <1>3, <2>1, <2>2, <2>3, <2>4, <2>5, <2>6, <2>7, JobInv, Zenon
<1>8. CASE CacheHit(s)
  <2>1. pc' = [pc EXCEPT ![s] = "read"] /\ job' = [job EXCEPT ![s] = NoJob]
    BY <1>8, Zenon DEF CacheHit
  <2>2. CASE batch[s].kind = "none" /\ UNCHANGED extVars
    <3>1. /\ HandsOf("read", bound[s], boundPool[s], NoJob, ext[s], batch[s])
          /\ NotesOf(home, "read", bound[s], boundPool[s], NoJob, ext[s], batch[s])
      BY <1>2, <2>2, Blanks, Zenon DEF HandsOf, NotesOf
    <3>2. {NoJob.conn, ext[s].reader} \ {NoConn} \subseteq InHands[s]
      BY <1>5, Blanks, Zenon
    <3> QED
      BY <1>2, <1>3, <1>4, <2>1, <2>2, <3>1, <3>2, Blanks, JobInv, Zenon
  <2>3. CASE Finishes(s, NoConn, NoPool, {})
    <3> DEFINE e == [ext[s] EXCEPT !.reader = NoConn, !.readerPool = NoPool, !.parsed = {}]
    <3>1. e \in ExtStates /\ e.reader = NoConn /\ e.readerPool = NoPool /\ e.mode = ext[s].mode
      BY <1>2, Zenon DEF ExtStates
    <3>2. ext' = [ext EXCEPT ![s] = e] /\ batch' = [batch EXCEPT ![s] = NoBatch]
      BY <2>3, Zenon DEF Finishes
    <3> HIDE DEF e
    <3>3. /\ HandsOf("read", bound[s], boundPool[s], NoJob, e, NoBatch)
          /\ NotesOf(home, "read", bound[s], boundPool[s], NoJob, e, NoBatch)
      BY <1>2, <3>1, Blanks, ExtBlanks, Zenon DEF HandsOf, NotesOf
    <3>4. {NoJob.conn, e.reader} \ {NoConn} \subseteq InHands[s]
      BY <3>1, Blanks, Zenon
    <3> QED
      BY <1>3, <2>1, <3>1, <3>2, <3>3, <3>4, Blanks, ExtBlanks, JobInv, Zenon
  <2> QED
    BY <1>8, <2>2, <2>3, <1>2, <1>3, <1>4, <1>6, <1>7
<1> QED
  BY <1>6, <1>7, <1>8

\* A connection is taken for the query or the batch, or for a Describe.
LEMMA AcquireInv ==
    ASSUME ExtInv, NEW s \in Sessions,
           \/ (AcquireWriter(s) \/ AcquireReader(s)) /\ UNCHANGED extVars
           \/ AcquireDescribe(s)
    PROVE  ExtInv'
<1>1. Own(s)
  BY OwnPart
<1> DEFINE K(k, p, c, j) ==
        /\ k \in {"run", "describe"} /\ p \in Pools /\ c \in Conns /\ j \in Jobs /\ Takes(p, c)
        /\ pc' = [pc EXCEPT ![s] = k] /\ job' = [job EXCEPT ![s] = j]
        /\ j.conn = c /\ j.pool \in Pools
        /\ j.acquired /\ j.pool # p => j.pool \in closed
        /\ k = "run" => pc[s] = "acquire" /\ j.acquired /\ j.route = job[s].route
        /\ k = "run" /\ j.route = "writer" => bound[s] = NoConn
        /\ k = "describe" => pc[s] = "read" /\ ~j.acquired /\ ext[s].mode = "multiplex"
<1>2. /\ writerPool \in Pools /\ Reader \in Pools /\ writerPool \in WriterPools
      /\ \A q \in 1 .. writerPool : q \in Pools /\ (q # writerPool => q \in closed)
  BY PoolNumbers, RelayAssumption DEF ExtInv, PoolTypes, WriterPools
<1>3. /\ job[s] \in Jobs /\ ext[s] \in ExtStates /\ batch[s] \in BatchStates
      /\ HandsOf(pc[s], bound[s], boundPool[s], job[s], ext[s], batch[s])
      /\ NotesOf(home, pc[s], bound[s], boundPool[s], job[s], ext[s], batch[s])
  BY <1>1 DEF Own, LocalTypes
<1>4. /\ UNCHANGED <<writerPool, closed, backend, sess, bound, boundPool, dirty>>
      /\ UNCHANGED <<ext, batch>>
  BY Zenon DEF AcquireWriter, AcquireReader, AcquireDescribe, extVars
<1>5. \E k, p, c, j : K(k, p, c, j)
  <2>1. CASE AcquireWriter(s)
    <3>1. PICK c \in Conns :
            /\ Takes(writerPool, c)
            /\ job' = [job EXCEPT ![s].conn = c, ![s].acquired = TRUE]
      BY <2>1, Zenon DEF AcquireWriter
    <3> DEFINE j == [job[s] EXCEPT !.conn = c, !.acquired = TRUE]
    <3>2. /\ pc[s] = "acquire" /\ job[s].route = "writer" /\ bound[s] = NoConn
          /\ pc' = [pc EXCEPT ![s] = "run"]
      BY <2>1 DEF AcquireWriter
    <3>3. /\ j \in Jobs /\ j.conn = c /\ j.acquired = TRUE /\ j.pool = job[s].pool
          /\ j.route = job[s].route
      BY <1>3, Zenon DEF Jobs
    <3>4. job' = [job EXCEPT ![s] = j]
      BY <3>1, Zenon
    <3> HIDE DEF j
    <3>5. job[s].pool \in 1 .. writerPool
      BY <1>3, <3>2, Zenon DEF HandsOf
    <3>6. K("run", writerPool, c, j)
      BY <1>2, <3>1, <3>2, <3>3, <3>4, <3>5, Zenon
    <3> QED
      BY <3>6, Zenon
  <2>2. CASE AcquireReader(s)
    <3>1. PICK p \in {Reader, writerPool}, c \in Conns :
            /\ Takes(p, c)
            /\ job' = [job EXCEPT ![s].conn = c, ![s].acquired = TRUE, ![s].pool = p]
      BY <2>2, Zenon DEF AcquireReader
    <3> DEFINE j == [job[s] EXCEPT !.conn = c, !.acquired = TRUE, !.pool = p]
    <3>2. /\ pc[s] = "acquire" /\ job[s].route \in {"reader", "fallback"}
          /\ pc' = [pc EXCEPT ![s] = "run"]
      BY <2>2, Zenon DEF AcquireReader
    <3>3. /\ j \in Jobs /\ j.conn = c /\ j.acquired = TRUE /\ j.pool = p
          /\ j.route = job[s].route
      BY <1>2, <1>3, Zenon DEF Jobs
    <3>4. job' = [job EXCEPT ![s] = j]
      BY <3>1, Zenon
    <3> HIDE DEF j
    <3>5. K("run", p, c, j)
      BY <1>2, <3>1, <3>2, <3>3, <3>4, Zenon
    <3> QED
      BY <3>5, Zenon
  <2>3. CASE AcquireDescribe(s)
    <3>1. PICK c \in Conns :
            /\ Takes(writerPool, c)
            /\ job' = [job EXCEPT ![s] = [NoJob EXCEPT !.conn = c, !.pool = writerPool]]
      BY <2>3, Zenon DEF AcquireDescribe
    <3> DEFINE j == [NoJob EXCEPT !.conn = c, !.pool = writerPool]
    <3>2. /\ pc[s] = "read" /\ ext[s].mode = "multiplex" /\ pc' = [pc EXCEPT ![s] = "describe"]
      BY <2>3, Zenon DEF AcquireDescribe
    <3>3. j \in Jobs /\ j.conn = c /\ j.acquired = FALSE /\ j.pool = writerPool
      BY <1>2, Blanks, Zenon DEF Jobs
    <3>4. job' = [job EXCEPT ![s] = j]
      BY <3>1
    <3> HIDE DEF j
    <3>5. K("describe", writerPool, c, j)
      BY <1>2, <3>1, <3>2, <3>3, <3>4, Zenon
    <3> QED
      BY <3>5, Zenon
  <2> QED
    BY <2>1, <2>2, <2>3, Zenon
<1>6. PICK k, p, c, j : K(k, p, c, j)
  BY <1>5, Zenon
<1>7. /\ \A t \in Sessions : c \notin InHands[t]
      /\ \A d \in Conns \ {c} : home'[d] = home[d]
      /\ ProxyOnly => home'[c] = p
  BY <1>6, TakenConn, Zenon
<1>8. c # bound[s] /\ c # ext[s].reader /\ c # NoConn
  BY <1>6, <1>7, RelayAssumption DEF InHands
<1>9. Sets(s, k, sess[s], bound[s], boundPool[s], dirty[s], j, ext[s], batch[s])
  BY <1>1, <1>4, <1>6, Zenon DEF Own, Sets
<1>10. LocalTypes(k, sess[s], bound[s], boundPool[s], dirty[s], j, ext[s], batch[s])
  BY <1>1, <1>6 DEF Own, LocalTypes
<1>11. HandsOf(k, bound[s], boundPool[s], j, ext[s], batch[s])
  BY <1>3, <1>6, <1>8, Zenon DEF HandsOf
<1>12. NotesOf(home', k, bound[s], boundPool[s], j, ext[s], batch[s])
  <2>1. bound[s] \in Conns \cup {NoConn} /\ ext[s].reader \in Conns \cup {NoConn}
    BY <1>1 DEF Own, LocalTypes, ExtStates
  <2>2. batch[s].kind # "reuse"
    BY <1>3, <1>6, Zenon DEF HandsOf
  <2> QED
    BY <1>3, <1>6, <1>7, <1>8, <2>1, <2>2, Zenon DEF NotesOf
<1>13. {bound[s], j.conn, ext[s].reader} \ {NoConn} \subseteq InHands[s] \cup {c}
  BY <1>6, Zenon DEF InHands
<1>14. Takes(p, c) /\ p \in Pools /\ c \in Conns
  BY <1>6, Zenon
<1>15. InOrder(s, home', k, sess[s], bound[s], boundPool[s], dirty[s], j, ext[s], batch[s])
  BY <1>9, <1>10, <1>11, <1>12, Zenon DEF InOrder
<1> HIDE DEF K
<1> QED
  BY <1>4, <1>13, <1>14, <1>15, TakeInv, Zenon

\* A step that gives a connection back, in whatever way.
LEMMA HandBack ==
    ASSUME ExtInv, NEW s \in Sessions, NEW p \in Pools, NEW c \in InHands[s],
           NEW b \in BackendStates, NEW i,
           Discards(p, c) \/ Releases(p, c, b) \/ Resets(p, c, b) \/ GivesBack(i, p, c, b),
           ProxyOnly /\ p \notin closed => home[c] = p,
           NEW k, NEW r, NEW a, NEW ap, NEW d, NEW j, NEW e, NEW x,
           InOrder(s, home, k, r, a, ap, d, j, e, x),
           {a, j.conn, e.reader} \ {NoConn} \subseteq InHands[s] \ {c},
           UNCHANGED <<writerPool, closed>>
    PROVE  ExtInv'
<1>1. c \in Conns
  BY Zenon DEF ExtInv, Places
<1>2. Given(p, c) /\ numOpen' \in [Pools -> Int] /\ backend' \in [Conns -> BackendStates]
  BY <1>1, Gives, Zenon
<1> QED
  BY <1>2, GiveInv, Zenon

\* The connection of a read or a Describe goes back to the pool it was taken from; the
\* session goes on with locals j, e and x.
LEMMA ReadDone ==
    ASSUME ExtInv, NEW s \in Sessions, pc[s] \in {"run", "describe"},
           pc[s] = "run" => job[s].route # "writer" /\ batch[s].kind # "reuse",
           NEW b \in BackendStates,
           \/ Discards(job[s].pool, job[s].conn) \/ Releases(job[s].pool, job[s].conn, b)
           \/ Resets(job[s].pool, job[s].conn, b),
           NEW k \in {"read", "acquire"}, pc' = [pc EXCEPT ![s] = k],
           NEW j \in Jobs, job' = [job EXCEPT ![s] = j],
           j.conn = NoConn, j.acquired = FALSE, j.route # "writer",
           NEW e \in ExtStates, ext' = [ext EXCEPT ![s] = e], e.mode = ext[s].mode,
           \/ e.reader = NoConn /\ e.readerPool = NoPool
           \/ e.reader = ext[s].reader /\ e.readerPool = ext[s].readerPool,
           NEW x \in BatchStates, batch' = [batch EXCEPT ![s] = x],
           \/ x.kind = "none"
           \/ x = batch[s] /\ k = "acquire" /\ j.route \in {"fallback", "failed"},
           UNCHANGED <<writerPool, closed, sess, bound, boundPool, dirty>>
    PROVE  ExtInv'
<1>1. Own(s)
  BY OwnPart, Zenon
<1>2. /\ HandsOf(pc[s], bound[s], boundPool[s], job[s], ext[s], batch[s])
      /\ NotesOf(home, pc[s], bound[s], boundPool[s], job[s], ext[s], batch[s])
  BY <1>1 DEF Own
<1>3. /\ job[s].conn \in Conns /\ job[s].pool \in Pools
      /\ job[s].conn \notin {bound[s], ext[s].reader}
      /\ pc[s] = "describe" => ~ProxyOnly
      /\ ProxyOnly => job[s].acquired
  BY <1>2, Zenon DEF HandsOf, NotesOf
<1>4. ProxyOnly /\ job[s].pool \notin closed => home[job[s].conn] = job[s].pool
  BY <1>2, <1>3, Zenon DEF NotesOf
<1>5. job[s].conn \in InHands[s]
  BY <1>3, RelayAssumption, Zenon DEF InHands
<1>6. {bound[s], j.conn, e.reader} \ {NoConn} \subseteq InHands[s] \ {job[s].conn}
  BY <1>3, Zenon DEF InHands
<1>7. Sets(s, k, sess[s], bound[s], boundPool[s], dirty[s], j, e, x)
  BY <1>1, Zenon DEF Own, Sets
<1>8. LocalTypes(k, sess[s], bound[s], boundPool[s], dirty[s], j, e, x)
  BY <1>1 DEF Own, LocalTypes
<1>9. HandsOf(k, bound[s], boundPool[s], j, e, x)
  BY <1>2, Zenon DEF HandsOf
<1>10. NotesOf(home, k, bound[s], boundPool[s], j, e, x)
  BY <1>2, Zenon DEF HandsOf, NotesOf
<1>11. InOrder(s, home, k, sess[s], bound[s], boundPool[s], dirty[s], j, e, x)
  BY <1>7, <1>8, <1>9, <1>10, Zenon DEF InOrder
<1>12. UNCHANGED <<writerPool, closed>>
  OBVIOUS
<1> QED
  BY <1>3, <1>4, <1>5, <1>6, <1>11, <1>12, HandBack, Zenon

\* A read of either protocol is served or fails.
LEMMA ServeReadInv ==
    ASSUME ExtInv, NEW s \in Sessions,
           \/ batch[s].kind = "none" /\ (ServeRead(s) \/ ServeReadFails(s)) /\ UNCHANGED extVars
           \/ batch[s].kind \in {"read", "synthRead"} /\ ServeReadFails(s) /\ UNCHANGED extVars
           \/ ServeExtRead(s)
    PROVE  ExtInv'
<1>1. Own(s)
  BY OwnPart
<1>2. /\ pc[s] = "run" /\ job[s].route # "writer" /\ batch[s].kind # "reuse"
      /\ job[s].conn \in Conns
      /\ UNCHANGED <<writerPool, closed, sess, bound, boundPool, dirty>>
  BY <1>1, Zenon DEF Own, HandsOf, ServeRead, ServeReadFails, ServeExtRead
<1>3. /\ job[s] \in Jobs /\ ext[s] \in ExtStates /\ batch[s] \in BatchStates
      /\ ext = [ext EXCEPT ![s] = ext[s]] /\ batch = [batch EXCEPT ![s] = batch[s]]
  BY <1>1 DEF Own, LocalTypes
<1>4. Fresh \in BackendStates
  BY StatementsTyped DEF Fresh, BackendStates
<1>5. CASE batch[s].kind = "none" /\ ServeRead(s) /\ UNCHANGED extVars
  <2>1. PICK b \in Outcomes(backend[job[s].conn], job[s].query) :
          Releases(job[s].pool, job[s].conn, b)
    BY <1>5, Zenon DEF ServeRead
  <2>2. b \in BackendStates
    BY <1>2, <2>1, AnswersTyped, Zenon
  <2>3. pc' = [pc EXCEPT ![s] = "read"] /\ job' = [job EXCEPT ![s] = NoJob]
    BY <1>5, Zenon DEF ServeRead
  <2>4. ext' = [ext EXCEPT ![s] = ext[s]] /\ batch' = [batch EXCEPT ![s] = batch[s]]
    BY <1>3, <1>5 DEF extVars
  <2> QED
    BY <1>2, <1>3, <1>5, <2>1, <2>2, <2>3, <2>4, Blanks, ReadDone, Zenon
<1>6. CASE ServeReadFails(s) /\ UNCHANGED extVars
  <2>1. PICK next \in {"failed", "fallback"} :
          job' = [job EXCEPT ![s].route = next, ![s].conn = NoConn, ![s].acquired = FALSE]
    BY <1>6, Zenon DEF ServeReadFails
  <2> DEFINE j == [job[s] EXCEPT !.route = next, !.conn = NoConn, !.acquired = FALSE]
  <2>2. j \in Jobs /\ j.conn = NoConn /\ j.acquired = FALSE /\ j.route = next
    BY <1>3, Zenon DEF Jobs
  <2>3. job' = [job EXCEPT ![s] = j]
    BY <2>1, Zenon
  <2> HIDE DEF j
  <2>4. pc' = [pc EXCEPT ![s] = "acquire"] /\ Discards(job[s].pool, job[s].conn)
    BY <1>6, Zenon DEF ServeReadFails
  <2>5. ext' = [ext EXCEPT ![s] = ext[s]] /\ batch' = [batch EXCEPT ![s] = batch[s]]
    BY <1>3, <1>6 DEF extVars
  <2>6. j.route # "writer" /\ j.route \in {"fallback", "failed"}
    BY <2>2
  <2> QED
    BY <1>2, <1>3, <1>4, <2>2, <2>3, <2>4, <2>5, <2>6, ReadDone, Zenon
<1>7. CASE ServeExtRead(s)
  <2>1. PICK b \in Answers(s) :
          Releases(job[s].pool, job[s].conn, b) \/ Resets(job[s].pool, job[s].conn, b)
    BY <1>7, Zenon DEF ServeExtRead
  <2>2. b \in BackendStates
    BY <1>2, <2>1, AnswersTyped, Zenon
  <2>3. /\ pc' = [pc EXCEPT ![s] = "read"] /\ job' = [job EXCEPT ![s] = NoJob]
        /\ Finishes(s, NoConn, NoPool, {})
    BY <1>7, Zenon DEF ServeExtRead
  <2> DEFINE e == [ext[s] EXCEPT !.reader = NoConn, !.readerPool = NoPool, !.parsed = {}]
  <2>4. e \in ExtStates /\ e.reader = NoConn /\ e.readerPool = NoPool /\ e.mode = ext[s].mode
    BY <1>3, Zenon DEF ExtStates
  <2>5. ext' = [ext EXCEPT ![s] = e] /\ batch' = [batch EXCEPT ![s] = NoBatch]
    BY <2>3, Zenon DEF Finishes
  <2> HIDE DEF e
  <2> QED
    BY <1>2, <2>1, <2>2, <2>3, <2>4, <2>5, Blanks, ExtBlanks, ReadDone, Zenon
<1> QED
  BY <1>5, <1>6, <1>7

\* A Describe in multiplex mode is served or fails.
LEMMA DescribeInv ==
    ASSUME ExtInv, NEW s \in Sessions, ServeDescribe(s) \/ DescribeFails(s)
    PROVE  ExtInv'
<1>1. Own(s)
  BY OwnPart
<1>2. /\ pc[s] = "describe" /\ job[s].conn \in Conns /\ batch[s].kind = "none"
      /\ UNCHANGED <<writerPool, closed, sess, bound, boundPool, dirty>> /\ UNCHANGED extVars
  BY <1>1 DEF Own, HandsOf, ServeDescribe, DescribeFails
<1>3. /\ ext[s] \in ExtStates /\ batch[s] \in BatchStates
      /\ ext' = [ext EXCEPT ![s] = ext[s]] /\ batch' = [batch EXCEPT ![s] = batch[s]]
  BY <1>1, <1>2 DEF Own, LocalTypes, extVars
<1>4. backend[job[s].conn] \in BackendStates
  BY <1>2, Zenon DEF ExtInv, PoolTypes
<1>5. CASE ServeDescribe(s)
  <2>1. /\ Resets(job[s].pool, job[s].conn, backend[job[s].conn])
        /\ pc' = [pc EXCEPT ![s] = "read"] /\ job' = [job EXCEPT ![s] = NoJob]
    BY <1>5, Zenon DEF ServeDescribe
  <2> QED
    BY <1>2, <1>3, <1>4, <2>1, Blanks, ReadDone, Zenon
<1>6. CASE DescribeFails(s)
  <2> DEFINE j == [NoJob EXCEPT !.route = "failed"]
  <2>1. j \in Jobs /\ j.conn = NoConn /\ j.acquired = FALSE /\ j.route # "writer"
    BY Blanks DEF Jobs
  <2>2. /\ Discards(job[s].pool, job[s].conn)
        /\ pc' = [pc EXCEPT ![s] = "acquire"] /\ job' = [job EXCEPT ![s] = j]
    BY <1>6 DEF DescribeFails
  <2> HIDE DEF j
  <2> QED
    BY <1>2, <1>3, <1>4, <2>1, <2>2, ReadDone, Zenon
<1> QED
  BY <1>5, <1>6

\* A session that ends is in order, whether its reader is still bound or not.
LEMMA EndsInOrder ==
    ASSUME ExtInv, NEW s \in Sessions, Ends(s),
           NEW e \in ExtStates, ext' = [ext EXCEPT ![s] = e], e.mode = "proxy",
           \/ e.reader = NoConn /\ e.readerPool = NoPool
           \/ e.reader = ext[s].reader /\ e.readerPool = ext[s].readerPool,
           batch' = [batch EXCEPT ![s] = NoBatch]
    PROVE  InOrder(s, home, "gone", NewSession, NoConn, NoPool, FALSE, NoJob, e, NoBatch)
<1>1. Own(s)
  BY OwnPart
<1>2. Sets(s, "gone", NewSession, NoConn, NoPool, FALSE, NoJob, e, NoBatch)
  BY Zenon DEF Ends, Sets
<1>3. LocalTypes("gone", NewSession, NoConn, NoPool, FALSE, NoJob, e, NoBatch)
  BY Blanks, ExtBlanks, Zenon DEF LocalTypes
<1>4. HandsOf("gone", NoConn, NoPool, NoJob, e, NoBatch)
  BY <1>1, Blanks, ExtBlanks, Zenon DEF HandsOf, Own
<1>5. NotesOf(home, "gone", NoConn, NoPool, NoJob, e, NoBatch)
  BY <1>1, Blanks, ExtBlanks DEF NotesOf, Own
<1> QED
  BY <1>2, <1>3, <1>4, <1>5, Zenon DEF InOrder

\* With Leaves it is: the bound reader, if any, is all it has.
LEMMA LeavesInOrder ==
    ASSUME ExtInv, NEW s \in Sessions, Ends(s), Leaves(s)
    PROVE  \E e : /\ InOrder(s, home, "gone", NewSession, NoConn, NoPool, FALSE, NoJob, e, NoBatch)
                  /\ {NoConn, NoJob.conn, e.reader} \ {NoConn} = {ext[s].reader} \ {NoConn}
<1>1. Own(s)
  BY OwnPart
<1> DEFINE e == [NewExt EXCEPT !.reader = ext[s].reader, !.readerPool = ext[s].readerPool]
<1>2. ext[s].reader \in Conns \cup {NoConn} /\ ext[s].readerPool \in Pools \cup {NoPool}
  BY <1>1 DEF Own, LocalTypes, ExtStates
<1>3. /\ e \in ExtStates /\ e.mode = "proxy"
      /\ e.reader = ext[s].reader /\ e.readerPool = ext[s].readerPool
  BY <1>2, ExtBlanks, Zenon DEF ExtStates
<1>4. ext' = [ext EXCEPT ![s] = e] /\ batch' = [batch EXCEPT ![s] = NoBatch]
  BY DEF Leaves
<1> HIDE DEF e
<1>5. InOrder(s, home, "gone", NewSession, NoConn, NoPool, FALSE, NoJob, e, NoBatch)
  BY <1>3, <1>4, EndsInOrder, Zenon
<1>6. {NoConn, NoJob.conn, e.reader} \ {NoConn} = {ext[s].reader} \ {NoConn}
  BY <1>3, Blanks, Zenon
<1> QED
  BY <1>5, <1>6, Zenon

\* The session ends while it has at most its bound connections.
LEMMA ReturnsInv ==
    ASSUME ExtInv, NEW s \in Sessions, Disconnect(s) \/ MaintenanceRejects(s) \/ AcquireFails(s),
           Leaves(s)
    PROVE  ExtInv'
<1>1. Own(s)
  BY OwnPart
<1>2. Returns(s) /\ Ends(s) /\ UNCHANGED writerPool
  BY Zenon DEF Disconnect, MaintenanceRejects, AcquireFails, Returns
<1>3. PICK e : /\ InOrder(s, home, "gone", NewSession, NoConn, NoPool, FALSE, NoJob, e, NoBatch)
               /\ {NoConn, NoJob.conn, e.reader} \ {NoConn} = {ext[s].reader} \ {NoConn}
  BY <1>2, LeavesInOrder, Zenon
<1>4. CASE bound[s] = NoConn
  <2>1. UNCHANGED <<writerPool, poolVars>> /\ backend' \in [Conns -> BackendStates]
    BY <1>2, <1>4, Zenon DEF Returns, ExtInv, PoolTypes
  <2>2. {NoConn, NoJob.conn, e.reader} \ {NoConn} \subseteq InHands[s]
    BY <1>3, Zenon DEF InHands
  <2> QED
    BY <1>3, <2>1, <2>2, QuietInv, Zenon
<1>5. CASE bound[s] # NoConn
  <2>1. /\ GivesBack(dirty[s], boundPool[s], bound[s], backend[bound[s]])
        /\ UNCHANGED <<writerPool, closed>>
    BY <1>2, <1>5, Zenon DEF Returns
  <2>2. /\ bound[s] \in Conns /\ boundPool[s] \in Pools /\ bound[s] # ext[s].reader
        /\ ProxyOnly /\ boundPool[s] \notin closed => home[bound[s]] = boundPool[s]
    BY <1>1, <1>5, Zenon DEF Own, LocalTypes, HandsOf, NotesOf
  <2>3. backend[bound[s]] \in BackendStates
    BY <2>2, Zenon DEF ExtInv, PoolTypes
  <2>4. bound[s] \in InHands[s]
    BY <1>5, Zenon DEF InHands
  <2>5. {NoConn, NoJob.conn, e.reader} \ {NoConn} \subseteq InHands[s] \ {bound[s]}
    BY <1>3, <2>2 DEF InHands
  <2> QED
    BY <1>3, <2>1, <2>2, <2>3, <2>4, <2>5, HandBack, Zenon
<1> QED
  BY <1>4, <1>5

\* The text of a synthesized query is that of a statement the session knows.
LEMMA SynthesizedTyped ==
    ASSUME NEW st \in BatchReads, \E r \in st.stmts : r.name \in st.bind
    PROVE  Synthesized(st) \in Seq(Statements)
<1>1. (CHOOSE r \in st.stmts : r.name \in st.bind) \in st.stmts
  OBVIOUS
<1>2. st.stmts \subseteq Known
  BY DEF BatchReads
<1> QED
  BY <1>1, <1>2 DEF Synthesized, Known

\* How a batch is run.
LEMMA SyncKinds ==
    ASSUME ExtInv, NEW s \in Sessions, NEW st \in BatchReads, NEW msgs
    PROVE  /\ SyncKind(s, st, msgs) \in BatchKinds
           /\ SyncKind(s, st, msgs) \in {"synthRead", "synthWrite"} =>
                 /\ \E r \in st.stmts : r.name \in st.bind
                 /\ ext[s].mode = "multiplex"
           /\ SyncKind(s, st, msgs) = "reuse" => ext[s].reader # NoConn
           /\ SyncKind(s, st, msgs) \in {"reuse", "read", "parse", "synthRead"} =>
                 st.route = "reader" /\ ~st.sess.inTransaction /\ bound[s] = NoConn
<1>1. ext[s].mode \in {"proxy", "multiplex"}
  BY DEF ExtInv, SessionTypes, ExtStates
<1> DEFINE reads == st.route = "reader" /\ ~st.sess.inTransaction /\ bound[s] = NoConn
<1>2. CASE ext[s].mode = "multiplex"
  <2>1. SyncKind(s, st, msgs) = IF \E r \in st.stmts : r.name \in st.bind
                                THEN IF reads THEN "synthRead" ELSE "synthWrite"
                                ELSE "none"
    BY <1>2 DEF SyncKind
  <2> QED
    BY <1>2, <2>1, Zenon DEF BatchKinds
<1>3. CASE ext[s].mode = "proxy" /\ ~reads
  <2>1. SyncKind(s, st, msgs) = "write"
    BY <1>3 DEF SyncKind
  <2> QED
    BY <2>1 DEF BatchKinds
<1>4. CASE ext[s].mode = "proxy" /\ reads
  <2>1. SyncKind(s, st, msgs) = IF ext[s].reader # NoConn THEN "reuse"
                                ELSE IF ~st.hasExecute /\ msgs # <<>> THEN "parse" ELSE "read"
    BY <1>4 DEF SyncKind
  <2> QED
    BY <1>4, <2>1 DEF BatchKinds
<1> QED
  BY <1>1, <1>2, <1>3, <1>4, Zenon

-----------------------------------------------------------------------------
(* Writes go to the writer *)

\* What follows for a session at place k with locals j, e and x.
WriteOf(k, j, e, x) ==
    /\ Routed(e.stmts)
    /\ x.isWrite => x.kind # "none" /\ k \in {"acquire", "run"} /\ j.route = "writer"
    /\ k \in {"acquire", "run"} /\ j.route = "writer" => j.pool # Reader

WritesInv == \A s \in Sessions : WriteOf(pc[s], job[s], ext[s], batch[s])

\* A step of session s.
StepOf(s) == \A t \in Sessions \ {s} : UNCHANGED <<pc[t], job[t], ext[t], batch[t]>>

\* It ends a query or batch, or is taken outside of one.
Rests(s) ==
    /\ pc'[s] \notin {"acquire", "run"}
    /\ ext'[s].stmts \in {ext[s].stmts, {}}
    /\ ~batch'[s].isWrite

\* It goes on with one, and a write remains one.
Proceeds(s) ==
    /\ pc[s] \in {"acquire", "run"} /\ pc'[s] \in {"acquire", "run"}
    /\ \/ job'[s].route = job[s].route /\ job'[s].pool = job[s].pool
       \/ job[s].route # "writer" /\ job'[s].route # "writer"
    /\ UNCHANGED <<ext[s], batch[s]>>

\* Such steps keep the invariant.
LEMMA StepWrites ==
    ASSUME WritesInv, NEW s \in Sessions, StepOf(s),
           \/ Rests(s) \/ Proceeds(s)
           \/ WriteOf(pc[s], job[s], ext[s], batch[s])'
    PROVE  WritesInv'
<1>1. WriteOf(pc[s], job[s], ext[s], batch[s])
  BY DEF WritesInv
<1>2. WriteOf(pc[s], job[s], ext[s], batch[s])'
  <2>1. CASE Rests(s)
    BY <1>1, <2>1, Zenon DEF Rests, WriteOf, Routed
  <2>2. CASE Proceeds(s)
    <3>1. Routed(ext[s].stmts)'
      BY <1>1, <2>2, Zenon DEF Proceeds, WriteOf, Routed, IsWrite, Has
    <3>2. (batch[s].isWrite)' =>
             (batch[s].kind # "none")' /\ (pc[s] \in {"acquire", "run"})' /\ (job[s].route = "writer")'
      BY <1>1, <2>2, Zenon DEF Proceeds, WriteOf
    <3>3. (job[s].route = "writer")' => (job[s].pool # Reader)'
      BY <1>1, <2>2, Zenon DEF Proceeds, WriteOf, Reader
    <3> QED
      BY <3>1, <3>2, <3>3, Zenon DEF WriteOf
  <2> QED
    BY <2>1, <2>2
<1>3. ASSUME NEW t \in Sessions \ {s} PROVE WriteOf(pc[t], job[t], ext[t], batch[t])'
  <2>1. WriteOf(pc[t], job[t], ext[t], batch[t])
    BY DEF WritesInv
  <2>2. pc'[t] = pc[t] /\ job'[t] = job[t] /\ ext'[t] = ext[t] /\ batch'[t] = batch[t]
    BY DEF StepOf
  <2> QED
    BY <2>1, <2>2, Zenon DEF WriteOf, Routed
<1> QED
  BY <1>2, <1>3 DEF WritesInv

\* A batch is over.
LEMMA FinishWrites ==
    ASSUME SessionTypes, WritesInv, NEW s \in Sessions, NEW c, NEW p, NEW parsed,
           Finishes(s, c, p, parsed), pc' = [pc EXCEPT ![s] = "read"],
           job' = [job EXCEPT ![s] = NoJob]
    PROVE  WritesInv'
<1>1. /\ pc'[s] = "read" /\ batch'[s] = NoBatch /\ ext'[s].stmts = ext[s].stmts
      /\ \A t \in Sessions \ {s} : /\ pc'[t] = pc[t] /\ job'[t] = job[t]
                                   /\ ext'[t] = ext[t] /\ batch'[t] = batch[t]
  BY DEF SessionTypes, Finishes, ExtStates
<1>2. ~NoBatch.isWrite
  BY DEF NoBatch
<1>3. StepOf(s) /\ Rests(s)
  BY <1>1, <1>2, Zenon DEF StepOf, Rests
<1> QED
  BY <1>3, StepWrites

\* The session is over.
LEMMA EndWrites ==
    ASSUME SessionTypes, WritesInv, NEW s \in Sessions, pc' = [pc EXCEPT ![s] = "gone"],
           \A t \in Sessions \ {s} : job'[t] = job[t], batch' = [batch EXCEPT ![s] = NoBatch],
           NEW e, ext' = [ext EXCEPT ![s] = e], e.stmts = {}
    PROVE  WritesInv'
<1>1. /\ pc'[s] = "gone" /\ batch'[s] = NoBatch /\ ext'[s].stmts = {}
      /\ \A t \in Sessions \ {s} : pc'[t] = pc[t] /\ ext'[t] = ext[t] /\ batch'[t] = batch[t]
  BY DEF SessionTypes
<1>2. ~NoBatch.isWrite
  BY DEF NoBatch
<1>3. StepOf(s) /\ Rests(s)
  BY <1>1, <1>2, Zenon DEF StepOf, Rests
<1> QED
  BY <1>3, StepWrites

LEMMA LeaveWrites ==
    ASSUME SessionTypes, WritesInv, NEW s \in Sessions, Ends(s), Leaves(s)
    PROVE  WritesInv'
<1>1. PICK e : e = [NewExt EXCEPT !.reader = ext[s].reader, !.readerPool = ext[s].readerPool]
  BY Zenon
<1>2. /\ ext' = [ext EXCEPT ![s] = e] /\ batch' = [batch EXCEPT ![s] = NoBatch]
      /\ e.stmts = {}
  BY <1>1 DEF Leaves, NewExt
<1>3. pc' = [pc EXCEPT ![s] = "gone"] /\ \A t \in Sessions \ {s} : job'[t] = job[t]
  BY DEF Ends, SessionTypes
<1> QED
  BY <1>2, <1>3, EndWrites, Zenon

\* A step of the simple protocol, or one the protocols share.
LEMMA RelayStepWrites ==
    ASSUME SessionTypes, WritesInv, NEW s \in Sessions, RelayStep(s)
    PROVE  WritesInv'
<1>1. WriteOf(pc[s], job[s], ext[s], batch[s])
  BY DEF WritesInv
<1>2. CASE (UseBound(s) \/ AcquireWriter(s)) /\ UNCHANGED extVars
  <2>1. \E j \in Jobs : /\ job' = [job EXCEPT ![s] = j]
                        /\ j.route = job[s].route /\ j.pool = job[s].pool
    <3>1. PICK c \in Conns \cup {NoConn}, i \in BOOLEAN :
            job' = [job EXCEPT ![s] = [job[s] EXCEPT !.conn = c, !.acquired = i]]
      <4>1. CASE UseBound(s)
        <5>1. [job[s] EXCEPT !.conn = bound[s]]
                = [job[s] EXCEPT !.conn = bound[s], !.acquired = job[s].acquired]
          BY Zenon DEF SessionTypes, Jobs
        <5> QED
          <6>1. bound[s] \in Conns \cup {NoConn} /\ job[s].acquired \in BOOLEAN
            BY DEF SessionTypes, Jobs
          <6>2. job' = [job EXCEPT ![s] = [job[s] EXCEPT !.conn = bound[s]]]
            BY <4>1, Zenon DEF UseBound
          <6> QED
            BY <5>1, <6>1, <6>2, Zenon
      <4>2. CASE AcquireWriter(s)
        <5>1. PICK c \in Conns : job' = [job EXCEPT ![s].conn = c, ![s].acquired = TRUE]
          BY <4>2, Zenon DEF AcquireWriter
        <5>2. job' = [job EXCEPT ![s] = [job[s] EXCEPT !.conn = c, !.acquired = TRUE]]
          BY <5>1, Zenon DEF SessionTypes
        <5> QED
          BY <5>2, Zenon
      <4> QED
        BY <1>2, <4>1, <4>2, Zenon
    <3>2. job[s] \in Jobs
      BY DEF SessionTypes
    <3>3. PICK j : j = [job[s] EXCEPT !.conn = c, !.acquired = i]
      BY Zenon
    <3>4. j \in Jobs /\ j.route = job[s].route /\ j.pool = job[s].pool
      BY <3>2, <3>3, Zenon DEF Jobs
    <3> QED
      BY <3>1, <3>3, <3>4, Zenon
  <2>2. pc[s] = "acquire" /\ pc' = [pc EXCEPT ![s] = "run"] /\ UNCHANGED <<ext, batch>>
    BY <1>2 DEF UseBound, AcquireWriter, extVars
  <2>3. StepOf(s) /\ Proceeds(s)
    BY <2>1, <2>2 DEF SessionTypes, StepOf, Proceeds
  <2> QED
    BY <2>3, StepWrites
<1>3. CASE (AcquireReader(s) \/ ReadFallsBack(s)) /\ UNCHANGED extVars
  <2>1. job[s].route # "writer" /\ job'[s].route # "writer"
    <3>1. CASE ReadFallsBack(s)
      BY <3>1 DEF SessionTypes, Jobs, ReadFallsBack
    <3>2. CASE AcquireReader(s)
      <4>1. PICK p : p = IF job[s].route = "reader" THEN Reader ELSE writerPool
        BY Zenon
      <4>2. \E c \in Conns : job' = [job EXCEPT ![s].conn = c, ![s].acquired = TRUE, ![s].pool = p]
        BY <3>2, <4>1, Zenon DEF AcquireReader
      <4>3. job[s].route \in {"reader", "fallback"}
        BY <3>2 DEF AcquireReader
      <4> QED
        BY <4>2, <4>3 DEF SessionTypes, Jobs
    <3> QED
      BY <1>3, <3>1, <3>2, Zenon
  <2>2. /\ pc[s] = "acquire" /\ pc'[s] \in {"acquire", "run"}
        /\ \A t \in Sessions \ {s} : pc'[t] = pc[t] /\ job'[t] = job[t]
    BY <1>3, Zenon DEF SessionTypes, AcquireReader, ReadFallsBack
  <2>3. StepOf(s) /\ Proceeds(s)
    BY <1>3, <2>1, <2>2, Zenon DEF extVars, StepOf, Proceeds
  <2> QED
    BY <2>3, StepWrites
<1>4. CASE ServeReadFails(s) /\ UNCHANGED extVars
  <2>1. StepOf(s) /\ Proceeds(s)
    BY <1>4 DEF SessionTypes, Jobs, ServeReadFails, extVars, StepOf, Proceeds
  <2> QED
    BY <2>1, StepWrites
<1>5. CASE batch[s].kind = "none" /\ (CacheHit(s) \/ ServeRead(s)) /\ UNCHANGED extVars
  <2>1. StepOf(s) /\ Rests(s)
    BY <1>1, <1>5, Zenon DEF SessionTypes, CacheHit, ServeRead, extVars, StepOf, Rests, WriteOf
  <2> QED
    BY <2>1, StepWrites
<1>6. CASE /\ batch[s].kind = "none" /\ ServeWrite(s)
           /\ IF pc'[s] = "gone" THEN Leaves(s) ELSE UNCHANGED extVars
  <2>1. CASE Ends(s)
    <3>1. pc'[s] = "gone"
      BY <2>1 DEF Ends, SessionTypes
    <3> QED
      BY <1>6, <2>1, <3>1, LeaveWrites, Zenon
  <2>2. CASE pc' = [pc EXCEPT ![s] = "read"] /\ job' = [job EXCEPT ![s] = NoJob]
    <3>1. StepOf(s) /\ Rests(s)
      BY <1>1, <1>6, <2>2, Zenon DEF SessionTypes, extVars, StepOf, Rests, WriteOf
    <3> QED
      BY <3>1, StepWrites
  <2>3. \/ Ends(s)
        \/ pc' = [pc EXCEPT ![s] = "read"] /\ job' = [job EXCEPT ![s] = NoJob]
    BY <1>6, Zenon DEF ServeWrite, Panics, Binds, Unbinds
  <2> QED
    BY <2>1, <2>2, <2>3
<1>7. CASE /\ Disconnect(s) \/ MaintenanceRejects(s) \/ AcquireFails(s) \/ ServeWriteFails(s)
           /\ Leaves(s)
  <2>1. Ends(s)
    BY <1>7, Zenon DEF Disconnect, MaintenanceRejects, AcquireFails, ServeWriteFails, Returns
  <2> QED
    BY <1>7, <2>1, LeaveWrites
<1> QED
  BY <1>2, <1>3, <1>4, <1>5, <1>6, <1>7, Zenon DEF RelayStep

\* A step of the extended protocol.
LEMMA ExtStepWrites ==
    ASSUME SessionTypes, WritesInv, NEW s \in Sessions, ExtStep(s)
    PROVE  WritesInv'
<1>1. WriteOf(pc[s], job[s], ext[s], batch[s])
  BY DEF WritesInv
<1>2. CASE CacheHit(s) /\ Finishes(s, NoConn, NoPool, {})
  BY <1>2, FinishWrites, Zenon DEF CacheHit
<1>3. CASE ServeReadFails(s) /\ UNCHANGED extVars
  <2>1. StepOf(s) /\ Proceeds(s)
    BY <1>3 DEF SessionTypes, Jobs, ServeReadFails, extVars, StepOf, Proceeds
  <2> QED
    BY <2>1, StepWrites
<1>4. CASE ServeExtRead(s) \/ ServeParse(s) \/ ServeReuse(s)
  <2>1. /\ pc' = [pc EXCEPT ![s] = "read"] /\ job' = [job EXCEPT ![s] = NoJob]
        /\ \E c, p, parsed : Finishes(s, c, p, parsed)
    BY <1>4, Zenon DEF ServeExtRead, ServeParse, ServeReuse
  <2> QED
    BY <2>1, FinishWrites, Zenon
<1>5. CASE ServeBoundReaderFails(s)
  <2>1. /\ Ends(s) /\ ext' = [ext EXCEPT ![s] = NewExt]
        /\ batch' = [batch EXCEPT ![s] = NoBatch] /\ NewExt.stmts = {}
    BY <1>5 DEF ServeBoundReaderFails, NewExt
  <2>2. pc' = [pc EXCEPT ![s] = "gone"] /\ \A t \in Sessions \ {s} : job'[t] = job[t]
    BY <2>1 DEF Ends, SessionTypes
  <2> QED
    BY <2>1, <2>2, EndWrites, Zenon
<1>6. ASSUME NEW c, NEW p, NEW b, GoesOn(s, c, p, b) PROVE WritesInv'
  BY <1>6, FinishWrites, Zenon DEF GoesOn, Binds
<1>7. CASE ServeExtWrite(s)
  <2>1. PICK b \in Answers(s) : WriteEffect(s, b)
    BY <1>7, Zenon DEF ServeExtWrite
  <2>2. \/ Ends(s) /\ Leaves(s)
        \/ \E c, p : GoesOn(s, c, p, b)
    BY <2>1, Zenon DEF WriteEffect, KeepsConn, GivesUpConn, Panics
  <2> QED
    BY <1>6, <2>2, LeaveWrites
<1>8. CASE ServeSynthWrite(s)
  <2>1. PICK b \in Answers(s) : SynthEffect(s, b)
    BY <1>8, Zenon DEF ServeSynthWrite
  <2>2. \/ Ends(s) /\ Leaves(s)
        \/ \E c, p : GoesOn(s, c, p, b)
    BY <2>1, Zenon DEF SynthEffect, KeepsConn, Panics
  <2> QED
    BY <1>6, <2>2, LeaveWrites
<1>9. CASE AcquireDescribe(s) \/ ServeDescribe(s)
  <2>1. /\ pc[s] \in {"read", "describe"} /\ pc'[s] \in {"read", "describe"}
        /\ \A t \in Sessions \ {s} : pc'[t] = pc[t] /\ job'[t] = job[t]
    BY <1>9, Zenon DEF SessionTypes, AcquireDescribe, ServeDescribe
  <2>2. UNCHANGED <<ext, batch>>
    BY <1>9, Zenon DEF AcquireDescribe, ServeDescribe, extVars
  <2>3. StepOf(s) /\ Rests(s)
    BY <1>1, <2>1, <2>2 DEF StepOf, Rests, WriteOf
  <2> QED
    BY <2>3, StepWrites
<1>10. CASE DescribeFails(s)
  <2>1. /\ pc[s] = "describe" /\ job'[s].route = "failed"
        /\ \A t \in Sessions \ {s} : pc'[t] = pc[t] /\ job'[t] = job[t]
    BY <1>10 DEF SessionTypes, DescribeFails, NoJob
  <2>2. UNCHANGED <<ext, batch>>
    BY <1>10 DEF DescribeFails, extVars
  <2>3. ~batch[s].isWrite
    BY <1>1, <2>1 DEF WriteOf
  <2>4. StepOf(s)
    BY <2>1, <2>2, Zenon DEF StepOf
  <2>5. WriteOf(pc[s], job[s], ext[s], batch[s])'
    BY <1>1, <2>1, <2>2, <2>3, Zenon DEF WriteOf, Routed
  <2> QED
    BY <2>4, <2>5, StepWrites
<1>11. CASE ReleaseReader(s)
  <2>1. /\ pc[s] = "gone" /\ ext' = [ext EXCEPT ![s] = NewExt] /\ UNCHANGED <<pc, job, batch>>
        /\ NewExt.stmts = {}
    BY <1>11, Zenon DEF ReleaseReader, NewExt
  <2>2. StepOf(s) /\ Rests(s)
    BY <1>1, <2>1, Zenon DEF SessionTypes, StepOf, Rests, WriteOf
  <2> QED
    BY <2>2, StepWrites
<1> QED
  BY <1>2, <1>3, <1>4, <1>5, <1>7, <1>8, <1>9, <1>10, <1>11, Zenon DEF ExtStep

\* A client connects, or sends a simple query.
LEMMA QueryWrites ==
    ASSUME ExtInv, WritesInv, NEW s \in Sessions, NEW q, ExtConnect(s) \/ ExtQuery(s, q)
    PROVE  WritesInv'
<1>1. WriteOf(pc[s], job[s], ext[s], batch[s]) /\ SessionTypes
  BY Zenon DEF WritesInv, ExtInv
<1>2. CASE ExtConnect(s)
  <2>1. PICK mode \in Modes : ext' = [ext EXCEPT ![s] = [NewExt EXCEPT !.mode = mode]]
    BY <1>2, Zenon DEF ExtConnect
  <2>2. pc[s] = "gone" /\ pc' = [pc EXCEPT ![s] = "read"] /\ UNCHANGED <<job, batch>>
    BY <1>2 DEF ExtConnect, Connect
  <2>3. ext'[s].stmts = {} /\ \A t \in Sessions \ {s} : ext'[t] = ext[t]
    BY <1>1, <2>1 DEF SessionTypes, NewExt
  <2>4. StepOf(s) /\ Rests(s)
    BY <1>1, <2>2, <2>3, Zenon DEF SessionTypes, StepOf, Rests, WriteOf
  <2> QED
    BY <2>4, StepWrites
<1>3. CASE ExtQuery(s, q)
  <2>1. pc[s] = "read" /\ UNCHANGED batch /\ ~batch'[s].isWrite
    BY <1>1, <1>3 DEF ExtQuery, Query, WriteOf
  <2>2. /\ ext'[s].stmts = ext[s].stmts
        /\ \A t \in Sessions \ {s} : ext'[t] = ext[t]
    BY <1>1, <1>3 DEF ExtQuery, SessionTypes, ExtStates
  <2>3. CASE UNCHANGED <<pc, job>>
    <3>1. StepOf(s) /\ Rests(s)
      BY <2>1, <2>2, <2>3 DEF StepOf, Rests
    <3> QED
      BY <3>1, StepWrites, Zenon
  <2>4. CASE \E j : job' = [job EXCEPT ![s] = j] /\ j.pool = writerPool
                    /\ pc' = [pc EXCEPT ![s] = "acquire"]
    <3>1. /\ job'[s].pool = writerPool
          /\ \A t \in Sessions \ {s} : pc'[t] = pc[t] /\ job'[t] = job[t]
      BY <1>1, <2>4 DEF SessionTypes
    <3>2. writerPool # Reader
      BY PoolNumbers DEF ExtInv, PoolTypes
    <3>3. StepOf(s)
      BY <2>1, <2>2, <3>1, Zenon DEF StepOf
    <3>4. WriteOf(pc[s], job[s], ext[s], batch[s])'
      BY <1>1, <2>1, <2>2, <3>1, <3>2, Zenon DEF WriteOf, Routed, Reader
    <3> QED
      BY <3>3, <3>4, StepWrites, Zenon
  <2> QED
    <3>1. \/ UNCHANGED <<pc, job>>
          \/ /\ pc' = [pc EXCEPT ![s] = "acquire"]
             /\ \E route, w :
                   job' = [job EXCEPT ![s] = [query |-> q, route |-> route, conn |-> NoConn,
                                acquired |-> FALSE, wasInTx |-> w, pool |-> writerPool]]
      BY <1>3, Zenon DEF ExtQuery, Query
    <3>2. \A route, w : [query |-> q, route |-> route, conn |-> NoConn, acquired |-> FALSE,
                         wasInTx |-> w, pool |-> writerPool].pool = writerPool
      BY Zenon
    <3> QED
      <4>1. ASSUME NEW route, NEW w, pc' = [pc EXCEPT ![s] = "acquire"],
                   job' = [job EXCEPT ![s] = [query |-> q, route |-> route, conn |-> NoConn,
                                acquired |-> FALSE, wasInTx |-> w, pool |-> writerPool]]
            PROVE  WritesInv'
        BY <2>4, <3>2, <4>1, Zenon
      <4> QED
        BY <2>3, <3>1, <4>1, Zenon
<1> QED
  BY <1>2, <1>3

\* A batch ends with Sync: one with a write goes to the writer.
LEMMA SyncWrites ==
    ASSUME ExtInv, WritesInv, NEW s \in Sessions, NEW msgs \in Seq(Messages), NEW choice,
           OneParse(msgs), Sync(s, msgs, choice)
    PROVE  WritesInv'
<1>1. WriteOf(pc[s], job[s], ext[s], batch[s]) /\ SessionTypes
  BY Zenon DEF WritesInv, ExtInv
<1>2. PICK st : st = ReadBatch(s, msgs, choice)
  BY Zenon
<1>3. WritesRouted(st) /\ st \in BatchReads
  BY <1>1, <1>2, BatchRouted, BatchRead, Zenon DEF WriteOf
<1>4. PICK rejected : rejected = (st.blocked \/ ("readonly" \in switches /\ st.isWrite))
  BY Zenon
<1>5. PICK kind : kind = IF rejected THEN "none" ELSE SyncKind(s, st, msgs)
  BY Zenon
<1> DEFINE j == [query |-> IF kind \in {"synthRead", "synthWrite"} THEN Synthesized(st) ELSE <<>>,
                 route |-> IF kind \in {"write", "synthWrite"} THEN "writer" ELSE "reader",
                 wasInTx |-> sess[s].inTransaction, acquired |-> FALSE,
                 conn |-> IF kind = "reuse" THEN ext[s].reader ELSE NoConn,
                 pool |-> IF kind = "reuse" THEN ext[s].readerPool ELSE writerPool]
           x == [kind |-> kind, msgs |-> msgs, txStart |-> st.txStart, txEnd |-> st.txEnd,
                 isWrite |-> st.isWrite, hasExecute |-> st.hasExecute]
           k == IF kind = "reuse" THEN "run" ELSE "acquire"
<1>6. IF kind = "none" THEN UNCHANGED <<pc, job, batch>>
      ELSE /\ pc' = [pc EXCEPT ![s] = k] /\ batch' = [batch EXCEPT ![s] = x]
           /\ job' = [job EXCEPT ![s] = j]
  BY <1>2, <1>4, <1>5, Zenon DEF Sync
<1>7. ext'[s].stmts = st.stmts /\ \A t \in Sessions \ {s} : ext'[t] = ext[t]
  <2>1. PICK p, c, q : ext' = [ext EXCEPT ![s].stmts = st.stmts, ![s].route = "reader",
                                          ![s].parsed = p, ![s].reader = c, ![s].readerPool = q]
    BY <1>2, Zenon DEF Sync
  <2> QED
    BY <1>1, <2>1 DEF SessionTypes, ExtStates
<1>8. Routed(st.stmts) /\ (st.isWrite => kind \in {"none", "write", "synthWrite"})
  <2>1. Routed(st.stmts) /\ (st.isWrite => st.route # "reader")
    BY <1>3 DEF WritesRouted
  <2>2. ~rejected => /\ kind \in BatchKinds
                     /\ kind \in {"reuse", "read", "parse", "synthRead"} => st.route = "reader"
    BY <1>3, <1>5, SyncKinds, Zenon
  <2> QED
    BY <1>5, <2>1, <2>2 DEF BatchKinds
<1>9. CASE kind = "none"
  <2>1. StepOf(s)
    BY <1>6, <1>7, <1>9, Zenon DEF StepOf
  <2>2. WriteOf(pc[s], job[s], ext[s], batch[s])'
    BY <1>1, <1>6, <1>7, <1>8, <1>9, Zenon DEF WriteOf, Routed
  <2> QED
    BY <2>1, <2>2, StepWrites
<1>10. CASE kind # "none"
  <2>1. /\ j.route = IF kind \in {"write", "synthWrite"} THEN "writer" ELSE "reader"
        /\ j.pool = IF kind = "reuse" THEN ext[s].readerPool ELSE writerPool
        /\ x.kind = kind /\ x.isWrite = st.isWrite /\ k \in {"acquire", "run"}
    BY Zenon
  <2> HIDE DEF j, x, k
  <2>2. /\ pc'[s] = k /\ batch'[s] = x /\ job'[s] = j
        /\ \A t \in Sessions \ {s} : pc'[t] = pc[t] /\ job'[t] = job[t] /\ batch'[t] = batch[t]
    BY <1>1, <1>6, <1>10 DEF SessionTypes
  <2>3. writerPool # Reader
    BY PoolNumbers DEF ExtInv, PoolTypes
  <2>4. StepOf(s)
    BY <1>7, <2>2, Zenon DEF StepOf
  <2>5. WriteOf(pc[s], job[s], ext[s], batch[s])'
    BY <1>7, <1>8, <1>10, <2>1, <2>2, <2>3 DEF WriteOf, Routed
  <2> QED
    BY <2>4, <2>5, StepWrites
<1> QED
  BY <1>9, <1>10
=============================================================================
