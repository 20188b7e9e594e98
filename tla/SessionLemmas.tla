--------------------------- MODULE SessionLemmas ---------------------------
(***************************************************************************)
(* What the proofs about Relay and Extended share, for any number of       *)
(* sessions and connections and any queries and batches: where backend     *)
(* connections are and how steps move them, what PostgreSQL may do with a  *)
(* query or a batch, and what the proxy reads off a batch.                 *)
(***************************************************************************)
EXTENDS Extended, FiniteSetTheorems, TLAPS

-----------------------------------------------------------------------------
(* Where connections are.  H[s] is what session s has in its hands. *)

\* A connection is in one place at most: in the hands of one session or idle in one
\* pool, and nowhere when it is not open.
Places(H) ==
    /\ idle \in [Pools -> SUBSET Conns]
    /\ home \in [Conns -> Pools \cup {NoPool}]
    /\ H \in [Sessions -> SUBSET Conns]
    /\ \A s, t \in Sessions : s # t => H[s] \cap H[t] = {}
    /\ \A p \in Pools, s \in Sessions : idle[p] \cap H[s] = {}
    /\ \A p, q \in Pools : p # q => idle[p] \cap idle[q] = {}
    /\ \A c \in Conns : home[c] = NoPool =>
          (\A s \in Sessions : c \notin H[s]) /\ (\A p \in Pools : c \notin idle[p])

\* Pools are numbered from 0, and NoPool is none of them.
LEMMA PoolNumbers ==
    /\ Pools \subseteq Nat /\ NoPool \notin Pools /\ Reader \in Pools
    /\ WriterPools \subseteq Pools /\ Reader \notin WriterPools
BY RelayAssumption DEF Pools, WriterPools, Reader, NoPool

\* A step that moves no connection, but may drop one.
LEMMA PlacesKeep ==
    ASSUME NEW H, NEW N, Places(H), UNCHANGED <<idle, home>>,
           N \in [Sessions -> SUBSET Conns], \A t \in Sessions : N[t] \subseteq H[t]
    PROVE  Places(N)'
BY DEF Places

\* Acquire: the connection leaves the idle list, or is new.
LEMMA PlacesTake ==
    ASSUME NEW H, NEW N, Places(H), NEW p \in Pools, NEW c \in Conns, Takes(p, c),
           NEW s \in Sessions, N \in [Sessions -> SUBSET Conns],
           N[s] \subseteq H[s] \cup {c}, \A t \in Sessions \ {s} : N[t] = H[t]
    PROVE  Places(N)' /\ \A d \in Conns \ {c} : home'[d] = home[d]
<1>1. idle' \in [Pools -> SUBSET Conns] /\ home' \in [Conns -> Pools \cup {NoPool}]
  BY DEF Places, Takes
<1>2. \A q \in Pools : idle'[q] \subseteq idle[q] /\ c \notin idle'[q]
  BY PoolNumbers DEF Places, Takes
<1>3. \A t \in Sessions : c \notin H[t]
  BY DEF Places, Takes
<1>4. home'[c] # NoPool /\ \A d \in Conns \ {c} : home'[d] = home[d]
  BY PoolNumbers DEF Places, Takes
<1>5. \A t, u \in Sessions : t # u => N[t] \cap N[u] = {}
  BY <1>3 DEF Places
<1>6. \A q \in Pools, t \in Sessions : idle'[q] \cap N[t] = {}
  BY <1>2 DEF Places
<1>7. \A d \in Conns : home'[d] = NoPool =>
          (\A t \in Sessions : d \notin N[t]) /\ (\A q \in Pools : d \notin idle'[q])
  BY <1>2, <1>4 DEF Places
<1>8. \A q, r \in Pools : q # r => idle'[q] \cap idle'[r] = {}
  BY <1>2 DEF Places
<1> QED
  BY <1>1, <1>4, <1>5, <1>6, <1>7, <1>8 DEF Places

\* What Release and Discard do with a connection, whatever they do with the counters:
\* it joins the idle list of pool p, if that is open, or is closed.
Returned(p, c) ==
    \/ p \notin closed /\ idle' = [idle EXCEPT ![p] = @ \cup {c}] /\ home' = home
    \/ idle' = idle /\ home' = [home EXCEPT ![c] = NoPool]

\* Release, Discard, the reset and the choice between them all come down to that.
LEMMA GiveReturned ==
    ASSUME NEW p, NEW c, NEW b, NEW d,
           Discards(p, c) \/ Releases(p, c, b) \/ Resets(p, c, b) \/ GivesBack(d, p, c, b)
    PROVE  Returned(p, c)
BY DEF Discards, Releases, Resets, GivesBack, Returned

\* A session gives back a connection it has.
LEMMA PlacesGive ==
    ASSUME NEW H, NEW N, Places(H), NEW p, NEW s \in Sessions, NEW c \in H[s], Returned(p, c),
           N \in [Sessions -> SUBSET Conns],
           N[s] \subseteq H[s] \ {c}, \A t \in Sessions \ {s} : N[t] = H[t]
    PROVE  Places(N)' /\ \A d \in Conns \ {c} : home'[d] = home[d]
<1>1. c \in Conns /\ home[c] # NoPool
  BY DEF Places
<1>2. idle' \in [Pools -> SUBSET Conns] /\ home' \in [Conns -> Pools \cup {NoPool}]
  BY <1>1 DEF Places, Returned
<1>3. \A t \in Sessions : c \notin N[t]
  BY DEF Places
<1>4. \A q \in Pools : /\ c \notin idle[q]
                       /\ idle'[q] \subseteq idle[q] \cup {c}
                       /\ (c \in idle'[q]) => q = p /\ home' = home
  BY <1>1 DEF Places, Returned
<1>5. \A d \in Conns \ {c} : home'[d] = home[d]
  BY <1>1 DEF Places, Returned
<1>6. \A t, u \in Sessions : t # u => N[t] \cap N[u] = {}
  BY DEF Places
<1>7. \A q \in Pools, t \in Sessions : idle'[q] \cap N[t] = {}
  BY <1>3, <1>4 DEF Places
<1>8. \A q, r \in Pools : q # r => idle'[q] \cap idle'[r] = {}
  BY <1>4 DEF Places
<1>9. \A d \in Conns : home'[d] = NoPool =>
          (\A t \in Sessions : d \notin N[t]) /\ (\A q \in Pools : d \notin idle'[q])
  BY <1>1, <1>3, <1>4, <1>5 DEF Places
<1> QED
  BY <1>2, <1>5, <1>6, <1>7, <1>8, <1>9 DEF Places

\* A reload closes the idle connections of the pool it replaces.
LEMMA PlacesReload ==
    ASSUME NEW H, Places(H), writerPool \in Pools, ReloadClose
    PROVE  /\ Places(H)'
           /\ \A s \in Sessions : \A c \in H[s] : home'[c] = home[c]
<1>1. \A p \in Pools : idle'[p] = IF p = writerPool THEN {} ELSE idle[p]
  BY DEF Places, ReloadClose
<1>2. \A c \in Conns : home'[c] = IF c \in idle[writerPool] THEN NoPool ELSE home[c]
  BY DEF ReloadClose
<1>3. idle' \in [Pools -> SUBSET Conns] /\ home' \in [Conns -> Pools \cup {NoPool}]
  BY <1>1, <1>2 DEF Places, ReloadClose
<1>4. \A s \in Sessions : \A c \in H[s] : home'[c] = home[c]
  BY <1>2 DEF Places
<1>5. \A p \in Pools, s \in Sessions : idle'[p] \cap H[s] = {}
  BY <1>1 DEF Places
<1>6. \A q, r \in Pools : q # r => idle'[q] \cap idle'[r] = {}
  BY <1>1 DEF Places
<1>7. \A d \in Conns : home'[d] = NoPool =>
          (\A t \in Sessions : d \notin H[t]) /\ (\A q \in Pools : d \notin idle'[q])
  BY <1>1, <1>2 DEF Places
<1> QED
  BY <1>3, <1>4, <1>5, <1>6, <1>7 DEF Places

\* Idle connections are with the pool that dialed them.
IdleHome == \A p \in Pools : \A c \in idle[p] : home[c] = p

\* What a pool that gets connection c back does with it.
Given(p, c) ==
    \/ /\ p \notin closed
       /\ idle' = [idle EXCEPT ![p] = @ \cup {c}]
       /\ UNCHANGED <<numOpen, home>>
    \/ /\ home' = [home EXCEPT ![c] = NoPool]
       /\ numOpen' = [numOpen EXCEPT ![p] = IF @ > 0 THEN @ - 1 ELSE @]
       /\ UNCHANGED idle

-----------------------------------------------------------------------------
(* The locals of a session. *)

SessionStates == [inTransaction : BOOLEAN, pinned : BOOLEAN, wrote : BOOLEAN]

Jobs == [query : Seq(Statements), route : {"none", "writer", "reader", "fallback", "failed"},
         wasInTx : BOOLEAN, conn : Conns \cup {NoConn}, acquired : BOOLEAN,
         pool : Pools \cup {NoPool}]

\* The locals of a session with no query, and the state of a new one.
LEMMA Blanks ==
    /\ NoJob \in Jobs /\ NoJob.conn = NoConn /\ NoJob.acquired = FALSE /\ NoJob.pool = NoPool
    /\ NoJob.route = "none" /\ NoJob.query = <<>> /\ NoJob.wasInTx = FALSE
    /\ NewSession \in SessionStates /\ NewSession.inTransaction = FALSE /\ NewSession.pinned = FALSE
BY DEF NoJob, Jobs, Statements, NewSession, SessionStates

\* A statement the session knows.
Known == [name : Names, route : {"reader", "writer"}, query : Seq(Statements)]

ExtStates == [mode : {"proxy", "multiplex"}, stmts : SUBSET Known, route : {"reader", "writer"},
              reader : Conns \cup {NoConn}, readerPool : Pools \cup {NoPool},
              parsed : SUBSET (Names \X Seq(Statements))]

BatchKinds == {"none", "read", "parse", "reuse", "write", "synthRead", "synthWrite"}

BatchStates == [kind : BatchKinds, msgs : Seq(Messages), txStart : BOOLEAN, txEnd : BOOLEAN,
                isWrite : BOOLEAN, hasExecute : BOOLEAN]

SessionTypes ==
    /\ pc \in [Sessions -> {"read", "acquire", "run", "describe", "gone"}]
    /\ sess \in [Sessions -> SessionStates]
    /\ bound \in [Sessions -> Conns \cup {NoConn}]
    /\ boundPool \in [Sessions -> Pools \cup {NoPool}]
    /\ dirty \in [Sessions -> BOOLEAN]
    /\ job \in [Sessions -> Jobs]
    /\ ext \in [Sessions -> ExtStates]
    /\ batch \in [Sessions -> BatchStates]

-----------------------------------------------------------------------------
(* What PostgreSQL may do with a query *)

\* A set of numbers has a least one.
LEMMA LeastNumber ==
    ASSUME NEW T, T \subseteq Nat, T # {}
    PROVE  \E n \in T : \A m \in T : n <= m
<1> DEFINE R == OpToRel(<, Nat)
<1>1. \E x \in T : \A y \in T : ~ (<<y, x>> \in R)
  BY WFMin, NatLessThanWellFounded, Zenon
<1>2. \A x, y \in Nat : (<<y, x>> \in R) <=> y < x
  BY DEF OpToRel
<1> HIDE DEF R
<1>3. PICK n \in T : \A m \in T : ~ (<<m, n>> \in R)
  BY <1>1
<1>4. ASSUME NEW m \in T PROVE n <= m
  <2>1. ~ (m < n)
    BY <1>2, <1>3, Zenon
  <2>2. n \in Nat /\ m \in Nat
    OBVIOUS
  <2> QED
    BY <2>1, <2>2
<1> QED
  BY <1>4

\* Induction, with the property as a set.
LEMMA NatInd ==
    ASSUME NEW S, 0 \in S, \A n \in Nat : n \in S => n + 1 \in S
    PROVE  Nat \subseteq S
<1> SUFFICES ASSUME Nat \ S # {} PROVE FALSE
  OBVIOUS
<1>1. PICK n \in Nat \ S : \A m \in Nat \ S : n <= m
  BY LeastNumber, Zenon
<1>2. n - 1 \in Nat /\ n - 1 \in S
  BY <1>1
<1> QED
  BY <1>1, <1>2

\* There is a function with value z at 0 and then, step by step, the values f gives.
Iterates(n, H, z, f) ==
    \E g \in [0 .. n -> H] : g[0] = z /\ \A k \in 1 .. n : g[k] = f[k][g[k - 1]]

\* A function can be defined that way.
LEMMA StepsDefine ==
    ASSUME NEW n \in Nat, NEW H, NEW z \in H, NEW f \in [1 .. n -> [H -> H]]
    PROVE  Iterates(n, H, z, f)
<1> DEFINE S == {m \in Nat : m <= n =>
              \E g \in [0 .. m -> H] : g[0] = z /\ \A k \in 1 .. m : g[k] = f[k][g[k - 1]]}
<1>1. 0 \in S
  <2>1. PICK g : g = [k \in 0 .. 0 |-> z]
    BY Zenon
  <2>2. g \in [0 .. 0 -> H] /\ g[0] = z /\ \A k \in 1 .. 0 : g[k] = f[k][g[k - 1]]
    BY <2>1
  <2> QED
    BY <2>2
<1>2. ASSUME NEW m \in Nat, m \in S PROVE m + 1 \in S
  <2> SUFFICES ASSUME m + 1 <= n
               PROVE  \E e \in [0 .. m + 1 -> H] : e[0] = z /\ \A k \in 1 .. m + 1 : e[k] = f[k][e[k - 1]]
    OBVIOUS
  <2>1. PICK g \in [0 .. m -> H] : g[0] = z /\ \A k \in 1 .. m : g[k] = f[k][g[k - 1]]
    BY <1>2
  <2>2. PICK y \in H : y = f[m + 1][g[m]]
    <3>1. m + 1 \in 1 .. n /\ g[m] \in H
      OBVIOUS
    <3> QED
      BY <3>1
  <2>3. PICK e : e = [k \in 0 .. m + 1 |-> IF k <= m THEN g[k] ELSE y]
    BY Zenon
  <2>4. e \in [0 .. m + 1 -> H] /\ e[0] = z
    BY <2>1, <2>3
  <2>5. ASSUME NEW k \in 1 .. m + 1 PROVE e[k] = f[k][e[k - 1]]
    <3>1. CASE k <= m
      <4>1. e[k] = g[k] /\ e[k - 1] = g[k - 1] /\ k \in 1 .. m
        BY <2>3, <3>1
      <4> QED
        BY <2>1, <4>1
    <3>2. CASE k = m + 1
      <4>1. e[k] = y /\ e[k - 1] = g[m]
        BY <2>3, <3>2
      <4> QED
        BY <2>2, <3>2, <4>1
    <3> QED
      BY <3>1, <3>2
  <2> QED
    BY <2>4, <2>5
<1>3. n \in S
  <2> HIDE DEF S
  <2> QED
    BY <1>1, <1>2, NatInd
<1> QED
  BY <1>3 DEF Iterates

\* Statements take a connection from state to state.
LEMMA StatementsTyped ==
    ASSUME NEW b \in BackendStates
    PROVE  /\ Committed(b) \in BackendStates /\ RolledBack(b) \in BackendStates
           /\ Aborted(b) \in BackendStates
           /\ \A name : Without(b, name) \in BackendStates
           /\ \A stmt \in Statements : Succeeds(b, stmt) \subseteq BackendStates
<1>1. Committed(b) \in BackendStates /\ RolledBack(b) \in BackendStates
  BY Zenon DEF BackendStates, Committed, RolledBack
<1>2. Aborted(b) \in BackendStates
  BY <1>1 DEF BackendStates, Aborted
<1>3. ASSUME NEW name PROVE Without(b, name) \in BackendStates
  BY DEF BackendStates, Without
<1>4. ASSUME NEW stmt \in Statements PROVE Succeeds(b, stmt) \subseteq BackendStates
  <2>1. [b EXCEPT !.tx = "T"] \in BackendStates /\ [b EXCEPT !.pend = TRUE] \in BackendStates
    BY Zenon DEF BackendStates
  <2> QED
    BY <1>1, <2>1, Zenon DEF Succeeds, Statements
<1> QED
  BY <1>1, <1>2, <1>3, <1>4

\* g[k][c]: the states after the last k statements of q, from state c.
Suffixes(g, q) ==
    /\ \A c \in BackendStates : g[0][c] = {IF c.tx = "I" THEN Committed(c) ELSE c}
    /\ \A k \in 1 .. Len(q), c \in BackendStates :
          g[k][c] = (UNION {g[k - 1][d] : d \in Succeeds(c, q[Len(q) - k + 1])})
                    \cup (IF MayFail(c, q[Len(q) - k + 1]) THEN {Aborted(c)} ELSE {})

\* The recursion in Outcomes has the value it describes.
LEMMA OutcomesSteps ==
    ASSUME NEW q \in Seq(Statements)
    PROVE  \E g : Suffixes(g, q) /\ \A b : Outcomes(b, q) = g[Len(q)][Without(b, Unnamed)]
<1> DEFINE B == BackendStates
           H == [B -> SUBSET B]
           Start == [c \in B |-> {IF c.tx = "I" THEN Committed(c) ELSE c}]
           Step(h, k) == [c \in B |->
                            (UNION {h[d] : d \in Succeeds(c, q[Len(q) - k + 1])})
                            \cup (IF MayFail(c, q[Len(q) - k + 1]) THEN {Aborted(c)} ELSE {})]
           f == [k \in 1 .. Len(q) |-> [h \in H |-> Step(h, k)]]
<1>1. Len(q) \in Nat
  OBVIOUS
<1>2. Start \in H
  BY StatementsTyped
<1>3. ASSUME NEW k \in 1 .. Len(q), NEW h \in H PROVE Step(h, k) \in H
  <2>1. PICK stmt \in Statements : stmt = q[Len(q) - k + 1]
    <3>1. Len(q) - k + 1 \in 1 .. Len(q)
      OBVIOUS
    <3> QED
      BY <3>1
  <2>2. ASSUME NEW c \in B
        PROVE  (UNION {h[d] : d \in Succeeds(c, stmt)}) \cup (IF MayFail(c, stmt) THEN {Aborted(c)} ELSE {})
                 \in SUBSET B
    <3>1. Succeeds(c, stmt) \subseteq B /\ Aborted(c) \in B
      BY StatementsTyped
    <3> QED
      BY <3>1
  <2> QED
    BY <2>1, <2>2
<1>4. f \in [1 .. Len(q) -> [H -> H]]
  <2> HIDE DEF H, Step
  <2> QED
    BY <1>3
<1>5. PICK g \in [0 .. Len(q) -> H] : g[0] = Start /\ \A k \in 1 .. Len(q) : g[k] = f[k][g[k - 1]]
  <2> HIDE DEF H, f, Start
  <2>1. PICK n \in Nat : n = Len(q)
    BY <1>1
  <2>2. PICK z \in H : z = Start
    BY <1>2
  <2>3. PICK t \in [1 .. n -> [H -> H]] : t = f
    BY <1>4, <2>1
  <2>4. Iterates(n, H, z, t)
    BY StepsDefine
  <2> QED
    BY <2>1, <2>2, <2>3, <2>4 DEF Iterates
<1>6. \A k \in 1 .. Len(q) : g[k] = Step(g[k - 1], k)
  <2> HIDE DEF H, Step, Start
  <2>1. \A k \in 1 .. Len(q) : g[k - 1] \in H
    OBVIOUS
  <2> QED
    BY <1>5, <2>1, Zenon
<1> DEFINE Body(e) == [left \in 0 .. Len(q) |->
             [c \in BackendStates |->
                LET stmt == q[Len(q) - left + 1]
                IN  IF left = 0
                    THEN {IF c.tx = "I" THEN Committed(c) ELSE c}
                    ELSE (UNION {e[left - 1][d] : d \in Succeeds(c, stmt)})
                         \cup (IF MayFail(c, stmt) THEN {Aborted(c)} ELSE {})]]
<1>7. g = Body(g)
  <2>1. ASSUME NEW k \in 0 .. Len(q) PROVE g[k] = Body(g)[k]
    <3>1. CASE k = 0
      BY <1>5, <3>1
    <3>2. CASE k # 0
      BY <1>6, <3>2
    <3> QED
      BY <3>1, <3>2
  <2>2. Body(g) = [k \in 0 .. Len(q) |-> Body(g)[k]]
    BY Zenon
  <2> HIDE DEF Body, H
  <2> QED
    BY <1>5, <2>1, <2>2
<1>8. PICK e : e = Body(e) /\ \A b : Outcomes(b, q) = e[Len(q)][Without(b, Unnamed)]
  <2>1. PICK e : e = CHOOSE x : x = Body(x)
    BY Zenon
  <2>2. e = Body(e)
    <3> HIDE DEF Body
    <3> QED
      BY <1>7, <2>1
  <2>3. \A b : Outcomes(b, q) = e[Len(q)][Without(b, Unnamed)]
    BY <2>1, Zenon DEF Outcomes
  <2> QED
    BY <2>2, <2>3, Zenon
<1>9. \A k \in 0 .. Len(q) : e[k] = Body(e)[k]
  BY <1>8, Zenon
<1>10. \A c \in BackendStates : e[0][c] = {IF c.tx = "I" THEN Committed(c) ELSE c}
  <2>1. \A c \in BackendStates : Body(e)[0][c] = {IF c.tx = "I" THEN Committed(c) ELSE c}
    OBVIOUS
  <2> HIDE DEF Body
  <2> QED
    BY <1>9, <2>1
<1>11. ASSUME NEW k \in 1 .. Len(q), NEW c \in BackendStates
       PROVE  e[k][c] = (UNION {e[k - 1][d] : d \in Succeeds(c, q[Len(q) - k + 1])})
                        \cup (IF MayFail(c, q[Len(q) - k + 1]) THEN {Aborted(c)} ELSE {})
  <2>1. Body(e)[k] = Step(e[k - 1], k)
    BY k \in 0 .. Len(q), k # 0
  <2>2. e[k] = Step(e[k - 1], k)
    <3> HIDE DEF Body, Step
    <3> QED
      BY <1>9, <2>1
  <2> QED
    BY <2>2, Zenon
<1>12. Suffixes(e, q)
  BY <1>10, <1>11, Zenon DEF Suffixes
<1> HIDE DEF Body
<1> QED
  BY <1>8, <1>12

\* A set of states that the statements of a query do not leave contains every state the
\* query may end in: what a query cannot do follows from what its statements cannot do.
LEMMA OutcomesWithin ==
    ASSUME NEW b, NEW q \in Seq(Statements), NEW P, P \subseteq BackendStates,
           Without(b, Unnamed) \in P,
           \A c \in P : Aborted(c) \in P /\ (c.tx = "I" => Committed(c) \in P),
           \A c \in P : \A i \in 1 .. Len(q) : Succeeds(c, q[i]) \subseteq P
    PROVE  Outcomes(b, q) \subseteq P
<1>1. PICK g : Suffixes(g, q) /\ Outcomes(b, q) = g[Len(q)][Without(b, Unnamed)]
  BY OutcomesSteps
<1>2. PICK n \in Nat : n = Len(q)
  OBVIOUS
<1> DEFINE Q == {m \in Nat : m <= n => \A c \in P : g[m][c] \subseteq P}
<1>3. 0 \in Q
  BY <1>1 DEF Suffixes
<1>4. ASSUME NEW m \in Nat, m \in Q PROVE m + 1 \in Q
  <2>a. m + 1 \in Nat
    OBVIOUS
  <2> SUFFICES ASSUME m + 1 <= n, NEW c \in P PROVE g[m + 1][c] \subseteq P
    BY <2>a, Zenon
  <2>1. m + 1 \in 1 .. Len(q) /\ n - (m + 1) + 1 \in 1 .. n /\ (m + 1) - 1 = m
    BY <1>2
  <2>2. PICK stmt : stmt = q[Len(q) - (m + 1) + 1]
    OBVIOUS
  <2>3. g[m + 1][c] = (UNION {g[m][d] : d \in Succeeds(c, stmt)})
                      \cup (IF MayFail(c, stmt) THEN {Aborted(c)} ELSE {})
    <3>1. PICK k : k = m + 1
      OBVIOUS
    <3>2. k \in 1 .. Len(q) /\ k - 1 = m /\ c \in BackendStates
      BY <2>1, <3>1
    <3>3. g[k][c] = (UNION {g[k - 1][d] : d \in Succeeds(c, q[Len(q) - k + 1])})
                    \cup (IF MayFail(c, q[Len(q) - k + 1]) THEN {Aborted(c)} ELSE {})
      BY <1>1, <3>2, Zenon DEF Suffixes
    <3>4. stmt = q[Len(q) - k + 1]
      BY <2>2, <3>1, Zenon
    <3> QED
      BY <3>1, <3>2, <3>3, <3>4, SMTT(30)
  <2>4. Succeeds(c, stmt) \subseteq P /\ Aborted(c) \in P
    BY <1>2, <2>1, <2>2
  <2>5. \A d \in P : g[m][d] \subseteq P
    BY <1>4
  <2> QED
    BY <2>3, <2>4, <2>5
<1>5. n \in Q
  <2> HIDE DEF Q
  <2> QED
    BY <1>3, <1>4, NatInd
<1> QED
  BY <1>1, <1>2, <1>5

\* Nothing some client set is left on the connection, or will be after a commit.
CleanStates == {b \in BackendStates : ~b.set /\ ~b.pend}

\* A query leaves a connection in some state, and a clean one clean unless it sets
\* something.
LEMMA QueryOutcomes ==
    ASSUME NEW b \in BackendStates, NEW q \in Seq(Statements)
    PROVE  /\ Outcomes(b, q) \subseteq BackendStates
           /\ b \in CleanStates /\ ~Has(q, {"SET"}) => Outcomes(b, q) \subseteq CleanStates
<1>1. \A i \in 1 .. Len(q) : q[i] \in Statements
  OBVIOUS
<1>2. Outcomes(b, q) \subseteq BackendStates
  BY <1>1, StatementsTyped, OutcomesWithin, Zenon
<1>3. ASSUME b \in CleanStates, ~Has(q, {"SET"}) PROVE Outcomes(b, q) \subseteq CleanStates
  <2>1. CleanStates \subseteq BackendStates
    BY DEF CleanStates
  <2>2. \A i \in 1 .. Len(q) : q[i] # "SET"
    BY <1>3 DEF Has
  <2>3. ASSUME NEW c \in CleanStates
        PROVE  /\ Aborted(c) \in CleanStates /\ Committed(c) \in CleanStates
               /\ RolledBack(c) \in CleanStates
               /\ [c EXCEPT !.tx = "T"] \in CleanStates
    BY <2>1, Zenon DEF CleanStates, BackendStates, Aborted, Committed, RolledBack
  <2>4. ASSUME NEW c \in CleanStates, NEW i \in 1 .. Len(q)
        PROVE  Succeeds(c, q[i]) \subseteq CleanStates
    BY <1>1, <2>2, <2>3, Zenon DEF Succeeds, Statements
  <2>5. Without(b, Unnamed) \in CleanStates
    BY <1>3 DEF CleanStates, BackendStates, Without
  <2>6. /\ \A c \in CleanStates : Aborted(c) \in CleanStates /\ (c.tx = "I" => Committed(c) \in CleanStates)
        /\ \A c \in CleanStates : \A i \in 1 .. Len(q) : Succeeds(c, q[i]) \subseteq CleanStates
    BY <2>3, <2>4, Zenon
  <2> HIDE DEF CleanStates
  <2> QED
    BY <2>1, <2>5, <2>6, OutcomesWithin
<1> QED
  BY <1>2, <1>3

-----------------------------------------------------------------------------
(* What PostgreSQL may do with a batch *)

\* From a state and the query of the portal to the states that may follow.
Continuations == [BackendStates -> [Seq(Statements) -> SUBSET BackendStates]]

\* A message leaves a state.
LEMMA MessageOutcomesTyped ==
    ASSUME NEW rest \in Continuations, NEW c \in BackendStates, NEW portal \in Seq(Statements),
           NEW m \in Messages
    PROVE  MessageOutcomes(rest, c, portal, m) \in SUBSET BackendStates
<1>1. m.name \in Names /\ m.query \in Seq(Statements) /\ Aborted(c) \in BackendStates
  BY StatementsTyped DEF Messages
<1>2. \A d \in BackendStates, q \in Seq(Statements) : rest[d][q] \in SUBSET BackendStates
  BY DEF Continuations
<1>3. <<>> \in Seq(Statements)
  OBVIOUS
<1>4. CASE m.kind = "Parse"
  <2>1. PICK d : d = [Without(c, m.name) EXCEPT !.prep = @ \cup {<<m.name, m.query>>}]
    BY Zenon
  <2>2. d \in BackendStates
    <3>1. Without(c, m.name) \in BackendStates
      BY StatementsTyped, Zenon
    <3>2. Without(c, m.name).prep \cup {<<m.name, m.query>>} \in SUBSET (Names \X Seq(Statements))
      BY <1>1, <3>1 DEF BackendStates
    <3> QED
      BY <2>1, <3>1, <3>2 DEF BackendStates
  <2>3. \/ MessageOutcomes(rest, c, portal, m) = {Aborted(c)}
        \/ MessageOutcomes(rest, c, portal, m) =
             rest[d][<<>>] \cup (IF MayFail(c, m.query[1]) THEN {Aborted(c)} ELSE {})
    BY <1>4, <2>1 DEF MessageOutcomes
  <2> QED
    BY <1>1, <1>2, <1>3, <2>2, <2>3, Zenon
<1>5. CASE m.kind = "Bind"
  <2>1. PICK u : u = {q \in Bound(c, m.name) : ~Refused(c, q)}
    BY Zenon
  <2>2. \/ MessageOutcomes(rest, c, portal, m) = {Aborted(c)}
        \/ MessageOutcomes(rest, c, portal, m) = UNION {rest[c][q] : q \in u}
    BY <1>5, <2>1 DEF MessageOutcomes
  <2>3. u \subseteq Seq(Statements)
    BY <2>1 DEF Bound, BackendStates
  <2> QED
    BY <1>1, <1>2, <2>2, <2>3
<1>6. CASE m.kind = "Close"
  <2>1. MessageOutcomes(rest, c, portal, m) = rest[Without(c, m.name)][<<>>]
    BY <1>6 DEF MessageOutcomes
  <2>2. Without(c, m.name) \in BackendStates
    BY StatementsTyped, Zenon
  <2> QED
    BY <1>2, <1>3, <2>1, <2>2, Zenon
<1>7. CASE m.kind = "Execute"
  <2>1. MessageOutcomes(rest, c, portal, m) =
          (IF portal = <<>> THEN {} ELSE UNION {rest[d][portal] : d \in Succeeds(c, portal[1])})
          \cup (IF portal = <<>> \/ MayFail(c, portal[1]) THEN {Aborted(c)} ELSE {})
    BY <1>7 DEF MessageOutcomes
  <2>2. portal # <<>> => portal[1] \in Statements
    OBVIOUS
  <2>3. portal # <<>> => Succeeds(c, portal[1]) \subseteq BackendStates
    BY <2>2, StatementsTyped, Zenon
  <2>4. portal # <<>> => (UNION {rest[d][portal] : d \in Succeeds(c, portal[1])}) \in SUBSET BackendStates
    BY <1>2, <2>3
  <2> QED
    BY <1>1, <2>1, <2>4
<1> QED
  BY <1>4, <1>5, <1>6, <1>7 DEF Messages

\* A batch leaves a state.
LEMMA BatchOutcomesTyped ==
    ASSUME NEW b \in BackendStates, NEW q \in Seq(Messages)
    PROVE  BatchOutcomes(b, q) \subseteq BackendStates
<1> DEFINE B == BackendStates
           H == Continuations
           z == [c \in B |-> [portal \in Seq(Statements) |-> {IF c.tx = "I" THEN Committed(c) ELSE c}]]
           Step(h, k) == [c \in B |-> [portal \in Seq(Statements) |->
                            MessageOutcomes(h, c, portal, q[Len(q) - k + 1])]]
           f == [k \in 1 .. Len(q) |-> [h \in H |-> Step(h, k)]]
           Body(e) == [left \in 0 .. Len(q) |->
                         [c \in B |-> [portal \in Seq(Statements) |->
                            IF left = 0
                            THEN {IF c.tx = "I" THEN Committed(c) ELSE c}
                            ELSE MessageOutcomes(e[left - 1], c, portal, q[Len(q) - left + 1])]]]
<1>1. Len(q) \in Nat /\ \A k \in 1 .. Len(q) : q[Len(q) - k + 1] \in Messages
  <2>1. \A k \in 1 .. Len(q) : Len(q) - k + 1 \in 1 .. Len(q)
    OBVIOUS
  <2> QED
    BY <2>1
<1>2. z \in H
  BY StatementsTyped DEF Continuations
<1>3. \A k \in 1 .. Len(q), h \in H : Step(h, k) \in H
  <2> SUFFICES ASSUME NEW k \in 1 .. Len(q), NEW h \in H PROVE Step(h, k) \in H
    OBVIOUS
  <2>1. \A c \in B, portal \in Seq(Statements) :
          MessageOutcomes(h, c, portal, q[Len(q) - k + 1]) \in SUBSET B
    BY <1>1, MessageOutcomesTyped
  <2> QED
    BY <2>1 DEF Continuations
<1> HIDE DEF H, z
<1>4. f \in [1 .. Len(q) -> [H -> H]]
  <2> HIDE DEF Step
  <2> QED
    BY <1>3
<1>5. PICK g \in [0 .. Len(q) -> H] : g[0] = z /\ \A k \in 1 .. Len(q) : g[k] = f[k][g[k - 1]]
  <2> HIDE DEF f
  <2>1. PICK n \in Nat : n = Len(q)
    BY <1>1
  <2>2. PICK y \in H : y = z
    BY <1>2
  <2>3. PICK t \in [1 .. n -> [H -> H]] : t = f
    BY <1>4, <2>1
  <2>4. Iterates(n, H, y, t)
    BY StepsDefine
  <2> QED
    BY <2>1, <2>2, <2>3, <2>4 DEF Iterates
<1>6. \A k \in 1 .. Len(q) : g[k] = Step(g[k - 1], k)
  <2> HIDE DEF Step
  <2>1. \A k \in 1 .. Len(q) : g[k - 1] \in H
    BY <1>1
  <2> QED
    BY <1>5, <2>1, Zenon
<1>7. g = Body(g)
  <2>1. ASSUME NEW k \in 0 .. Len(q) PROVE g[k] = Body(g)[k]
    <3>1. CASE k = 0
      BY <1>5, <3>1 DEF z
    <3>2. CASE k # 0
      <4>1. Body(g)[k] = Step(g[k - 1], k)
        BY <3>2
      <4>2. k \in 1 .. Len(q)
        BY <1>1, <3>2
      <4> HIDE DEF Body, Step
      <4> QED
        BY <1>6, <4>1, <4>2
    <3> QED
      BY <3>1, <3>2
  <2>2. Body(g) = [k \in 0 .. Len(q) |-> Body(g)[k]]
    BY Zenon
  <2> HIDE DEF Body
  <2> QED
    BY <1>5, <2>1, <2>2
<1>8. PICK e : e = Body(e) /\ BatchOutcomes(b, q) = e[Len(q)][b][<<>>]
  <2>1. PICK e : e = CHOOSE x : x = Body(x)
    BY Zenon
  <2>2. e = Body(e)
    <3> HIDE DEF Body
    <3> QED
      BY <1>7, <2>1
  <2>3. BatchOutcomes(b, q) = e[Len(q)][b][<<>>]
    BY <2>1, Zenon DEF BatchOutcomes
  <2> QED
    BY <2>2, <2>3, Zenon
<1>9. \A k \in 0 .. Len(q) : e[k] = Body(e)[k]
  BY <1>8, Zenon
<1>10. e[0] = z
  <2>1. Body(e)[0] = z
    BY <1>1 DEF z
  <2> HIDE DEF Body
  <2> QED
    BY <1>1, <1>9, <2>1
<1>11. ASSUME NEW k \in 1 .. Len(q) PROVE e[k] = Step(e[k - 1], k)
  <2>1. Body(e)[k] = Step(e[k - 1], k)
    BY k \in 0 .. Len(q), k # 0
  <2> HIDE DEF Body, Step
  <2> QED
    BY <1>9, <2>1
<1> HIDE DEF Body
<1> DEFINE S == {k \in Nat : k <= Len(q) => e[k] \in H}
<1>12. 0 \in S
  BY <1>2, <1>10
<1>13. ASSUME NEW k \in Nat, k \in S PROVE k + 1 \in S
  <2> HIDE DEF Step
  <2> SUFFICES ASSUME k + 1 <= Len(q) PROVE e[k + 1] \in H
    OBVIOUS
  <2>1. k + 1 \in 1 .. Len(q) /\ (k + 1) - 1 = k /\ e[k] \in H
    BY <1>1, <1>13
  <2>2. e[k + 1] = Step(e[k], k + 1)
    BY <1>11, <2>1
  <2> QED
    BY <1>3, <2>1, <2>2
<1>14. Len(q) \in S
  <2> HIDE DEF S
  <2> QED
    BY <1>1, <1>12, <1>13, NatInd, Zenon
<1>15. e[Len(q)] \in H
  BY <1>1, <1>14
<1>16. e[Len(q)][b] \in [Seq(Statements) -> SUBSET B]
  BY <1>15 DEF H, Continuations
<1>17. e[Len(q)][b][<<>>] \in SUBSET B
  <2>1. <<>> \in Seq(Statements)
    OBVIOUS
  <2> QED
    BY <1>16, <2>1, Zenon
<1> QED
  BY <1>8, <1>17

-----------------------------------------------------------------------------
(* Reading a batch *)

BatchReads == [stmts : SUBSET Known, route : {"reader", "writer"}, txStart : BOOLEAN,
               txEnd : BOOLEAN, isWrite : BOOLEAN, hasExecute : BOOLEAN, blocked : BOOLEAN,
               bind : SUBSET Names, sess : SessionStates, dirty : BOOLEAN]

\* The fields a Parse may change.
Updated(st, k, a, e, w, x, p, d, g) ==
    [st EXCEPT !.stmts = k, !.txStart = a, !.txEnd = e, !.isWrite = w,
               !.blocked = x, !.sess = p, !.dirty = d, !.route = g]

\* Field by field, that keeps the type.
LEMMA ReadsUpdate ==
    ASSUME NEW st \in BatchReads, NEW k \in SUBSET Known, NEW a \in BOOLEAN, NEW e \in BOOLEAN,
           NEW w \in BOOLEAN, NEW x \in BOOLEAN, NEW p \in SessionStates, NEW d \in BOOLEAN,
           NEW g \in {"reader", "writer"}
    PROVE  Updated(st, k, a, e, w, x, p, d, g) \in BatchReads
BY Zenon DEF BatchReads, Updated

\* A message takes the state of a batch to another one.
LEMMA MessageTyped ==
    ASSUME NEW s, NEW st \in BatchReads, NEW m \in Messages, NEW choice
    PROVE  ReadMessage(s, st, m, choice) \in BatchReads
<1>1. CASE m.kind = "Parse"
  <2> DEFINE routes == StatementRoutes(m.query, st.sess)
             route == IF choice \in routes THEN choice ELSE CHOOSE r \in routes : TRUE
             detected == Has(m.query, {"SET"})
             pinned == st.sess.pinned \/ (CompatMode = "pin" /\ detected)
  <2>1. routes \subseteq {"reader", "writer"} /\ routes # {}
    BY DEF StatementRoutes
  <2>2. route \in {"reader", "writer"}
    <3>1. (CHOOSE r \in routes : TRUE) \in routes
      BY <2>1
    <3> HIDE DEF routes
    <3> QED
      BY <2>1, <3>1, Zenon
  <2>3. m.name \in Names /\ m.query \in Seq(Statements)
    BY DEF Messages
  <2>4. detected \in BOOLEAN /\ pinned \in BOOLEAN /\ IsWrite(m.query) \in BOOLEAN
    BY DEF Has, IsWrite, BatchReads, SessionStates
  <2>5. ReadMessage(s, st, m, choice) = ReadParse(s, st, m, choice)
    BY <1>1 DEF ReadMessage
  <2> DEFINE known == (st.stmts \ Named(st.stmts, m.name))
                      \cup {[name |-> m.name, route |-> route, query |-> m.query]}
             state == [st.sess EXCEPT !.pinned = pinned]
             start == st.txStart \/ m.query[1] = "BEGIN"
             end == st.txEnd \/ m.query[1] \in {"END", "ROLLBACKTO"}
             write == st.isWrite \/ IsWrite(m.query)
             blocked == st.blocked \/ (CompatMode = "block" /\ detected)
             soiled == st.dirty \/ (CompatMode = "pin" /\ detected)
             goes == IF st.sess.inTransaction \/ bound[s] # NoConn \/ pinned THEN "writer" ELSE route
  <2>6. ReadParse(s, st, m, choice) =
          Updated(st, known, start, end, write, blocked, state, soiled, goes)
    BY DEF ReadParse, Updated
  <2> HIDE DEF route, detected, pinned
  <2>7. [name |-> m.name, route |-> route, query |-> m.query] \in Known
    BY <2>2, <2>3 DEF Known
  <2>8. known \in SUBSET Known
    BY <2>7 DEF BatchReads
  <2>9. state \in SessionStates
    BY <2>4 DEF BatchReads, SessionStates
  <2>10. start \in BOOLEAN /\ end \in BOOLEAN /\ write \in BOOLEAN /\ blocked \in BOOLEAN
         /\ soiled \in BOOLEAN
    BY <2>4 DEF BatchReads
  <2>11. goes \in {"reader", "writer"}
    BY <2>2
  <2> HIDE DEF known, state, start, end, write, blocked, soiled, goes
  <2>12. Updated(st, known, start, end, write, blocked, state, soiled, goes) \in BatchReads
    BY <2>8, <2>9, <2>10, <2>11, ReadsUpdate
  <2> QED
    BY <2>5, <2>6, <2>12, Zenon
<1>2. CASE m.kind = "Bind"
  <2>1. ReadMessage(s, st, m, choice) = ReadBind(st, m)
    BY <1>2 DEF ReadMessage
  <2>2. m.name \in Names
    BY DEF Messages
  <2> DEFINE known == Named(st.stmts, m.name)
             goes == IF \A r \in known : r.route = "writer" THEN "writer" ELSE st.route
             write == st.isWrite \/ \A r \in known : IsWrite(r.query)
  <2>3. ReadBind(st, m) = [st EXCEPT !.route = goes, !.isWrite = write, !.bind = {m.name}]
    BY DEF ReadBind
  <2>4. goes \in {"reader", "writer"} /\ write \in BOOLEAN
    BY DEF BatchReads
  <2> HIDE DEF goes, write
  <2>5. \A g \in {"reader", "writer"}, w \in BOOLEAN, n \in SUBSET Names :
          [st EXCEPT !.route = g, !.isWrite = w, !.bind = n] \in BatchReads
    BY Zenon DEF BatchReads
  <2>6. {m.name} \in SUBSET Names
    BY <2>2
  <2>7. [st EXCEPT !.route = goes, !.isWrite = write, !.bind = {m.name}] \in BatchReads
    BY <2>4, <2>5, <2>6, Zenon
  <2> QED
    BY <2>1, <2>3, <2>7
<1>3. CASE m.kind = "Close"
  <2>1. ReadMessage(s, st, m, choice) = ReadClose(st, m)
    BY <1>3 DEF ReadMessage
  <2>2. st.stmts \ Named(st.stmts, m.name) \in SUBSET Known
    BY DEF BatchReads
  <2> QED
    BY <2>1, <2>2 DEF ReadClose, BatchReads
<1>4. CASE m.kind = "Execute"
  <2>1. ReadMessage(s, st, m, choice) = ReadExecute(s, st)
    BY <1>4 DEF ReadMessage
  <2> QED
    BY <2>1, Zenon DEF ReadExecute, BatchReads
<1> QED
  BY <1>1, <1>2, <1>3, <1>4 DEF Messages

\* The state before the first message.
ReadStart(s) ==
    [stmts |-> ext[s].stmts, route |-> ext[s].route, txStart |-> FALSE, txEnd |-> FALSE,
     isWrite |-> FALSE, hasExecute |-> FALSE, blocked |-> FALSE, bind |-> {},
     sess |-> sess[s], dirty |-> dirty[s]]

\* e has the states the batch goes through, message by message.
Reading(s, msgs, choice, e) ==
    /\ e[0] = ReadStart(s)
    /\ \A k \in 1 .. Len(msgs) : e[k] = ReadMessage(s, e[k - 1], msgs[k], choice)
    /\ \A k \in 0 .. Len(msgs) : e[k] \in BatchReads
    /\ ReadBatch(s, msgs, choice) = e[Len(msgs)]

\* The recursion of ReadBatch defines them.
LEMMA BatchSteps ==
    ASSUME SessionTypes, NEW s \in Sessions, NEW msgs \in Seq(Messages), NEW choice
    PROVE  \E e : Reading(s, msgs, choice, e)
<1> DEFINE B == BatchReads
           z == ReadStart(s)
           f == [k \in 1 .. Len(msgs) |-> [st \in B |-> ReadMessage(s, st, msgs[k], choice)]]
           Body(e) == [i \in 0 .. Len(msgs) |->
                         IF i = 0 THEN z ELSE ReadMessage(s, e[i - 1], msgs[i], choice)]
<1>1. Len(msgs) \in Nat /\ \A k \in 1 .. Len(msgs) : msgs[k] \in Messages
  OBVIOUS
<1>2. z \in B
  BY DEF ReadStart, BatchReads, SessionTypes, ExtStates
<1>3. \A k \in 1 .. Len(msgs), st \in B : ReadMessage(s, st, msgs[k], choice) \in B
  BY <1>1, MessageTyped
<1> HIDE DEF B, z
<1>4. f \in [1 .. Len(msgs) -> [B -> B]]
  BY <1>3
<1>5. PICK g \in [0 .. Len(msgs) -> B] : g[0] = z /\ \A k \in 1 .. Len(msgs) : g[k] = f[k][g[k - 1]]
  <2> HIDE DEF f
  <2>1. PICK n \in Nat : n = Len(msgs)
    BY <1>1
  <2>2. PICK y \in B : y = z
    BY <1>2
  <2>3. PICK t \in [1 .. n -> [B -> B]] : t = f
    BY <1>4, <2>1
  <2>4. Iterates(n, B, y, t)
    BY StepsDefine
  <2> QED
    BY <2>1, <2>2, <2>3, <2>4 DEF Iterates
<1>6. \A k \in 1 .. Len(msgs) : g[k] = ReadMessage(s, g[k - 1], msgs[k], choice)
  <2>1. \A k \in 1 .. Len(msgs) : g[k - 1] \in B
    BY <1>1
  <2> QED
    BY <1>5, <2>1, Zenon
<1>7. g = Body(g)
  <2>1. ASSUME NEW k \in 0 .. Len(msgs) PROVE g[k] = Body(g)[k]
    <3>1. CASE k = 0
      BY <1>5, <3>1
    <3>2. CASE k # 0
      BY <1>6, <3>2
    <3> QED
      BY <3>1, <3>2
  <2>2. Body(g) = [k \in 0 .. Len(msgs) |-> Body(g)[k]]
    BY Zenon
  <2> HIDE DEF Body
  <2> QED
    BY <1>5, <2>1, <2>2
<1>8. PICK e : e = Body(e) /\ ReadBatch(s, msgs, choice) = e[Len(msgs)]
  <2>1. PICK e : e = CHOOSE x : x = Body(x)
    BY Zenon
  <2>2. e = Body(e)
    <3> HIDE DEF Body
    <3> QED
      BY <1>7, <2>1
  <2>3. ReadBatch(s, msgs, choice) = e[Len(msgs)]
    BY <2>1, Zenon DEF ReadBatch, ReadStart, z
  <2> QED
    BY <2>2, <2>3, Zenon
<1>9. \A k \in 0 .. Len(msgs) : e[k] = Body(e)[k]
  BY <1>8, Zenon
<1>10. e[0] = z /\ \A k \in 1 .. Len(msgs) : e[k] = ReadMessage(s, e[k - 1], msgs[k], choice)
  BY <1>1, <1>9
<1> HIDE DEF Body
<1> DEFINE S == {k \in Nat : k <= Len(msgs) => e[k] \in B}
<1>11. 0 \in S
  BY <1>2, <1>10
<1>12. ASSUME NEW k \in Nat, k \in S PROVE k + 1 \in S
  <2> SUFFICES ASSUME k + 1 <= Len(msgs) PROVE e[k + 1] \in B
    OBVIOUS
  <2>1. k + 1 \in 1 .. Len(msgs) /\ (k + 1) - 1 = k /\ e[k] \in B
    BY <1>1, <1>12
  <2> QED
    BY <1>3, <1>10, <2>1
<1>13. \A k \in Nat : k \in S
  <2> HIDE DEF S
  <2> QED
    BY <1>11, <1>12, NatInd
<1>14. \A k \in 0 .. Len(msgs) : e[k] \in BatchReads
  BY <1>1, <1>13 DEF B
<1> QED
  BY <1>8, <1>10, <1>14, Zenon DEF Reading, z

\* So the state of the batch at the Sync has its type.
LEMMA BatchRead ==
    ASSUME SessionTypes, NEW s \in Sessions, NEW msgs \in Seq(Messages), NEW choice
    PROVE  ReadBatch(s, msgs, choice) \in BatchReads
<1>1. PICK e : Reading(s, msgs, choice, e)
  BY BatchSteps
<1>2. Len(msgs) \in 0 .. Len(msgs)
  OBVIOUS
<1> QED
  BY <1>1, <1>2 DEF Reading

-----------------------------------------------------------------------------
(* Where the writes of a batch are routed *)

\* Only the first message of a batch is a Parse, as in what drivers send outside pipelines.
OneParse(msgs) == \A i \in 2 .. Len(msgs) : msgs[i].kind # "Parse"

\* Statements that write are known as the writer's.
Routed(stmts) == \A r \in stmts : IsWrite(r.query) => r.route = "writer"

\* A batch that has a write so far is going to the writer.
WritesRouted(st) == Routed(st.stmts) /\ (st.isWrite => st.route = "writer")

\* The next message keeps that, unless it is a Parse that decides anew about a write.
LEMMA MessageRouted ==
    ASSUME NEW s, NEW st \in BatchReads, NEW m \in Messages, NEW choice,
           WritesRouted(st), m.kind = "Parse" => ~st.isWrite
    PROVE  WritesRouted(ReadMessage(s, st, m, choice))
<1>1. CASE m.kind = "Parse"
  <2> DEFINE routes == StatementRoutes(m.query, st.sess)
             route == IF choice \in routes THEN choice ELSE CHOOSE r \in routes : TRUE
             new == [name |-> m.name, route |-> route, query |-> m.query]
             u == ReadParse(s, st, m, choice)
  <2>1. ReadMessage(s, st, m, choice) = u
    BY <1>1 DEF ReadMessage
  <2>2. IsWrite(m.query) => route = "writer"
    <3>1. IsWrite(m.query) => routes = {"writer"}
      BY DEF StatementRoutes
    <3> HIDE DEF routes
    <3> QED
      BY <3>1
  <2>3. /\ u.stmts = (st.stmts \ Named(st.stmts, m.name)) \cup {new}
        /\ u.isWrite = (st.isWrite \/ IsWrite(m.query))
        /\ u.route \in {"writer", route}
    BY DEF ReadParse, BatchReads
  <2>4. new.query = m.query /\ new.route = route
    BY Zenon
  <2> HIDE DEF route, new, u
  <2> QED
    BY <1>1, <2>1, <2>2, <2>3, <2>4, Zenon DEF WritesRouted, Routed
<1>2. CASE m.kind = "Bind"
  <2> DEFINE known == Named(st.stmts, m.name)
             u == ReadBind(st, m)
  <2>1. ReadMessage(s, st, m, choice) = u
    BY <1>2 DEF ReadMessage
  <2>2. /\ u.stmts = st.stmts
        /\ u.isWrite = (st.isWrite \/ \A r \in known : IsWrite(r.query))
        /\ u.route = IF \A r \in known : r.route = "writer" THEN "writer" ELSE st.route
    BY DEF ReadBind, BatchReads
  <2>3. known \subseteq st.stmts
    BY DEF Named
  <2> HIDE DEF known, u
  <2> QED
    BY <2>1, <2>2, <2>3, Zenon DEF WritesRouted, Routed
<1>3. CASE m.kind = "Close"
  <2> DEFINE u == ReadClose(st, m)
  <2>1. ReadMessage(s, st, m, choice) = u
    BY <1>3 DEF ReadMessage
  <2>2. u.stmts = st.stmts \ Named(st.stmts, m.name) /\ u.isWrite = st.isWrite /\ u.route = st.route
    BY DEF ReadClose, BatchReads
  <2> HIDE DEF u
  <2> QED
    BY <2>1, <2>2, Zenon DEF WritesRouted, Routed
<1>4. CASE m.kind = "Execute"
  <2> DEFINE u == ReadExecute(s, st)
  <2>1. ReadMessage(s, st, m, choice) = u
    BY <1>4 DEF ReadMessage
  <2>2. u.stmts = st.stmts /\ u.isWrite = st.isWrite /\ u.route = st.route
    BY DEF ReadExecute, BatchReads
  <2> HIDE DEF u
  <2> QED
    BY <2>1, <2>2, Zenon DEF WritesRouted, Routed
<1> QED
  BY <1>1, <1>2, <1>3, <1>4 DEF Messages

\* So it holds at the Sync.
LEMMA BatchRouted ==
    ASSUME SessionTypes, NEW s \in Sessions, NEW msgs \in Seq(Messages), NEW choice,
           OneParse(msgs), Routed(ext[s].stmts)
    PROVE  WritesRouted(ReadBatch(s, msgs, choice))
<1>1. PICK e : Reading(s, msgs, choice, e)
  BY BatchSteps
<1>2. Len(msgs) \in Nat /\ \A k \in 1 .. Len(msgs) : msgs[k] \in Messages
  OBVIOUS
<1>3. e[0].stmts = ext[s].stmts /\ e[0].isWrite = FALSE
  <2>1. e[0] = ReadStart(s)
    BY <1>1, Zenon DEF Reading
  <2> QED
    BY <2>1, SMT DEF ReadStart
<1> DEFINE S == {k \in Nat : k <= Len(msgs) => WritesRouted(e[k])}
<1>4. 0 \in S
  BY <1>3, Zenon DEF WritesRouted
<1>5. ASSUME NEW k \in Nat, k \in S PROVE k + 1 \in S
  <2> SUFFICES ASSUME k + 1 <= Len(msgs) PROVE WritesRouted(e[k + 1])
    OBVIOUS
  <2>1. /\ k + 1 \in 1 .. Len(msgs) /\ (k + 1) - 1 = k /\ k \in 0 .. Len(msgs)
        /\ WritesRouted(e[k])
    BY <1>2, <1>5
  <2>2. e[k + 1] = ReadMessage(s, e[k], msgs[k + 1], choice) /\ e[k] \in BatchReads
    BY <1>1, <2>1 DEF Reading
  <2>3. msgs[k + 1].kind = "Parse" => ~e[k].isWrite
    <3>1. CASE k = 0
      BY <1>3, <3>1
    <3>2. CASE k # 0
      <4>1. k + 1 \in 2 .. Len(msgs)
        BY <1>2, <2>1, <3>2
      <4> QED
        BY <4>1 DEF OneParse
    <3> QED
      BY <3>1, <3>2
  <2> QED
    BY <1>2, <2>1, <2>2, <2>3, MessageRouted
<1>6. Len(msgs) \in S
  <2> HIDE DEF S
  <2> QED
    BY <1>2, <1>4, <1>5, NatInd
<1> QED
  BY <1>1, <1>2, <1>6 DEF Reading
=============================================================================
