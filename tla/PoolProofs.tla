----------------------------- MODULE PoolProofs -----------------------------
(***************************************************************************)
(* Proofs about Pool for any number of borrowers, warm-up goroutines and   *)
(* connections and any MinConnections <= MaxConnections.                   *)
(***************************************************************************)
EXTENDS Pool, FiniteSetTheorems, SequenceTheorems, TLAPS

\* States in which a goroutine accounts for a slot or still has a socket.
UseStates == SlotStates \cup SocketStates

\* SocketBound is not inductive: a goroutine in "discarding" still owns a slot,
\* one in "closing" still has a socket, and the first can turn into the second's
\* competitor only while the pool is open.
UseBound == Len(idle) + Cardinality(At(UseStates)) <= MaxConnections

\* Only a closed pool has goroutines that gave up the slot of an open socket.
ClosingMeansClosed == \A p \in Procs : pc[p] = "closing" => closed

HoldsConn == \A p \in Procs : (pc[p] \in {"held", "closing"}) <=> (conn[p] # NoConn)

PoolInv ==
    /\ TypeOK
    /\ SlotAccounting
    /\ UseBound
    /\ ClosingMeansClosed
    /\ HoldsConn
    /\ Exclusive
    /\ ClosedIsEmpty

-----------------------------------------------------------------------------
\* There are finitely many goroutines, so counting them makes sense.
LEMMA ProcsFinite == IsFiniteSet(Procs)
  BY Zenon, ProcsAssumption, FS_Union, FS_Singleton DEF Procs

\* Counting goroutines by state: what one goroutine's move does to the count.
LEMMA CountStep ==
  ASSUME NEW S, NEW p \in Procs, NEW s \in States,
         pc \in [Procs -> States], Goto(p, s)
  PROVE  /\ Cardinality(At(S)) \in Nat
         /\ Cardinality(At(S)') \in Nat
         /\ pc[p] \in S /\ s \in S => At(S)' = At(S)
         /\ pc[p] \notin S /\ s \notin S => At(S)' = At(S)
         /\ pc[p] \notin S /\ s \in S => Cardinality(At(S)') = Cardinality(At(S)) + 1
         /\ pc[p] \in S /\ s \notin S => Cardinality(At(S)') = Cardinality(At(S)) - 1
<1>1. IsFiniteSet(At(S)) /\ IsFiniteSet(At(S)')
  BY ProcsFinite, FS_Subset DEF At
<1>2. Cardinality(At(S)) \in Nat /\ Cardinality(At(S)') \in Nat
  BY <1>1, FS_CardinalityType
<1>3. pc' = [pc EXCEPT ![p] = s]
  BY DEF Goto
<1>4. pc[p] \in S /\ s \in S => At(S)' = At(S)
  BY <1>3 DEF At
<1>5. pc[p] \notin S /\ s \notin S => At(S)' = At(S)
  BY <1>3 DEF At
<1>6. ASSUME pc[p] \notin S, s \in S
      PROVE  Cardinality(At(S)') = Cardinality(At(S)) + 1
  <2>1. At(S)' = At(S) \cup {p} /\ p \notin At(S)
    BY <1>3, <1>6 DEF At
  <2> QED
    BY <1>1, <2>1, FS_AddElement
<1>7. ASSUME pc[p] \in S, s \notin S
      PROVE  Cardinality(At(S)') = Cardinality(At(S)) - 1
  <2>1. At(S)' = At(S) \ {p} /\ p \in At(S)
    BY <1>3, <1>7 DEF At
  <2> QED
    BY <1>1, <2>1, FS_RemoveElement
<1> QED
  BY <1>2, <1>4, <1>5, <1>6, <1>7

\* While the pool is open the two counts agree.
LEMMA OpenCounts ==
  ASSUME PoolInv, ~closed
  PROVE  /\ At(UseStates) = At(SlotStates)
         /\ numOpen = Len(idle) + Cardinality(At(UseStates))
         /\ numOpen <= MaxConnections
  <1>1. At(UseStates) = At(SlotStates)
    BY DEF PoolInv, ClosingMeansClosed, At, UseStates, SlotStates, SocketStates
  <1> QED
    BY <1>1 DEF PoolInv, SlotAccounting, UseBound

\* What the two counted quantities of PoolInv owe a goroutine in state x.
SlotOf(x) == IF x \in SlotStates THEN 1 ELSE 0
UseOf(x) == IF x \in UseStates THEN 1 ELSE 0

\* The ledger of a step in which goroutine p moves to state s: SlotAccounting
\* survives when numOpen changes by what idle and p change, and UseBound when
\* the step takes no more than it gives back, or leaves an open pool within its
\* size.
LEMMA Ledger ==
  ASSUME PoolInv, NEW p \in Procs, NEW s \in States, Goto(p, s),
         idle' \in Seq(Conns), numOpen' \in Int,
         numOpen' + Len(idle) + SlotOf(pc[p]) = numOpen + Len(idle') + SlotOf(s),
         \/ Len(idle') + UseOf(s) <= Len(idle) + UseOf(pc[p])
         \/ ~closed /\ s # "closing" /\ numOpen' <= MaxConnections
  PROVE  SlotAccounting' /\ UseBound' /\ numOpen' \in Nat
<1> DEFINE SO == Cardinality(At(SlotStates))
           SOn == Cardinality(At(SlotStates)')
           U == Cardinality(At(UseStates))
           Un == Cardinality(At(UseStates)')
           L == Len(idle)
           Ln == Len(idle')
<1>1. pc \in [Procs -> States] /\ numOpen \in Nat /\ L \in Nat /\ Ln \in Nat
  BY LenProperties DEF PoolInv, TypeOK
<1>2. SO \in Nat /\ SOn \in Nat /\ SOn + SlotOf(pc[p]) = SO + SlotOf(s)
  <2>1. /\ SO \in Nat /\ SOn \in Nat
        /\ (pc[p] \in SlotStates <=> s \in SlotStates) => SOn = SO
        /\ pc[p] \notin SlotStates /\ s \in SlotStates => SOn = SO + 1
        /\ pc[p] \in SlotStates /\ s \notin SlotStates => SOn = SO - 1
    BY Zenon, <1>1, CountStep
  <2> QED
    BY <2>1 DEF SlotOf
<1>3. U \in Nat /\ Un \in Nat /\ Un + UseOf(pc[p]) = U + UseOf(s)
  <2>1. /\ U \in Nat /\ Un \in Nat
        /\ (pc[p] \in UseStates <=> s \in UseStates) => Un = U
        /\ pc[p] \notin UseStates /\ s \in UseStates => Un = U + 1
        /\ pc[p] \in UseStates /\ s \notin UseStates => Un = U - 1
    BY Zenon, <1>1, CountStep
  <2> QED
    BY <2>1 DEF UseOf
<1>4. SlotOf(s) \in Int /\ SlotOf(pc[p]) \in Int /\ UseOf(s) \in Int /\ UseOf(pc[p]) \in Int
  BY DEF SlotOf, UseOf
<1>5. numOpen = L + SO /\ L + U <= MaxConnections
  BY DEF PoolInv, SlotAccounting, UseBound
<1>6. ~closed => U = SO
  BY OpenCounts
<1>7. /\ s # "closing" => SlotOf(s) = UseOf(s)
      /\ ~closed => SlotOf(pc[p]) = UseOf(pc[p])
  BY <1>1 DEF SlotOf, UseOf, UseStates, SlotStates, SocketStates, PoolInv, ClosingMeansClosed
<1>8. numOpen' = Ln + SOn
  <2>1. numOpen' + L + SlotOf(pc[p]) = numOpen + Ln + SlotOf(s) /\ numOpen' \in Int
    OBVIOUS
  <2> DEFINE n == numOpen'
             x == SlotOf(s)
             y == SlotOf(pc[p])
  <2>2. /\ n + L + y = numOpen + Ln + x /\ n \in Int /\ x \in Int /\ y \in Int
        /\ SOn + y = SO + x
    BY <1>2, <1>4, <2>1
  <2>3. n = Ln + SOn
    <3> HIDE DEF n, x, y, L, Ln, SO, SOn
    <3> QED
      BY <1>1, <1>2, <1>5, <2>2
  <2> QED
    BY <2>3
<1>9. Ln + Un <= MaxConnections
  <2>1. CASE Ln + UseOf(s) <= L + UseOf(pc[p])
    <3> DEFINE x == UseOf(s)
               y == UseOf(pc[p])
    <3>1. /\ Ln + x <= L + y /\ x \in Int /\ y \in Int
          /\ Un + y = U + x
      BY <1>3, <1>4, <2>1
    <3> HIDE DEF x, y, L, Ln, U, Un
    <3> QED
      BY <1>1, <1>3, <1>5, <3>1, SizesAssumption
  <2>2. CASE ~closed /\ s # "closing" /\ numOpen' <= MaxConnections
    <3>1. Un = SOn
      <4> DEFINE x == UseOf(s)
                 y == UseOf(pc[p])
      <4>1. /\ SO = U /\ x \in Int /\ y \in Int
            /\ Un + y = U + x /\ SOn + y = SO + x
        BY <1>2, <1>3, <1>4, <1>6, <1>7, <2>2
      <4> HIDE DEF x, y, U, Un, SO, SOn
      <4> QED
        BY <1>2, <1>3, <4>1
    <3> QED
      BY <1>8, <2>2, <3>1
  <2> QED
    BY <2>1, <2>2
<1> QED
  BY <1>1, <1>2, <1>8, <1>9 DEF SlotAccounting, UseBound

\* A new pool is empty.
LEMMA InitInv == Init => PoolInv
<1> SUFFICES ASSUME Init PROVE PoolInv
  OBVIOUS
<1>1. \A p \in Procs : pc[p] = "out" /\ conn[p] = NoConn
  BY DEF Init
<1>2. At(SlotStates) = {} /\ At(UseStates) = {}
  BY <1>1 DEF At, UseStates, SlotStates, SocketStates
<1>3. Cardinality({}) = 0
  BY FS_EmptySet
<1>4. TypeOK
  <2>1. idle \in Seq(Conns)
    BY EmptySeq DEF Init
  <2>2. 0 \in 0 .. MinConnections /\ waitCh \in 0 .. MaxConnections
    BY SizesAssumption DEF Init
  <2>3. pc \in [Procs -> States] /\ conn \in [Procs -> Conns \cup {NoConn}]
    BY DEF Init, States
  <2>4. warmLeft \in [Warmers -> 0 .. MinConnections]
    BY <2>2 DEF Init
  <2> QED
    BY Zenon, <2>1, <2>2, <2>3, <2>4 DEF Init, TypeOK
<1>5. SlotAccounting /\ UseBound
  BY <1>2, <1>3, SizesAssumption DEF Init, SlotAccounting, UseBound
<1>6. ClosingMeansClosed /\ HoldsConn /\ ClosedIsEmpty
  BY <1>1 DEF Init, ClosingMeansClosed, HoldsConn, ClosedIsEmpty
<1>7. Exclusive
  BY <1>1 DEF Init, Exclusive, Elems
<1> QED
  BY <1>4, <1>5, <1>6, <1>7 DEF PoolInv

-----------------------------------------------------------------------------
(* Steps of several actions that PoolInv sees alike. *)

\* Goroutine states that count neither a slot nor a socket.
FreeStates == {"out", "woken", "waiting", "signalling", "warming"}

\* A goroutine that holds nothing moves on and touches only waitCh or its own
\* loop counter: a blocked Acquire that is woken, gives up or finds the pool
\* closed, the token of a Discard, the start and the end of a warm-up loop.
LEMMA FreeMoveInv ==
  ASSUME PoolInv, NEW p \in Procs, NEW s \in FreeStates, pc[p] \in FreeStates,
         Goto(p, s), UNCHANGED <<idle, numOpen, closed, expired, conn>>,
         waitCh' \in 0 .. MaxConnections, warmLeft' \in [Warmers -> 0 .. MinConnections]
  PROVE  PoolInv'
<1>1. /\ s \in States /\ numOpen' \in Nat /\ numOpen' = numOpen
      /\ idle' \in Seq(Conns) /\ Len(idle') = Len(idle) /\ Len(idle) \in Nat
  BY DEF States, FreeStates, PoolInv, TypeOK
<1>2. SlotOf(s) = 0 /\ SlotOf(pc[p]) = 0 /\ UseOf(s) = 0 /\ UseOf(pc[p]) = 0
  BY DEF FreeStates, SlotOf, UseOf, UseStates, SlotStates, SocketStates
<1>3. SlotAccounting' /\ UseBound'
  BY <1>1, <1>2, Ledger
<1>4. TypeOK'
  BY <1>1 DEF PoolInv, TypeOK, Goto
<1>5. ClosingMeansClosed' /\ HoldsConn' /\ Exclusive' /\ ClosedIsEmpty'
  BY DEF PoolInv, TypeOK, Goto, FreeStates, ClosingMeansClosed, HoldsConn, Exclusive,
         Elems, ClosedIsEmpty
<1> QED
  BY <1>3, <1>4, <1>5 DEF PoolInv

\* A goroutine without a connection gives its slot up: a failed dial of Acquire,
\* Warm or the health checker, or the counter update of a Discard.
LEMMA FreeSlotInv ==
  ASSUME PoolInv, NEW p \in Procs, NEW s \in FreeStates, pc[p] \in {"dialing", "discarding"},
         numOpen' = numOpen - 1, Goto(p, s),
         UNCHANGED <<idle, closed, waitCh, expired, conn, warmLeft>>
  PROVE  PoolInv'
<1>1. /\ s \in States /\ numOpen \in Nat
      /\ idle' \in Seq(Conns) /\ Len(idle') = Len(idle) /\ Len(idle) \in Nat
  BY DEF States, FreeStates, PoolInv, TypeOK
<1>2. SlotOf(s) = 0 /\ SlotOf(pc[p]) = 1 /\ UseOf(s) = 0 /\ UseOf(pc[p]) = 1
  BY DEF FreeStates, SlotOf, UseOf, UseStates, SlotStates, SocketStates
<1>3. SlotAccounting' /\ UseBound' /\ numOpen' \in Nat
  BY <1>1, <1>2, Ledger
<1>4. TypeOK'
  BY <1>1, <1>3 DEF PoolInv, TypeOK, Goto
<1>5. ClosingMeansClosed' /\ HoldsConn' /\ Exclusive' /\ ClosedIsEmpty'
  BY DEF PoolInv, TypeOK, Goto, FreeStates, ClosingMeansClosed, HoldsConn, Exclusive,
         Elems, ClosedIsEmpty
<1> QED
  BY <1>3, <1>4, <1>5 DEF PoolInv

\* A dial that ends in a closed pool: the slot is given up, the socket is still
\* to be closed (Acquire, Warm and the health checker re-check p.closed).
LEMMA DialedClosedInv ==
  ASSUME PoolInv, NEW p \in Procs, NEW c \in Fresh, pc[p] = "dialing", closed,
         numOpen' = numOpen - 1, conn' = [conn EXCEPT ![p] = c], Goto(p, "closing"),
         UNCHANGED <<idle, closed, waitCh, expired, warmLeft>>
  PROVE  PoolInv'
<1>1. /\ "closing" \in States /\ numOpen \in Nat
      /\ idle' \in Seq(Conns) /\ Len(idle') = Len(idle) /\ Len(idle) \in Nat
  BY DEF States, PoolInv, TypeOK
<1>2. SlotOf("closing") = 0 /\ SlotOf(pc[p]) = 1 /\ UseOf("closing") = 1 /\ UseOf(pc[p]) = 1
  BY DEF SlotOf, UseOf, UseStates, SlotStates, SocketStates
<1>3. SlotAccounting' /\ UseBound' /\ numOpen' \in Nat
  BY <1>1, <1>2, Ledger
<1>4. TypeOK'
  BY <1>1, <1>3 DEF PoolInv, TypeOK, Goto, Fresh
<1>5. ClosingMeansClosed' /\ HoldsConn' /\ ClosedIsEmpty'
  BY ProcsAssumption DEF PoolInv, TypeOK, Goto, Fresh, ClosingMeansClosed, HoldsConn, ClosedIsEmpty
<1>6. Exclusive'
  BY DEF PoolInv, TypeOK, Fresh, Exclusive, Elems
<1> QED
  BY <1>3, <1>4, <1>5, <1>6 DEF PoolInv

\* A connection nobody has joins the idle list of an open pool, and the goroutine
\* that brought it moves to s: Release of a borrowed one, or a dial of Warm or the
\* health checker, which may reserve its next slot in the same critical section.
LEMMA AppendInv ==
  ASSUME PoolInv, NEW p \in Procs, NEW s \in FreeStates \cup {"dialing"}, NEW c \in Conns,
         pc[p] \in {"dialing", "held"}, ~closed,
         c \notin Elems(idle), \A q \in Procs : conn'[q] # c,
         idle' = Append(idle, c), Goto(p, s), conn' = [conn EXCEPT ![p] = NoConn],
         numOpen' = numOpen + SlotOf(s), numOpen' <= MaxConnections,
         UNCHANGED <<closed, expired, warmLeft>>, waitCh' \in 0 .. MaxConnections
  PROVE  PoolInv'
<1>1. /\ s \in States /\ s # "closing" /\ numOpen \in Nat /\ Len(idle) \in Nat
      /\ idle \in Seq(Conns) /\ idle' \in Seq(Conns) /\ Len(idle') = Len(idle) + 1
      /\ \A i \in 1 .. Len(idle) : idle'[i] = idle[i]
      /\ idle'[Len(idle) + 1] = c
  BY AppendProperties DEF States, FreeStates, PoolInv, TypeOK
<1>2. SlotOf(pc[p]) = 1 /\ SlotOf(s) \in Nat
  BY DEF SlotOf, SlotStates
<1>3. numOpen' \in Int /\ numOpen' + Len(idle) + SlotOf(pc[p]) = numOpen + Len(idle') + SlotOf(s)
  BY SMTT(30), <1>1, <1>2
<1>4. SlotAccounting' /\ UseBound' /\ numOpen' \in Nat
  BY <1>1, <1>3, Ledger
<1>5. TypeOK'
  BY <1>1, <1>4 DEF PoolInv, TypeOK, Goto
<1>6. ClosingMeansClosed' /\ HoldsConn' /\ ClosedIsEmpty'
  BY <1>1 DEF PoolInv, TypeOK, Goto, FreeStates, ClosingMeansClosed, HoldsConn, ClosedIsEmpty
<1>7. Exclusive'
  <2>1. \A i, j \in 1 .. Len(idle') : idle'[i] = idle'[j] => i = j
    BY <1>1 DEF PoolInv, Exclusive, Elems
  <2>2. \A q \in Procs : conn'[q] \notin Elems(idle)'
    BY <1>1, ProcsAssumption DEF PoolInv, TypeOK, Exclusive, Elems
  <2>3. \A q, r \in Procs : conn'[q] = conn'[r] /\ conn'[q] # NoConn => q = r
    BY DEF PoolInv, TypeOK, Exclusive
  <2> QED
    BY <2>1, <2>2, <2>3 DEF Exclusive
<1> QED
  BY <1>4, <1>5, <1>6, <1>7 DEF PoolInv

-----------------------------------------------------------------------------
(* One lemma per action that is not one of those. *)

\* Acquire pops the last usable idle connection and closes the expired ones above it.
LEMMA AcquireIdleInv ==
  ASSUME PoolInv, NEW p \in Borrowers, AcquireIdle(p) PROVE PoolInv'
<1>1. p \in Procs /\ "held" \in States
  BY DEF Procs, States
<1>2. PICK k \in 1 .. Len(idle) :
        /\ conn' = [conn EXCEPT ![p] = idle[k]]
        /\ idle' = SubSeq(idle, 1, k - 1)
        /\ numOpen' = numOpen - (Len(idle) - k)
        /\ expired' = expired \ {idle[j] : j \in k + 1 .. Len(idle)}
  BY Zenon DEF AcquireIdle
<1>3. /\ Len(idle) \in Nat
      /\ idle[k] \in Conns
      /\ idle' \in Seq(Conns)
      /\ Len(idle') = k - 1
      /\ \A i \in 1 .. k - 1 : idle'[i] = idle[i]
  BY <1>2 DEF PoolInv, TypeOK
<1>4. /\ ~closed /\ ~closed' /\ Goto(p, "held") /\ pc[p] \in {"out", "woken"}
      /\ numOpen \in Nat /\ numOpen <= MaxConnections
  BY OpenCounts DEF AcquireIdle, AtLoopHead, PoolInv, TypeOK
<1>5. SlotAccounting' /\ UseBound' /\ numOpen' \in Nat
  <2>1. /\ numOpen' \in Int /\ numOpen' <= MaxConnections
        /\ numOpen' + Len(idle) = numOpen + Len(idle') + 1
    BY <1>2, <1>3, <1>4, SizesAssumption
  <2>2. SlotOf("held") = 1 /\ SlotOf(pc[p]) = 0
    BY <1>4 DEF SlotOf, SlotStates
  <2> QED
    BY <1>1, <1>3, <1>4, <2>1, <2>2, Ledger
<1>6. TypeOK'
  BY <1>1, <1>2, <1>3, <1>5 DEF PoolInv, TypeOK, AcquireIdle, Goto
<1>7. ClosingMeansClosed' /\ HoldsConn' /\ ClosedIsEmpty'
  BY <1>1, <1>2, <1>3, <1>4, ProcsAssumption
     DEF PoolInv, TypeOK, Goto, ClosingMeansClosed, HoldsConn, ClosedIsEmpty
<1>8. Exclusive'
  <2>1. Exclusive /\ p \in Procs /\ conn \in [Procs -> Conns \cup {NoConn}] /\ k \in 1 .. Len(idle)
    BY <1>1 DEF PoolInv, TypeOK
  <2>2. \A i, j \in 1 .. Len(idle') : idle'[i] = idle'[j] => i = j
    <3>1. \A i \in 1 .. Len(idle') : i \in 1 .. Len(idle) /\ idle'[i] = idle[i]
      BY <1>3
    <3> QED
      BY <2>1, <3>1 DEF Exclusive
  <2>3. \A i \in 1 .. Len(idle') : i \in 1 .. Len(idle) /\ i # k /\ idle'[i] = idle[i]
    BY <1>3
  <2>4. idle[k] \in Elems(idle) /\ \A q \in Procs : conn[q] # idle[k]
    BY <2>1 DEF Exclusive, Elems
  <2>5. Elems(idle') \subseteq Elems(idle) /\ idle[k] \notin Elems(idle')
    <3>1. Elems(idle') = {idle'[i] : i \in 1 .. Len(idle')}
      BY DEF Elems
    <3>2. Elems(idle') \subseteq Elems(idle)
      BY <2>3, <3>1 DEF Elems
    <3>3. \A i \in 1 .. Len(idle') : idle'[i] # idle[k]
      BY <2>1, <2>3 DEF Exclusive
    <3> QED
      BY <3>1, <3>2, <3>3
  <2>6. \A q \in Procs : conn'[q] = IF q = p THEN idle[k] ELSE conn[q]
    BY <1>2, <2>1
  <2>7. \A q \in Procs : conn'[q] \notin Elems(idle')
    BY <2>1, <2>5, <2>6 DEF Exclusive
  <2>8. \A q, r \in Procs : conn'[q] = conn'[r] /\ conn'[q] # NoConn => q = r
    BY <2>1, <2>4, <2>6 DEF Exclusive
  <2> QED
    BY <2>2, <2>7, <2>8 DEF Exclusive, Elems
<1> QED
  BY <1>5, <1>6, <1>7, <1>8 DEF PoolInv

\* Acquire finds nothing usable: it reserves a slot to dial, or blocks.
LEMMA AcquireNoneInv ==
  ASSUME PoolInv, NEW p \in Borrowers, AcquireNone(p) PROVE PoolInv'
<1>1. p \in Procs /\ "dialing" \in States /\ "waiting" \in States
  BY DEF Procs, States
<1>2. /\ ~closed /\ closed' = closed /\ idle' = <<>> /\ conn' = conn
      /\ expired' = expired \ Elems(idle)
      /\ pc[p] \in {"out", "woken"}
      /\ numOpen \in Nat /\ Len(idle) \in Nat /\ numOpen <= MaxConnections
      /\ idle' \in Seq(Conns) /\ Len(idle') = 0
  BY OpenCounts, EmptySeq DEF AcquireNone, AtLoopHead, PoolInv, TypeOK
<1>3. \/ /\ numOpen - Len(idle) < MaxConnections
         /\ numOpen' = numOpen - Len(idle) + 1
         /\ Goto(p, "dialing")
      \/ numOpen' = numOpen - Len(idle) /\ Goto(p, "waiting")
  BY DEF AcquireNone
<1>4. SlotAccounting' /\ UseBound' /\ numOpen' \in Nat
  <2>1. SlotOf("dialing") = 1 /\ SlotOf("waiting") = 0 /\ SlotOf(pc[p]) = 0
    BY <1>2 DEF SlotOf, SlotStates
  <2>2. CASE Goto(p, "dialing") /\ numOpen' = numOpen - Len(idle) + 1
                /\ numOpen - Len(idle) < MaxConnections
    BY <1>1, <1>2, <2>1, <2>2, Ledger, SizesAssumption
  <2>3. CASE Goto(p, "waiting") /\ numOpen' = numOpen - Len(idle)
    BY <1>1, <1>2, <2>1, <2>3, Ledger, SizesAssumption
  <2> QED
    BY <1>3, <2>2, <2>3
<1>5. TypeOK'
  BY <1>1, <1>2, <1>3, <1>4 DEF PoolInv, TypeOK, AcquireNone, Goto
<1>6. ClosingMeansClosed' /\ HoldsConn' /\ ClosedIsEmpty'
  BY <1>1, <1>2, <1>3 DEF PoolInv, TypeOK, Goto, ClosingMeansClosed, HoldsConn, ClosedIsEmpty
<1>7. Exclusive'
  BY <1>2 DEF PoolInv, Exclusive, Elems
<1> QED
  BY <1>4, <1>5, <1>6, <1>7 DEF PoolInv

\* A slot that some goroutine holds is counted, so the clamps of Release and
\* Discard never apply.
LEMMA SlotPositive ==
  ASSUME PoolInv, NEW p \in Procs, pc[p] \in SlotStates
  PROVE  numOpen > 0
<1>1. IsFiniteSet(At(SlotStates)) /\ p \in At(SlotStates)
  BY ProcsFinite, FS_Subset DEF At
<1>2. Cardinality(At(SlotStates)) \in Nat /\ Cardinality(At(SlotStates)) # 0
  BY <1>1, FS_CardinalityType, FS_EmptySet
<1>3. Len(idle) \in Nat
  BY DEF PoolInv, TypeOK
<1> QED
  BY <1>2, <1>3 DEF PoolInv, SlotAccounting

\* Acquire's dial succeeded.
LEMMA AcquireDialedInv ==
  ASSUME PoolInv, NEW p \in Borrowers, AcquireDialed(p) PROVE PoolInv'
<1>1. p \in Procs /\ "held" \in States
  BY DEF Procs, States
<1>2. PICK c \in Fresh : conn' = [conn EXCEPT ![p] = c]
  BY Zenon DEF AcquireDialed
<1>3. CASE closed
  BY Zenon, <1>1, <1>2, <1>3, DialedClosedInv DEF AcquireDialed
<1>4. CASE ~closed
  <2>1. /\ numOpen' = numOpen /\ numOpen \in Nat /\ Goto(p, "held") /\ pc[p] = "dialing"
        /\ idle' \in Seq(Conns) /\ idle' = idle /\ Len(idle) \in Nat
    BY <1>4 DEF AcquireDialed, PoolInv, TypeOK
  <2>2. SlotOf("held") = 1 /\ SlotOf(pc[p]) = 1 /\ UseOf("held") = 1 /\ UseOf(pc[p]) = 1
    BY <2>1 DEF SlotOf, UseOf, UseStates, SlotStates, SocketStates
  <2>3. SlotAccounting' /\ UseBound'
    BY <1>1, <2>1, <2>2, Ledger
  <2>4. TypeOK'
    BY <1>1, <1>2, <2>1 DEF AcquireDialed, PoolInv, TypeOK, Goto, Fresh
  <2>5. ClosingMeansClosed' /\ HoldsConn' /\ ClosedIsEmpty'
    BY <1>1, <1>2, <1>4, <2>1, ProcsAssumption
       DEF AcquireDialed, PoolInv, TypeOK, Goto, Fresh, ClosingMeansClosed, HoldsConn, ClosedIsEmpty
  <2>6. Exclusive'
    BY <1>1, <1>2, <2>1 DEF PoolInv, TypeOK, Fresh, Exclusive, Elems
  <2> QED
    BY <2>3, <2>4, <2>5, <2>6 DEF PoolInv
<1> QED
  BY <1>3, <1>4

\* The socket of a dial that found the pool closed is closed.
LEMMA CloseSocketInv ==
  ASSUME PoolInv, NEW p \in Procs, CloseSocket(p) PROVE PoolInv'
<1>1. /\ "out" \in States /\ numOpen' = numOpen /\ numOpen \in Nat
      /\ Goto(p, "out") /\ pc[p] = "closing"
      /\ idle' \in Seq(Conns) /\ idle' = idle /\ Len(idle) \in Nat
  BY DEF CloseSocket, PoolInv, TypeOK, States
<1>2. SlotOf("out") = 0 /\ SlotOf(pc[p]) = 0 /\ UseOf("out") = 0 /\ UseOf(pc[p]) = 1
  BY <1>1 DEF SlotOf, UseOf, UseStates, SlotStates, SocketStates
<1>3. SlotAccounting' /\ UseBound'
  BY <1>1, <1>2, Ledger
<1>4. TypeOK'
  BY <1>1 DEF CloseSocket, PoolInv, TypeOK, Goto
<1>5. ClosingMeansClosed' /\ HoldsConn' /\ ClosedIsEmpty'
  BY DEF CloseSocket, PoolInv, TypeOK, Goto, ClosingMeansClosed, HoldsConn, ClosedIsEmpty
<1>6. Exclusive'
  BY ProcsAssumption DEF CloseSocket, PoolInv, TypeOK, Exclusive, Elems
<1> QED
  BY <1>3, <1>4, <1>5, <1>6 DEF PoolInv

\* A token sent without blocking stays within the channel's capacity.
LEMMA SignalType ==
  ASSUME waitCh \in 0 .. MaxConnections, Signal PROVE waitCh' \in 0 .. MaxConnections
  BY SizesAssumption DEF Signal

\* Release closes the connection of a closed pool, and otherwise returns it.
LEMMA ReleaseInv ==
  ASSUME PoolInv, NEW p \in Borrowers, Release(p) PROVE PoolInv'
<1>1. /\ p \in Procs /\ "out" \in States /\ pc[p] = "held" /\ Goto(p, "out")
      /\ numOpen \in Nat /\ idle \in Seq(Conns) /\ Len(idle) \in Nat
      /\ conn[p] \in Conns /\ conn' = [conn EXCEPT ![p] = NoConn]
  BY DEF Procs, States, Release, PoolInv, TypeOK, HoldsConn
<1>2. /\ SlotOf("out") = 0 /\ SlotOf(pc[p]) = 1 /\ UseOf("out") = 0 /\ UseOf(pc[p]) = 1
      /\ pc[p] \in SlotStates /\ "out" \in FreeStates
  BY <1>1 DEF SlotOf, UseOf, UseStates, SlotStates, SocketStates, FreeStates
<1>3. CASE closed
  <2>1. numOpen' = numOpen - 1 /\ idle' = idle
    BY <1>1, <1>2, <1>3, SlotPositive DEF Release
  <2>2. SlotAccounting' /\ UseBound' /\ numOpen' \in Nat
    BY <1>1, <1>2, <2>1, Ledger
  <2>3. TypeOK'
    BY <1>1, <1>3, <2>1, <2>2 DEF Release, PoolInv, TypeOK, Goto
  <2>4. ClosingMeansClosed' /\ HoldsConn' /\ ClosedIsEmpty'
    BY <1>1, <2>1 DEF Release, PoolInv, TypeOK, Goto, ClosingMeansClosed, HoldsConn, ClosedIsEmpty
  <2>5. Exclusive'
    BY <1>1, <2>1, ProcsAssumption DEF PoolInv, TypeOK, Exclusive, Elems
  <2> QED
    BY <2>2, <2>3, <2>4, <2>5 DEF PoolInv
<1>4. CASE ~closed
  <2>1. /\ idle' = Append(idle, conn[p]) /\ numOpen' = numOpen /\ Signal
        /\ UNCHANGED <<closed, expired, warmLeft>>
    BY <1>4 DEF Release
  <2>2. waitCh' \in 0 .. MaxConnections
    BY <2>1, SignalType DEF PoolInv, TypeOK
  <2>3. conn[p] \notin Elems(idle) /\ \A q \in Procs : conn'[q] # conn[p]
    BY <1>1, ProcsAssumption DEF PoolInv, TypeOK, Exclusive
  <2>4. numOpen' = numOpen + SlotOf("out") /\ numOpen' <= MaxConnections
    BY <1>1, <1>2, <1>4, <2>1, OpenCounts
  <2> QED
    BY Zenon, <1>1, <1>2, <1>4, <2>1, <2>2, <2>3, <2>4, AppendInv
<1> QED
  BY <1>3, <1>4

\* Discard closes the socket before it gives the slot up.
LEMMA DiscardInv ==
  ASSUME PoolInv, NEW p \in Borrowers, Discard(p) PROVE PoolInv'
<1>1. /\ p \in Procs /\ "discarding" \in States /\ pc[p] = "held" /\ Goto(p, "discarding")
      /\ numOpen' = numOpen /\ numOpen \in Nat
      /\ idle' \in Seq(Conns) /\ idle' = idle /\ Len(idle) \in Nat
  BY DEF Procs, States, Discard, PoolInv, TypeOK
<1>2. SlotOf("discarding") = 1 /\ SlotOf(pc[p]) = 1 /\ UseOf("discarding") = 1 /\ UseOf(pc[p]) = 1
  BY <1>1 DEF SlotOf, UseOf, UseStates, SlotStates, SocketStates
<1>3. SlotAccounting' /\ UseBound'
  BY <1>1, <1>2, Ledger
<1>4. TypeOK'
  BY <1>1 DEF Discard, PoolInv, TypeOK, Goto
<1>5. ClosingMeansClosed' /\ HoldsConn' /\ ClosedIsEmpty'
  BY <1>1 DEF Discard, PoolInv, TypeOK, Goto, ClosingMeansClosed, HoldsConn, ClosedIsEmpty
<1>6. Exclusive'
  BY <1>1, ProcsAssumption DEF Discard, PoolInv, TypeOK, Exclusive, Elems
<1> QED
  BY <1>3, <1>4, <1>5, <1>6 DEF PoolInv

\* Close empties the idle list and keeps the count of everything else.
LEMMA CloseInv ==
  ASSUME PoolInv, Close PROVE PoolInv'
<1>1. /\ ~closed /\ closed' /\ idle' = <<>> /\ numOpen' = numOpen - Len(idle)
      /\ pc' = pc /\ conn' = conn
      /\ numOpen \in Nat /\ Len(idle) \in Nat /\ Len(idle') = 0 /\ idle' \in Seq(Conns)
  BY EmptySeq DEF Close, PoolInv, TypeOK
<1>2. At(SlotStates)' = At(SlotStates) /\ At(UseStates)' = At(UseStates)
  BY <1>1 DEF At
<1>3. /\ numOpen = Len(idle) + Cardinality(At(SlotStates))
      /\ Len(idle) + Cardinality(At(UseStates)) <= MaxConnections
      /\ Cardinality(At(SlotStates)) \in Nat /\ Cardinality(At(UseStates)) \in Nat
  BY ProcsFinite, FS_Subset, FS_CardinalityType DEF PoolInv, SlotAccounting, UseBound, At
<1>4. SlotAccounting' /\ UseBound' /\ numOpen' \in Nat
  BY <1>1, <1>2, <1>3, SizesAssumption DEF SlotAccounting, UseBound
<1>5. TypeOK'
  BY <1>1, <1>4 DEF Close, PoolInv, TypeOK
<1>6. ClosingMeansClosed' /\ HoldsConn' /\ ClosedIsEmpty' /\ Exclusive'
  BY <1>1 DEF PoolInv, ClosingMeansClosed, HoldsConn, ClosedIsEmpty, Exclusive, Elems
<1> QED
  BY <1>4, <1>5, <1>6 DEF PoolInv

\* The warm-up loop reserves a slot below MinConnections.
LEMMA WarmReserveInv ==
  ASSUME PoolInv, NEW w \in Warmers, WarmReserve(w) PROVE PoolInv'
<1>1. /\ w \in Procs /\ "dialing" \in States /\ pc[w] = "warming" /\ Goto(w, "dialing") /\ ~closed
      /\ numOpen' = numOpen + 1 /\ numOpen \in Nat /\ numOpen < MinConnections
      /\ idle' \in Seq(Conns) /\ idle' = idle /\ Len(idle) \in Nat
      /\ closed' = closed /\ conn' = conn
  BY DEF Procs, States, WarmReserve, PoolInv, TypeOK
<1>2. SlotOf("dialing") = 1 /\ SlotOf(pc[w]) = 0
  BY <1>1 DEF SlotOf, SlotStates
<1>3. SlotAccounting' /\ UseBound' /\ numOpen' \in Nat
  BY <1>1, <1>2, Ledger, SizesAssumption
<1>4. warmLeft' \in [Warmers -> 0 .. MinConnections]
  <2>1. warmLeft[w] - 1 \in 0 .. MinConnections
    BY SizesAssumption DEF WarmReserve, PoolInv, TypeOK
  <2> QED
    BY <2>1 DEF WarmReserve, PoolInv, TypeOK
<1>5. TypeOK'
  BY <1>1, <1>3, <1>4 DEF WarmReserve, PoolInv, TypeOK, Goto
<1>6. ClosingMeansClosed' /\ HoldsConn' /\ ClosedIsEmpty' /\ Exclusive'
  BY <1>1 DEF PoolInv, TypeOK, Goto, ClosingMeansClosed, HoldsConn, ClosedIsEmpty, Exclusive, Elems
<1> QED
  BY <1>3, <1>5, <1>6 DEF PoolInv

\* What a fresh connection owes the lemma AppendInv, for a goroutine that dialed.
LEMMA FreshAppend ==
  ASSUME PoolInv, NEW p \in Procs, NEW c \in Fresh, pc[p] = "dialing", UNCHANGED conn
  PROVE  /\ c \in Conns /\ c \notin Elems(idle) /\ \A q \in Procs : conn'[q] # c
         /\ conn' = [conn EXCEPT ![p] = NoConn]
  BY DEF PoolInv, TypeOK, HoldsConn, Fresh

\* The warm-up dial succeeded.
LEMMA WarmDialedInv ==
  ASSUME PoolInv, NEW w \in Warmers, WarmDialed(w) PROVE PoolInv'
<1>1. w \in Procs /\ pc[w] = "dialing" /\ UNCHANGED <<closed, waitCh, expired, warmLeft>>
  BY DEF Procs, WarmDialed
<1>2. PICK c \in Fresh :
          IF closed
          THEN /\ conn' = [conn EXCEPT ![w] = c]
               /\ numOpen' = numOpen - 1
               /\ Goto(w, "closing")
               /\ UNCHANGED idle
          ELSE /\ idle' = Append(idle, c)
               /\ Goto(w, "warming")
               /\ UNCHANGED <<conn, numOpen>>
  BY DEF WarmDialed
<1>3. CASE closed
  BY <1>1, <1>2, <1>3, DialedClosedInv
<1>4. CASE ~closed
  <2>1. /\ c \in Conns /\ c \notin Elems(idle) /\ \A q \in Procs : conn'[q] # c
        /\ conn' = [conn EXCEPT ![w] = NoConn]
    BY <1>1, <1>2, <1>4, FreshAppend
  <2>2. SlotOf("warming") = 0 /\ "warming" \in FreeStates
    BY DEF SlotOf, SlotStates, FreeStates
  <2>3. numOpen' = numOpen + SlotOf("warming") /\ numOpen' <= MaxConnections
    BY <1>2, <1>4, <2>2, OpenCounts DEF PoolInv, TypeOK
  <2>4. waitCh' \in 0 .. MaxConnections
    BY <1>1 DEF PoolInv, TypeOK
  <2> QED
    BY Zenon, <1>1, <1>2, <1>4, <2>1, <2>2, <2>3, <2>4, AppendInv
<1> QED
  BY <1>3, <1>4

\* The health checker's dial succeeded; it goes on to the next slot or stops.
LEMMA HealthDialedInv ==
  ASSUME PoolInv, HealthDialed PROVE PoolInv'
<1>1. Checker \in Procs /\ pc[Checker] = "dialing" /\ UNCHANGED <<closed, waitCh, expired, warmLeft>>
  BY DEF Procs, HealthDialed
<1>2. PICK c \in Fresh :
          IF closed
          THEN /\ conn' = [conn EXCEPT ![Checker] = c]
               /\ numOpen' = numOpen - 1
               /\ Goto(Checker, "closing")
               /\ UNCHANGED idle
          ELSE /\ idle' = Append(idle, c)
               /\ Replenish(numOpen)
               /\ UNCHANGED conn
  BY DEF HealthDialed
<1>3. CASE closed
  BY <1>1, <1>2, <1>3, DialedClosedInv
<1>4. CASE ~closed
  <2>1. /\ c \in Conns /\ c \notin Elems(idle) /\ \A q \in Procs : conn'[q] # c
        /\ conn' = [conn EXCEPT ![Checker] = NoConn]
    BY <1>1, <1>2, <1>4, FreshAppend
  <2>2. /\ SlotOf("out") = 0 /\ "out" \in FreeStates /\ SlotOf("dialing") = 1
        /\ numOpen \in Nat /\ numOpen <= MaxConnections /\ waitCh' \in 0 .. MaxConnections
    BY <1>1, <1>4, OpenCounts DEF SlotOf, SlotStates, FreeStates, PoolInv, TypeOK
  <2>3. CASE numOpen < MinConnections
    <3>1. /\ Goto(Checker, "dialing") /\ numOpen' = numOpen + SlotOf("dialing")
          /\ numOpen' <= MaxConnections
      BY <1>2, <1>4, <2>2, <2>3, SizesAssumption DEF Replenish
    <3> QED
      BY Zenon, <1>1, <1>2, <1>4, <2>1, <2>2, <3>1, AppendInv
  <2>4. CASE ~(numOpen < MinConnections)
    <3>1. /\ Goto(Checker, "out") /\ numOpen' = numOpen + SlotOf("out")
          /\ numOpen' <= MaxConnections
      BY <1>2, <1>4, <2>2, <2>4 DEF Replenish
    <3> QED
      BY Zenon, <1>1, <1>2, <1>4, <2>1, <2>2, <3>1, AppendInv
  <2> QED
    BY <2>3, <2>4
<1> QED
  BY <1>3, <1>4

\* A health check filters the idle list and may reserve a slot.
LEMMA HealthCheckInv ==
  ASSUME PoolInv, HealthCheck PROVE PoolInv'
<1>1. /\ Checker \in Procs /\ "dialing" \in States /\ "out" \in States
      /\ pc[Checker] = "out" /\ ~closed /\ closed' = closed /\ conn' = conn
      /\ expired' = expired \ Elems(idle) /\ waitCh' = waitCh /\ warmLeft' = warmLeft
      /\ numOpen \in Nat /\ Len(idle) \in Nat /\ numOpen <= MaxConnections
  BY OpenCounts DEF Procs, States, HealthCheck, PoolInv, TypeOK
<1>a. PICK n \in 0 .. Len(idle) : \E pos \in [1 .. n -> 1 .. Len(idle)] :
          /\ KeepsUsable(n, pos)
          /\ idle' = [i \in 1 .. n |-> idle[pos[i]]]
          /\ Replenish(numOpen - (Len(idle) - n))
  BY DEF HealthCheck
<1>2. PICK pos \in [1 .. n -> 1 .. Len(idle)] :
          /\ KeepsUsable(n, pos)
          /\ idle' = [i \in 1 .. n |-> idle[pos[i]]]
          /\ Replenish(numOpen - (Len(idle) - n))
  BY SMTT(30), <1>a
<1>3. /\ n \in Nat /\ idle' \in Seq(Conns) /\ Len(idle') = n
      /\ \A i \in 1 .. n : pos[i] \in 1 .. Len(idle) /\ idle'[i] = idle[pos[i]]
  BY SMTT(30), <1>1, <1>a, <1>2 DEF PoolInv, TypeOK
<1>4. /\ SlotAccounting' /\ UseBound' /\ numOpen' \in Nat /\ pc' \in [Procs -> States]
      /\ \A p \in Procs : p # Checker => pc'[p] = pc[p]
      /\ pc'[Checker] \in {"out", "dialing"}
  <2>1. SlotOf("dialing") = 1 /\ SlotOf("out") = 0 /\ SlotOf(pc[Checker]) = 0
    BY <1>1 DEF SlotOf, SlotStates
  <2>2. /\ pc \in [Procs -> States]
        /\ numOpen - (Len(idle) - n) \in Int /\ numOpen - (Len(idle) - n) <= MaxConnections
    BY <1>1, <1>a, <1>3, SizesAssumption DEF PoolInv, TypeOK
  <2>3. CASE numOpen - (Len(idle) - n) < MinConnections
    <3>1. /\ numOpen' = numOpen - (Len(idle) - n) + 1 /\ Goto(Checker, "dialing")
      BY <1>2, <2>3 DEF Replenish
    <3>2. /\ numOpen' \in Int /\ numOpen' <= MaxConnections
          /\ numOpen' + Len(idle) + 0 = numOpen + Len(idle') + 1
      BY SMTT(30), <1>1, <1>3, <2>2, <2>3, <3>1, SizesAssumption
    <3>3. SlotAccounting' /\ UseBound' /\ numOpen' \in Nat
      BY <1>1, <1>3, <2>1, <3>1, <3>2, Ledger
    <3> QED
      BY <1>1, <2>2, <3>1, <3>3 DEF Goto
  <2>4. CASE ~(numOpen - (Len(idle) - n) < MinConnections)
    <3>1. /\ numOpen' = numOpen - (Len(idle) - n) /\ Goto(Checker, "out")
      BY <1>2, <2>4 DEF Replenish
    <3>2. /\ numOpen' \in Int /\ numOpen' <= MaxConnections
          /\ numOpen' + Len(idle) + 0 = numOpen + Len(idle') + 0
      BY SMTT(30), <1>1, <1>3, <2>2, <3>1
    <3>3. SlotAccounting' /\ UseBound' /\ numOpen' \in Nat
      BY SMTT(30), <1>1, <1>3, <2>1, <3>1, <3>2, Ledger
    <3> QED
      BY <1>1, <2>2, <3>1, <3>3 DEF Goto
  <2> QED
    BY <2>3, <2>4
<1>5. TypeOK'
  BY <1>1, <1>3, <1>4 DEF PoolInv, TypeOK
<1>6. ClosingMeansClosed' /\ HoldsConn' /\ ClosedIsEmpty'
  <2>1. \A p \in Procs : pc'[p] = pc[p] \/ (pc[p] = "out" /\ pc'[p] \in {"out", "dialing"})
    <3> TAKE p \in Procs
    <3>1. CASE p = Checker
      BY <1>1, <1>4, <3>1
    <3>2. CASE p # Checker
      BY <1>4, <3>2
    <3> QED
      BY <3>1, <3>2
  <2>2. ~closed'
    BY <1>1
  <2>3. ClosingMeansClosed' /\ ClosedIsEmpty'
    BY <1>1, <2>1, <2>2 DEF PoolInv, ClosingMeansClosed, ClosedIsEmpty
  <2>4. HoldsConn'
    BY <1>1, <2>1 DEF PoolInv, HoldsConn
  <2> QED
    BY <2>3, <2>4
<1>7. Exclusive'
  <2>1. \A i, j \in 1 .. n : pos[i] = pos[j] => i = j
    BY <1>2, <1>3 DEF KeepsUsable
  <2>2. \A i, j \in 1 .. Len(idle') : idle'[i] = idle'[j] => i = j
    BY <1>3, <2>1 DEF PoolInv, Exclusive
  <2>3. \A p \in Procs : conn'[p] \notin Elems(idle)'
    BY SMTT(30), <1>1, <1>3 DEF PoolInv, Exclusive, Elems
  <2> QED
    BY <1>1, <2>2, <2>3 DEF PoolInv, Exclusive
<1> QED
  BY <1>4, <1>5, <1>6, <1>7 DEF PoolInv

\* PoolInv is inductive.
LEMMA NextInv == PoolInv /\ [Next]_vars => PoolInv'
<1> SUFFICES ASSUME PoolInv, [Next]_vars PROVE PoolInv'
  OBVIOUS
<1>t. /\ waitCh \in 0 .. MaxConnections /\ warmLeft \in [Warmers -> 0 .. MinConnections]
  BY DEF PoolInv, TypeOK
<1>f. {"out", "woken", "waiting", "signalling", "warming"} = FreeStates
  BY DEF FreeStates
<1>1. ASSUME NEW p \in Borrowers, Acquire(p) \/ Release(p) \/ Discard(p) \/ BorrowerStep(p)
      PROVE  PoolInv'
  <2>p. p \in Procs
    BY DEF Procs
  <2>1. CASE AcquireClosed(p)
    BY <1>t, <1>f, <2>p, <2>1, FreeMoveInv DEF AcquireClosed, AtLoopHead
  <2>2. CASE AcquireIdle(p)
    BY <2>2, AcquireIdleInv
  <2>3. CASE AcquireNone(p)
    BY SMTT(30), <2>3, AcquireNoneInv
  <2>4. CASE Release(p)
    BY <2>4, ReleaseInv
  <2>5. CASE Discard(p)
    BY <2>5, DiscardInv
  <2>6. CASE AcquireDialFails(p)
    BY <1>f, <2>p, <2>6, FreeSlotInv DEF AcquireDialFails
  <2>7. CASE AcquireDialed(p)
    BY <2>7, AcquireDialedInv
  <2>8. CASE CloseSocket(p)
    BY <2>p, <2>8, CloseSocketInv
  <2>9. CASE Wake(p)
    <3>1. waitCh' \in 0 .. MaxConnections
      BY <1>t, <2>9, SizesAssumption DEF Wake
    <3> QED
      BY SMTT(30), <1>t, <1>f, <2>p, <2>9, <3>1, FreeMoveInv DEF Wake
  <2>10. CASE GiveUp(p)
    BY SMTT(30), <1>t, <1>f, <2>p, <2>10, FreeMoveInv DEF GiveUp
  <2>11. CASE DiscardCount(p)
    <3>1. numOpen > 0 /\ pc[p] = "discarding"
      BY <2>p, <2>11, SlotPositive DEF DiscardCount, SlotStates
    <3> QED
      BY <1>f, <2>p, <2>11, <3>1, FreeSlotInv DEF DiscardCount
  <2>12. CASE DiscardSignal(p)
    <3>1. waitCh' \in 0 .. MaxConnections
      BY <1>t, <2>12, SignalType DEF DiscardSignal
    <3> QED
      BY SMTT(30), <1>t, <1>f, <2>p, <2>12, <3>1, FreeMoveInv DEF DiscardSignal
  <2> QED
    BY SMTT(30), <1>1, <2>1, <2>2, <2>3, <2>4, <2>5, <2>6, <2>7, <2>8, <2>9, <2>10, <2>11, <2>12
       DEF Acquire, BorrowerStep
<1>2. ASSUME NEW w \in Warmers, WarmStart(w) \/ WarmerStep(w)
      PROVE  PoolInv'
  <2>p. w \in Procs
    BY DEF Procs
  <2>1. CASE WarmStart(w)
    <3>1. warmLeft' \in [Warmers -> 0 .. MinConnections]
      <4>1. MinConnections \in 0 .. MinConnections
        BY SizesAssumption
      <4> QED
        BY <1>t, <2>1, <4>1 DEF WarmStart
    <3> QED
      BY <1>t, <1>f, <2>p, <2>1, <3>1, FreeMoveInv DEF WarmStart
  <2>2. CASE WarmReserve(w)
    BY <2>2, WarmReserveInv
  <2>3. CASE WarmEnd(w)
    BY <1>t, <1>f, <2>p, <2>3, FreeMoveInv DEF WarmEnd
  <2>4. CASE WarmDialFails(w)
    BY SMTT(30), <1>f, <2>p, <2>4, FreeSlotInv DEF WarmDialFails
  <2>5. CASE WarmDialed(w)
    BY <2>5, WarmDialedInv
  <2>6. CASE CloseSocket(w)
    BY <2>p, <2>6, CloseSocketInv
  <2> QED
    BY <1>2, <2>1, <2>2, <2>3, <2>4, <2>5, <2>6 DEF WarmerStep
<1>3. CASE HealthCheck
  BY <1>3, HealthCheckInv
<1>4. CASE CheckerDial
  <2>p. Checker \in Procs
    BY DEF Procs
  <2>1. CASE HealthDialFails
    BY SMTT(30), <1>f, <2>p, <2>1, FreeSlotInv DEF HealthDialFails
  <2>2. CASE HealthDialed
    BY <2>2, HealthDialedInv
  <2>3. CASE CloseSocket(Checker)
    BY SMTT(30), <2>p, <2>3, CloseSocketInv
  <2> QED
    BY <1>4, <2>1, <2>2, <2>3 DEF CheckerDial
<1>5. CASE Close
  BY <1>5, CloseInv
<1>6. ASSUME NEW c \in Conns, Expire(c)
      PROVE  PoolInv'
  <2>1. expired' \subseteq Conns
    BY <1>6 DEF Expire, PoolInv, TypeOK
  <2> QED
    BY <1>6, <2>1 DEF Expire, PoolInv, TypeOK, SlotAccounting, UseBound, At, ClosingMeansClosed,
                      HoldsConn, Exclusive, Elems, ClosedIsEmpty
<1>7. CASE UNCHANGED vars
  BY <1>7 DEF vars, PoolInv, TypeOK, SlotAccounting, UseBound, At, ClosingMeansClosed,
              HoldsConn, Exclusive, Elems, ClosedIsEmpty
<1> QED
  BY <1>1, <1>2, <1>3, <1>4, <1>5, <1>6, <1>7 DEF Next

\* SocketStates is a part of UseStates, so UseBound bounds the sockets.
LEMMA InvSocketBound == PoolInv => SocketBound
<1> SUFFICES ASSUME PoolInv PROVE SocketBound
  OBVIOUS
<1>1. At(SocketStates) \subseteq At(UseStates) /\ IsFiniteSet(At(UseStates))
  BY ProcsFinite, FS_Subset DEF At, UseStates
<1>2. /\ Cardinality(At(SocketStates)) <= Cardinality(At(UseStates))
      /\ Cardinality(At(SocketStates)) \in Nat /\ Cardinality(At(UseStates)) \in Nat
  BY <1>1, FS_Subset, FS_CardinalityType
<1>3. Len(idle) \in Nat /\ Len(idle) + Cardinality(At(UseStates)) <= MaxConnections
  BY DEF PoolInv, TypeOK, UseBound
<1> QED
  BY <1>2, <1>3, SizesAssumption DEF SocketBound

-----------------------------------------------------------------------------
\* PoolInv holds in every reachable state of the pool.
THEOREM Invariance == Spec => []PoolInv
<1>1. Init => PoolInv
  BY InitInv
<1>2. PoolInv /\ [Next]_vars => PoolInv'
  BY NextInv
<1> QED
  BY <1>1, <1>2, PTL DEF Spec

\* The state of the pool is always well-formed; in particular numOpen never goes
\* below zero and waitCh never exceeds its capacity.
THEOREM TypeCorrect == Spec => []TypeOK
<1>1. PoolInv => TypeOK
  BY DEF PoolInv
<1> QED
  BY <1>1, Invariance, PTL

\* numOpen is exact at all times, for every interleaving of Acquire, Release,
\* Discard, Warm, healthCheck and Close.
THEOREM SlotsCounted == Spec => []SlotAccounting
<1>1. PoolInv => SlotAccounting
  BY DEF PoolInv
<1> QED
  BY <1>1, Invariance, PTL

\* The pool never has more than MaxConnections sockets.
THEOREM SocketsBounded == Spec => []SocketBound
  BY InvSocketBound, Invariance, PTL

\* No connection is in two hands, nor both in the pool and in a hand.
THEOREM ConnsExclusive == Spec => []Exclusive
<1>1. PoolInv => Exclusive
  BY DEF PoolInv
<1> QED
  BY <1>1, Invariance, PTL

\* A closed pool keeps no idle connection.
THEOREM ClosedPoolEmpty == Spec => []ClosedIsEmpty
<1>1. PoolInv => ClosedIsEmpty
  BY DEF PoolInv
<1> QED
  BY <1>1, Invariance, PTL

-----------------------------------------------------------------------------
\* Which actions hand a connection to a borrower: only Acquire's, in an open pool,
\* and only to a goroutine that had none.
LEMMA HandOut ==
  ASSUME PoolInv, Next, NEW p \in Procs, pc'[p] = "held", pc[p] # "held"
  PROVE  /\ p \in Borrowers /\ ~closed
         /\ AcquireIdle(p) \/ AcquireDialed(p)
<1>0. pc \in [Procs -> States]
  BY SMTT(30) DEF PoolInv, TypeOK
<1>1. ASSUME NEW b \in Borrowers, Acquire(b) \/ Release(b) \/ Discard(b) \/ BorrowerStep(b)
      PROVE  b = p /\ ~closed /\ (AcquireIdle(p) \/ AcquireDialed(p))
  <2>1. CASE AcquireIdle(b) \/ AcquireDialed(b)
    BY SMTT(30), <1>0, <2>1 DEF AcquireIdle, AcquireDialed, Goto
  <2>2. CASE ~(AcquireIdle(b) \/ AcquireDialed(b))
    BY SMTT(30), <1>0, <1>1, <2>2 DEF Acquire, AcquireClosed, AcquireNone, Release, Discard, BorrowerStep,
          AcquireDialFails, CloseSocket, Wake, GiveUp, DiscardCount, DiscardSignal, Goto
  <2> QED
    BY SMTT(30), <2>1, <2>2
<1>2. ASSUME NEW w \in Warmers, WarmStart(w) \/ WarmerStep(w)
      PROVE  FALSE
  BY <1>0, <1>2 DEF WarmStart, WarmerStep, WarmReserve, WarmEnd, WarmDialFails, WarmDialed,
                    CloseSocket, Goto
<1>3. CASE HealthCheck
  BY <1>0, <1>3 DEF HealthCheck, Replenish, Goto
<1>4. CASE CheckerDial
  BY <1>0, <1>4 DEF CheckerDial, HealthDialFails, HealthDialed, CloseSocket, Replenish, Goto
<1>5. CASE Close
  BY <1>5 DEF Close
<1>6. ASSUME NEW c \in Conns, Expire(c)
      PROVE  FALSE
  BY <1>6 DEF Expire
<1> QED
  BY SMTT(30), <1>1, <1>2, <1>3, <1>4, <1>5, <1>6 DEF Next

\* No step of a closed pool hands out a connection, whenever Close ran during the
\* dial of Acquire.
THEOREM NothingEscapes == Spec => NoEscape
<1>1. PoolInv /\ [Next]_vars =>
        [closed => \A p \in Procs : pc'[p] = "held" => pc[p] = "held"]_vars
  BY HandOut DEF vars
<1> QED
  BY <1>1, Invariance, PTL DEF Spec, NoEscape

\* The refinement mapping of Pool!Lease.
Leased == [b \in Borrowers |-> IF pc[b] = "held" THEN conn[b] ELSE NoConn]

\* A goroutine without a lease moves without getting one: the leases are the same.
LEMMA NoLeaseMoves ==
  ASSUME PoolInv, NEW p \in Procs, NEW s \in States \ {"held"}, Goto(p, s),
         p \in Borrowers => pc[p] # "held",
         \A q \in Procs : q # p => conn'[q] = conn[q]
  PROVE  Leased' = Leased
<1>1. \A b \in Borrowers : b \in Procs
  BY DEF Procs
<1>2. \A b \in Borrowers : (pc'[b] = "held" <=> pc[b] = "held") /\ (pc[b] = "held" => conn'[b] = conn[b])
  BY <1>1 DEF Goto, PoolInv, TypeOK
<1> QED
  BY <1>2 DEF Leased

\* Every step of the pool is a Grant, a GiveBack, a Shut or invisible.
LEMMA LeaseStep ==
  ASSUME PoolInv, Next
  PROVE  Lease!Next \/ UNCHANGED <<Leased, closed>>
<1>0. /\ pc \in [Procs -> States] /\ conn \in [Procs -> Conns \cup {NoConn}]
      /\ \A b \in Borrowers : b \in Procs
  BY DEF PoolInv, TypeOK, Procs
<1>s. {"out", "woken", "waiting", "dialing", "closing", "discarding", "signalling", "warming"}
        = States \ {"held"}
  BY DEF States
<1>1. ASSUME NEW p \in Borrowers, AcquireIdle(p) \/ AcquireDialed(p), ~closed
      PROVE  \E c \in Conns : Lease!Grant(p, c)
  <2>1. PICK c \in Conns : /\ conn' = [conn EXCEPT ![p] = c] /\ \A q \in Procs : conn[q] # c
    <3>1. CASE AcquireIdle(p)
      <4>1. PICK k \in 1 .. Len(idle) : conn' = [conn EXCEPT ![p] = idle[k]]
        BY Zenon, <3>1 DEF AcquireIdle
      <4>2. idle[k] \in Conns /\ \A q \in Procs : conn[q] # idle[k]
        BY <4>1 DEF PoolInv, TypeOK, Exclusive, Elems
      <4> QED
        BY Zenon, <4>1, <4>2
    <3>2. CASE AcquireDialed(p)
      BY Zenon, <3>2 DEF AcquireDialed, Fresh
    <3> QED
      BY <1>1, <3>1, <3>2
  <2>2. /\ pc' = [pc EXCEPT ![p] = "held"] /\ pc[p] # "held" /\ closed' = closed
    BY <1>1 DEF AcquireIdle, AcquireDialed, AtLoopHead, Goto
  <2>3. Leased' = [Leased EXCEPT ![p] = c]
    BY Zenon, <1>0, <2>1, <2>2 DEF Leased
  <2>4. Leased[p] = NoConn /\ \A q \in Borrowers : Leased[q] # c
    BY <1>0, <2>1, <2>2, ProcsAssumption DEF Leased
  <2> QED
    BY Zenon, <1>1, <2>2, <2>3, <2>4 DEF Lease!Grant, Leased
<1>2. ASSUME NEW p \in Borrowers, Release(p) \/ Discard(p)
      PROVE  Lease!GiveBack(p)
  <2>1. /\ pc[p] = "held" /\ conn' = [conn EXCEPT ![p] = NoConn] /\ closed' = closed
        /\ Goto(p, "out") \/ Goto(p, "discarding")
    BY <1>2 DEF Release, Discard
  <2>2. Leased' = [Leased EXCEPT ![p] = NoConn]
    BY Zenon, <1>0, <2>1 DEF Leased, Goto
  <2>3. Leased[p] # NoConn
    BY <1>0, <2>1 DEF Leased, PoolInv, HoldsConn
  <2> QED
    BY <2>1, <2>2, <2>3 DEF Lease!GiveBack, Leased
<1>3. CASE Close
  <2>1. ~closed /\ closed' = TRUE /\ Leased' = Leased
    BY <1>3 DEF Close, Leased
  <2> QED
    BY ZenonT(40), <2>1 DEF Lease!Next, Lease!Shut, Leased
<1>4. ASSUME NEW p \in Borrowers, Acquire(p) \/ BorrowerStep(p), ~(AcquireIdle(p) \/ (AcquireDialed(p) /\ ~closed))
      PROVE  UNCHANGED <<Leased, closed>>
  <2>1. /\ closed' = closed /\ pc[p] # "held" /\ \A q \in Procs : q # p => conn'[q] = conn[q]
        /\ \E s \in {"out", "woken", "waiting", "dialing", "closing", "discarding", "signalling", "warming"} : Goto(p, s)
    BY SMTT(30), <1>0, <1>4 DEF Acquire, BorrowerStep, AcquireClosed, AcquireNone, AtLoopHead, AcquireDialFails,
           AcquireDialed, CloseSocket, Wake, GiveUp, DiscardCount, DiscardSignal
  <2> QED
    BY <1>0, <1>s, <2>1, NoLeaseMoves
<1>5. ASSUME NEW w \in Warmers, WarmStart(w) \/ WarmerStep(w)
      PROVE  UNCHANGED <<Leased, closed>>
  <2>1. /\ closed' = closed /\ w \in Procs /\ w \notin Borrowers
        /\ \A q \in Procs : q # w => conn'[q] = conn[q]
        /\ \E s \in {"out", "woken", "waiting", "dialing", "closing", "discarding", "signalling", "warming"} : Goto(w, s)
    BY SMTT(30), <1>0, <1>5, ProcsAssumption DEF Procs, WarmStart, WarmerStep, WarmReserve, WarmEnd, WarmDialFails,
           WarmDialed, CloseSocket
  <2> QED
    BY SMTT(30), <1>s, <2>1, NoLeaseMoves
<1>6. CASE HealthCheck \/ CheckerDial
  <2>1. /\ closed' = closed /\ Checker \in Procs /\ Checker \notin Borrowers
        /\ \A q \in Procs : q # Checker => conn'[q] = conn[q]
        /\ \E s \in {"out", "woken", "waiting", "dialing", "closing", "discarding", "signalling", "warming"} : Goto(Checker, s)
    BY SMTT(30), <1>0, <1>6, ProcsAssumption DEF Procs, HealthCheck, CheckerDial, HealthDialFails, HealthDialed,
           CloseSocket, Replenish
  <2> QED
    BY SMTT(30), <1>s, <2>1, NoLeaseMoves
<1>7. ASSUME NEW c \in Conns, Expire(c)
      PROVE  UNCHANGED <<Leased, closed>>
  BY SMTT(30), <1>7 DEF Expire, Leased
<1>8. ASSUME NEW p \in Borrowers, AcquireIdle(p)
      PROVE  ~closed
  BY <1>8 DEF AcquireIdle
<1> QED
  BY SMTT(30), <1>1, <1>2, <1>3, <1>4, <1>5, <1>6, <1>7, <1>8 DEF Next, Lease!Next

\* The pool implements ConnLease, the specification its callers rely on.
THEOREM LeaseRefined == Spec => LeaseSpec
<1>1. Init => Lease!Init
  BY DEF Init, Lease!Init, Procs
<1>2. PoolInv /\ [Next]_vars => [Lease!Next]_(Lease!leaseVars)
  <2> SUFFICES ASSUME PoolInv, [Next]_vars PROVE [Lease!Next]_(Lease!leaseVars)
    OBVIOUS
  <2>1. CASE Next
    BY SMTT(30), <2>1, LeaseStep DEF Leased, Lease!leaseVars
  <2>2. CASE UNCHANGED vars
    BY <2>2 DEF vars, Lease!leaseVars
  <2> QED
    BY <2>1, <2>2
<1> QED
  BY <1>1, <1>2, Invariance, PTL DEF Spec, LeaseSpec, Lease!Spec
-----------------------------------------------------------------------------
(* NoLostWakeup: a pool whose dials succeed and that keeps no minimum. *)

\* Neither Warm nor the health checker dials.
BackgroundQuiet == \A p \in Warmers \cup {Checker} : pc[p] = "out"

WakeInv == PoolInv /\ BackgroundQuiet /\ NoLostWakeup

\* What a blocked borrower could have, and the goroutines that have taken a token
\* or are about to send one; TokenOf(x) is what one in state x counts for.
FreeNow == Len(idle) + (MaxConnections - numOpen)
TokenStates == {"woken", "signalling"}
TokenOf(x) == IF x \in TokenStates THEN 1 ELSE 0

\* The ledger of a step in which goroutine p moves to s: a step that does not
\* block p keeps every wakeup when it announces what it frees; and so does one
\* that leaves no more to have than there are tokens in waitCh.
LEMMA WakeLedger ==
  ASSUME PoolInv, PoolInv', NoLostWakeup, NEW p \in Procs, NEW s \in States, Goto(p, s),
         closed' = closed,
         \/ /\ s # "waiting"
            /\ FreeNow' + TokenOf(pc[p]) + waitCh <= FreeNow + TokenOf(s) + waitCh'
         \/ FreeNow' <= waitCh'
  PROVE  NoLostWakeup'
<1> SUFFICES ASSUME ~closed, NEW q \in Borrowers, pc'[q] = "waiting"
             PROVE  FreeNow' <= waitCh' + Cardinality(At(TokenStates)')
  BY DEF NoLostWakeup, FreeNow, TokenStates, At
<1> DEFINE T == Cardinality(At(TokenStates))
           Tn == Cardinality(At(TokenStates)')
           x == TokenOf(s)
           y == TokenOf(pc[p])
           F == FreeNow
           Fn == FreeNow'
           w == waitCh
           wn == waitCh'
<1>1. /\ pc \in [Procs -> States] /\ q \in Procs
      /\ F \in Int /\ Fn \in Int /\ w \in Int /\ wn \in Int
  BY SizesAssumption DEF PoolInv, TypeOK, FreeNow, Procs
<1>2. T \in Nat /\ Tn \in Nat /\ x \in Int /\ y \in Int /\ Tn + y = T + x
  <2>1. /\ T \in Nat /\ Tn \in Nat
        /\ (pc[p] \in TokenStates <=> s \in TokenStates) => Tn = T
        /\ pc[p] \notin TokenStates /\ s \in TokenStates => Tn = T + 1
        /\ pc[p] \in TokenStates /\ s \notin TokenStates => Tn = T - 1
    BY Zenon, <1>1, CountStep
  <2> QED
    BY <2>1 DEF TokenOf
<1>3. CASE Fn <= wn
  <2> HIDE DEF T, Tn, Fn, wn
  <2>1. Fn <= wn + Tn
    BY <1>1, <1>2, <1>3
  <2> QED
    BY <2>1 DEF Tn, Fn, wn
<1>4. CASE s # "waiting" /\ Fn + y + w <= F + x + wn
  <2>1. pc[q] = "waiting"
    BY <1>1, <1>4 DEF Goto
  <2>2. F <= w + T
    BY <2>1 DEF NoLostWakeup, FreeNow, TokenStates
  <2>3. Fn + y + w <= F + x + wn
    BY <1>4
  <2> HIDE DEF T, Tn, x, y, F, Fn, w, wn
  <2>4. Fn <= wn + Tn
    BY <1>1, <1>2, <2>2, <2>3
  <2> QED
    BY <2>4 DEF Tn, Fn, wn
<1> QED
  BY <1>3, <1>4

\* An open pool has no more to hand out than its size, and a full waitCh has a
\* token for each.
LEMMA FreeBound == PoolInv /\ ~closed => FreeNow \in Nat /\ FreeNow <= MaxConnections
<1> SUFFICES ASSUME PoolInv, ~closed PROVE FreeNow \in Nat /\ FreeNow <= MaxConnections
  OBVIOUS
<1>1. /\ Cardinality(At(UseStates)) \in Nat /\ Len(idle) \in Nat /\ numOpen \in Nat
      /\ numOpen = Len(idle) + Cardinality(At(UseStates)) /\ numOpen <= MaxConnections
  <2>1. IsFiniteSet(At(UseStates))
    BY ProcsFinite, FS_Subset DEF At
  <2> QED
    BY <2>1, OpenCounts, FS_CardinalityType DEF PoolInv, TypeOK
<1> QED
  BY <1>1, SizesAssumption DEF FreeNow

\* A borrower's step loses no wakeup when no dial fails.
LEMMA BorrowerWakeups ==
  ASSUME ~DialsMayFail, PoolInv, PoolInv', NoLostWakeup, NEW p \in Borrowers,
         Acquire(p) \/ Release(p) \/ Discard(p) \/ BorrowerStep(p)
  PROVE  NoLostWakeup'
<1>p. p \in Procs /\ {"out", "woken", "waiting", "held", "dialing", "discarding", "signalling"} \subseteq States
  BY DEF Procs, States
<1>t. /\ TokenOf("woken") = 1 /\ TokenOf("signalling") = 1
      /\ \A x \in {"out", "waiting", "held", "dialing", "discarding"} : TokenOf(x) = 0
      /\ TokenOf(pc[p]) \in {0, 1}
  BY DEF TokenOf, TokenStates
<1>i. /\ waitCh \in 0 .. MaxConnections /\ numOpen \in Nat /\ Len(idle) \in Nat
      /\ MaxConnections \in Nat /\ idle \in Seq(Conns)
  BY SizesAssumption DEF PoolInv, TypeOK
<1>a. CASE closed'
  BY <1>a DEF NoLostWakeup
<1>b. CASE ~closed'
  <2>o. ~closed /\ closed' = closed
    <3>1. CASE Acquire(p)
      BY <1>b, <3>1 DEF Acquire, AcquireClosed, AcquireIdle, AcquireNone
    <3>2. CASE Release(p) \/ Discard(p)
      BY <1>b, <3>2 DEF Release, Discard
    <3>3. CASE BorrowerStep(p)
      BY <1>b, <3>3 DEF BorrowerStep, AcquireDialFails, AcquireDialed, CloseSocket, Wake, GiveUp,
                        DiscardCount, DiscardSignal
    <3> QED
      BY <3>1, <3>2, <3>3
  <2>f. FreeNow \in Nat /\ FreeNow' \in Nat /\ FreeNow' <= MaxConnections
    <3>1. (PoolInv /\ ~closed => FreeNow \in Nat /\ FreeNow <= MaxConnections)'
      BY FreeBound, PTL
    <3> QED
      BY <1>b, <2>o, <3>1, FreeBound
  <2>1. CASE AcquireIdle(p)
    <3>1. PICK k \in 1 .. Len(idle) : /\ idle' = SubSeq(idle, 1, k - 1)
                                      /\ numOpen' = numOpen - (Len(idle) - k)
      BY Zenon, <2>1 DEF AcquireIdle
    <3>2. Len(idle') = k - 1
      BY <1>i, <3>1
    <3>3. Goto(p, "held") /\ waitCh' = waitCh
      BY <2>1, Zenon DEF AcquireIdle
    <3>4. k \in Int /\ numOpen' = numOpen - (Len(idle) - k)
      BY <3>1
    <3>5. FreeNow' = FreeNow - 1
      BY <1>i, <3>2, <3>4 DEF FreeNow
    <3>6. FreeNow' + TokenOf(pc[p]) + waitCh <= FreeNow + TokenOf("held") + waitCh'
      BY <1>i, <1>t, <2>f, <3>3, <3>5
    <3> QED
      BY <1>p, <2>o, <3>3, <3>6, WakeLedger, Zenon
  <2>2. CASE AcquireNone(p)
    <3>1. idle' = <<>> /\ Len(idle') = 0 /\ waitCh' = waitCh
      BY <2>2 DEF AcquireNone
    <3>2. CASE numOpen - Len(idle) < MaxConnections
      <4>1. FreeNow' = FreeNow - 1 /\ Goto(p, "dialing")
        BY <1>i, <2>2, <3>1, <3>2 DEF FreeNow, AcquireNone
      <4>2. FreeNow' + TokenOf(pc[p]) + waitCh <= FreeNow + TokenOf("dialing") + waitCh'
        BY <1>i, <1>t, <2>f, <3>1, <4>1
      <4> QED
        BY <1>p, <2>o, <4>1, <4>2, WakeLedger
    <3>3. CASE ~(numOpen - Len(idle) < MaxConnections)
      <4>1. FreeNow' <= waitCh' /\ Goto(p, "waiting")
        BY <1>i, <2>2, <3>1, <3>3 DEF FreeNow, AcquireNone
      <4> QED
        BY <1>p, <2>o, <4>1, WakeLedger
    <3> QED
      BY <3>2, <3>3
  <2>3. CASE Release(p)
    <3>1. Len(idle') = Len(idle) + 1 /\ numOpen' = numOpen /\ Signal /\ Goto(p, "out") /\ pc[p] = "held"
      BY <1>i, <2>o, <2>3 DEF Release
    <3>2. FreeNow' = FreeNow + 1
      BY <1>i, <3>1 DEF FreeNow
    <3>3. \/ FreeNow' + TokenOf(pc[p]) + waitCh <= FreeNow + TokenOf("out") + waitCh'
          \/ FreeNow' <= waitCh'
      BY <1>i, <1>t, <2>f, <3>1, <3>2 DEF Signal
    <3> QED
      BY <1>p, <2>o, <3>1, <3>3, WakeLedger
  <2>4. CASE DiscardCount(p)
    <3>1. /\ Goto(p, "signalling") /\ pc[p] = "discarding" /\ waitCh' = waitCh /\ idle' = idle
          /\ numOpen' = numOpen - 1
      BY <1>p, <2>4, SlotPositive DEF DiscardCount, SlotStates
    <3>2. FreeNow' = FreeNow + 1
      BY <1>i, <3>1 DEF FreeNow
    <3>3. FreeNow' + TokenOf(pc[p]) + waitCh <= FreeNow + TokenOf("signalling") + waitCh'
      BY <1>i, <1>t, <2>f, <3>1, <3>2
    <3> QED
      BY <1>p, <2>o, <3>1, <3>3, WakeLedger
  <2>5. CASE DiscardSignal(p)
    <3>1. FreeNow' = FreeNow /\ Signal /\ Goto(p, "out") /\ pc[p] = "signalling"
      BY <2>5 DEF DiscardSignal, FreeNow
    <3>2. \/ FreeNow' + TokenOf(pc[p]) + waitCh <= FreeNow + TokenOf("out") + waitCh'
          \/ FreeNow' <= waitCh'
      BY <1>i, <1>t, <2>f, <3>1 DEF Signal
    <3> QED
      BY <1>p, <2>o, <3>1, <3>2, WakeLedger
  <2>6. CASE Wake(p)
    <3>1. /\ FreeNow' = FreeNow /\ waitCh' = waitCh - 1 /\ Goto(p, "woken") /\ pc[p] = "waiting"
      BY <2>6 DEF Wake, FreeNow
    <3>2. FreeNow' + TokenOf(pc[p]) + waitCh <= FreeNow + TokenOf("woken") + waitCh'
      BY <1>i, <1>t, <2>f, <3>1
    <3> QED
      BY <1>p, <2>o, <3>1, <3>2, WakeLedger
  <2>7. CASE GiveUp(p) \/ Discard(p) \/ AcquireDialed(p)
    <3>1. /\ FreeNow' = FreeNow /\ waitCh' = waitCh /\ pc[p] \in {"waiting", "held", "dialing"}
          /\ Goto(p, "out") \/ Goto(p, "held") \/ Goto(p, "discarding")
      BY <2>7, <2>o DEF GiveUp, Discard, AcquireDialed, FreeNow
    <3>2. \A s \in {"out", "held", "discarding"} :
            FreeNow' + TokenOf(pc[p]) + waitCh <= FreeNow + TokenOf(s) + waitCh'
      BY <1>i, <1>t, <2>f, <3>1
    <3> QED
      BY <1>p, <2>o, <3>1, <3>2, WakeLedger
  <2>8. ~ CloseSocket(p) /\ ~ AcquireClosed(p) /\ ~ AcquireDialFails(p)
    BY <1>p, <2>o DEF CloseSocket, AcquireClosed, AcquireDialFails, PoolInv, ClosingMeansClosed
  <2> QED
    BY <2>1, <2>2, <2>3, <2>4, <2>5, <2>6, <2>7, <2>8 DEF Acquire, BorrowerStep
<1> QED
  BY <1>a, <1>b

\* WakeInv is inductive when the pool has no minimum and no dial fails.
LEMMA NextWakeups ==
  ASSUME MinConnections = 0, ~DialsMayFail, WakeInv, [Next]_vars
  PROVE  WakeInv'
<1>1. PoolInv /\ PoolInv' /\ BackgroundQuiet /\ NoLostWakeup
  BY NextInv DEF WakeInv
<1>2. /\ pc \in [Procs -> States] /\ numOpen \in Nat /\ Len(idle) \in Nat /\ Checker \in Procs
      /\ "out" \in States
  BY <1>1 DEF PoolInv, TypeOK, Procs, States
<1>3. ASSUME NEW p \in Borrowers, Acquire(p) \/ Release(p) \/ Discard(p) \/ BorrowerStep(p)
      PROVE  BackgroundQuiet' /\ NoLostWakeup'
  <2>1. NoLostWakeup'
    BY <1>1, <1>3, BorrowerWakeups
  <2>2. \E s \in States : Goto(p, s)
    <3>1. CASE Acquire(p)
      BY <3>1 DEF Acquire, AcquireClosed, AcquireIdle, AcquireNone, States
    <3>2. CASE Release(p) \/ Discard(p)
      BY <3>2 DEF Release, Discard, States
    <3>3. CASE BorrowerStep(p)
      BY <3>3 DEF BorrowerStep, AcquireDialFails, AcquireDialed, CloseSocket, Wake, GiveUp,
                  DiscardCount, DiscardSignal, States
    <3> QED
      BY <1>3, <3>1, <3>2, <3>3
  <2> QED
    BY <1>1, <1>2, <2>1, <2>2, ProcsAssumption DEF BackgroundQuiet, Goto, Procs
<1>4. CASE HealthCheck
  <2>1. PICK n \in 0 .. Len(idle) : \E pos \in [1 .. n -> 1 .. Len(idle)] :
          /\ idle' = [i \in 1 .. n |-> idle[pos[i]]]
          /\ Replenish(numOpen - (Len(idle) - n))
    BY <1>4 DEF HealthCheck
  <2>2. Len(idle') = n /\ Replenish(numOpen - (Len(idle) - n))
    BY <1>2, <2>1
  <2>3. /\ ~closed /\ closed' = closed /\ waitCh' = waitCh /\ pc[Checker] = "out"
    BY <1>4 DEF HealthCheck
  <2>4. numOpen >= Len(idle)
    <3>1. IsFiniteSet(At(UseStates))
      BY ProcsFinite, FS_Subset DEF At
    <3>2. Cardinality(At(UseStates)) \in Nat /\ numOpen = Len(idle) + Cardinality(At(UseStates))
      BY <1>1, <2>3, <3>1, OpenCounts, FS_CardinalityType
    <3> QED
      BY <1>2, <3>2
  <2>5. numOpen' = numOpen - (Len(idle) - n) /\ Goto(Checker, "out")
    BY <1>2, <2>2, <2>4 DEF Replenish
  <2>6. FreeNow' = FreeNow /\ FreeNow \in Int /\ waitCh \in Int
    BY <1>1, <1>2, <2>1, <2>2, <2>5, SizesAssumption DEF FreeNow, PoolInv, TypeOK
  <2>7. FreeNow' + TokenOf(pc[Checker]) + waitCh <= FreeNow + TokenOf("out") + waitCh'
    BY <2>3, <2>6 DEF TokenOf, TokenStates
  <2>8. NoLostWakeup'
    BY <1>1, <1>2, <2>3, <2>5, <2>7, WakeLedger
  <2>9. pc' = pc
    BY <1>2, <2>3, <2>5 DEF Goto
  <2> QED
    BY <1>1, <2>8, <2>9 DEF BackgroundQuiet, WakeInv
<1>5. ASSUME NEW w \in Warmers, WarmStart(w) \/ WarmerStep(w) PROVE FALSE
  BY <1>1, <1>5 DEF BackgroundQuiet, WarmStart, WarmerStep, WarmReserve, WarmEnd, WarmDialFails,
                    WarmDialed, CloseSocket
<1>6. ASSUME CheckerDial PROVE FALSE
  BY <1>1, <1>6 DEF BackgroundQuiet, CheckerDial, HealthDialFails, HealthDialed, CloseSocket
<1>7. CASE Close
  BY <1>1, <1>7 DEF Close, BackgroundQuiet, NoLostWakeup, WakeInv
<1>8. CASE (\E c \in Conns : Expire(c)) \/ UNCHANGED vars
  <2>1. UNCHANGED <<idle, numOpen, closed, waitCh, pc>>
    BY <1>8 DEF Expire, vars
  <2> QED
    BY <1>1, <2>1 DEF BackgroundQuiet, NoLostWakeup, At, WakeInv
<1> QED
  BY <1>1, <1>3, <1>4, <1>5, <1>6, <1>7, <1>8 DEF Next, WakeInv

\* No wakeup is lost: in a pool of any size, with any number of callers, whose dials
\* succeed and that keeps no minimum of connections, a caller blocked in Acquire
\* never waits beside a free connection or slot that no token announces.
THEOREM WakeupsKept ==
  ASSUME MinConnections = 0, ~DialsMayFail
  PROVE  Spec => []NoLostWakeup
<1>1. Init => WakeInv
  <2>1. Init => \A p \in Procs : pc[p] = "out"
    BY DEF Init
  <2> QED
    BY <2>1, InitInv DEF WakeInv, BackgroundQuiet, NoLostWakeup, Procs
<1>2. WakeInv /\ [Next]_vars => WakeInv'
  BY NextWakeups
<1>3. WakeInv => NoLostWakeup
  BY DEF WakeInv
<1> QED
  BY <1>1, <1>2, <1>3, PTL DEF Spec
=============================================================================
