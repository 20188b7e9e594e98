--------------------------- MODULE ExtendedProofs ---------------------------
(***************************************************************************)
(* Proofs about Extended for any number of sessions and connections, any   *)
(* queries and batches, both modes, any pool size and number of reloads.   *)
(***************************************************************************)
EXTENDS ExtendedLemmas

-----------------------------------------------------------------------------
(* Writes and batches *)

\* The connection on which a query or batch runs on the writer, and the pool noted for it.
WriteConn(s, p) ==
    /\ job[s].conn \in InHands[s] /\ job[s].conn \in Conns /\ job[s].conn # ext[s].reader
    /\ p \in Pools
    /\ p = IF job[s].acquired THEN job[s].pool ELSE boundPool[s]
    /\ job[s].acquired => bound[s] = NoConn /\ boundPool[s] = NoPool
    /\ ~job[s].acquired => bound[s] = job[s].conn
    /\ ProxyOnly /\ p \notin closed => home[job[s].conn] = p

\* There is one, the bound one or the one acquired.
LEMMA WriteConnection ==
    ASSUME ExtInv, NEW s \in Sessions, pc[s] = "run", job[s].route = "writer"
    PROVE  WriteConn(s, IF job[s].acquired THEN job[s].pool ELSE boundPool[s])
<1>1. Own(s)
  BY OwnPart
<1>2. /\ HandsOf("run", bound[s], boundPool[s], job[s], ext[s], batch[s])
      /\ NotesOf(home, "run", bound[s], boundPool[s], job[s], ext[s], batch[s])
      /\ boundPool[s] \in Pools \cup {NoPool}
  BY <1>1 DEF Own, LocalTypes
<1>3. job[s].conn \in Conns /\ job[s].pool \in Pools /\ job[s].conn # ext[s].reader
  BY <1>2, Zenon DEF HandsOf
<1>4. /\ job[s].acquired => bound[s] = NoConn /\ boundPool[s] = NoPool
      /\ ~job[s].acquired => bound[s] = job[s].conn /\ boundPool[s] \in Pools
  BY <1>2, <1>3, RelayAssumption, Zenon DEF HandsOf
<1>5. job[s].conn \in InHands[s]
  BY <1>3, RelayAssumption DEF InHands
<1>6. /\ ProxyOnly /\ job[s].acquired /\ job[s].pool \notin closed => home[job[s].conn] = job[s].pool
      /\ ProxyOnly /\ ~job[s].acquired /\ boundPool[s] \notin closed => home[job[s].conn] = boundPool[s]
  BY <1>2, <1>3, <1>4, RelayAssumption, Zenon DEF NotesOf
<1> QED
  BY <1>3, <1>4, <1>5, <1>6, Zenon DEF WriteConn

\* A write fails, or a batch on a bound reader.
LEMMA FailsInv ==
    ASSUME ExtInv, NEW s \in Sessions,
           \/ ServeWriteFails(s) /\ Leaves(s)
           \/ ServeBoundReaderFails(s)
    PROVE  ExtInv'
<1>1. Own(s)
  BY OwnPart
<1>2. Ends(s) /\ UNCHANGED <<writerPool, closed>> /\ pc[s] = "run"
  BY Zenon DEF ServeWriteFails, ServeBoundReaderFails
<1>3. Fresh \in BackendStates
  BY StatementsTyped DEF Fresh, BackendStates
<1>4. CASE ServeWriteFails(s) /\ Leaves(s)
  <2>1. PICK e : /\ InOrder(s, home, "gone", NewSession, NoConn, NoPool, FALSE, NoJob, e, NoBatch)
                 /\ {NoConn, NoJob.conn, e.reader} \ {NoConn} = {ext[s].reader} \ {NoConn}
    BY <1>2, <1>4, LeavesInOrder, Zenon
  <2>2. PICK p : p = IF job[s].acquired THEN job[s].pool ELSE boundPool[s]
    OBVIOUS
  <2>3. Discards(p, job[s].conn) /\ WriteConn(s, p)
    BY <1>4, <2>2, WriteConnection DEF ServeWriteFails
  <2>4. /\ p \in Pools /\ job[s].conn \in InHands[s]
        /\ ProxyOnly /\ p \notin closed => home[job[s].conn] = p
        /\ {NoConn, NoJob.conn, e.reader} \ {NoConn} \subseteq InHands[s] \ {job[s].conn}
    BY <2>1, <2>3, Zenon DEF WriteConn, InHands
  <2> QED
    BY <1>2, <1>3, <2>1, <2>3, <2>4, HandBack, Zenon
<1>5. CASE ServeBoundReaderFails(s)
  <2>1. /\ Discards(job[s].pool, job[s].conn) /\ batch[s].kind \in {"parse", "reuse"}
        /\ ext' = [ext EXCEPT ![s] = NewExt] /\ batch' = [batch EXCEPT ![s] = NoBatch]
    BY <1>5, Zenon DEF ServeBoundReaderFails
  <2>2. InOrder(s, home, "gone", NewSession, NoConn, NoPool, FALSE, NoJob, NewExt, NoBatch)
    BY <1>2, <2>1, ExtBlanks, EndsInOrder, Zenon
  <2>3. {NoConn, NoJob.conn, NewExt.reader} \ {NoConn} \subseteq InHands[s] \ {job[s].conn}
    BY Blanks, ExtBlanks
  <2>4. job[s].conn \in Conns /\ job[s].pool \in Pools /\ job[s].conn \in InHands[s]
    BY <1>1, <1>2, RelayAssumption DEF Own, HandsOf, InHands
  <2>5. ProxyOnly /\ job[s].pool \notin closed => home[job[s].conn] = job[s].pool
    BY <1>1, <1>2, <2>1, <2>4, RelayAssumption, Zenon DEF Own, HandsOf, NotesOf
  <2> QED
    BY <1>2, <1>3, <2>1, <2>2, <2>3, <2>4, <2>5, HandBack, Zenon
<1> QED
  BY <1>4, <1>5

\* After a write on the connection of pool p, which PostgreSQL left in state b: the session
\* keeps it bound, leaves what was bound as it is, or gives it back.  Only in multiplex mode
\* may it note another pool.
KeepsBound(s, p, b) ==
    /\ UNCHANGED <<idle, numOpen, home>>
    /\ backend' = [backend EXCEPT ![job[s].conn] = b]
    /\ \E q \in Pools \cup {NoPool} :
          \/ Binds(s, job[s].conn, q) /\ q # NoPool /\ (ProxyOnly => q = p)
          \/ Binds(s, bound[s], q) /\ q = boundPool[s]

GivesUp(s, p, b) ==
    /\ Binds(s, NoConn, NoPool)
    /\ \E i : Resets(p, job[s].conn, b) \/ GivesBack(i, p, job[s].conn, b)

\* The session waits for the next message, its reader still bound.
Continues(s) ==
    /\ job' = [job EXCEPT ![s] = NoJob]
    /\ \E r \in SessionStates : sess' = [sess EXCEPT ![s] = r]
    /\ \E d \in BOOLEAN : dirty' = [dirty EXCEPT ![s] = d]
    /\ \E e \in ExtStates :
          /\ ext' = [ext EXCEPT ![s] = e]
          /\ e.mode = ext[s].mode /\ e.reader = ext[s].reader /\ e.readerPool = ext[s].readerPool
    /\ \E x \in BatchStates : batch' = [batch EXCEPT ![s] = x] /\ x.kind = "none"

\* A session that continues is in order with the connection and pool it is bound to.
LEMMA ContinuesInOrder ==
    ASSUME ExtInv, NEW s \in Sessions, Continues(s),
           NEW a \in Conns \cup {NoConn}, NEW q \in Pools \cup {NoPool}, Binds(s, a, q),
           a = NoConn <=> q = NoPool, a # NoConn => a # ext[s].reader,
           ProxyOnly /\ a # NoConn /\ q \notin closed => home[a] = q
    PROVE  \E r, d, e, x :
              /\ InOrder(s, home, "read", r, a, q, d, NoJob, e, x)
              /\ {a, NoJob.conn, e.reader} \ {NoConn} = {a, ext[s].reader} \ {NoConn}
<1>1. Own(s)
  BY OwnPart, Zenon
<1>2. PICK r \in SessionStates : sess' = [sess EXCEPT ![s] = r]
  BY Zenon DEF Continues
<1>3. PICK d \in BOOLEAN : dirty' = [dirty EXCEPT ![s] = d]
  BY Zenon DEF Continues
<1>4. PICK e \in ExtStates :
          /\ ext' = [ext EXCEPT ![s] = e]
          /\ e.mode = ext[s].mode /\ e.reader = ext[s].reader /\ e.readerPool = ext[s].readerPool
  BY Zenon DEF Continues
<1>5. PICK x \in BatchStates : batch' = [batch EXCEPT ![s] = x] /\ x.kind = "none"
  BY Zenon DEF Continues
<1>6. Sets(s, "read", r, a, q, d, NoJob, e, x)
  BY <1>2, <1>3, <1>4, <1>5, Zenon DEF Sets, Continues, Binds
<1>7. LocalTypes("read", r, a, q, d, NoJob, e, x)
  BY Blanks, Zenon DEF LocalTypes
<1>8. HandsOf("read", a, q, NoJob, e, x)
  BY <1>1, <1>4, <1>5, Blanks, Zenon DEF HandsOf, Own
<1>9. NotesOf(home, "read", a, q, NoJob, e, x)
  BY <1>1, <1>4, <1>5, Blanks, Zenon DEF NotesOf, Own
<1>10. InOrder(s, home, "read", r, a, q, d, NoJob, e, x)
  BY <1>6, <1>7, <1>8, <1>9, Zenon DEF InOrder
<1>11. {a, NoJob.conn, e.reader} \ {NoConn} = {a, ext[s].reader} \ {NoConn}
  BY <1>4, Blanks, Zenon
<1> QED
  BY <1>10, <1>11, Zenon

\* Every outcome of a write keeps ExtInv.
LEMMA WrittenInv ==
    ASSUME ExtInv, NEW s \in Sessions, pc[s] = "run", job[s].route = "writer",
           NEW b \in BackendStates, NEW p, p = IF job[s].acquired THEN job[s].pool ELSE boundPool[s],
           UNCHANGED <<writerPool, closed>>,
           \/ Continues(s) /\ (KeepsBound(s, p, b) \/ GivesUp(s, p, b))
           \/ Panics(s, job[s].conn, b) /\ Leaves(s)
    PROVE  ExtInv'
<1>1. Own(s)
  BY OwnPart, Zenon
<1>2. WriteConn(s, p)
  BY WriteConnection, Zenon
<1>3. /\ bound[s] \in Conns \cup {NoConn} /\ boundPool[s] \in Pools \cup {NoPool}
      /\ bound[s] = NoConn <=> boundPool[s] = NoPool
      /\ bound[s] # NoConn => bound[s] # ext[s].reader
      /\ ProxyOnly /\ bound[s] # NoConn /\ boundPool[s] \notin closed => home[bound[s]] = boundPool[s]
  BY <1>1, Zenon DEF Own, LocalTypes, HandsOf, NotesOf
<1>4. /\ backend' = [backend EXCEPT ![job[s].conn] = b] => backend' \in [Conns -> BackendStates]
      /\ UNCHANGED <<idle, numOpen, home>> => UNCHANGED <<writerPool, poolVars>>
  BY Zenon DEF ExtInv, PoolTypes, poolVars
<1>5. CASE Continues(s) /\ KeepsBound(s, p, b)
  <2>1. PICK a \in Conns \cup {NoConn}, q \in Pools \cup {NoPool} :
          /\ Binds(s, a, q) /\ {a} \ {NoConn} \subseteq InHands[s]
          /\ a = NoConn <=> q = NoPool
          /\ a # NoConn => a # ext[s].reader
          /\ ProxyOnly /\ a # NoConn /\ q \notin closed => home[a] = q
    <3>1. PICK q \in Pools \cup {NoPool} :
          \/ Binds(s, job[s].conn, q) /\ q # NoPool /\ (ProxyOnly => q = p)
          \/ Binds(s, bound[s], q) /\ q = boundPool[s]
      BY <1>5, Zenon DEF KeepsBound
    <3>2. CASE Binds(s, job[s].conn, q) /\ q # NoPool /\ (ProxyOnly => q = p)
      BY <1>2, <3>2, RelayAssumption, Zenon DEF WriteConn
    <3>3. CASE Binds(s, bound[s], q) /\ q = boundPool[s]
      <4>1. {bound[s]} \ {NoConn} \subseteq InHands[s]
        BY DEF InHands
      <4> QED
        BY <1>3, <3>3, <4>1, Zenon
    <3> QED
      BY <3>1, <3>2, <3>3, Zenon
  <2>2. PICK r, d, e, x :
          /\ InOrder(s, home, "read", r, a, q, d, NoJob, e, x)
          /\ {a, NoJob.conn, e.reader} \ {NoConn} = {a, ext[s].reader} \ {NoConn}
    BY <1>5, <2>1, ContinuesInOrder, Zenon
  <2>3. {a, NoJob.conn, e.reader} \ {NoConn} \subseteq InHands[s]
    BY <2>1, <2>2, Zenon DEF InHands
  <2>4. UNCHANGED <<writerPool, poolVars>> /\ backend' \in [Conns -> BackendStates]
    BY <1>4, <1>5, Zenon DEF KeepsBound
  <2> QED
    BY <2>2, <2>3, <2>4, QuietInv, Zenon
<1>6. CASE Continues(s) /\ GivesUp(s, p, b)
  <2>1. Binds(s, NoConn, NoPool)
    BY <1>6, Zenon DEF GivesUp
  <2>2. PICK r, d, e, x :
          /\ InOrder(s, home, "read", r, NoConn, NoPool, d, NoJob, e, x)
          /\ {NoConn, NoJob.conn, e.reader} \ {NoConn} = {NoConn, ext[s].reader} \ {NoConn}
    BY <1>6, <2>1, ContinuesInOrder, Zenon
  <2>3. {NoConn, NoJob.conn, e.reader} \ {NoConn} \subseteq InHands[s] \ {job[s].conn}
    BY <1>2, <2>2, Zenon DEF InHands, WriteConn
  <2>4. PICK i : Resets(p, job[s].conn, b) \/ GivesBack(i, p, job[s].conn, b)
    BY <1>6, Zenon DEF GivesUp
  <2>5. /\ p \in Pools /\ job[s].conn \in InHands[s]
        /\ ProxyOnly /\ p \notin closed => home[job[s].conn] = p
    BY <1>2, Zenon DEF WriteConn
  <2> QED
    BY <2>2, <2>3, <2>4, <2>5, HandBack, Zenon
<1>7. CASE Panics(s, job[s].conn, b) /\ Leaves(s)
  <2>1. /\ Ends(s) /\ UNCHANGED <<idle, numOpen, home>>
        /\ backend' = [backend EXCEPT ![job[s].conn] = b]
    BY <1>7, Zenon DEF Panics
  <2>2. PICK e : /\ InOrder(s, home, "gone", NewSession, NoConn, NoPool, FALSE, NoJob, e, NoBatch)
                 /\ {NoConn, NoJob.conn, e.reader} \ {NoConn} = {ext[s].reader} \ {NoConn}
    BY <1>7, <2>1, LeavesInOrder, Zenon
  <2>3. {NoConn, NoJob.conn, e.reader} \ {NoConn} \subseteq InHands[s]
    BY <2>2, Zenon DEF InHands
  <2> QED
    BY <1>4, <2>1, <2>2, <2>3, QuietInv, Zenon
<1> QED
  BY <1>5, <1>6, <1>7, Zenon

\* The writer answers a simple query.
LEMMA ServeWriteInv ==
    ASSUME ExtInv, NEW s \in Sessions, batch[s].kind = "none", ServeWrite(s),
           IF pc'[s] = "gone" THEN Leaves(s) ELSE UNCHANGED extVars
    PROVE  ExtInv'
<1>1. Own(s)
  BY OwnPart
<1>2. PICK p : p = IF job[s].acquired THEN job[s].pool ELSE boundPool[s]
  OBVIOUS
<1>3. pc[s] = "run" /\ job[s].route = "writer" /\ UNCHANGED <<writerPool, closed>>
  BY DEF ServeWrite
<1>4. WriteConn(s, p)
  BY <1>2, <1>3, WriteConnection
<1> DEFINE j == job[s]
           isDirty == dirty[s] \/ IsSessionModifying(j.query)
           Goes(b) == /\ KeepsBound(s, p, b) \/ GivesUp(s, p, b)
                      /\ UNCHANGED sess /\ job' = [job EXCEPT ![s] = NoJob]
                      /\ \E d \in BOOLEAN : dirty' = [dirty EXCEPT ![s] = d]
                      /\ \E a, q : Binds(s, a, q)
<1>5. PICK b \in Outcomes(backend[j.conn], j.query) : Goes(b) \/ Panics(s, j.conn, b)
  <2>1. /\ j.wasInTx \in BOOLEAN /\ j.acquired \in BOOLEAN /\ sess[s].inTransaction \in BOOLEAN
        /\ sess[s].pinned \in BOOLEAN /\ dirty[s] \in BOOLEAN /\ isDirty \in BOOLEAN
        /\ boundPool[s] \in Pools \cup {NoPool} /\ p \in Pools /\ NoPool \notin Pools
    BY <1>1, <1>4, PoolNumbers DEF Own, LocalTypes, Jobs, SessionStates, WriteConn
  <2>2. /\ j.acquired => boundPool[s] = NoPool /\ p = j.pool
        /\ ~j.acquired => bound[s] = j.conn /\ p = boundPool[s]
    BY <1>2, <1>4, Zenon DEF WriteConn
  <2>3. ASSUME NEW b, NEW q \in Pools \cup {NoPool}, NEW d \in BOOLEAN,
               backend' = [backend EXCEPT ![j.conn] = b], UNCHANGED <<idle, numOpen, home, sess>>,
               job' = [job EXCEPT ![s] = NoJob], dirty' = [dirty EXCEPT ![s] = d],
               \/ Binds(s, j.conn, q) /\ q = p
               \/ Binds(s, bound[s], q) /\ q = boundPool[s]
        PROVE  Goes(b)
    BY <2>1, <2>3, Zenon DEF KeepsBound
  <2>4. ASSUME NEW b, NEW i, NEW d \in BOOLEAN, Unbinds(s, i, p, j.conn, b),
               job' = [job EXCEPT ![s] = NoJob], dirty' = [dirty EXCEPT ![s] = d]
        PROVE  Goes(b)
    BY <2>4, Zenon DEF GivesUp, Unbinds
  <2> HIDE DEF Goes, isDirty
  <2>5. CASE ~j.wasInTx /\ sess[s].inTransaction
    <3>1. PICK b \in Outcomes(backend[j.conn], j.query) :
            /\ backend' = [backend EXCEPT ![j.conn] = b] /\ UNCHANGED <<idle, numOpen, home, sess>>
            /\ Binds(s, j.conn, p)
            /\ dirty' = [dirty EXCEPT ![s] = isDirty] /\ job' = [job EXCEPT ![s] = NoJob]
      BY <1>2, <2>5, Zenon DEF ServeWrite, isDirty
    <3> QED
      BY <2>1, <2>3, <3>1, Zenon
  <2>6. CASE j.wasInTx /\ ~sess[s].inTransaction /\ sess[s].pinned
    <3>1. PICK b \in Outcomes(backend[j.conn], j.query) :
            /\ backend' = [backend EXCEPT ![j.conn] = b] /\ UNCHANGED <<idle, numOpen, home, sess>>
            /\ Binds(s, bound[s], boundPool[s])
            /\ dirty' = [dirty EXCEPT ![s] = isDirty] /\ job' = [job EXCEPT ![s] = NoJob]
      BY <2>6, Zenon DEF ServeWrite, isDirty
    <3> QED
      BY <2>1, <2>3, <3>1, Zenon
  <2>7. CASE j.wasInTx /\ ~sess[s].inTransaction /\ ~sess[s].pinned /\ boundPool[s] # NoPool
    <3>1. PICK b \in Outcomes(backend[j.conn], j.query) :
            /\ Unbinds(s, isDirty, boundPool[s], j.conn, b)
            /\ dirty' = [dirty EXCEPT ![s] = FALSE] /\ job' = [job EXCEPT ![s] = NoJob]
      BY <2>7, Zenon DEF ServeWrite, isDirty
    <3>2. p = boundPool[s]
      BY <2>1, <2>2, <2>7, Zenon
    <3> QED
      BY <2>4, <3>1, <3>2, Zenon
  <2>8. CASE j.wasInTx /\ ~sess[s].inTransaction /\ ~sess[s].pinned /\ boundPool[s] = NoPool
    BY <2>8, Zenon DEF ServeWrite
  <2>9. CASE j.wasInTx = sess[s].inTransaction /\ j.acquired /\ sess[s].pinned
    <3>1. PICK b \in Outcomes(backend[j.conn], j.query) :
            /\ backend' = [backend EXCEPT ![j.conn] = b] /\ UNCHANGED <<idle, numOpen, home, sess>>
            /\ Binds(s, j.conn, j.pool)
            /\ dirty' = [dirty EXCEPT ![s] = isDirty] /\ job' = [job EXCEPT ![s] = NoJob]
      BY <2>9 DEF ServeWrite, isDirty
    <3> QED
      BY <2>1, <2>2, <2>3, <2>9, <3>1, Zenon
  <2>10. CASE j.wasInTx = sess[s].inTransaction /\ j.acquired /\ ~sess[s].pinned
    <3>1. PICK b \in Outcomes(backend[j.conn], j.query) :
            /\ Unbinds(s, isDirty, j.pool, j.conn, b)
            /\ dirty' = [dirty EXCEPT ![s] = FALSE] /\ job' = [job EXCEPT ![s] = NoJob]
      BY <2>10 DEF ServeWrite, isDirty
    <3> QED
      BY <2>2, <2>4, <2>10, <3>1, Zenon
  <2>11. CASE j.wasInTx = sess[s].inTransaction /\ ~j.acquired
    <3>1. PICK b \in Outcomes(backend[j.conn], j.query) :
            /\ backend' = [backend EXCEPT ![j.conn] = b] /\ UNCHANGED <<idle, numOpen, home, sess>>
            /\ Binds(s, bound[s], boundPool[s])
            /\ dirty' = [dirty EXCEPT ![s] = isDirty] /\ job' = [job EXCEPT ![s] = NoJob]
      BY <2>11 DEF ServeWrite, isDirty
    <3> QED
      BY <2>1, <2>3, <3>1, Zenon
  <2> QED
    BY <2>1, <2>5, <2>6, <2>7, <2>8, <2>9, <2>10, <2>11, Zenon
<1>6. b \in BackendStates
  BY <1>4, <1>5, AnswersTyped, Zenon DEF WriteConn
<1>7. CASE Panics(s, j.conn, b)
  <2>1. pc'[s] = "gone"
    BY <1>7 DEF Panics, Ends, ExtInv, SessionTypes
  <2> QED
    BY <1>2, <1>3, <1>6, <1>7, <2>1, WrittenInv, Zenon
<1>8. CASE Goes(b)
  <2>1. PICK a, q : Binds(s, a, q)
    BY <1>8, Zenon
  <2>2. pc'[s] = "read"
    BY <2>1, Zenon DEF Binds, ExtInv, SessionTypes
  <2>3. UNCHANGED <<ext, batch, sess>>
    BY <1>8, <2>2, Zenon DEF extVars
  <2>4. /\ ext[s] \in ExtStates /\ ext' = [ext EXCEPT ![s] = ext[s]]
        /\ batch[s] \in BatchStates /\ batch' = [batch EXCEPT ![s] = batch[s]]
        /\ sess[s] \in SessionStates /\ sess' = [sess EXCEPT ![s] = sess[s]]
    BY <1>1, <2>3 DEF Own, LocalTypes
  <2>5. Continues(s)
    BY <1>8, <2>4, Zenon DEF Continues
  <2> QED
    BY <1>2, <1>3, <1>6, <1>8, <2>5, WrittenInv, Zenon
<1> QED
  BY <1>5, <1>7, <1>8, Zenon

\* A session that goes on after a batch continues.
LEMMA GoesOnContinues ==
    ASSUME ExtInv, NEW s \in Sessions, NEW c, NEW p, NEW b, GoesOn(s, c, p, b),
           \E d \in BOOLEAN : dirty' = [dirty EXCEPT ![s] = d],
           b \in BackendStates
    PROVE  Continues(s) /\ Binds(s, c, p)
<1>1. Own(s)
  BY OwnPart
<1>2. sess[s] \in SessionStates /\ ext[s] \in ExtStates /\ batch[s] \in BatchStates
  BY <1>1 DEF Own, LocalTypes
<1> DEFINE r == [sess[s] EXCEPT !.inTransaction = TxAfterBatch(s)]
           e == [ext[s] EXCEPT !.reader = ext[s].reader, !.readerPool = ext[s].readerPool,
                               !.parsed = Parsed(s, b)]
<1>3. r \in SessionStates
  BY <1>2, Zenon DEF SessionStates, TxAfterBatch, BatchStates
<1>4. Parsed(s, b) \subseteq Names \X Seq(Statements)
  BY Zenon DEF Parsed, BackendStates
<1>5. /\ e \in ExtStates /\ e.mode = ext[s].mode /\ e.reader = ext[s].reader
      /\ e.readerPool = ext[s].readerPool
  BY <1>2, <1>4, Zenon DEF ExtStates
<1>6. /\ sess' = [sess EXCEPT ![s] = r] /\ ext' = [ext EXCEPT ![s] = e]
      /\ batch' = [batch EXCEPT ![s] = NoBatch] /\ job' = [job EXCEPT ![s] = NoJob]
  BY Zenon DEF GoesOn, Finishes
<1> HIDE DEF r, e
<1> QED
  BY <1>3, <1>5, <1>6, ExtBlanks, Zenon DEF Continues, GoesOn

\* The writer answers a batch, or a synthesized query.
LEMMA ServeBatchInv ==
    ASSUME ExtInv, NEW s \in Sessions, ServeExtWrite(s) \/ ServeSynthWrite(s)
    PROVE  ExtInv'
<1>1. Own(s)
  BY OwnPart
<1>2. PICK p : p = IF job[s].acquired THEN job[s].pool ELSE boundPool[s]
  OBVIOUS
<1>3. pc[s] = "run" /\ job[s].route = "writer" /\ UNCHANGED <<writerPool, closed>>
  BY <1>1 DEF ServeExtWrite, ServeSynthWrite, Own, HandsOf
<1>4. WriteConn(s, p)
  BY <1>2, <1>3, WriteConnection, Zenon
<1>5. /\ job[s].acquired \in BOOLEAN /\ batch[s].txStart \in BOOLEAN /\ batch[s].txEnd \in BOOLEAN
      /\ sess[s].pinned \in BOOLEAN /\ dirty[s] \in BOOLEAN /\ job[s].pool \in Pools
      /\ p \in Pools /\ NoPool \notin Pools /\ boundPool[s] \in Pools \cup {NoPool}
      /\ dirty = [dirty EXCEPT ![s] = dirty[s]]
  BY <1>1, <1>3, <1>4, PoolNumbers, Zenon
     DEF Own, LocalTypes, HandsOf, Jobs, BatchStates, SessionStates, WriteConn
<1> DEFINE Leads(b) == \/ Continues(s) /\ (KeepsBound(s, p, b) \/ GivesUp(s, p, b))
                       \/ Panics(s, job[s].conn, b) /\ Leaves(s)
<1>6. Answers(s) \subseteq BackendStates
  BY <1>4, AnswersTyped, Zenon DEF WriteConn
<1>7. ASSUME NEW b \in Answers(s), NEW c, NEW q \in Pools \cup {NoPool}, KeepsConn(s, c, q, b),
             \/ c = job[s].conn /\ q # NoPool /\ (ProxyOnly => q = p)
             \/ c = bound[s] /\ q = boundPool[s]
      PROVE  Leads(b)
  <2>1. Continues(s) /\ Binds(s, c, q)
    BY <1>5, <1>6, <1>7, GoesOnContinues DEF KeepsConn
  <2>2. KeepsBound(s, p, b)
    BY <1>7, <2>1, Zenon DEF KeepsBound, KeepsConn
  <2> QED
    BY <2>1, <2>2
<1>8. ASSUME NEW b \in Answers(s), GoesOn(s, NoConn, NoPool, b),
             \E d \in BOOLEAN : dirty' = [dirty EXCEPT ![s] = d],
             \E i : Resets(p, job[s].conn, b) \/ GivesBack(i, p, job[s].conn, b)
      PROVE  Leads(b)
  <2>1. Continues(s) /\ Binds(s, NoConn, NoPool)
    BY <1>6, <1>8, GoesOnContinues, Zenon
  <2> QED
    BY <1>8, <2>1 DEF GivesUp
<1>9. ASSUME NEW b \in Answers(s), GivesUpConn(s, dirty[s], p, b)
      PROVE  Leads(b)
  BY <1>8, <1>9, Zenon DEF GivesUpConn
<1> HIDE DEF Leads
<1>10. CASE ServeExtWrite(s)
  <2>1. PICK b \in Answers(s) : WriteEffect(s, b)
    BY <1>10 DEF ServeExtWrite
  <2> SUFFICES Leads(b)
    BY <1>2, <1>3, <1>6, <2>1, WrittenInv, Zenon DEF Leads
  <2>2. CASE batch[s].txStart /\ ~batch[s].txEnd
    <3>1. KeepsConn(s, job[s].conn, p, b)
      BY <1>2, <2>1, <2>2, Zenon DEF WriteEffect
    <3> QED
      BY <1>5, <1>7, <2>1, <3>1
  <2>3. CASE batch[s].txEnd /\ sess[s].pinned
    <3>1. KeepsConn(s, bound[s], boundPool[s], b)
      BY <2>1, <2>3, Zenon DEF WriteEffect
    <3> QED
      BY <1>5, <1>7, <2>1, <3>1
  <2>4. CASE batch[s].txEnd /\ ~sess[s].pinned /\ ~job[s].acquired
    <3>1. GivesUpConn(s, dirty[s], p, b)
      BY <1>2, <2>1, <2>4, Zenon DEF WriteEffect
    <3> QED
      BY <1>9, <2>1, <3>1
  <2>5. CASE batch[s].txEnd /\ ~sess[s].pinned /\ job[s].acquired
    <3>1. Panics(s, job[s].conn, b) /\ Leaves(s)
      BY <2>1, <2>5, Zenon DEF WriteEffect
    <3> QED
      BY <3>1 DEF Leads
  <2>6. CASE ~batch[s].txStart /\ ~batch[s].txEnd
    <3>1. KeepsConn(s, job[s].conn, p, b) \/ GivesUpConn(s, dirty[s], p, b)
      BY <1>2, <2>1, <2>6, Zenon DEF WriteEffect
    <3> QED
      BY <1>5, <1>7, <1>9, <2>1, <3>1
  <2> QED
    BY <1>5, <2>2, <2>3, <2>4, <2>5, <2>6, Zenon
<1>11. CASE ServeSynthWrite(s)
  <2>1. PICK b \in Answers(s) : SynthEffect(s, b)
    BY <1>11 DEF ServeSynthWrite
  <2> SUFFICES Leads(b)
    BY <1>2, <1>3, <1>6, <2>1, WrittenInv, Zenon DEF Leads
  <2>2. ~ProxyOnly
    BY <1>1, <1>11 DEF Own, NotesOf, ServeSynthWrite
  <2>3. CASE batch[s].txStart /\ ~batch[s].txEnd
    <3>1. KeepsConn(s, job[s].conn, job[s].pool, b)
      BY <2>1, <2>3, Zenon DEF SynthEffect
    <3> QED
      BY <1>5, <1>7, <2>1, <2>2, <3>1
  <2>4. CASE batch[s].txEnd /\ job[s].acquired
    <3>1. Panics(s, job[s].conn, b) /\ Leaves(s)
      BY <2>1, <2>4, Zenon DEF SynthEffect
    <3> QED
      BY <3>1 DEF Leads
  <2>5. CASE batch[s].txEnd /\ ~job[s].acquired
    <3>1. /\ GoesOn(s, NoConn, NoPool, b) /\ Resets(p, job[s].conn, b)
          /\ UNCHANGED dirty
      BY <1>2, <2>1, <2>5, Zenon DEF SynthEffect
    <3> QED
      BY <1>5, <1>8, <2>1, <3>1
  <2>6. CASE ~batch[s].txStart /\ ~batch[s].txEnd /\ job[s].acquired
    <3>1. /\ GoesOn(s, NoConn, NoPool, b) /\ Resets(p, job[s].conn, b)
          /\ UNCHANGED dirty
      BY <1>2, <2>1, <2>6, Zenon DEF SynthEffect
    <3> QED
      BY <1>5, <1>8, <2>1, <3>1
  <2>7. CASE ~batch[s].txStart /\ ~batch[s].txEnd /\ ~job[s].acquired
    <3>1. KeepsConn(s, job[s].conn, p, b)
      BY <1>2, <2>1, <2>7, Zenon DEF SynthEffect
    <3> QED
      BY <1>5, <1>7, <2>1, <3>1
  <2> QED
    BY <1>5, <2>3, <2>4, <2>5, <2>6, <2>7, Zenon
<1> QED
  BY <1>10, <1>11

\* A batch without Execute leaves its connection bound as the session's reader; one on a
\* bound reader releases it after an Execute.
LEMMA ServeBoundInv ==
    ASSUME ExtInv, NEW s \in Sessions, ServeParse(s) \/ ServeReuse(s)
    PROVE  ExtInv'
<1>1. Own(s)
  BY OwnPart
<1>2. /\ pc[s] = "run" /\ batch[s].kind \in {"parse", "reuse"}
      /\ pc' = [pc EXCEPT ![s] = "read"] /\ job' = [job EXCEPT ![s] = NoJob]
      /\ UNCHANGED <<writerPool, closed, sess, bound, boundPool, dirty>>
  BY Zenon DEF ServeParse, ServeReuse, poolVars
<1>3. /\ HandsOf("run", bound[s], boundPool[s], job[s], ext[s], batch[s])
      /\ NotesOf(home, "run", bound[s], boundPool[s], job[s], ext[s], batch[s])
      /\ ext[s] \in ExtStates
  BY <1>1, <1>2 DEF Own, LocalTypes
<1>4. /\ job[s].conn \in Conns /\ job[s].pool \in Pools /\ job[s].conn # bound[s]
      /\ ProxyOnly /\ job[s].pool \notin closed => home[job[s].conn] = job[s].pool
  BY <1>2, <1>3, RelayAssumption, Zenon DEF HandsOf, NotesOf
<1>5. job[s].conn \in InHands[s] /\ {bound[s]} \ {NoConn} \subseteq InHands[s]
  BY <1>4, RelayAssumption, Zenon DEF InHands
<1>6. ASSUME NEW c \in Conns \cup {NoConn}, NEW q \in Pools \cup {NoPool},
             NEW parsed \in SUBSET (Names \X Seq(Statements)), Finishes(s, c, q, parsed),
             c = NoConn <=> q = NoPool, c # NoConn => c # bound[s],
             ProxyOnly /\ c # NoConn /\ q \notin closed => home[c] = q
      PROVE  \E e : /\ InOrder(s, home, "read", sess[s], bound[s], boundPool[s], dirty[s],
                               NoJob, e, NoBatch)
                    /\ {bound[s], NoJob.conn, e.reader} \ {NoConn} = {bound[s], c} \ {NoConn}
  <2> DEFINE e == [ext[s] EXCEPT !.reader = c, !.readerPool = q, !.parsed = parsed]
  <2>1. e \in ExtStates /\ e.mode = ext[s].mode /\ e.reader = c /\ e.readerPool = q
    BY <1>3, Zenon DEF ExtStates
  <2>2. ext' = [ext EXCEPT ![s] = e] /\ batch' = [batch EXCEPT ![s] = NoBatch]
    BY <1>6, Zenon DEF Finishes
  <2> HIDE DEF e
  <2>3. Sets(s, "read", sess[s], bound[s], boundPool[s], dirty[s], NoJob, e, NoBatch)
    BY <1>1, <1>2, <2>2, Zenon DEF Own, Sets
  <2>4. LocalTypes("read", sess[s], bound[s], boundPool[s], dirty[s], NoJob, e, NoBatch)
    BY <1>1, <2>1, Blanks, ExtBlanks DEF Own, LocalTypes
  <2>5. HandsOf("read", bound[s], boundPool[s], NoJob, e, NoBatch)
    BY <1>3, <1>6, <2>1, Blanks, ExtBlanks, Zenon DEF HandsOf
  <2>6. NotesOf(home, "read", bound[s], boundPool[s], NoJob, e, NoBatch)
    BY <1>3, <1>6, <2>1, Blanks, ExtBlanks, Zenon DEF NotesOf
  <2>7. {bound[s], NoJob.conn, e.reader} \ {NoConn} = {bound[s], c} \ {NoConn}
    BY <2>1, Blanks, Zenon
  <2>8. InOrder(s, home, "read", sess[s], bound[s], boundPool[s], dirty[s], NoJob, e, NoBatch)
    BY <2>3, <2>4, <2>5, <2>6, Zenon DEF InOrder
  <2> QED
    BY <2>7, <2>8, Zenon
<1>7. PICK b \in Answers(s) :
        \/ /\ backend' = [backend EXCEPT ![job[s].conn] = b]
           /\ Finishes(s, job[s].conn, job[s].pool, Parsed(s, b))
           /\ UNCHANGED <<idle, numOpen, home>>
        \/ Releases(job[s].pool, job[s].conn, b) /\ Finishes(s, NoConn, NoPool, {})
  BY Zenon DEF ServeParse, ServeReuse, poolVars
<1>8. b \in BackendStates
  BY <1>4, <1>7, AnswersTyped, Zenon
<1>9. CASE /\ backend' = [backend EXCEPT ![job[s].conn] = b]
           /\ Finishes(s, job[s].conn, job[s].pool, Parsed(s, b))
           /\ UNCHANGED <<idle, numOpen, home>>
  <2>1. Parsed(s, b) \in SUBSET (Names \X Seq(Statements))
    BY <1>8, Zenon DEF Parsed, BackendStates
  <2>2. /\ job[s].conn \in Conns \cup {NoConn} /\ job[s].pool \in Pools \cup {NoPool}
        /\ job[s].conn = NoConn <=> job[s].pool = NoPool
    BY <1>4, PoolNumbers, RelayAssumption, Zenon
  <2>3. PICK e : /\ InOrder(s, home, "read", sess[s], bound[s], boundPool[s], dirty[s],
                            NoJob, e, NoBatch)
                 /\ {bound[s], NoJob.conn, e.reader} \ {NoConn} = {bound[s], job[s].conn} \ {NoConn}
    BY <1>4, <1>6, <1>9, <2>1, <2>2, Zenon
  <2>4. {bound[s], NoJob.conn, e.reader} \ {NoConn} \subseteq InHands[s]
    BY <1>5, <2>3
  <2>5. UNCHANGED <<writerPool, poolVars>> /\ backend' \in [Conns -> BackendStates]
    BY <1>2, <1>8, <1>9, Zenon DEF poolVars, ExtInv, PoolTypes
  <2> QED
    BY <2>3, <2>4, <2>5, QuietInv, Zenon
<1>10. CASE Releases(job[s].pool, job[s].conn, b) /\ Finishes(s, NoConn, NoPool, {})
  <2>0. {} \in SUBSET (Names \X Seq(Statements))
    OBVIOUS
  <2>1. PICK e : /\ InOrder(s, home, "read", sess[s], bound[s], boundPool[s], dirty[s],
                            NoJob, e, NoBatch)
                 /\ {bound[s], NoJob.conn, e.reader} \ {NoConn} = {bound[s], NoConn} \ {NoConn}
    BY <1>6, <1>10, <2>0, Zenon
  <2>2. {bound[s], NoJob.conn, e.reader} \ {NoConn} \subseteq InHands[s] \ {job[s].conn}
    BY <1>4, <1>5, <2>1, Zenon
  <2>3. UNCHANGED <<writerPool, closed>>
    BY <1>2, Zenon
  <2>4. /\ job[s].pool \in Pools /\ job[s].conn \in InHands[s] /\ b \in BackendStates
        /\ ProxyOnly /\ job[s].pool \notin closed => home[job[s].conn] = job[s].pool
    BY <1>4, <1>5, <1>8
  <2>5. Releases(job[s].pool, job[s].conn, b)
    BY <1>10
  <2> QED
    BY <2>1, <2>2, <2>3, <2>4, <2>5, HandBack, Zenon
<1> QED
  BY <1>7, <1>9, <1>10

\* The reader of a session that has ended is given back.
LEMMA ReleaseReaderInv ==
    ASSUME ExtInv, NEW s \in Sessions, ReleaseReader(s)
    PROVE  ExtInv'
<1>1. Own(s)
  BY OwnPart
<1>2. /\ pc[s] = "gone" /\ ext[s].reader # NoConn
      /\ Resets(ext[s].readerPool, ext[s].reader, backend[ext[s].reader])
      /\ ext' = [ext EXCEPT ![s] = NewExt]
      /\ UNCHANGED <<writerPool, closed, pc, sess, bound, boundPool, dirty, job, batch>>
  BY Zenon DEF ReleaseReader
<1>3. /\ HandsOf("gone", bound[s], boundPool[s], job[s], ext[s], batch[s])
      /\ NotesOf(home, "gone", bound[s], boundPool[s], job[s], ext[s], batch[s])
      /\ ext[s].reader \in Conns /\ ext[s].readerPool \in Pools
  BY <1>1, <1>2, Zenon DEF Own, LocalTypes, ExtStates, HandsOf
<1>4. Sets(s, pc[s], sess[s], bound[s], boundPool[s], dirty[s], job[s], NewExt, batch[s])
  BY <1>1, <1>2, Zenon DEF Own, Sets
<1>5. LocalTypes(pc[s], sess[s], bound[s], boundPool[s], dirty[s], job[s], NewExt, batch[s])
  BY <1>1, ExtBlanks DEF Own, LocalTypes
<1>6. HandsOf(pc[s], bound[s], boundPool[s], job[s], NewExt, batch[s])
  BY <1>2, <1>3, ExtBlanks, Zenon DEF HandsOf
<1>7. NotesOf(home, pc[s], bound[s], boundPool[s], job[s], NewExt, batch[s])
  BY <1>2, <1>3, ExtBlanks, Zenon DEF NotesOf, HandsOf
<1>8. InOrder(s, home, pc[s], sess[s], bound[s], boundPool[s], dirty[s], job[s], NewExt, batch[s])
  BY <1>4, <1>5, <1>6, <1>7, Zenon DEF InOrder
<1>9. backend[ext[s].reader] \in BackendStates
  BY <1>3, Zenon DEF ExtInv, PoolTypes
<1>10. /\ ext[s].reader \in InHands[s]
       /\ ProxyOnly /\ ext[s].readerPool \notin closed => home[ext[s].reader] = ext[s].readerPool
       /\ {bound[s], job[s].conn, NewExt.reader} \ {NoConn} \subseteq InHands[s] \ {ext[s].reader}
  <2>1. bound[s] = NoConn /\ job[s].conn = NoConn
    BY <1>3, Zenon DEF HandsOf
  <2> QED
    BY <1>2, <1>3, <2>1, ExtBlanks, Zenon DEF InHands, NotesOf
<1>11. UNCHANGED <<writerPool, closed>>
  BY <1>2
<1> QED
  BY <1>2, <1>3, <1>8, <1>9, <1>10, <1>11, HandBack, Zenon

\* A batch is read and its connection chosen.
LEMMA SyncInv ==
    ASSUME ExtInv, NEW s \in Sessions, NEW msgs \in Batches, NEW choice, Sync(s, msgs, choice)
    PROVE  ExtInv'
<1>1. Own(s)
  BY OwnPart
<1>2. PICK st : st = ReadBatch(s, msgs, choice)
  OBVIOUS
<1>3. st \in BatchReads /\ msgs \in Seq(Messages)
  BY <1>2, BatchRead, ExtendedAssumption DEF ExtInv
<1>4. PICK rejected \in BOOLEAN : rejected = (st.blocked \/ ("readonly" \in switches /\ st.isWrite))
  BY Zenon
<1>5. PICK kind : kind = IF rejected THEN "none" ELSE SyncKind(s, st, msgs)
  OBVIOUS
<1>6. PICK stale \in BOOLEAN : stale = StaleReader(s, st, rejected)
  BY Zenon DEF StaleReader
<1> DEFINE e == [ext[s] EXCEPT !.stmts = st.stmts, !.route = "reader",
                               !.parsed = IF kind = "none" THEN {} ELSE @,
                               !.reader = IF stale THEN NoConn ELSE @,
                               !.readerPool = IF stale THEN NoPool ELSE @]
           j == [query |-> IF kind \in {"synthRead", "synthWrite"} THEN Synthesized(st) ELSE <<>>,
                 route |-> IF kind \in {"write", "synthWrite"} THEN "writer" ELSE "reader",
                 wasInTx |-> sess[s].inTransaction, acquired |-> FALSE,
                 conn |-> IF kind = "reuse" THEN ext[s].reader ELSE NoConn,
                 pool |-> IF kind = "reuse" THEN ext[s].readerPool ELSE writerPool]
           x == [kind |-> kind, msgs |-> msgs, txStart |-> st.txStart, txEnd |-> st.txEnd,
                 isWrite |-> st.isWrite, hasExecute |-> st.hasExecute]
           k == IF kind = "reuse" THEN "run" ELSE "acquire"
<1>7. /\ pc[s] = "read"
      /\ sess' = [sess EXCEPT ![s] = st.sess] /\ dirty' = [dirty EXCEPT ![s] = st.dirty]
      /\ IF stale THEN Resets(ext[s].readerPool, ext[s].reader, backend[ext[s].reader])
                  ELSE UNCHANGED <<idle, numOpen, home, backend>>
      /\ UNCHANGED <<writerPool, closed, bound, boundPool>>
  BY <1>2, <1>4, <1>6, Zenon DEF Sync
<1>8. ext' = [ext EXCEPT ![s] = e]
  BY <1>2, <1>4, <1>5, <1>6, Zenon DEF Sync
<1>9. IF kind = "none" THEN UNCHANGED <<pc, job, batch>>
      ELSE /\ pc' = [pc EXCEPT ![s] = k] /\ batch' = [batch EXCEPT ![s] = x]
           /\ job' = [job EXCEPT ![s] = j]
  BY <1>2, <1>4, <1>5, Zenon DEF Sync
<1>10. /\ kind \in BatchKinds
       /\ kind \in {"synthRead", "synthWrite"} =>
             (\E r \in st.stmts : r.name \in st.bind) /\ ext[s].mode = "multiplex"
       /\ kind = "reuse" => ext[s].reader # NoConn /\ bound[s] = NoConn /\ ~stale
       /\ kind \in {"read", "parse", "synthRead", "reuse"} => bound[s] = NoConn
  <2>1. CASE rejected
    BY <1>5, <2>1 DEF BatchKinds
  <2>2. CASE ~rejected
    BY <1>3, <1>5, <1>6, <2>2, SyncKinds, Zenon DEF StaleReader
  <2> QED
    BY <2>1, <2>2
<1>11. /\ HandsOf("read", bound[s], boundPool[s], job[s], ext[s], batch[s])
       /\ NotesOf(home, "read", bound[s], boundPool[s], job[s], ext[s], batch[s])
       /\ ext[s] \in ExtStates /\ sess[s] \in SessionStates
       /\ batch[s].kind = "none"
  BY <1>1, <1>7, Zenon DEF Own, LocalTypes, HandsOf
<1>12. /\ writerPool \in Pools /\ writerPool \in 1 .. writerPool
       /\ ext[s].reader # NoConn => ext[s].reader \in Conns /\ ext[s].readerPool \in Pools
  <2>1. writerPool \in WriterPools
    BY DEF ExtInv, PoolTypes
  <2>2. writerPool \in Pools
    BY <2>1, PoolNumbers, Zenon
  <2>3. writerPool \in 1 .. writerPool
    BY <2>1, RelayAssumption DEF WriterPools
  <2>4. /\ ext[s].reader = NoConn <=> ext[s].readerPool = NoPool
        /\ ext[s].reader \in Conns \cup {NoConn}
        /\ ext[s].readerPool \in Pools \cup {NoPool}
    BY <1>11, Zenon DEF ExtStates, HandsOf
  <2> QED
    BY <2>2, <2>3, <2>4, Zenon
<1>13. /\ e \in ExtStates /\ e.mode = ext[s].mode
       /\ e.reader = IF stale THEN NoConn ELSE ext[s].reader
       /\ e.readerPool = IF stale THEN NoPool ELSE ext[s].readerPool
  <2>1. st.stmts \subseteq Known
    BY <1>3 DEF BatchReads
  <2> QED
    BY <1>11, <2>1, Zenon DEF ExtStates
<1>14. x \in BatchStates /\ x.kind = kind
  BY <1>3, <1>10, Zenon DEF BatchReads, BatchStates
<1>15. /\ j \in Jobs /\ j.acquired = FALSE
       /\ j.conn = IF kind = "reuse" THEN ext[s].reader ELSE NoConn
       /\ j.pool = IF kind = "reuse" THEN ext[s].readerPool ELSE writerPool
       /\ j.route = IF kind \in {"write", "synthWrite"} THEN "writer" ELSE "reader"
  <2>1. kind \in {"synthRead", "synthWrite"} => Synthesized(st) \in Seq(Statements)
    BY <1>3, <1>10, SynthesizedTyped
  <2>2. <<>> \in Seq(Statements) /\ sess[s].inTransaction \in BOOLEAN
    <3>1. <<>> \in Seq(Statements)
      OBVIOUS
    <3>2. sess[s].inTransaction \in BOOLEAN
      BY <1>11, Zenon DEF SessionStates
    <3> QED
      BY <3>1, <3>2
  <2>3. /\ j.query \in Seq(Statements) /\ j.wasInTx \in BOOLEAN
    BY <2>1, <2>2, Zenon
  <2>4. (kind = "reuse" => ext[s].reader \in Conns /\ ext[s].readerPool \in Pools)
    BY <1>10, <1>12, Zenon
  <2> QED
    BY <1>12, <2>1, <2>2, <2>4, Zenon DEF Jobs
<1>16. st.sess \in SessionStates /\ st.dirty \in BOOLEAN
  BY <1>3 DEF BatchReads
<1>17. k \in {"run", "acquire"} /\ (k = "run" <=> kind = "reuse")
  OBVIOUS
<1> HIDE DEF e, j, x, k
<1> DEFINE After(l, i, y) ==
        /\ InOrder(s, home, l, st.sess, bound[s], boundPool[s], st.dirty, i, e, y)
        /\ {bound[s], i.conn, e.reader} \ {NoConn}
              \subseteq InHands[s] \ (IF stale THEN {ext[s].reader} ELSE {})
<1>18. \E l, i, y : After(l, i, y)
  <2>1. CASE kind = "none"
    <3>1. Sets(s, pc[s], st.sess, bound[s], boundPool[s], st.dirty, job[s], e, batch[s])
      BY <1>1, <1>7, <1>8, <1>9, <2>1, Zenon DEF Own, Sets
    <3>2. LocalTypes(pc[s], st.sess, bound[s], boundPool[s], st.dirty, job[s], e, batch[s])
      BY <1>1, <1>13, <1>16 DEF Own, LocalTypes
    <3>3. HandsOf(pc[s], bound[s], boundPool[s], job[s], e, batch[s])
      BY <1>7, <1>11, <1>13, Zenon DEF HandsOf
    <3>4. NotesOf(home, pc[s], bound[s], boundPool[s], job[s], e, batch[s])
      BY <1>7, <1>11, <1>13, Zenon DEF NotesOf, HandsOf
    <3>5. {bound[s], job[s].conn, e.reader} \ {NoConn}
                \subseteq InHands[s] \ (IF stale THEN {ext[s].reader} ELSE {})
      <4>1. job[s].conn = NoConn /\ (bound[s] # NoConn => bound[s] # ext[s].reader)
        BY <1>11, Zenon DEF HandsOf
      <4> QED
        BY <1>13, <4>1, Zenon DEF InHands
    <3>6. After(pc[s], job[s], batch[s])
      BY <3>1, <3>2, <3>3, <3>4, <3>5, Zenon DEF InOrder
    <3> QED
      BY <3>6, Zenon
  <2>2. CASE kind # "none"
    <3>1. Sets(s, k, st.sess, bound[s], boundPool[s], st.dirty, j, e, x)
      BY <1>1, <1>7, <1>8, <1>9, <2>2, Zenon DEF Own, Sets
    <3>2. LocalTypes(k, st.sess, bound[s], boundPool[s], st.dirty, j, e, x)
      BY <1>1, <1>13, <1>14, <1>15, <1>16, <1>17, Zenon DEF Own, LocalTypes
    <3>3. HandsOf(k, bound[s], boundPool[s], j, e, x)
      <4>1. CASE kind = "reuse"
        BY <1>10, <1>11, <1>12, <1>13, <1>14, <1>15, <1>17, <4>1, Zenon DEF HandsOf
      <4>2. CASE kind # "reuse"
        BY <1>10, <1>11, <1>12, <1>13, <1>14, <1>15, <1>17, <4>2, Zenon DEF HandsOf, BatchKinds
      <4> QED
        BY <4>1, <4>2, Zenon
    <3>4. NotesOf(home, k, bound[s], boundPool[s], j, e, x)
      BY <1>10, <1>11, <1>13, <1>14, <1>15, <1>17, Zenon DEF NotesOf, HandsOf
    <3>5. {bound[s], j.conn, e.reader} \ {NoConn}
                \subseteq InHands[s] \ (IF stale THEN {ext[s].reader} ELSE {})
      <4>1. bound[s] # NoConn => bound[s] # ext[s].reader
        BY <1>11, Zenon DEF HandsOf
      <4>2. j.conn # NoConn => j.conn = ext[s].reader /\ ~stale
        BY <1>10, <1>15
      <4> QED
        BY <1>13, <4>1, <4>2, Zenon DEF InHands
    <3>6. After(k, j, x)
      BY <3>1, <3>2, <3>3, <3>4, <3>5, Zenon DEF InOrder
    <3> QED
      BY <3>6, Zenon
  <2> QED
    BY <2>1, <2>2, Zenon
<1>19. PICK l, i, y : After(l, i, y)
  BY <1>18, Zenon
<1>20. CASE stale
  <2>1. /\ Resets(ext[s].readerPool, ext[s].reader, backend[ext[s].reader])
        /\ ext[s].reader # NoConn /\ UNCHANGED <<writerPool, closed>>
    BY <1>6, <1>7, <1>20, Zenon DEF StaleReader
  <2>2. ext[s].reader \in InHands[s] /\ ext[s].reader \in Conns /\ ext[s].readerPool \in Pools
    BY <1>12, <2>1, Zenon DEF InHands
  <2>3. ProxyOnly /\ ext[s].readerPool \notin closed => home[ext[s].reader] = ext[s].readerPool
    BY <1>11, <2>1, Zenon DEF NotesOf
  <2>4. backend[ext[s].reader] \in BackendStates
    BY <2>2 DEF ExtInv, PoolTypes
  <2>5. {bound[s], i.conn, e.reader} \ {NoConn} \subseteq InHands[s] \ {ext[s].reader}
    BY <1>19, <1>20, Zenon
  <2> QED
    BY <1>19, <2>1, <2>2, <2>3, <2>4, <2>5, HandBack, Zenon
<1>21. CASE ~stale
  <2>1. UNCHANGED <<writerPool, poolVars>> /\ backend' \in [Conns -> BackendStates]
    BY <1>7, <1>21, Zenon DEF poolVars, ExtInv, PoolTypes
  <2>2. {bound[s], i.conn, e.reader} \ {NoConn} \subseteq InHands[s]
    BY <1>19, <1>21, Zenon
  <2> QED
    BY <1>19, <2>1, <2>2, QuietInv, Zenon
<1> QED
  BY <1>20, <1>21

\* A step that leaves the pools, the connections and the sessions alone.
LEMMA IdleStepInv ==
    ASSUME ExtInv, UNCHANGED <<writerPool, closed, idle, numOpen, home, backend>>,
           UNCHANGED <<pc, sess, bound, boundPool, dirty, job, ext, batch>>
    PROVE  ExtInv'
<1>1. InHands' = InHands
  BY DEF InHands
<1>2. PoolTypes' /\ SessionTypes'
  BY DEF ExtInv, PoolTypes, SessionTypes
<1>3. Places(InHands)' /\ Counted'
  BY <1>1 DEF ExtInv, Places, Counted, IdleHome, HomeOf, ProxyOnly
<1>4. ASSUME NEW s \in Sessions PROVE Hands(s)' /\ Notes(s)'
  <2>1. Hands(s) /\ Notes(s)
    BY Zenon DEF ExtInv
  <2>2. Hands(s)'
    BY <2>1, Zenon DEF Hands, HandsOf
  <2>3. Notes(s)'
    BY <2>1, Zenon DEF Notes, NotesOf, ProxyOnly
  <2> QED
    BY <2>2, <2>3
<1> QED
  BY <1>2, <1>3, <1>4 DEF ExtInv

\* A reload closes the writer pool, which takes its idle connections out of the count.
LEMMA CountReload ==
    ASSUME ExtInv, ReloadClose, ProxyOnly
    PROVE  Counted'
<1>1. /\ IdleHome /\ numOpen \in [Pools -> 0 .. MaxConnections]
      /\ \A p \in Pools \ closed : Cardinality(HomeOf(p)) <= numOpen[p]
      /\ idle \in [Pools -> SUBSET Conns] /\ home \in [Conns -> Pools \cup {NoPool}]
  BY DEF ExtInv, Counted, Places
<1>2. /\ writerPool \in Pools /\ writerPool \notin closed /\ closed' = closed \cup {writerPool}
      /\ home' = [c \in Conns |-> IF c \in idle[writerPool] THEN NoPool ELSE home[c]]
      /\ numOpen' = [numOpen EXCEPT ![writerPool] = @ - Cardinality(idle[writerPool])]
      /\ idle' = [idle EXCEPT ![writerPool] = {}]
  BY PoolNumbers DEF ExtInv, PoolTypes, ReloadClose
<1>3. IdleHome'
  <2> SUFFICES ASSUME NEW p \in Pools, NEW c \in idle'[p] PROVE home'[c] = p
    BY Zenon DEF IdleHome
  <2>1. p # writerPool /\ c \in idle[p] /\ c \in Conns
    BY <1>1, <1>2
  <2>2. home[c] = p /\ c \notin idle[writerPool]
    BY <1>1, <1>2, <2>1 DEF IdleHome
  <2> QED
    BY <1>2, <2>1, <2>2
<1>4. Cardinality(idle[writerPool]) \in Nat /\ Cardinality(idle[writerPool]) <= numOpen[writerPool]
  <2>1. idle[writerPool] \subseteq HomeOf(writerPool) /\ HomeOf(writerPool) \subseteq Conns
    BY <1>1, <1>2 DEF IdleHome, HomeOf
  <2>2. /\ IsFiniteSet(HomeOf(writerPool)) /\ Cardinality(HomeOf(writerPool)) \in Nat
        /\ Cardinality(idle[writerPool]) \in Nat
    BY <2>1, ConnSets
  <2>3. Cardinality(idle[writerPool]) <= Cardinality(HomeOf(writerPool))
    BY <2>1, <2>2, FS_Subset
  <2>4. numOpen[writerPool] \in Int /\ Cardinality(HomeOf(writerPool)) <= numOpen[writerPool]
    BY <1>1, <1>2
  <2> QED
    BY <2>2, <2>3, <2>4
<1>5. numOpen' \in [Pools -> 0 .. MaxConnections]
  BY <1>1, <1>2, <1>4, RelayAssumption
<1>6. ASSUME NEW p \in Pools \ closed' PROVE Cardinality(HomeOf(p)') <= numOpen'[p]
  <2>1. p # writerPool /\ p \in Pools \ closed
    BY <1>2, <1>6
  <2>2. HomeOf(p)' = HomeOf(p)
    <3>1. \A c \in Conns : c \in idle[writerPool] => home[c] = writerPool
      BY <1>1, <1>2 DEF IdleHome
    <3> QED
      BY <1>1, <1>2, <2>1, <3>1, PoolNumbers DEF HomeOf
  <2> QED
    BY <1>1, <1>2, <2>1, <2>2
<1> QED
  BY <1>3, <1>5, <1>6 DEF Counted

\* A reload keeps ExtInv.
LEMMA ReloadExtInv ==
    ASSUME ExtInv, ReloadClose \/ ReloadSwap, UNCHANGED extVars
    PROVE  ExtInv'
<1>1. /\ PoolTypes /\ SessionTypes /\ Places(InHands) /\ writerPool \in Pools
      /\ \A s \in Sessions : Hands(s) /\ Notes(s)
  BY PoolNumbers DEF ExtInv, PoolTypes
<1>2. UNCHANGED <<pc, sess, bound, boundPool, dirty, job, ext, batch>>
  BY DEF ReloadClose, ReloadSwap, extVars
<1>3. InHands' = InHands /\ SessionTypes'
  BY <1>1, <1>2, Zenon DEF InHands, SessionTypes
<1>4. PICK H : H = InHands
  OBVIOUS
<1>5. CASE ReloadClose
  <2>1. Places(H)' /\ \A s \in Sessions : \A c \in H[s] : home'[c] = home[c]
    BY <1>1, <1>4, <1>5, PlacesReload
  <2>2. Places(InHands)'
    BY <1>3, <1>4, <2>1 DEF Places
  <2>3. Counted'
    BY <1>5, CountReload DEF Counted, ProxyOnly
  <2>4. /\ closed' = closed \cup {writerPool} /\ writerPool <= MaxReloads
        /\ UNCHANGED writerPool
    BY <1>5 DEF ReloadClose
  <2>5. PoolTypes'
    <3>1. Cardinality(idle[writerPool]) \in Int
      BY <1>1, ConnSets DEF Places
    <3>2. numOpen' \in [Pools -> Int]
      BY <1>1, <1>5, <3>1 DEF PoolTypes, ReloadClose
    <3>3. backend' \in [Conns -> BackendStates]
      <4>1. Fresh \in BackendStates
        BY StatementsTyped, Zenon DEF Fresh, BackendStates
      <4> QED
        BY <1>1, <1>5, <4>1 DEF PoolTypes, ReloadClose
    <3>4. closed' \subseteq 1 .. MaxReloads
      BY <1>1, <2>4, RelayAssumption DEF PoolTypes, WriterPools
    <3> QED
      BY <1>1, <2>4, <3>2, <3>3, <3>4 DEF PoolTypes
  <2>6. ASSUME NEW s \in Sessions PROVE Hands(s)' /\ Notes(s)'
    <3>1. Hands(s) /\ Notes(s)
      BY <1>1
    <3>2. Hands(s)'
      BY <1>2, <2>4, <3>1, Zenon DEF Hands, HandsOf
    <3>3. /\ job[s].acquired => job[s].conn \in InHands[s]
          /\ bound[s] # NoConn => bound[s] \in InHands[s]
          /\ ext[s].reader # NoConn => ext[s].reader \in InHands[s]
      <4>1. job[s].acquired => job[s].conn \in Conns
        BY <1>1, <3>1, Zenon DEF Hands, HandsOf, SessionTypes
      <4> QED
        BY <4>1, RelayAssumption, Zenon DEF InHands
    <3>4. /\ job[s].acquired => home'[job[s].conn] = home[job[s].conn]
          /\ bound[s] # NoConn => home'[bound[s]] = home[bound[s]]
          /\ ext[s].reader # NoConn => home'[ext[s].reader] = home[ext[s].reader]
      BY <1>4, <2>1, <3>3, Zenon
    <3>5. Notes(s)'
      BY <1>2, <2>4, <3>1, <3>4, Zenon DEF Notes, NotesOf, ProxyOnly
    <3> QED
      BY <3>2, <3>5
  <2> QED
    BY <1>3, <2>2, <2>3, <2>5, <2>6 DEF ExtInv
<1>6. CASE ReloadSwap
  <2>1. /\ UNCHANGED <<closed, idle, numOpen, home, backend>>
        /\ writerPool \in closed /\ writerPool' = writerPool + 1
    BY <1>6 DEF ReloadSwap, poolVars
  <2>2. PoolTypes'
    <3>1. writerPool' \in WriterPools
      BY <1>1, <2>1, RelayAssumption DEF PoolTypes, WriterPools
    <3>2. \A p \in WriterPools : p < writerPool' => p \in closed
      BY <1>1, <2>1, RelayAssumption DEF PoolTypes, WriterPools
    <3> QED
      BY <1>1, <2>1, <3>1, <3>2 DEF PoolTypes
  <2>3. Places(InHands)' /\ Counted'
    BY <1>1, <1>3, <2>1, Zenon DEF ExtInv, Places, Counted, IdleHome, HomeOf, ProxyOnly
  <2>4. 1 .. writerPool \subseteq 1 .. writerPool'
    BY <1>1, <2>1, RelayAssumption DEF PoolTypes, WriterPools
  <2>5. ASSUME NEW s \in Sessions PROVE Hands(s)' /\ Notes(s)'
    <3>1. Hands(s) /\ Notes(s)
      BY <1>1
    <3>2. Hands(s)'
      BY <1>2, <2>4, <3>1, Zenon DEF Hands, HandsOf
    <3>3. Notes(s)'
      BY <1>2, <2>1, <3>1, Zenon DEF Notes, NotesOf, ProxyOnly
    <3> QED
      BY <3>2, <3>3
  <2> QED
    BY <1>3, <2>2, <2>3, <2>5 DEF ExtInv
<1> QED
  BY <1>5, <1>6

\* At the start nothing is open.
LEMMA ExtStart == ExtInit => ExtInv
<1> SUFFICES ASSUME ExtInit PROVE ExtInv
  OBVIOUS
<1>1. PoolTypes
  <2>1. Fresh \in BackendStates
    BY StatementsTyped, Zenon DEF Fresh, BackendStates
  <2> QED
    BY <2>1, RelayAssumption DEF ExtInit, Init, PoolTypes, WriterPools
<1>2. SessionTypes
  BY Blanks, ExtBlanks, Zenon DEF ExtInit, Init, SessionTypes
<1>3. /\ InHands = [s \in Sessions |-> {}]
      /\ home = [c \in Conns |-> NoPool] /\ idle = [p \in Pools |-> {}]
      /\ numOpen = [p \in Pools |-> 0]
  BY Blanks, ExtBlanks, Zenon DEF ExtInit, Init, InHands
<1>4. Places(InHands)
  BY <1>3 DEF Places
<1>5. Counted
  <2>1. IdleHome
    BY <1>3 DEF IdleHome
  <2>2. numOpen \in [Pools -> 0 .. MaxConnections]
    BY <1>3, RelayAssumption
  <2>3. ASSUME NEW p \in Pools PROVE Cardinality(HomeOf(p)) <= numOpen[p]
    <3>1. HomeOf(p) = {}
      BY <1>3, PoolNumbers DEF HomeOf
    <3> QED
      BY <1>3, <3>1, FS_EmptySet
  <2> QED
    BY <2>1, <2>2, <2>3 DEF Counted
<1>6. ASSUME NEW s \in Sessions PROVE Hands(s) /\ Notes(s)
  <2>1. /\ pc[s] = "gone" /\ bound[s] = NoConn /\ boundPool[s] = NoPool
        /\ job[s] = NoJob /\ ext[s] = NewExt /\ batch[s] = NoBatch
    BY DEF ExtInit, Init
  <2> QED
    BY <2>1, Blanks, ExtBlanks, Zenon DEF Hands, HandsOf, Notes, NotesOf
<1> QED
  BY <1>1, <1>2, <1>4, <1>5, <1>6 DEF ExtInv

\* Every step keeps ExtInv.
LEMMA ExtInductive == ExtInv /\ [ExtNext]_allVars => ExtInv'
<1> SUFFICES ASSUME ExtInv, [ExtNext]_allVars PROVE ExtInv'
  OBVIOUS
<1>1. CASE UNCHANGED allVars
  BY <1>1, IdleStepInv DEF allVars, vars
<1>2. ASSUME NEW s \in Sessions, ExtConnect(s) PROVE ExtInv'
  BY <1>2, ConnectInv
<1>3. ASSUME NEW s \in Sessions, NEW q \in Queries, ExtQuery(s, q) PROVE ExtInv'
  BY <1>3, QueryInv
<1>4. ASSUME NEW s \in Sessions, NEW msgs \in Batches, NEW choice \in {"reader", "writer"},
             Sync(s, msgs, choice)
      PROVE  ExtInv'
  BY <1>4, SyncInv
<1>5. ASSUME NEW s \in Sessions, RelayStep(s) PROVE ExtInv'
  BY <1>5, LocalInv, AcquireInv, ServeReadInv, ServeWriteInv, ReturnsInv, FailsInv, Zenon
     DEF RelayStep
<1>6. ASSUME NEW s \in Sessions, ExtStep(s) PROVE ExtInv'
  BY <1>6, LocalInv, AcquireInv, ServeReadInv, ServeBoundInv, FailsInv, ServeBatchInv, Zenon,
     DescribeInv, ReleaseReaderInv DEF ExtStep
<1>7. CASE (ReloadClose \/ ReloadSwap) /\ UNCHANGED extVars
  BY <1>7, ReloadExtInv
<1>8. ASSUME NEW mode \in AdminSwitches, Switch(mode), UNCHANGED extVars PROVE ExtInv'
  BY <1>8, IdleStepInv DEF Switch, poolVars, extVars
<1> QED
  BY <1>1, <1>2, <1>3, <1>4, <1>5, <1>6, <1>7, <1>8 DEF ExtNext

-----------------------------------------------------------------------------
(* Theorems *)

\* A backend connection serves one session at a time, in both protocols together, and none
\* while it is idle, whatever is sent, fails, is reset or reloaded: the acquire, bind,
\* release, reset and discard paths of query.go and query_extended.go.
THEOREM ExtOneHolderHolds == ExtSpec => []ExtOneHolder
<1>1. ExtInv => ExtOneHolder
  <2> SUFFICES ASSUME ExtInv PROVE ExtOneHolder
    OBVIOUS
  <2>1. Places(InHands)
    BY DEF ExtInv
  <2>2. ASSUME NEW s \in Sessions, NEW c \in Conns, ExtHolds(s, c) PROVE c \in InHands[s]
    BY <2>2, RelayAssumption DEF ExtHolds, Holds, InHands
  <2> QED
    BY <2>1, <2>2 DEF ExtOneHolder, Places
<1> QED
  BY <1>1, ExtStart, ExtInductive, PTL DEF ExtSpec

\* In proxy mode no pool counts more connections than it may have, or fewer than none: each
\* connection goes back to the pool that dialed it.  Pools and connections noted for a
\* session come and go together.
THEOREM ExtTypes ==
    ASSUME Modes \subseteq {"proxy"}
    PROVE  ExtSpec => []ExtTypeOK
<1>1. ExtInv => ExtTypeOK
  BY Zenon DEF ExtInv, PoolTypes, SessionTypes, Counted, ProxyOnly, Hands, HandsOf, ExtTypeOK
<1> QED
  BY <1>1, ExtStart, ExtInductive, PTL DEF ExtSpec

\* A batch that has a write in it, or a Bind of a statement the session does not know, runs on
\* a connection of the writer's, if a batch has no other Parse than its first message: the
\* routes query.go notes at Parse and looks up at Bind.  A later Parse would decide anew.
THEOREM WritesRunOnWriter ==
    ASSUME \A msgs \in Batches : OneParse(msgs)
    PROVE  ExtSpec => []WritesOnWriter
<1>1. ExtInit => WritesInv
  <2> SUFFICES ASSUME ExtInit, NEW s \in Sessions PROVE WriteOf(pc[s], job[s], ext[s], batch[s])
    BY DEF WritesInv
  <2>1. pc[s] = "gone" /\ ext[s] = NewExt /\ batch[s] = NoBatch
    BY DEF ExtInit, Init
  <2>2. NewExt.stmts = {} /\ ~NoBatch.isWrite
    BY DEF NewExt, NoBatch
  <2> QED
    BY <2>1, <2>2 DEF WriteOf, Routed
<1>2. ExtInv /\ WritesInv /\ [ExtNext]_allVars => WritesInv'
  <2> SUFFICES ASSUME ExtInv, WritesInv, [ExtNext]_allVars PROVE WritesInv'
    OBVIOUS
  <2>1. SessionTypes
    BY DEF ExtInv
  <2>2. ASSUME UNCHANGED <<pc, job, ext, batch>> PROVE WritesInv'
    BY <2>2, Zenon DEF WritesInv, WriteOf, Routed
  <2>3. ASSUME NEW s \in Sessions, NEW msgs \in Batches, NEW choice \in {"reader", "writer"},
               Sync(s, msgs, choice)
        PROVE  WritesInv'
    <3>1. msgs \in Seq(Messages) /\ OneParse(msgs)
      BY ExtendedAssumption
    <3> QED
      BY <2>3, <3>1, SyncWrites
  <2>4. ASSUME NEW s \in Sessions, RelayStep(s) \/ ExtStep(s) PROVE WritesInv'
    BY <2>1, <2>4, RelayStepWrites, ExtStepWrites
  <2>5. ASSUME NEW s \in Sessions, NEW q, ExtConnect(s) \/ ExtQuery(s, q) PROVE WritesInv'
    BY <2>5, QueryWrites
  <2>6. CASE UNCHANGED allVars
    BY <2>2, <2>6 DEF allVars, vars
  <2>7. CASE (ReloadClose \/ ReloadSwap \/ \E mode \in AdminSwitches : Switch(mode))
             /\ UNCHANGED extVars
    BY <2>2, <2>7 DEF ReloadClose, ReloadSwap, Switch, extVars
  <2> QED
    BY <2>3, <2>4, <2>5, <2>6, <2>7 DEF ExtNext
<1>3. WritesInv => WritesOnWriter
  BY DEF WritesInv, WriteOf, WritesOnWriter
<1> QED
  BY <1>1, <1>2, <1>3, ExtStart, ExtInductive, PTL DEF ExtSpec
=============================================================================
