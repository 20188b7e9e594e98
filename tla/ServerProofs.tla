--------------------------- MODULE ServerProofs -----------------------------
(***************************************************************************)
(* Proofs about the server for any clients, users, databases, backend      *)
(* connections and limits, and any number of mirror workers and edits of   *)
(* the configuration and any size of the buffers: of HandleConn, what the  *)
(* counters of the tracker say, that the limits are kept, and where cancel *)
(* requests go; of Shutdown, its safety properties.                        *)
(***************************************************************************)
EXTENDS HandleConn, Shutdown, FiniteSetTheorems, TLAPS

Trackers == [byUser : [Users -> Nat], byDB : [DBs -> Nat], limits : Limits]

\* The fields of a tracker are what its methods make of them.
TrackerOK == tracker # NoTracker => tracker \in Trackers

\* Only clients with a login are counted, and none before it is admitted.
CountedOK ==
    \A s \in Sessions :
        /\ counted[s] => login[s] \in Logins
        /\ at[s] \in {"none", "startup"} => ~counted[s]

\* A cancel target is set only while a query runs, and names the connection that
\* the session has then.
TargetOwn ==
    \A s \in Sessions :
        target[s] # NoConn => at[s] \in {"running", "answered"} /\ target[s] = held[s]

\* The types without those of the tracker.
Shape ==
    /\ at \in [Sessions -> Steps]
    /\ login \in [Sessions -> Logins \cup {NoLogin}]
    /\ counted \in [Sessions -> BOOLEAN]
    /\ held \in [Sessions -> Conns \cup {NoConn}]
    /\ target \in [Sessions -> Conns \cup {NoConn}]
    /\ timer \in [Sessions -> SUBSET {"armed", "firing"}]
    /\ maintenance \in BOOLEAN
    /\ cancels \in SUBSET (Sessions \X Conns)
    /\ replaced \in BOOLEAN

-----------------------------------------------------------------------------
(* Types and cancel targets *)

\* The sessions' types and the cancel targets do not depend on the tracker.
CancelInv == Shape /\ TargetOwn

\* In the initial state no session has a connection or a target.
LEMMA CancelInit == Init => CancelInv
  BY DEF Init, CancelInv, Shape, TargetOwn, Steps, Logins

\* Every step of handleConn, of its queries and of those who cancel them keeps the
\* target within the connection the session has.
LEMMA CancelStep == CancelInv /\ [Next]_vars => CancelInv'
  <1> SUFFICES ASSUME CancelInv, [Next]_vars PROVE CancelInv'
    OBVIOUS
  <1> USE DEF CancelInv, Shape, TargetOwn, Steps, Goto, sessionVars, queryVars
  <1>1. ASSUME NEW s \in Sessions,
               Accept(s) \/ StartupFails(s) \/ Authenticated(s) \/ AuthFails(s) \/ Unregister(s)
        PROVE  CancelInv'
    BY <1>1 DEF Accept, StartupFails, Authenticated, AuthFails, Unregister
  <1>2. ASSUME NEW s \in Sessions, NEW l \in Logins, Rejected(s, l) \/ Admitted(s, l)
        PROVE  CancelInv'
    <2>1. CASE Rejected(s, l)
      BY <2>1 DEF Rejected
    <2>2. CASE Admitted(s, l)
      <3>1. counted' \in [Sessions -> BOOLEAN]
        BY <2>2, Zenon DEF Admitted
      <3>2. /\ at' = [at EXCEPT ![s] = "auth"]
            /\ login' = [login EXCEPT ![s] = l]
            /\ at[s] = "startup"
            /\ UNCHANGED <<queryVars, maintenance, cancels, replaced>>
        BY <2>2 DEF Admitted
      <3> QED
        BY <3>1, <3>2
    <2> QED
      BY <1>2, <2>1, <2>2
  <1>3. ASSUME NEW s \in Sessions, Acquire(s) PROVE CancelInv'
    BY <1>3 DEF Acquire
  <1>4. ASSUME NEW s \in Sessions, Start(s) PROVE CancelInv'
    BY <1>4 DEF Start
  <1>5. ASSUME NEW s \in Sessions, StopTimer(s) \/ Clear(s) PROVE CancelInv'
    BY <1>5 DEF StopTimer, Clear
  <1>6. ASSUME NEW s \in Sessions, Finish(s) \/ Leave(s) PROVE CancelInv'
    BY <1>6 DEF Finish, Leave
  <1>7. ASSUME NEW s \in Sessions, Uncount(s) PROVE CancelInv'
    BY <1>7 DEF Uncount
  <1>8. ASSUME NEW s \in Sessions, NEW r \in Sessions, CancelRequest(r, s) PROVE CancelInv'
    BY <1>8 DEF CancelRequest, Forward
  <1>9. ASSUME NEW s \in Sessions, CancelSession(s) \/ TimerFires(s) \/ TimerSends(s)
        PROVE  CancelInv'
    BY <1>9 DEF CancelSession, TimerFires, TimerSends, Forward
  <1>10. ASSUME NEW x \in cancels, CancelArrives(x) PROVE CancelInv'
    BY <1>10 DEF CancelArrives
  <1>11. ASSUME NEW limits \in Limits \cup {NoTracker}, Reload(limits) PROVE CancelInv'
    BY <1>11 DEF Reload
  <1>12. CASE SetMaintenance
    BY <1>12 DEF SetMaintenance
  <1>13. CASE UNCHANGED vars
    BY <1>13 DEF vars
  <1> QED
    BY <1>1, <1>2, <1>3, <1>4, <1>5, <1>6, <1>7, <1>8, <1>9, <1>10, <1>11, <1>12, <1>13 DEF Next

\* Only the three ways to cancel send requests, each to the target it reads.
LEMMA CancelSent == CancelInv /\ [Next]_vars => \A x \in cancels' \ cancels : held[x[1]] = x[2]
  <1> SUFFICES ASSUME CancelInv, [Next]_vars, NEW x \in cancels' \ cancels
               PROVE  held[x[1]] = x[2]
    OBVIOUS
  <1>1. \E s \in Sessions : Forward(s)
    BY DEF Next, vars, Accept, StartupFails, Authenticated, AuthFails, Unregister, Rejected, Admitted,
           Acquire, Start, StopTimer, Clear, Finish, Leave, Uncount, CancelRequest, CancelSession,
           TimerFires, TimerSends, CancelArrives, Reload, SetMaintenance
  <1>2. PICK s \in Sessions : Forward(s)
    BY <1>1
  <1>3. target[s] # NoConn /\ x = <<s, target[s]>>
    BY <1>2 DEF Forward
  <1> QED
    BY <1>3 DEF CancelInv, TargetOwn

\* A cancel request of a client, of the admin API or of a late query timer is
\* forwarded to a connection the client has at that time (cancel.go, session.go,
\* helpers.go), for any number of sessions and connections.
THEOREM CancelsForwardedToOwn == Spec => CancelsOwn
  <1>1. CancelInv /\ [Next]_vars => [\A x \in cancels' \ cancels : held[x[1]] = x[2]]_vars
    BY CancelSent
  <1> QED
    BY CancelInit, CancelStep, <1>1, PTL DEF Spec, CancelsOwn
-----------------------------------------------------------------------------
(* The methods of the tracker *)

\* A new tracker counts nothing.
LEMMA NewTracker ==
  ASSUME NEW l \in Limits
  PROVE  /\ NewConnTracker(l) \in Trackers
         /\ NewConnTracker(l).byUser = [u \in Users |-> 0]
         /\ NewConnTracker(l).byDB = [d \in DBs |-> 0]
  BY DEF NewConnTracker, Trackers

\* UpdateLimits keeps the counters.
LEMMA LimitsUpdated ==
  ASSUME NEW t \in Trackers, NEW l \in Limits
  PROVE  /\ UpdateLimits(t, l) \in Trackers
         /\ UpdateLimits(t, l).byUser = t.byUser
         /\ UpdateLimits(t, l).byDB = t.byDB
  BY DEF UpdateLimits, Trackers

\* TryAcquire counts the user and the database, and nobody else.
LEMMA AcquireCounts ==
  ASSUME NEW t \in Trackers, NEW u \in Users, NEW d \in DBs
  PROVE  /\ Acquired(t, u, d) \in Trackers
         /\ Acquired(t, u, d).byUser = [t.byUser EXCEPT ![u] = @ + 1]
         /\ Acquired(t, u, d).byDB = [t.byDB EXCEPT ![d] = @ + 1]
  <1>1. /\ [t.byUser EXCEPT ![u] = @ + 1] \in [Users -> Nat]
        /\ [t.byDB EXCEPT ![d] = @ + 1] \in [DBs -> Nat]
        /\ t.limits \in Limits
    BY SMT DEF Trackers
  <1> QED
    BY <1>1 DEF Acquired, Trackers

\* Release takes back one of each, down to zero.
LEMMA ReleaseCounts ==
  ASSUME NEW t \in Trackers, NEW u \in Users, NEW d \in DBs
  PROVE  /\ Release(t, u, d) \in Trackers
         /\ Release(t, u, d).byUser = [t.byUser EXCEPT ![u] = IF @ > 0 THEN @ - 1 ELSE @]
         /\ Release(t, u, d).byDB = [t.byDB EXCEPT ![d] = IF @ > 0 THEN @ - 1 ELSE @]
  <1>1. /\ [t.byUser EXCEPT ![u] = IF @ > 0 THEN @ - 1 ELSE @] \in [Users -> Nat]
        /\ [t.byDB EXCEPT ![d] = IF @ > 0 THEN @ - 1 ELSE @] \in [DBs -> Nat]
        /\ t.limits \in Limits
    BY SMT DEF Trackers
  <1> QED
    BY <1>1 DEF Release, Trackers

-----------------------------------------------------------------------------
(* Counting *)

\* The clients of a user or of a database are finitely many.
LEMMA Counts ==
  /\ \A u : IsFiniteSet(OfUser(u)) /\ Cardinality(OfUser(u)) \in Nat
  /\ \A d : IsFiniteSet(OfDB(d)) /\ Cardinality(OfDB(d)) \in Nat
  BY HandleConnAssumption, FS_Subset, FS_CardinalityType, Zenon DEF OfUser, OfDB

\* What the counters are, by induction.
CountInv == TrackerOK /\ CountedOK /\ CountsExact /\ NeverOvercounted

\* In the initial state nobody is counted.
LEMMA CountInit == Init => CountInv
  <1> SUFFICES ASSUME Init PROVE CountInv
    OBVIOUS
  <1>1. TrackerOK
    BY NewTracker DEF Init, TrackerOK
  <1>2. CountedOK
    BY DEF Init, CountedOK
  <1>3. \A u : OfUser(u) = {}
    BY DEF Init, OfUser
  <1>4. \A d : OfDB(d) = {}
    BY DEF Init, OfDB
  <1>5. tracker # NoTracker => /\ \A u \in Users : tracker.byUser[u] = 0
                               /\ \A d \in DBs : tracker.byDB[d] = 0
    BY NewTracker DEF Init
  <1>6. Cardinality({}) = 0
    BY FS_EmptySet
  <1>7. CountsExact
    BY <1>3, <1>4, <1>5, <1>6 DEF CountsExact
  <1>8. NeverOvercounted
    BY <1>3, <1>4, <1>5, <1>6 DEF NeverOvercounted
  <1> QED
    BY <1>1, <1>2, <1>7, <1>8 DEF CountInv

\* A step that neither counts nor uncounts a client.
LEMMA CountSame ==
  ASSUME CountInv, UNCHANGED <<login, counted, tracker, replaced>>,
         \A s \in Sessions : at'[s] \in {"none", "startup"} => ~counted[s]
  PROVE  CountInv'
  <1>1. \A u : OfUser(u)' = OfUser(u)
    BY DEF OfUser
  <1>2. \A d : OfDB(d)' = OfDB(d)
    BY DEF OfDB
  <1>3. CountedOK'
    BY DEF CountInv, CountedOK
  <1>4. TrackerOK'
    BY DEF CountInv, TrackerOK
  <1>5. CountsExact' /\ NeverOvercounted'
    BY <1>1, <1>2 DEF CountInv, CountsExact, NeverOvercounted
  <1> QED
    BY <1>3, <1>4, <1>5 DEF CountInv

\* TryAcquire counts a client that was not counted.
LEMMA CountAdmitted ==
  ASSUME CancelInv, CountInv, NEW s \in Sessions, NEW l \in Logins, Admitted(s, l)
  PROVE  CountInv'
  <1>1. /\ ~counted[s]
        /\ at \in [Sessions -> Steps] /\ at' = [at EXCEPT ![s] = "auth"]
        /\ login \in [Sessions -> Logins \cup {NoLogin}] /\ login' = [login EXCEPT ![s] = l]
        /\ counted \in [Sessions -> BOOLEAN]
        /\ UNCHANGED replaced
    BY DEF CancelInv, Shape, CountInv, CountedOK, Admitted, Goto
  <1>2. counted' = [counted EXCEPT ![s] = tracker # NoTracker]
    BY DEF Admitted
  <1>3. \A r \in Sessions : r # s => /\ counted'[r] = counted[r]
                                     /\ login'[r] = login[r]
                                     /\ at'[r] = at[r]
    BY <1>1, <1>2
  <1>4. counted'[s] = (tracker # NoTracker) /\ login'[s] = l /\ at'[s] = "auth"
    BY <1>1, <1>2, Zenon
  <1>5. CountedOK'
    BY <1>3, <1>4 DEF CountInv, CountedOK
  <1>6. CASE tracker = NoTracker
    <2>1. tracker' = NoTracker
      BY <1>6 DEF Admitted
    <2> QED
      BY <2>1, <1>5 DEF CountInv, TrackerOK, CountsExact, NeverOvercounted
  <1>7. CASE tracker # NoTracker
    <2>1. l.user \in Users /\ l.db \in DBs
      BY DEF Logins
    <2>2. tracker \in Trackers
      BY <1>7 DEF CountInv, TrackerOK
    <2>3. tracker' = Acquired(tracker, l.user, l.db)
      BY <1>7 DEF Admitted
    <2>4. /\ tracker' \in Trackers
          /\ tracker'.byUser = [tracker.byUser EXCEPT ![l.user] = @ + 1]
          /\ tracker'.byDB = [tracker.byDB EXCEPT ![l.db] = @ + 1]
      BY <2>1, <2>2, <2>3, AcquireCounts
    <2>5. \A u : OfUser(u)' = IF u = l.user THEN OfUser(u) \cup {s} ELSE OfUser(u)
      BY <1>1, <1>3, <1>4, <1>7 DEF OfUser
    <2>6. \A d : OfDB(d)' = IF d = l.db THEN OfDB(d) \cup {s} ELSE OfDB(d)
      BY <1>1, <1>3, <1>4, <1>7 DEF OfDB
    <2>7. \A u : s \notin OfUser(u)
      BY <1>1 DEF OfUser
    <2>8. \A d : s \notin OfDB(d)
      BY <1>1 DEF OfDB
    <2>9. \A u : Cardinality(OfUser(u)') = Cardinality(OfUser(u)) + (IF u = l.user THEN 1 ELSE 0)
      BY <2>5, <2>7, Counts, FS_AddElement
    <2>10. \A d : Cardinality(OfDB(d)') = Cardinality(OfDB(d)) + (IF d = l.db THEN 1 ELSE 0)
      BY <2>6, <2>8, Counts, FS_AddElement
    <2>11. \A u \in Users : tracker'.byUser[u] = tracker.byUser[u] + (IF u = l.user THEN 1 ELSE 0)
      BY <2>2, <2>4 DEF Trackers
    <2>12. \A d \in DBs : tracker'.byDB[d] = tracker.byDB[d] + (IF d = l.db THEN 1 ELSE 0)
      BY <2>2, <2>4 DEF Trackers
    <2>13. CountsExact'
      BY <1>1, <1>7, <2>9, <2>10, <2>11, <2>12 DEF CountInv, CountsExact
    <2>14. /\ \A u \in Users : tracker.byUser[u] \in Nat
           /\ \A d \in DBs : tracker.byDB[d] \in Nat
      BY <2>2 DEF Trackers
    <2>15. NeverOvercounted'
      BY <1>7, <2>9, <2>10, <2>11, <2>12, <2>14, Counts DEF CountInv, NeverOvercounted
    <2> QED
      BY <1>5, <2>4, <2>13, <2>15 DEF CountInv, TrackerOK
  <1> QED
    BY <1>6, <1>7

\* The deferred Release takes a client out of the count, if it was in it.
LEMMA CountUncounted ==
  ASSUME CancelInv, CountInv, NEW s \in Sessions, Uncount(s)
  PROVE  CountInv'
  <1>1. /\ at \in [Sessions -> Steps] /\ at' = [at EXCEPT ![s] = "none"]
        /\ login \in [Sessions -> Logins \cup {NoLogin}] /\ login' = [login EXCEPT ![s] = NoLogin]
        /\ counted \in [Sessions -> BOOLEAN] /\ counted' = [counted EXCEPT ![s] = FALSE]
        /\ UNCHANGED replaced
    BY DEF CancelInv, Shape, Uncount, Goto
  <1>2. \A r \in Sessions : r # s => /\ counted'[r] = counted[r]
                                     /\ login'[r] = login[r]
                                     /\ at'[r] = at[r]
    BY <1>1
  <1>3. ~counted'[s]
    BY <1>1
  <1>4. CountedOK'
    BY <1>2, <1>3 DEF CountInv, CountedOK
  <1>5. \A u : OfUser(u)' = OfUser(u) \ {s}
    BY <1>2, <1>3 DEF OfUser
  <1>6. \A d : OfDB(d)' = OfDB(d) \ {s}
    BY <1>2, <1>3 DEF OfDB
  <1>7. CASE tracker = NoTracker
    <2>1. tracker' = NoTracker
      BY <1>7 DEF Uncount
    <2> QED
      BY <2>1, <1>4 DEF CountInv, TrackerOK, CountsExact, NeverOvercounted
  <1>8. CASE tracker # NoTracker /\ ~counted[s]
    <2>1. tracker' = tracker
      BY <1>8 DEF Uncount
    <2>2. /\ \A u : OfUser(u)' = OfUser(u)
          /\ \A d : OfDB(d)' = OfDB(d)
      BY <1>5, <1>6, <1>8 DEF OfUser, OfDB
    <2> QED
      BY <1>1, <1>4, <2>1, <2>2 DEF CountInv, TrackerOK, CountsExact, NeverOvercounted
  <1>9. CASE tracker # NoTracker /\ counted[s]
    <2> DEFINE u0 == login[s].user
               d0 == login[s].db
    <2>1. u0 \in Users /\ d0 \in DBs
      BY <1>9 DEF CountInv, CountedOK, Logins
    <2>2. tracker \in Trackers
      BY <1>9 DEF CountInv, TrackerOK
    <2>3. tracker' = Release(tracker, u0, d0)
      BY <1>9 DEF Uncount
    <2> HIDE DEF u0, d0
    <2>4. /\ tracker' \in Trackers
          /\ tracker'.byUser = [tracker.byUser EXCEPT ![u0] = IF @ > 0 THEN @ - 1 ELSE @]
          /\ tracker'.byDB = [tracker.byDB EXCEPT ![d0] = IF @ > 0 THEN @ - 1 ELSE @]
      BY <2>1, <2>2, <2>3, ReleaseCounts
    <2>5. \A u : s \in OfUser(u) <=> u = u0
      BY <1>9 DEF OfUser, u0
    <2>6. \A d : s \in OfDB(d) <=> d = d0
      BY <1>9 DEF OfDB, d0
    <2>7. \A u : Cardinality(OfUser(u)') = Cardinality(OfUser(u)) - (IF u = u0 THEN 1 ELSE 0)
      BY <1>5, <2>5, Counts, FS_RemoveElement
    <2>8. \A d : Cardinality(OfDB(d)') = Cardinality(OfDB(d)) - (IF d = d0 THEN 1 ELSE 0)
      BY <1>6, <2>6, Counts, FS_RemoveElement
    <2>9. Cardinality(OfUser(u0)) > 0 /\ Cardinality(OfDB(d0)) > 0
      <3>1. OfUser(u0) # {} /\ OfDB(d0) # {}
        BY <2>5, <2>6
      <3> QED
        BY <3>1, Counts, FS_EmptySet
    <2>10. /\ \A u \in Users : tracker.byUser[u] \in Nat
           /\ \A d \in DBs : tracker.byDB[d] \in Nat
      BY <2>2 DEF Trackers
    <2>11. \A u \in Users : tracker'.byUser[u] =
                IF u = u0 /\ tracker.byUser[u] > 0 THEN tracker.byUser[u] - 1 ELSE tracker.byUser[u]
      BY <2>2, <2>4 DEF Trackers
    <2>12. \A d \in DBs : tracker'.byDB[d] =
                IF d = d0 /\ tracker.byDB[d] > 0 THEN tracker.byDB[d] - 1 ELSE tracker.byDB[d]
      BY <2>2, <2>4 DEF Trackers
    <2>13. CountsExact'
      BY <1>1, <1>9, <2>7, <2>8, <2>9, <2>10, <2>11, <2>12, Counts DEF CountInv, CountsExact
    <2>14. NeverOvercounted'
      BY <1>9, <2>7, <2>8, <2>9, <2>10, <2>11, <2>12, Counts DEF CountInv, NeverOvercounted
    <2> QED
      BY <1>4, <2>4, <2>13, <2>14 DEF CountInv, TrackerOK
  <1> QED
    BY <1>7, <1>8, <1>9

\* A reload keeps the counters, forgets them with the tracker, or starts anew.
LEMMA CountReloaded ==
  ASSUME CancelInv, CountInv, NEW limits \in Limits \cup {NoTracker}, Reload(limits)
  PROVE  CountInv'
  <1>1. UNCHANGED <<at, login, counted>>
    BY DEF Reload, sessionVars
  <1>2. /\ \A u : OfUser(u)' = OfUser(u)
        /\ \A d : OfDB(d)' = OfDB(d)
    BY <1>1 DEF OfUser, OfDB
  <1>3. CountedOK'
    BY <1>1 DEF CountInv, CountedOK
  <1>4. CASE limits = NoTracker
    <2>1. tracker' = NoTracker
      BY <1>4 DEF Reload
    <2> QED
      BY <2>1, <1>3 DEF CountInv, TrackerOK, CountsExact, NeverOvercounted
  <1>5. CASE limits # NoTracker /\ tracker = NoTracker
    <2>1. tracker' = NewConnTracker(limits) /\ limits \in Limits
      BY <1>5 DEF Reload
    <2>2. replaced'
      BY <1>5, Zenon DEF Reload
    <2>3. /\ tracker' \in Trackers
          /\ \A u \in Users : tracker'.byUser[u] = 0
          /\ \A d \in DBs : tracker'.byDB[d] = 0
      BY <2>1, NewTracker
    <2>4. NeverOvercounted'
      BY <1>2, <2>3, Counts DEF NeverOvercounted
    <2> QED
      BY <1>3, <2>2, <2>3, <2>4 DEF CountInv, TrackerOK, CountsExact
  <1>6. CASE limits # NoTracker /\ tracker # NoTracker
    <2>1. tracker' = UpdateLimits(tracker, limits) /\ limits \in Limits
      BY <1>6 DEF Reload
    <2>2. ~replaced' => ~replaced
      BY Zenon DEF Reload
    <2>3. tracker \in Trackers
      BY <1>6 DEF CountInv, TrackerOK
    <2>4. /\ tracker' \in Trackers
          /\ tracker'.byUser = tracker.byUser
          /\ tracker'.byDB = tracker.byDB
      BY <2>1, <2>3, LimitsUpdated
    <2>5. CountsExact' /\ NeverOvercounted'
      BY <1>2, <1>6, <2>2, <2>4 DEF CountInv, CountsExact, NeverOvercounted
    <2> QED
      BY <1>3, <2>4, <2>5 DEF CountInv, TrackerOK
  <1> QED
    BY <1>4, <1>5, <1>6

\* Every step keeps the counters right.
LEMMA CountStep == CancelInv /\ CountInv /\ [Next]_vars => CountInv'
  <1> SUFFICES ASSUME CancelInv, CountInv, [Next]_vars PROVE CountInv'
    OBVIOUS
  <1>1. \A s \in Sessions : at[s] \in {"none", "startup"} => ~counted[s]
    BY DEF CountInv, CountedOK
  <1>2. at \in [Sessions -> Steps]
    BY DEF CancelInv, Shape
  <1>3. ASSUME NEW s \in Sessions,
               \/ Accept(s) \/ StartupFails(s) \/ Authenticated(s) \/ AuthFails(s)
               \/ Acquire(s) \/ Start(s) \/ StopTimer(s) \/ Clear(s) \/ Finish(s)
               \/ Leave(s) \/ Unregister(s)
               \/ \E l \in Logins : Rejected(s, l)
               \/ \E r \in Sessions : CancelRequest(s, r)
        PROVE  CountInv'
    <2>1. UNCHANGED <<login, counted, tracker, replaced>>
      BY <1>3 DEF Accept, StartupFails, Authenticated, AuthFails, Acquire, Start, StopTimer, Clear,
                  Finish, Leave, Unregister, Rejected, CancelRequest
    <2>2. \E step \in Steps : /\ at' = [at EXCEPT ![s] = step]
                              /\ step \in {"none", "startup"} => at[s] \in {"none", "startup"}
      BY <1>3 DEF Accept, StartupFails, Authenticated, AuthFails, Acquire, Start, StopTimer, Clear,
                  Finish, Leave, Unregister, Rejected, CancelRequest, Goto, Steps
    <2>3. \A r \in Sessions : at'[r] \in {"none", "startup"} => ~counted[r]
      <3>1. PICK step \in Steps : /\ at' = [at EXCEPT ![s] = step]
                                  /\ step \in {"none", "startup"} => at[s] \in {"none", "startup"}
        BY <2>2
      <3>2. \A r \in Sessions : at'[r] = IF r = s THEN step ELSE at[r]
        BY <1>2, <3>1
      <3> QED
        BY <1>1, <3>1, <3>2
    <2> QED
      BY <2>1, <2>3, CountSame
  <1>4. ASSUME NEW s \in Sessions, CancelSession(s) \/ TimerFires(s) \/ TimerSends(s)
        PROVE  CountInv'
    <2>1. UNCHANGED <<at, login, counted, tracker, replaced>>
      BY <1>4 DEF CancelSession, TimerFires, TimerSends, sessionVars
    <2> QED
      BY <1>1, <2>1, CountSame
  <1>5. ASSUME (\E x \in cancels : CancelArrives(x)) \/ SetMaintenance \/ UNCHANGED vars
        PROVE  CountInv'
    <2>1. UNCHANGED <<at, login, counted, tracker, replaced>>
      BY <1>5 DEF CancelArrives, SetMaintenance, vars, sessionVars
    <2> QED
      BY <1>1, <2>1, CountSame
  <1>6. ASSUME NEW s \in Sessions, NEW l \in Logins, Admitted(s, l) PROVE CountInv'
    BY <1>6, CountAdmitted
  <1>7. ASSUME NEW s \in Sessions, Uncount(s) PROVE CountInv'
    BY <1>7, CountUncounted
  <1>8. ASSUME NEW limits \in Limits \cup {NoTracker}, Reload(limits) PROVE CountInv'
    BY <1>8, CountReloaded
  <1> QED
    BY <1>3, <1>4, <1>5, <1>6, <1>7, <1>8, Zenon DEF Next

\* Both invariants hold in every reachable state.
THEOREM SessionInvariance == Spec => [](CancelInv /\ CountInv)
  BY CancelInit, CancelStep, CountInit, CountStep, PTL DEF Spec

\* Types; in particular the clamped counters are never negative.
THEOREM TypeCorrect == Spec => []TypeOK
  <1>1. CancelInv /\ CountInv => TypeOK
    BY DEF CancelInv, CountInv, Shape, TrackerOK, Trackers, TypeOK
  <1> QED
    BY <1>1, SessionInvariance, PTL

\* However clients come, are rejected and leave while limits are reloaded, the
\* tracker counts exactly the clients it admitted (connlimit.go, handleConn).
THEOREM ConnectionsCounted == Spec => []CountsExact
  BY SessionInvariance, PTL DEF CountInv

\* No user or database is charged for connections that are gone, even after the
\* limits were switched off and on.
THEOREM NobodyOvercharged == Spec => []NeverOvercounted
  BY SessionInvariance, PTL DEF CountInv

\* A client is admitted only if the clients there are leave room within the limits.
THEOREM LimitsKept == Spec => LimitsRespected
  <1> DEFINE Kept ==
        \A s \in Sessions :
            at[s] = "startup" /\ at'[s] = "auth" /\ tracker # NoTracker /\ ~replaced =>
                /\ Room(tracker.limits.user, login'[s].user, Cardinality(OfUser(login'[s].user)))
                /\ Room(tracker.limits.db, login'[s].db, Cardinality(OfDB(login'[s].db)))
  <1>1. CancelInv /\ CountInv /\ Next => Kept
    <2> SUFFICES ASSUME CancelInv, CountInv, Next, NEW s \in Sessions,
                        at[s] = "startup", at'[s] = "auth", tracker # NoTracker, ~replaced
                 PROVE  /\ Room(tracker.limits.user, login'[s].user,
                                Cardinality(OfUser(login'[s].user)))
                        /\ Room(tracker.limits.db, login'[s].db, Cardinality(OfDB(login'[s].db)))
      OBVIOUS
    <2>1. at \in [Sessions -> Steps] /\ login \in [Sessions -> Logins \cup {NoLogin}]
      BY DEF CancelInv, Shape
    <2>2. \E l \in Logins : Admitted(s, l)
      BY <2>1 DEF Next, Accept, StartupFails, Authenticated, AuthFails, Acquire, Start, StopTimer,
                  Clear, Finish, Leave, Unregister, Rejected, Admitted, CancelRequest, Uncount,
                  CancelSession, TimerFires, TimerSends, CancelArrives, SetMaintenance, Reload,
                  Goto, sessionVars
    <2>3. PICK l \in Logins : Admitted(s, l)
      BY <2>2
    <2>4. TryAcquire(tracker, l.user, l.db) /\ login'[s] = l /\ l.user \in Users /\ l.db \in DBs
      BY <2>1, <2>3 DEF Admitted, Logins
    <2>5. /\ tracker.byUser[l.user] = Cardinality(OfUser(l.user))
          /\ tracker.byDB[l.db] = Cardinality(OfDB(l.db))
      BY <2>4 DEF CountInv, CountsExact
    <2> QED
      BY <2>4, <2>5 DEF TryAcquire
  <1>2. CancelInv /\ CountInv /\ [Next]_vars => [Kept]_vars
    BY <1>1
  <1> QED
    BY <1>2, SessionInvariance, PTL DEF Spec, LimitsRespected

-----------------------------------------------------------------------------
(* Shutdown *)

\* The clients whose goroutines run.
Serving == {s \in Clients : client[s] # "none"}

Draining == {"accept", "cancelled", "wait"}

\* s.wg counts the goroutines, which is what makes the wait of Start one for them.
DrainInv ==
    /\ client \in [Clients -> {"none", "read", "query", "loop"}]
    /\ wg = Cardinality(Serving)
    /\ DrainedFirst

\* The logger stops only after the drain, and what stops it is seen in order.
AuditInv ==
    /\ stopCh => phase \notin Draining \cup {"pools", "invalidator", "audit"}
    /\ processing # "select" => stopCh
    /\ ~forced /\ processing = "returned" => eventCh = 0

\* The pool is closed after the workers have returned, which is for good.
MirrorInv ==
    /\ worker \in [Workers -> {"select", "execute", "returned"}]
    /\ mirrorPool = "closed" => WorkersReturned

-----------------------------------------------------------------------------
(* Clients *)

\* The clients being served are finitely many.
LEMMA ServingFinite == IsFiniteSet(Serving)
  BY ShutdownAssumption, FS_Subset DEF Serving

\* Accept adds a goroutine and counts it.
LEMMA DrainAccept == ASSUME DrainInv, NEW s \in Clients, AcceptClient(s) PROVE DrainInv'
  <1> USE DEF DrainInv
  <1>1. client' = [client EXCEPT ![s] = "read"] /\ client[s] = "none" /\ wg' = wg + 1
        /\ phase \in {"accept", "cancelled"} /\ UNCHANGED <<phase, forced>>
    BY DEF AcceptClient, ClientAt
  <1>2. Serving' = Serving \cup {s} /\ s \notin Serving
    BY <1>1 DEF Serving
  <1>3. Cardinality(Serving') = Cardinality(Serving) + 1
    BY <1>2, ServingFinite, FS_AddElement
  <1> QED
    BY <1>1, <1>3 DEF DrainedFirst

\* A goroutine that returns is not counted any more.
LEMMA DrainReturn == ASSUME DrainInv, NEW s \in Clients, Return(s) PROVE DrainInv'
  <1> USE DEF DrainInv
  <1>1. client' = [client EXCEPT ![s] = "none"] /\ client[s] # "none" /\ wg' = wg - 1
        /\ UNCHANGED <<phase, forced>>
    BY DEF Return, ClientAt
  <1>2. Serving' = Serving \ {s} /\ s \in Serving
    BY <1>1 DEF Serving
  <1>3. Cardinality(Serving') = Cardinality(Serving) - 1
    BY <1>2, ServingFinite, FS_RemoveElement
  <1> QED
    BY <1>1, <1>3 DEF DrainedFirst

\* A query, its report and the head of the loop leave a goroutine running.
LEMMA DrainServes ==
    ASSUME DrainInv, NEW s \in Clients, Query(s) \/ Report(s) \/ NoReport(s) \/ Loop(s)
    PROVE  DrainInv'
  <1> USE DEF DrainInv
  <1>1. PICK step \in {"read", "query", "loop"} : client' = [client EXCEPT ![s] = step]
    BY DEF Query, Report, NoReport, Loop, ClientAt
  <1>2. client[s] # "none" /\ UNCHANGED <<wg, phase, forced>>
    BY DEF Query, Report, NoReport, Loop
  <1>3. Serving' = Serving
    BY <1>1, <1>2 DEF Serving
  <1> QED
    BY <1>1, <1>2, <1>3 DEF DrainedFirst

\* Start goes on from its wait when the count is zero, or else is forced to.
LEMMA DrainStart == ASSUME DrainInv, Signal \/ StartStep PROVE DrainInv'
  <1> USE DEF DrainInv
  <1>1. UNCHANGED <<client, wg>>
    BY DEF Signal, StartStep, AcceptFails, Drained, TimedOut, ClosePools, CloseAudit, CloseMirror
  <1>2. DrainedFirst'
    <2>1. CASE Drained
      <3>1. Serving = {}
        BY <2>1, ServingFinite, FS_EmptySet DEF Drained
      <3> QED
        BY <1>1, <3>1 DEF Serving, DrainedFirst
    <2>2. CASE TimedOut
      BY <2>2 DEF TimedOut, DrainedFirst
    <2>3. CASE Signal \/ AcceptFails \/ ClosePools \/ CloseAudit \/ CloseMirror
      BY <1>1, <2>3 DEF Signal, AcceptFails, ClosePools, CloseAudit, CloseMirror, Advance, DrainedFirst
    <2> QED
      BY <2>1, <2>2, <2>3 DEF StartStep
  <1> QED
    BY <1>1, <1>2 DEF Serving

\* The wait group is exact and nobody is served after the drain.
LEMMA DrainStep == DrainInv /\ [StartNext]_serverVars => DrainInv'
  <1> SUFFICES ASSUME DrainInv, [StartNext]_serverVars PROVE DrainInv'
    OBVIOUS
  <1>1. CASE \E s \in Clients :
                AcceptClient(s) \/ Query(s) \/ Report(s) \/ NoReport(s) \/ Loop(s) \/ Return(s)
    BY <1>1, DrainAccept, DrainReturn, DrainServes
  <1>2. CASE Signal \/ StartStep
    BY <1>2, DrainStart
  <1>3. CASE AuditRuns \/ MirrorRuns \/ Edit \/ Watch \/ Hangup \/ UNCHANGED serverVars
    <2>1. UNCHANGED <<phase, client, wg, forced>>
      BY <1>3 DEF AuditRuns, MirrorRuns, Edit, Watch, Hangup, Rest, serverVars
    <2> QED
      BY <2>1 DEF DrainInv, DrainedFirst, Serving
  <1> QED
    BY <1>1, <1>2, <1>3 DEF StartNext

\* At the start nobody is served.
LEMMA DrainInitially == StartInit => DrainInv
  <1> SUFFICES ASSUME StartInit PROVE DrainInv
    OBVIOUS
  <1>1. Serving = {}
    BY DEF StartInit, Serving
  <1> QED
    BY <1>1, FS_EmptySet DEF StartInit, DrainInv, DrainedFirst

\* "all client connections drained" (server.go): unless the timeout has passed no
\* client is being served when the pools are closed, for any number of clients.
THEOREM ClientsDrained == StartSpec => []DrainedFirst
  BY DrainInitially, DrainStep, PTL DEF StartSpec, DrainInv

-----------------------------------------------------------------------------
(* The audit logger *)

\* After the drain no event is logged any more, so an empty channel stays empty.
LEMMA AuditStays == DrainInv /\ AuditInv /\ [StartNext]_serverVars => AuditInv'
  <1> SUFFICES ASSUME DrainInv, AuditInv, [StartNext]_serverVars PROVE AuditInv'
    OBVIOUS
  <1> USE DEF AuditInv, Draining
  <1>1. ASSUME NEW s \in Clients, Report(s) PROVE AuditInv'
    <2>1. forced \/ phase \in Draining
      BY <1>1 DEF Report, DrainInv, DrainedFirst
    <2>2. UNCHANGED <<stopCh, processing, phase, forced>>
      BY <1>1 DEF Report
    <2> QED
      BY <2>1, <2>2
  <1>2. ASSUME NEW s \in Clients,
               AcceptClient(s) \/ Query(s) \/ NoReport(s) \/ Loop(s) \/ Return(s)
        PROVE  AuditInv'
    BY <1>2 DEF AcceptClient, Query, NoReport, Loop, Return, auditVars
  <1>3. CASE Signal \/ AcceptFails \/ Drained \/ TimedOut \/ ClosePools
    BY <1>3 DEF Signal, AcceptFails, Drained, TimedOut, ClosePools, Advance, auditVars
  <1>4. CASE CloseAudit
    BY <1>4 DEF CloseAudit, Advance, auditVars
  <1>5. CASE CloseMirror
    BY <1>5 DEF CloseMirror, Advance, auditVars
  <1>6. CASE AuditRuns
    BY <1>6 DEF AuditRuns, AuditStep, HandleEvent, ProcessStop, ProcessReturn, TidyReturn, WebhookReturn
  <1>7. CASE MirrorRuns \/ Edit \/ Watch \/ Hangup \/ UNCHANGED serverVars
    BY <1>7 DEF MirrorRuns, Edit, Watch, Hangup, Rest, serverVars, auditVars
  <1> QED
    BY <1>1, <1>2, <1>3, <1>4, <1>5, <1>6, <1>7 DEF StartNext, StartStep

\* "Close stops the audit logger and waits for pending events to drain" (audit.go):
\* a shutdown that was not forced leaves no accepted event, whatever the buffer.
THEOREM AuditDrained == StartSpec => []AuditComplete
  <1>1. StartInit => DrainInv
    BY DrainInitially
  <1>2. StartInit => AuditInv
    BY DEF StartInit, AuditInit, AuditInv, Draining
  <1>3. AuditInv => AuditComplete
    BY DEF AuditInv, AuditComplete, AuditStopped
  <1> QED
    BY <1>1, <1>2, <1>3, DrainStep, AuditStays, PTL DEF StartSpec

-----------------------------------------------------------------------------
(* The mirror *)

\* Jobs are taken by workers that have not returned.
LEMMA MirrorStays == MirrorInv /\ [StartNext]_serverVars => MirrorInv'
  <1> SUFFICES ASSUME MirrorInv, [StartNext]_serverVars PROVE MirrorInv'
    OBVIOUS
  <1> USE DEF MirrorInv, WorkersReturned
  <1>1. CASE MirrorRuns
    BY <1>1 DEF MirrorRuns, MirrorStep, WorkerTakes, WorkerFinishes, WorkerReturns
  <1>2. CASE CloseMirror
    BY <1>2 DEF CloseMirror
  <1>3. CASE UNCHANGED <<worker, mirrorPool>>
    BY <1>3
  <1>4. MirrorRuns \/ CloseMirror \/ UNCHANGED <<worker, mirrorPool>>
    BY DEF StartNext, AcceptClient, Query, Report, NoReport, Loop, Return, Signal, StartStep, AcceptFails, Drained,
           TimedOut, ClosePools, CloseAudit, AuditRuns, Edit, Watch, Hangup, Rest, serverVars, mirrorVars
  <1> QED
    BY <1>1, <1>2, <1>3, <1>4

\* Mirror.Close closes the pool when no worker has a connection of it, for any
\* number of workers.
THEOREM MirrorPoolLast == StartSpec => []MirrorPoolUnused
  <1>1. StartInit => MirrorInv
    BY DEF StartInit, MirrorInit, MirrorInv, WorkersReturned
  <1>2. MirrorInv => MirrorPoolUnused
    BY DEF MirrorInv, WorkersReturned, MirrorPoolUnused
  <1> QED
    BY <1>1, <1>2, MirrorStays, PTL DEF StartSpec
=============================================================================
