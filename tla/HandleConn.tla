----------------------------- MODULE HandleConn -----------------------------
(***************************************************************************)
(* A client connection from Accept to the last deferred call of            *)
(* handleConn (internal/proxy/server.go): admission under the connection   *)
(* limits (connlimit.go), authentication (auth.go), the cancel target that *)
(* every query sets and clears (cancel.go, helpers.go, query.go) and those *)
(* who read it: cancel requests, the admin API (session.go) and the query  *)
(* timers.  Backend connections are the Conns of a pool; Pool has the pool *)
(* itself and Relay what is sent on them.                                  *)
(***************************************************************************)
EXTENDS ConnLimit

CONSTANTS Sessions,
          Conns,
          NoConn,
          NoLogin,
          NoTracker,     \* connection_limits.enabled: false
          Limits,        \* the limits that configurations have
          MaxCancels     \* bound on the timers firing and cancel requests on their way

ASSUME HandleConnAssumption ==
    /\ IsFiniteSet(Sessions)
    /\ NoConn \notin Conns
    /\ NoLogin \notin [user : Users, db : DBs]
    /\ NoTracker \notin Limits
    /\ MaxCancels \in Nat

VARIABLES at,           \* at[s]: how far handleConn has got for client s
          login,        \* login[s]: user and database of the startup message
          counted,      \* counted[s]: the deferred Release of the tracker is installed
          held,         \* held[s]: the backend connection s has, across a transaction
          target,       \* target[s]: cancelTarget
          timer,        \* timer[s]: "armed" a timer runs, "firing" a callback has started
          tracker,      \* connTrackerPtr
          maintenance,
          cancels,      \* <<s, c>>: a cancel request for s on its way to connection c
          replaced      \* auxiliary: a reload has put in or taken away a tracker

vars == <<at, login, counted, held, target, timer, tracker, maintenance, cancels, replaced>>
sessionVars == <<at, login, counted>>
queryVars == <<held, target, timer>>

Logins == [user : Users, db : DBs]

Init ==
    /\ at = [s \in Sessions |-> "none"]
    /\ login = [s \in Sessions |-> NoLogin]
    /\ counted = [s \in Sessions |-> FALSE]
    /\ held = [s \in Sessions |-> NoConn]
    /\ target = [s \in Sessions |-> NoConn]
    /\ timer = [s \in Sessions |-> {}]
    /\ tracker \in {NewConnTracker(l) : l \in Limits} \cup {NoTracker}
    /\ maintenance = FALSE
    /\ cancels = {}
    /\ replaced = FALSE

Goto(s, step) == at' = [at EXCEPT ![s] = step]

-----------------------------------------------------------------------------
(* Admission *)

Accept(s) ==
    /\ at[s] = "none"
    /\ Goto(s, "startup")
    /\ UNCHANGED <<login, counted, queryVars, tracker, maintenance, cancels, replaced>>

\* No startup message, a failed TLS handshake, or a database that is not configured.
StartupFails(s) ==
    /\ at[s] = "startup"
    /\ Goto(s, "none")
    /\ UNCHANGED <<login, counted, queryVars, tracker, maintenance, cancels, replaced>>

\* Mutant: the user is counted before the database is looked at.
RejectedCounted(s, l) ==
    /\ at[s] = "startup"
    /\ maintenance \/ (tracker # NoTracker /\ ~TryAcquire(tracker, l.user, l.db))
    /\ tracker' = IF tracker # NoTracker /\ Room(tracker.limits.user, l.user, tracker.byUser[l.user])
                  THEN [tracker EXCEPT !.byUser[l.user] = @ + 1] ELSE tracker
    /\ Goto(s, "none")
    /\ UNCHANGED <<login, counted, queryVars, maintenance, cancels, replaced>>

Rejected(s, l) ==
    /\ at[s] = "startup"
    /\ maintenance \/ (tracker # NoTracker /\ ~TryAcquire(tracker, l.user, l.db))
    /\ Goto(s, "none")
    /\ UNCHANGED <<login, counted, queryVars, tracker, maintenance, cancels, replaced>>

\* TryAcquire, with its deferred Release, and newCancelTarget.
Admitted(s, l) ==
    /\ at[s] = "startup"
    /\ ~maintenance
    /\ IF tracker = NoTracker THEN UNCHANGED tracker
       ELSE /\ TryAcquire(tracker, l.user, l.db)
            /\ tracker' = Acquired(tracker, l.user, l.db)
    /\ counted' = [counted EXCEPT ![s] = tracker # NoTracker]
    /\ login' = [login EXCEPT ![s] = l]
    /\ Goto(s, "auth")
    /\ UNCHANGED <<queryVars, maintenance, cancels, replaced>>

\* frontendAuth or relayAuth; then registerSession.
Authenticated(s) ==
    /\ at[s] = "auth"
    /\ Goto(s, "idle")
    /\ UNCHANGED <<login, counted, queryVars, tracker, maintenance, cancels, replaced>>

AuthFails(s) ==
    /\ at[s] = "auth"
    /\ Goto(s, "leaving")
    /\ UNCHANGED <<login, counted, queryVars, tracker, maintenance, cancels, replaced>>

-----------------------------------------------------------------------------
(* Queries *)

\* The connection of the transaction, or one of the pool.
Acquire(s) ==
    /\ at[s] = "idle"
    /\ ~(maintenance /\ held[s] = NoConn)
    /\ \E c \in Conns :
          /\ held[s] = c \/ (held[s] = NoConn /\ \A r \in Sessions : held[r] # c)
          /\ held' = [held EXCEPT ![s] = c]
    /\ Goto(s, "acquired")
    /\ UNCHANGED <<login, counted, target, timer, tracker, maintenance, cancels, replaced>>

\* setFromConn; startQueryTimer, unless there is no timeout.
Start(s) ==
    /\ at[s] = "acquired"
    /\ target' = [target EXCEPT ![s] = held[s]]
    /\ \E armed \in {{}, {"armed"}} : timer' = [timer EXCEPT ![s] = @ \cup armed]
    /\ Goto(s, "running")
    /\ UNCHANGED <<login, counted, held, tracker, maintenance, cancels, replaced>>

\* stopTimer: a callback that has started goes on.
StopTimer(s) ==
    /\ at[s] = "running"
    /\ timer' = [timer EXCEPT ![s] = @ \ {"armed"}]
    /\ Goto(s, "answered")
    /\ UNCHANGED <<login, counted, held, target, tracker, maintenance, cancels, replaced>>

\* Mutant: the target stays set.
ClearNothing(s) ==
    /\ at[s] = "answered"
    /\ Goto(s, "cleared")
    /\ UNCHANGED <<login, counted, queryVars, tracker, maintenance, cancels, replaced>>

\* clear.
Clear(s) ==
    /\ at[s] = "answered"
    /\ target' = [target EXCEPT ![s] = NoConn]
    /\ Goto(s, "cleared")
    /\ UNCHANGED <<login, counted, held, timer, tracker, maintenance, cancels, replaced>>

\* Release or Discard, or the connection stays bound to the transaction.
Finish(s) ==
    /\ at[s] = "cleared"
    /\ \E c \in {NoConn, held[s]} : held' = [held EXCEPT ![s] = c]
    /\ Goto(s, "idle")
    /\ UNCHANGED <<login, counted, target, timer, tracker, maintenance, cancels, replaced>>

-----------------------------------------------------------------------------
(* Departure *)

\* The client leaves or is disconnected: the deferred release of relayQueries.
Leave(s) ==
    /\ at[s] = "idle"
    /\ held' = [held EXCEPT ![s] = NoConn]
    /\ Goto(s, "leaving")
    /\ UNCHANGED <<login, counted, target, timer, tracker, maintenance, cancels, replaced>>

\* unregisterSession and removeCancelTarget.
Unregister(s) ==
    /\ at[s] = "leaving"
    /\ Goto(s, "unregistered")
    /\ UNCHANGED <<login, counted, queryVars, tracker, maintenance, cancels, replaced>>

\* The deferred Release, to the tracker there is now, and the close of the socket.
Uncount(s) ==
    /\ at[s] = "unregistered"
    /\ tracker' = IF counted[s] /\ tracker # NoTracker
                  THEN Release(tracker, login[s].user, login[s].db) ELSE tracker
    /\ counted' = [counted EXCEPT ![s] = FALSE]
    /\ login' = [login EXCEPT ![s] = NoLogin]
    /\ Goto(s, "none")
    /\ UNCHANGED <<queryVars, maintenance, cancels, replaced>>

-----------------------------------------------------------------------------
(* Cancellation *)

\* Within the bound on callbacks and requests under way.
MoreCancels == Cardinality(cancels) + Cardinality({s \in Sessions : "firing" \in timer[s]}) < MaxCancels

\* forwardCancel to the connection the target names, if any.
Forward(s) == cancels' = IF target[s] = NoConn THEN cancels ELSE cancels \cup {<<s, target[s]>>}

\* handleCancelRequest, on a connection of its own: the key finds the session
\* from newCancelTarget to removeCancelTarget.
CancelRequest(r, s) ==
    /\ at[r] = "startup"
    /\ at[s] \notin {"none", "startup", "unregistered"}
    /\ MoreCancels
    /\ Forward(s)
    /\ Goto(r, "none")
    /\ UNCHANGED <<login, counted, queryVars, tracker, maintenance, replaced>>

\* CancelSession of the admin API: sessions are registered once authenticated.
CancelSession(s) ==
    /\ at[s] \notin {"none", "startup", "auth", "unregistered"}
    /\ MoreCancels
    /\ Forward(s)
    /\ UNCHANGED <<sessionVars, queryVars, tracker, maintenance, replaced>>

TimerFires(s) ==
    /\ "armed" \in timer[s]
    /\ MoreCancels
    /\ timer' = [timer EXCEPT ![s] = (@ \ {"armed"}) \cup {"firing"}]
    /\ UNCHANGED <<sessionVars, held, target, tracker, maintenance, cancels, replaced>>

\* The callback reads the target now.
TimerSends(s) ==
    /\ "firing" \in timer[s]
    /\ Forward(s)
    /\ timer' = [timer EXCEPT ![s] = @ \ {"firing"}]
    /\ UNCHANGED <<sessionVars, held, target, tracker, maintenance, replaced>>

CancelArrives(x) ==
    /\ x \in cancels
    /\ cancels' = cancels \ {x}
    /\ UNCHANGED <<sessionVars, queryVars, tracker, maintenance, replaced>>

-----------------------------------------------------------------------------
(* Administration *)

\* The connection limits in Server.Reload: limits or NoTracker.
Reload(limits) ==
    /\ tracker' = CASE limits = NoTracker -> NoTracker
                    [] limits # NoTracker /\ tracker = NoTracker -> NewConnTracker(limits)
                    [] OTHER -> UpdateLimits(tracker, limits)
    /\ replaced' = (replaced \/ (limits = NoTracker) # (tracker = NoTracker))
    /\ UNCHANGED <<sessionVars, queryVars, maintenance, cancels>>

SetMaintenance ==
    /\ maintenance' = ~maintenance
    /\ UNCHANGED <<sessionVars, queryVars, tracker, cancels, replaced>>

Next ==
    \/ \E s \in Sessions :
          \/ Accept(s) \/ StartupFails(s) \/ Authenticated(s) \/ AuthFails(s)
          \/ \E l \in Logins : Rejected(s, l) \/ Admitted(s, l)
          \/ Acquire(s) \/ Start(s) \/ StopTimer(s) \/ Clear(s) \/ Finish(s)
          \/ Leave(s) \/ Unregister(s) \/ Uncount(s)
          \/ \E r \in Sessions : CancelRequest(r, s)
          \/ CancelSession(s) \/ TimerFires(s) \/ TimerSends(s)
    \/ \E x \in cancels : CancelArrives(x)
    \/ \E limits \in Limits \cup {NoTracker} : Reload(limits)
    \/ SetMaintenance

Spec == Init /\ [][Next]_vars

-----------------------------------------------------------------------------
(* Properties *)

Steps == {"none", "startup", "auth", "idle", "acquired", "running", "answered", "cleared",
          "leaving", "unregistered"}

\* Types; the counters of the tracker do not go below zero.
TypeOK ==
    /\ at \in [Sessions -> Steps]
    /\ login \in [Sessions -> Logins \cup {NoLogin}]
    /\ counted \in [Sessions -> BOOLEAN]
    /\ held \in [Sessions -> Conns \cup {NoConn}]
    /\ target \in [Sessions -> Conns \cup {NoConn}]
    /\ timer \in [Sessions -> SUBSET {"armed", "firing"}]
    /\ tracker # NoTracker => /\ tracker.byUser \in [Users -> Nat]
                              /\ tracker.byDB \in [DBs -> Nat]
                              /\ tracker.limits \in Limits
    /\ maintenance \in BOOLEAN
    /\ cancels \in SUBSET (Sessions \X Conns)
    /\ replaced \in BOOLEAN

OfUser(u) == {s \in Sessions : counted[s] /\ login[s].user = u}

OfDB(d) == {s \in Sessions : counted[s] /\ login[s].db = d}

\* Rejections, failed authentications, departures in any order and reloads of the
\* limits leave the tracker's counters at the number of admitted clients, unless a
\* reload replaced the tracker.
CountsExact ==
    tracker # NoTracker /\ ~replaced =>
        /\ \A u \in Users : tracker.byUser[u] = Cardinality(OfUser(u))
        /\ \A d \in DBs : tracker.byDB[d] = Cardinality(OfDB(d))

\* Even if it did, no user and no database is charged for more clients than it
\* has: nobody is shut out by connections that are gone.
NeverOvercounted ==
    tracker # NoTracker =>
        /\ \A u \in Users : tracker.byUser[u] <= Cardinality(OfUser(u))
        /\ \A d \in DBs : tracker.byDB[d] <= Cardinality(OfDB(d))

\* "Limit the maximum number of connections per user and per database" (README),
\* "Limits can be hot-reloaded": whoever is admitted finds no more clients than the
\* limits of the moment allow, while limits are changed and not switched off and on.
LimitsRespected ==
    [][\A s \in Sessions :
          at[s] = "startup" /\ at'[s] = "auth" /\ tracker # NoTracker /\ ~replaced =>
              /\ Room(tracker.limits.user, login'[s].user, Cardinality(OfUser(login'[s].user)))
              /\ Room(tracker.limits.db, login'[s].db, Cardinality(OfDB(login'[s].db)))]_vars

\* A cancel request that the proxy forwards for a client, asked for by it, by the
\* admin API or by a timer that is late, goes to a connection the client has at
\* that time, and never to one that another session has got from the pool since.
CancelsOwn ==
    [][\A x \in cancels' \ cancels : held[x[1]] = x[2]]_vars
=============================================================================
