------------------------------ MODULE Shutdown ------------------------------
(***************************************************************************)
(* The life of the process: Server.Start with its accept loop and the      *)
(* shutdown after it (internal/proxy/server.go), the goroutines of the     *)
(* clients, and what runs beside them: the audit logger, the query mirror  *)
(* and the configuration watcher.  HandleConn and Relay have what a client *)
(* goroutine does; here it answers queries, reports them and ends.         *)
(***************************************************************************)
EXTENDS Audit, Mirror, ConfigWatch, FiniteSets

CONSTANTS Clients

ASSUME ShutdownAssumption == IsFiniteSet(Clients)

\* Start is in its accept loop; has been "cancelled"; is at "wait", "pools",
\* "invalidator", "audit", "audit.wg", "mirror", "mirror.wg"; or has "returned".
VARIABLES phase,      \* where Start is
          client,     \* client[s]: the goroutine of client s
          wg,         \* s.wg
          forced      \* auxiliary: shutdown_timeout has passed

serverVars == <<auditVars, mirrorVars, watchVars, phase, client, wg, forced>>

StartInit ==
    /\ AuditInit /\ MirrorInit /\ WatchInit
    /\ phase = "accept"
    /\ client = [s \in Clients |-> "none"]
    /\ wg = 0
    /\ forced = FALSE

CtxDone == phase # "accept"

\* main returns when Start does.
Running == phase # "returned"

ClientAt(s, step) == client' = [client EXCEPT ![s] = step]

-----------------------------------------------------------------------------
(* Clients *)

\* Accept and wg.Add; the listener may be closed a little after the signal.
AcceptClient(s) ==
    /\ phase \in {"accept", "cancelled"}
    /\ client[s] = "none"
    /\ wg' = wg + 1
    /\ ClientAt(s, "read")
    /\ UNCHANGED <<auditVars, mirrorVars, watchVars, phase, forced>>

\* A query arrives; whether ctx is done is looked at before the read only.
Query(s) ==
    /\ Running
    /\ client[s] = "read"
    /\ ClientAt(s, "query")
    /\ UNCHANGED <<auditVars, mirrorVars, watchVars, phase, wg, forced>>

\* emitAuditEvent and mirrorQuery, which has filters.
Report(s) ==
    /\ Running
    /\ client[s] = "query"
    /\ Log
    /\ Send \/ UNCHANGED workCh
    /\ ClientAt(s, "loop")
    /\ UNCHANGED <<stopCh, processing, tidying, webhooks, mirrorDone, worker, mirrorPool,
                   watchVars, phase, wg, forced>>

\* Answered from the cache, or refused: nothing is reported.
NoReport(s) ==
    /\ Running
    /\ client[s] = "query"
    /\ ClientAt(s, "loop")
    /\ UNCHANGED <<auditVars, mirrorVars, watchVars, phase, wg, forced>>

\* The head of the loop in relayQueries.
Loop(s) ==
    /\ Running
    /\ client[s] = "loop"
    /\ ~CtxDone
    /\ ClientAt(s, "read")
    /\ UNCHANGED <<auditVars, mirrorVars, watchVars, phase, wg, forced>>

\* ctx is done, or the client is gone: handleConn returns.
Return(s) ==
    /\ Running
    /\ (client[s] = "loop" /\ CtxDone) \/ client[s] = "read"
    /\ ClientAt(s, "none")
    /\ wg' = wg - 1
    /\ UNCHANGED <<auditVars, mirrorVars, watchVars, phase, forced>>

-----------------------------------------------------------------------------
(* Start, after the signal *)

Advance(from, to) == phase = from /\ phase' = to

Signal ==
    /\ Advance("accept", "cancelled")
    /\ WatchEnds
    /\ UNCHANGED <<auditVars, mirrorVars, client, wg, forced>>

\* The listener is closed and Accept returns an error.
AcceptFails ==
    /\ Advance("cancelled", "wait")
    /\ UNCHANGED <<auditVars, mirrorVars, watchVars, client, wg, forced>>

\* Mutant: done is closed without waiting.
DrainedAtOnce ==
    /\ Advance("wait", "pools")
    /\ UNCHANGED <<auditVars, mirrorVars, watchVars, client, wg, forced>>

Drained ==
    /\ wg = 0
    /\ Advance("wait", "pools")
    /\ UNCHANGED <<auditVars, mirrorVars, watchVars, client, wg, forced>>

TimedOut ==
    /\ Advance("wait", "pools")
    /\ forced' = TRUE
    /\ UNCHANGED <<auditVars, mirrorVars, watchVars, client, wg>>

\* closePools, then the connection to Redis.
ClosePools ==
    /\ Advance("pools", "invalidator") \/ Advance("invalidator", "audit")
    /\ UNCHANGED <<auditVars, mirrorVars, watchVars, client, wg, forced>>

\* Logger.Close, up to its Wait and from there.
CloseAudit ==
    \/ /\ Advance("audit", "audit.wg")
       /\ stopCh' = TRUE
       /\ UNCHANGED <<eventCh, processing, tidying, webhooks, mirrorVars, watchVars, client, wg,
                      forced>>
    \/ /\ AuditStopped
       /\ Advance("audit.wg", "mirror")
       /\ UNCHANGED <<auditVars, mirrorVars, watchVars, client, wg, forced>>

\* Mirror.Close, likewise; the pool is closed after the workers have returned.
CloseMirror ==
    \/ /\ Advance("mirror", "mirror.wg")
       /\ mirrorDone' = TRUE
       /\ UNCHANGED <<workCh, worker, mirrorPool, auditVars, watchVars, client, wg, forced>>
    \/ /\ WorkersReturned
       /\ Advance("mirror.wg", "returned")
       /\ mirrorPool' = "closed"
       /\ UNCHANGED <<workCh, mirrorDone, worker, auditVars, watchVars, client, wg, forced>>

StartStep == AcceptFails \/ Drained \/ TimedOut \/ ClosePools \/ CloseAudit \/ CloseMirror

-----------------------------------------------------------------------------

AuditRuns == Running /\ AuditStep /\ UNCHANGED <<mirrorVars, watchVars, phase, client, wg, forced>>

MirrorRuns == Running /\ MirrorStep /\ UNCHANGED <<auditVars, watchVars, phase, client, wg, forced>>

Rest == <<auditVars, mirrorVars, phase, client, wg, forced>>

Edit == Running /\ (EditBegins \/ EditEnds) /\ UNCHANGED Rest

\* The watcher's goroutine and what it starts; SIGHUP is answered until the end.
Watch ==
    /\ Running
    /\ (~CtxDone /\ (WatchEvent \/ DebounceFires)) \/ \E r \in Reloads : ReloadApplied(r)
    /\ UNCHANGED Rest

Hangup == Running /\ ReloadAsked /\ UNCHANGED Rest

StartNext ==
    \/ \E s \in Clients :
          AcceptClient(s) \/ Query(s) \/ Report(s) \/ NoReport(s) \/ Loop(s) \/ Return(s)
    \/ Signal
    \/ StartStep
    \/ AuditRuns
    \/ MirrorRuns
    \/ Edit
    \/ Watch
    \/ Hangup

StartSpec == StartInit /\ [][StartNext]_serverVars

\* Start runs and its timer expires; webhooks have a timeout; the shadow database
\* answers the mirror's queries; the watcher runs and an edit that was begun ends.
\* Nothing is assumed of clients and their queries.
FairStart ==
    /\ StartSpec
    /\ WF_serverVars(StartStep)
    /\ WF_serverVars(Running /\ (HandleEvent \/ ProcessStop \/ ProcessReturn)
                     /\ UNCHANGED <<mirrorVars, watchVars, phase, client, wg, forced>>)
    /\ WF_serverVars(Running /\ TidyReturn
                     /\ UNCHANGED <<mirrorVars, watchVars, phase, client, wg, forced>>)
    /\ WF_serverVars(Running /\ WebhookReturn
                     /\ UNCHANGED <<mirrorVars, watchVars, phase, client, wg, forced>>)
    /\ WF_serverVars(MirrorRuns)
    /\ WF_serverVars(Watch)
    /\ WF_serverVars(Running /\ EditEnds /\ UNCHANGED Rest)

-----------------------------------------------------------------------------
(* Properties *)

\* "all client connections drained" (server.go): unless the timeout has passed no
\* client is being served when the pools are closed, and none will be, whatever the
\* accept loop was doing at the signal.
DrainedFirst ==
    ~forced /\ phase \notin {"accept", "cancelled", "wait"} => \A s \in Clients : client[s] = "none"

\* "Close stops the audit logger and waits for pending events to drain" (audit.go):
\* after a shutdown that was not forced no event is left that Log has accepted.
AuditComplete == ~forced /\ AuditStopped => eventCh = 0

\* The mirror's pool is closed only when no worker has a connection of it.
MirrorPoolUnused ==
    mirrorPool = "closed" => \A w \in Workers : worker[w] # "execute"

\* Whatever clients, the buffers and a reload under way are at, the process ends
\* after a signal.
ShutdownCompletes == CtxDone ~> phase = "returned"

\* Hot reload: once edits have ended the server runs with what the file says, even
\* when events arrived during a reload or the file was read half written, unless a
\* reload that had read an older version was the last to get the mutex.
ConfigCurrent == <>[](CtxDone \/ loaded = file \/ regressed)
=============================================================================
