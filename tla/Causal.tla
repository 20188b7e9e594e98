------------------------------- MODULE Causal -------------------------------
(***************************************************************************)
(* Causal consistency by log position (routing.causal_consistency): after  *)
(* a write the proxy asks the writer for its WAL position and keeps it in  *)
(* the session; a poller keeps each reader's replay position in the        *)
(* balancer; a read goes to a reader whose known position has reached the  *)
(* session's, or to the writer.  Simple queries, without the query cache.  *)
(*                                                                         *)
(* Positions count WAL records.  A server that has replayed up to position *)
(* n has all transactions whose commit record is at n or before.           *)
(***************************************************************************)
EXTENDS Balancer

CONSTANT MaxLSN  \* bound on the WAL

ASSUME CausalAssumption == MaxLSN \in Nat

VARIABLES wal,           \* the writer's WAL position
          replayed,      \* replayed[a]: position the replica at a has replayed
          lastWriteLSN,  \* lastWriteLSN[s]: Session.lastWriteLSN
          visible,       \* visible[s]: commit records of the last write and of the last
                         \* writing transaction of s whose position was tracked
          tx,            \* tx[s]: transaction of s: none, open, or with a tracked write
          stage,         \* stage[s]: where s is in its handler
          wrote,         \* wrote[s]: commit record of the write being handled
          readerAddr,    \* readerAddr[s]: the reader the query of s goes to
          poll           \* {<<a, lsn>>} while the poller holds an answer of a

causalVars == <<wal, replayed, lastWriteLSN, visible, tx, stage, wrote, readerAddr, poll>>
lsnVars == <<balancerVars, causalVars>>

CausalInit ==
    /\ BalancerInit
    /\ wal = 0
    /\ replayed = [a \in Addrs |-> 0]
    /\ lastWriteLSN = [s \in Callers |-> 0]
    /\ visible = [s \in Callers |-> [write |-> 0, commit |-> 0]]
    /\ tx = [s \in Callers |-> "none"]
    /\ stage = [s \in Callers |-> "idle"]
    /\ wrote = [s \in Callers |-> 0]
    /\ readerAddr = [s \in Callers |-> {}]
    /\ poll = {}

Stage(s, l) == stage' = [stage EXCEPT ![s] = l]

\* BEGIN, and ROLLBACK: neither is a write to handleWriteQuery.
Begin(s) ==
    /\ stage[s] = "idle"
    /\ tx[s] = "none"
    /\ tx' = [tx EXCEPT ![s] = "open"]
    /\ UNCHANGED <<balancerVars, wal, replayed, lastWriteLSN, visible, stage, wrote, readerAddr,
                   poll>>

Rollback(s) ==
    /\ stage[s] = "idle"
    /\ tx[s] # "none"
    /\ tx' = [tx EXCEPT ![s] = "none"]
    /\ UNCHANGED <<balancerVars, wal, replayed, lastWriteLSN, visible, stage, wrote, readerAddr,
                   poll>>

\* forwardAndRelay of a write: outside a transaction its record is its commit record.
Write(s) ==
    /\ stage[s] = "idle"
    /\ wal < MaxLSN
    /\ wal' = wal + 1
    /\ wrote' = [wrote EXCEPT ![s] = wal + 1]
    /\ Stage(s, "written")
    /\ UNCHANGED <<balancerVars, replayed, lastWriteLSN, visible, tx, readerAddr, poll>>

\* Mutant: the position is the one before the write.
QueryCurrentLSNEarly(s) ==
    /\ stage[s] = "written"
    /\ lastWriteLSN' = [lastWriteLSN EXCEPT ![s] = wrote[s] - 1]
    /\ IF tx[s] = "none"
       THEN visible' = [visible EXCEPT ![s].write = wrote[s]] /\ UNCHANGED tx
       ELSE tx' = [tx EXCEPT ![s] = "wrote"] /\ UNCHANGED visible
    /\ wrote' = [wrote EXCEPT ![s] = 0]
    /\ Stage(s, "idle")
    /\ UNCHANGED <<balancerVars, wal, replayed, readerAddr, poll>>

\* queryCurrentLSN and SetLastWriteLSN; other sessions may have written meanwhile.
QueryCurrentLSN(s) ==
    /\ stage[s] = "written"
    /\ lastWriteLSN' = [lastWriteLSN EXCEPT ![s] = wal]
    /\ IF tx[s] = "none"
       THEN visible' = [visible EXCEPT ![s].write = wrote[s]] /\ UNCHANGED tx
       ELSE tx' = [tx EXCEPT ![s] = "wrote"] /\ UNCHANGED visible
    /\ wrote' = [wrote EXCEPT ![s] = 0]
    /\ Stage(s, "idle")
    /\ UNCHANGED <<balancerVars, wal, replayed, readerAddr, poll>>

\* The position could not be read: a warning, and the old one stays.
QueryCurrentLSNFails(s) ==
    /\ stage[s] = "written"
    /\ wrote' = [wrote EXCEPT ![s] = 0]
    /\ Stage(s, "idle")
    /\ UNCHANGED <<balancerVars, wal, replayed, lastWriteLSN, visible, tx, readerAddr, poll>>

\* COMMIT is no write to handleWriteQuery either: its position is not asked for.
Commit(s) ==
    /\ stage[s] = "idle"
    /\ tx[s] # "none"
    /\ wal < MaxLSN
    /\ wal' = wal + 1
    /\ visible' = [visible EXCEPT ![s].commit = IF tx[s] = "wrote" THEN wal + 1 ELSE @]
    /\ tx' = [tx EXCEPT ![s] = "none"]
    /\ UNCHANGED <<balancerVars, replayed, lastWriteLSN, stage, wrote, readerAddr, poll>>

-----------------------------------------------------------------------------
\* A read outside a transaction asks the balancer for a reader.
LSNRead(s) ==
    /\ stage[s] = "idle"
    /\ tx[s] = "none"
    /\ NextStart(s, lastWriteLSN[s])
    /\ Stage(s, "choosing")
    /\ UNCHANGED <<wal, replayed, lastWriteLSN, visible, tx, wrote, readerAddr, poll>>

ProbeReader(s) ==
    /\ stage[s] = "choosing"
    /\ NextProbe(s)
    /\ UNCHANGED causalVars

\* A reader was found; until the query runs there, time passes.
Chosen(s) ==
    /\ stage[s] = "choosing"
    /\ call[s].found # {}
    /\ readerAddr' = [readerAddr EXCEPT ![s] = call[s].found]
    /\ NextReturn(s)
    /\ Stage(s, "reading")
    /\ UNCHANGED <<wal, replayed, lastWriteLSN, visible, tx, wrote, poll>>

\* None was found: the writer answers.
FallBack(s) ==
    /\ stage[s] = "choosing"
    /\ call[s].found = {}
    /\ NextReturn(s)
    /\ Stage(s, "idle")
    /\ UNCHANGED <<wal, replayed, lastWriteLSN, visible, tx, wrote, readerAddr, poll>>

\* The reader answers, or fails and is marked while the writer answers.
Answer(s) ==
    /\ stage[s] = "reading"
    /\ \/ UNCHANGED balancerVars
       \/ \E a \in readerAddr[s] : MarkUnhealthy(a)
    /\ readerAddr' = [readerAddr EXCEPT ![s] = {}]
    /\ Stage(s, "idle")
    /\ UNCHANGED <<wal, replayed, lastWriteLSN, visible, tx, wrote, poll>>

-----------------------------------------------------------------------------
\* Clients that do not go through this proxy write too.
ForeignWrite ==
    /\ wal < MaxLSN
    /\ wal' = wal + 1
    /\ UNCHANGED <<balancerVars, replayed, lastWriteLSN, visible, tx, stage, wrote, readerAddr,
                   poll>>

\* The replica replays more of the WAL; it never goes back.
Replay(a) ==
    /\ replayed[a] < wal
    /\ replayed' = [replayed EXCEPT ![a] = @ + 1]
    /\ UNCHANGED <<balancerVars, wal, lastWriteLSN, visible, tx, stage, wrote, readerAddr, poll>>

\* Mutant: the position asked for is the writer's.
PollQueryWriter(a) ==
    /\ poll = {}
    /\ \E b \in Elems(backends) : b.addr = a
    /\ poll' = {<<a, wal>>}
    /\ UNCHANGED <<balancerVars, wal, replayed, lastWriteLSN, visible, tx, stage, wrote,
                   readerAddr>>

\* pollReaderLSNsForGroup asks one listed reader after the other; a reader that does
\* not answer is skipped.
PollQuery(a) ==
    /\ poll = {}
    /\ \E b \in Elems(backends) : b.addr = a
    /\ poll' = {<<a, replayed[a]>>}
    /\ UNCHANGED <<balancerVars, wal, replayed, lastWriteLSN, visible, tx, stage, wrote,
                   readerAddr>>

PollStore ==
    /\ \E p \in poll : SetReplayLSN(p[1], p[2])
    /\ poll' = {}
    /\ UNCHANGED <<wal, replayed, lastWriteLSN, visible, tx, stage, wrote, readerAddr>>

CheckReaders(b) ==
    /\ Recover(b)
    /\ UNCHANGED causalVars

ReloadReaders(l) ==
    /\ UpdateBackends(l)
    /\ UNCHANGED causalVars

CausalStep(s) ==
    \/ Begin(s) \/ Rollback(s) \/ Write(s) \/ QueryCurrentLSN(s) \/ QueryCurrentLSNFails(s)
    \/ Commit(s) \/ LSNRead(s) \/ ProbeReader(s) \/ Chosen(s) \/ FallBack(s) \/ Answer(s)

CausalNext ==
    \/ \E s \in Callers : CausalStep(s)
    \/ \E a \in Addrs : Replay(a) \/ PollQuery(a)
    \/ ForeignWrite
    \/ PollStore
    \/ \E b \in Backends : CheckReaders(b)
    \/ \E l \in ReaderLists : ReloadReaders(l)

CausalSpec == CausalInit /\ [][CausalNext]_lsnVars

-----------------------------------------------------------------------------
(* Properties *)

\* SetReplayLSN stores a position asked for earlier, on whatever backend now has the
\* address: the balancer never believes a reader to be further than it is.
KnownPositions ==
    /\ \A b \in Backends : replayLSN[b] <= replayed[b.addr]
    /\ \A p \in poll : p[2] <= replayed[p[1]]

\* "after a write, the Writer's WAL LSN is tracked, and reads are only served from
\* Readers that have replayed up to that LSN": whenever a session's query runs on a
\* reader, that reader has the session's last write outside a transaction, although
\* the balancer knows only an old position of the reader, other sessions write, and
\* the list may have been reloaded.
ReadYourWrites ==
    \A s \in Callers : stage[s] = "reading" =>
        \A a \in readerAddr[s] : replayed[a] >= visible[s].write

\* The same of the session's last transaction that wrote.
ReadYourCommits ==
    \A s \in Callers : stage[s] = "reading" =>
        \A a \in readerAddr[s] : replayed[a] >= visible[s].commit
=============================================================================
