------------------------------ MODULE Backend ------------------------------
(***************************************************************************)
(* What one PostgreSQL connection does with a simple query or with a batch *)
(* of extended query messages, as far as the proxy depends on it: the      *)
(* transaction status it reports, whether settings of the session survive  *)
(* on the connection, and its prepared statements.  PostgreSQL is external *)
(* to the repository.                                                      *)
(*                                                                         *)
(* A query is a sequence of statements, sent as one message and run as one *)
(* implicit transaction until a BEGIN opens an explicit one.               *)
(***************************************************************************)
EXTENDS Integers, Sequences, FiniteSets

CONSTANT Names   \* names clients give to prepared statements, Unnamed among them

Unnamed == ""

\* BEGIN, COMMIT / ROLLBACK / END / ABORT, ROLLBACK TO SAVEPOINT, a read, a
\* write, and a statement that changes the session (SET, PREPARE, LISTEN ...).
Statements == {"BEGIN", "END", "ROLLBACKTO", "SELECT", "WRITE", "SET"}

\* tx is the status of ReadyForQuery: idle, in a transaction, in a failed one;
\* set: a setting outlives the transaction; pend: it will if this one commits;
\* prep: prepared statements, pairs of a name and a query.
BackendStates == [tx : {"I", "T", "E"}, set : BOOLEAN, pend : BOOLEAN,
                  prep : SUBSET (Names \X Seq(Statements))]

Fresh == [tx |-> "I", set |-> FALSE, pend |-> FALSE, prep |-> {}]

Committed(b) == [b EXCEPT !.tx = "I", !.set = @ \/ b.pend, !.pend = FALSE]
RolledBack(b) == [b EXCEPT !.tx = "I", !.pend = FALSE]

Without(b, name) == [b EXCEPT !.prep = {p \in @ : p[1] # name}]

\* A statement fails: an explicit transaction is failed, an implicit one undone.
Aborted(b) == IF b.tx = "I" THEN RolledBack(b) ELSE [b EXCEPT !.tx = "E"]

\* Outcomes of a statement that succeeds; none if it cannot.
Succeeds(b, stmt) ==
    CASE stmt = "END" -> IF b.tx = "T" THEN {Committed(b), RolledBack(b)}
                         ELSE IF b.tx = "E" THEN {RolledBack(b)} ELSE {Committed(b)}
      [] stmt = "ROLLBACKTO" -> IF b.tx = "I" THEN {} ELSE {[b EXCEPT !.tx = "T"]}
      [] stmt \notin {"END", "ROLLBACKTO"} ->
           IF b.tx = "E" THEN {}
           ELSE {IF stmt = "BEGIN" THEN [b EXCEPT !.tx = "T"]
                 ELSE IF stmt = "SET" THEN [b EXCEPT !.pend = TRUE] ELSE b}

MayFail(b, stmt) == stmt \in {"SELECT", "WRITE", "SET"} \/ Succeeds(b, stmt) = {}

\* The states a connection in state b may be in after the query q.  A simple
\* query ends the unnamed prepared statement.
Outcomes(b, q) ==
    LET From[left \in 0 .. Len(q)] ==   \* from a state with so many statements to run
          [c \in BackendStates |->
             LET stmt == q[Len(q) - left + 1]
             IN  IF left = 0
                 THEN {IF c.tx = "I" THEN Committed(c) ELSE c}
                 ELSE (UNION {From[left - 1][d] : d \in Succeeds(c, stmt)})
                      \cup (IF MayFail(c, stmt) THEN {Aborted(c)} ELSE {})]
    IN  From[Len(q)][Without(b, Unnamed)]

\* The messages of a batch, up to the Sync that ends it.
Messages == [kind : {"Parse", "Bind", "Execute", "Close"}, name : Names, query : Seq(Statements)]

\* A failed transaction refuses everything but its end.
Refused(b, q) == b.tx = "E" /\ q[1] \notin {"END", "ROLLBACKTO"}

Bound(c, name) == {p[2] : p \in {r \in c.prep : r[1] = name}}

\* One message, with the query of the portal: it fails, or rest[d][q] says what becomes of
\* the state d and the portal q it leaves.
MessageOutcomes(rest, c, portal, m) ==
    CASE m.kind = "Parse" ->
           IF Refused(c, m.query) \/ (m.name # Unnamed /\ Bound(c, m.name) # {})
           THEN {Aborted(c)}
           ELSE rest[[Without(c, m.name) EXCEPT !.prep = @ \cup {<<m.name, m.query>>}]][<<>>]
                \cup (IF MayFail(c, m.query[1]) THEN {Aborted(c)} ELSE {})
      [] m.kind = "Bind" ->
           LET usable == {q \in Bound(c, m.name) : ~Refused(c, q)}
           IN  IF usable = {} THEN {Aborted(c)} ELSE UNION {rest[c][q] : q \in usable}
      [] m.kind = "Close" -> rest[Without(c, m.name)][<<>>]
      [] m.kind = "Execute" ->
           (IF portal = <<>> THEN {}
            ELSE UNION {rest[d][portal] : d \in Succeeds(c, portal[1])})
           \cup (IF portal = <<>> \/ MayFail(c, portal[1]) THEN {Aborted(c)} ELSE {})

\* The states after a batch: a message that fails makes PostgreSQL skip to the
\* Sync, which also ends an implicit transaction.
BatchOutcomes(b, batch) ==
    LET From[left \in 0 .. Len(batch)] ==   \* with so many messages to come
          [c \in BackendStates |-> [portal \in Seq(Statements) |->
             IF left = 0
             THEN {IF c.tx = "I" THEN Committed(c) ELSE c}
             ELSE MessageOutcomes(From[left - 1], c, portal, batch[Len(batch) - left + 1])]]
    IN  From[Len(batch)][b][<<>>]
=============================================================================
