----------------------------- MODULE MCExtended -----------------------------
(* Instances of Extended for TLC. *)
EXTENDS Extended, TLC

Symmetry == Permutations(Sessions) \cup Permutations(Conns)

Message(kind, name, query) == [kind |-> kind, name |-> name, query |-> query]

Parse(name, stmt) == Message("Parse", name, <<stmt>>)
Run(name) == <<Message("Bind", name, <<>>), Message("Execute", name, <<>>)>>
OneRound(name, stmt) == <<Parse(name, stmt)>> \o Run(name) \o <<Message("Close", name, <<>>)>>

\* Clients that control transactions in one round, and prepare a statement in one
\* batch to run it in the next ones, as lib/pq does.
DriverBatches ==
    {OneRound("", stmt) : stmt \in {"BEGIN", "END", "SET"}}
    \cup {<<Parse("n", stmt)>> : stmt \in {"SELECT", "WRITE"}}
    \cup {Run("n"), <<>>}

DriverQueries == {<<"BEGIN">>, <<"SELECT">>}

\* A transaction opened with its first statement in the same batch.
PipelinedBatches == {OneRound("", "BEGIN") \o OneRound("", "SELECT"), OneRound("", "END")}
=============================================================================
