--------------------------- MODULE MetricsBuffer ---------------------------
(***************************************************************************)
(* The SQLite table behind the metrics pipeline (src/src/metrics_buffer.rs)*)
(* as a partial function from row id to row.  Every method of MetricsBuffer*)
(* takes the connection's mutex and runs one SQL statement, so each is one *)
(* atomic operator on the table; ids come from the caller, which owns the  *)
(* AUTOINCREMENT sequence.                                                 *)
(*                                                                         *)
(* A payload is abstracted to one bit: whether it parses again when it is  *)
(* read back ("ok").                                                       *)
(***************************************************************************)
EXTENDS Naturals, FiniteSets, Functions

Row == [ts : Nat, sent : BOOLEAN, ok : BOOLEAN]

IsTable(table) == table \in [DOMAIN table -> Row]

Unsent(table) == {i \in DOMAIN table : ~table[i].sent}

\* ORDER BY id ASC LIMIT n.
Newest(S, n) == {i \in S : Cardinality({j \in S : j > i}) < n}
Oldest(S, n) == {i \in S : Cardinality({j \in S : j < i}) < n}

-----------------------------------------------------------------------------

Store(table, id, now, parses) ==
  [i \in DOMAIN table \cup {id} |->
     IF i = id THEN [ts |-> now, sent |-> FALSE, ok |-> parses] ELSE table[i]]

\* A row that does not parse takes a place in the LIMIT and is then skipped.
GetUnsent(table, limit) == {i \in Oldest(Unsent(table), limit) : table[i].ok}

MarkSentOldestOnly(table, ids) ==
  [i \in DOMAIN table |->
     IF i \in Oldest(ids, 1) THEN [table[i] EXCEPT !.sent = TRUE] ELSE table[i]]
MarkSent(table, ids) ==
  [i \in DOMAIN table |->
     IF i \in ids THEN [table[i] EXCEPT !.sent = TRUE] ELSE table[i]]

Old(table, now, age) == {i \in DOMAIN table : table[i].ts + age < now}

\* Retention: sent and unsent rows alike.
CleanupYoung(table, now, retention) ==
  Restrict(table, DOMAIN table \ Old(table, now + 1, retention))
Cleanup(table, now, retention) ==
  Restrict(table, DOMAIN table \ Old(table, now, retention))

CleanupSentUnfiltered(table, now, keep) ==
  Restrict(table, DOMAIN table \ Old(table, now, keep))
CleanupSent(table, now, keep) ==
  Restrict(table, DOMAIN table \ (Old(table, now, keep) \ Unsent(table)))
=============================================================================
