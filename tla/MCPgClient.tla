----------------------------- MODULE MCPgClient -----------------------------
(* Instances of PgClient for TLC.                                          *)
EXTENDS PgClient

AllSql == StatementKinds

\* Every kind that adds something to the others: "setting" reads like "select",
\* "sequence" is refused like "write" and "invalid", "lift" outlives any timeout
\* like "slow".
Hard == <<"setting", "sequence", "lift", "unenclosed">>
HardSql == {Hard[i] : i \in DOMAIN Hard}

AllLimits == {-1, 0, 1, 2, 3, 5, NoLimit}
SomeLimits == {NoLimit}

\* The pool has two connections; with a timeout of 1 it has one, for which the
\* calls then wait.
CONSTANT spare
MCNext == Next /\ (statement_timeout_ms = 1 => slot'[spare] = "closed")

\* Calls are interchangeable: they take their statements in one order only.
CONSTANTS first, second
MCInit == Init /\ \E j \in DOMAIN Hard : \E i \in 1..j : sql[first] = Hard[i] /\ sql[second] = Hard[j]

MCSpec == MCInit /\ [][MCNext]_vars /\ Fairness
=============================================================================
