------------------------------ MODULE PgClient ------------------------------
(***************************************************************************)
(* `PgClient::fetch_json` of pgmcp: tool calls that share a bounded, lazily *)
(* connected pool, each running the caller's SQL inside a READ ONLY,        *)
(* statement-timed transaction that is always rolled back.                  *)
(*                                                                          *)
(* A step of a call is one `.await` of `fetch_json`.  The pool (sqlx) and   *)
(* the server session behind a connection (Postgres) are external: they are *)
(* modelled from how client.rs uses them.  Time is abstract: a timeout may  *)
(* fire whenever what it bounds has not happened.                           *)
(*                                                                          *)
(* X_variant, next to X, is a deliberately faulty variant of X; README.md   *)
(* says which property each one breaks.                                     *)
(***************************************************************************)
EXTENDS Integers, Sequences

CONSTANTS
  Calls,              (* fetch_json calls, one per tool call                *)
  Conns,              (* pool slots: PG_MAX_CONNECTIONS of them             *)
  NoConn,             (* a call that holds no connection                    *)
  Sql,                (* the kinds of statement the callers send            *)
  Limits,             (* the `limit` arguments they send                    *)
  NoLimit,            (* `limit` omitted                                    *)
  MaxRows,            (* PG_MAX_ROWS                                        *)
  TableRows,          (* bound: rows a query would return uncapped          *)
  Timeouts,           (* PG_STATEMENT_TIMEOUT_MS; 0 is Postgres' "none"     *)
  TimeoutLimit,       (* the largest value Postgres accepts for it          *)
  Faults              (* what may happen to the database                    *)

\* Statements by what they do once they run: "select" reads; "setting" reads
\* and calls set_config(.., is_local => false); "write" is a volatile function
\* doing DML; "sequence" is nextval(), which no ROLLBACK undoes; "slow" outlives
\* any timeout; "lift" is slow and first sets statement_timeout to 0; "invalid"
\* does not parse inside the wrapper; "unenclosed" reads, but its text ends the
\* wrapper's parentheses itself, which leaves the LIMIT out.
StatementKinds ==
  {"select", "setting", "write", "sequence", "slow", "lift", "invalid", "unenclosed"}

ASSUME ConnAssumption == NoConn \notin Conns
ASSUME SqlAssumption == Sql \subseteq StatementKinds
ASSUME LimitAssumption ==
  /\ NoLimit \notin Int
  /\ Limits \subseteq Int \cup {NoLimit}
  /\ MaxRows \in Int
  /\ TableRows \in Nat
ASSUME TimeoutAssumption == Timeouts \subseteq Nat /\ TimeoutLimit \in Nat
ASSUME FaultAssumption == Faults \subseteq {"terminate", "crash", "partition"}

VARIABLES
  pc,       (* per call: the await it is at                                 *)
  sql,      (* per call: the statement it was given                         *)
  limit,    (* per call: the row limit in force                             *)
  step,     (* per call: the next statement of the preamble                 *)
  conn,     (* per call: the connection its transaction holds               *)
  rows,     (* per call: rows of the JSON in hand                           *)
  outcome,  (* per call: "none", "ok" or "error"                            *)
  slot,     (* per slot: "closed", "idle", "held" or "returning"            *)
  link,     (* per slot: "up", or "broken" once the server dropped it       *)
  sess,     (* per slot: the server session behind the connection           *)
  reach,    (* the database: "up", "refusing" connections, or "silent"      *)
  written,  (* calls that changed the database                              *)
  statement_timeout_ms  (* of the client, as configured                     *)

callVars == <<pc, sql, limit, step, conn, rows, outcome>>
poolVars == <<slot, link, sess>>
vars == <<pc, sql, limit, step, conn, rows, outcome, slot, link, sess, reach, written,
          statement_timeout_ms>>

-----------------------------------------------------------------------------
(* The pure helpers of client.rs and server.rs.                            *)

Larger(a, b) == IF a > b THEN a ELSE b
Smaller(a, b) == IF a < b THEN a ELSE b

clamp_limit(requested) == Smaller(Larger(1, requested), Larger(1, MaxRows))

effective_limit(requested) ==
  clamp_limit(IF requested = NoLimit THEN MaxRows ELSE requested)

wrap_query_aggregatedFirst(stmt, l, n) == n

\* How many of n rows the wrapped statement returns.  It stands in the wrapper as
\* text: the LIMIT is around it as long as that text stays in its parentheses.
wrap_query(stmt, l, n) == IF stmt = "unenclosed" THEN n ELSE Smaller(n, l)

transaction_preamble_unprotected == <<"statement_timeout">>
transaction_preamble_untimed == <<"READ ONLY">>
transaction_preamble == <<"READ ONLY", "statement_timeout">>

-----------------------------------------------------------------------------
(* The server session behind one connection.                               *)

\* A session with no transaction and the server's own settings.  `timer` is
\* the timeout armed when the running statement started, `dirty` uncommitted
\* changes, `altered` a setting the SQL changed for the whole session, which
\* stands until the transaction is rolled back, and `kept` one that outlived it.
Fresh == [txn |-> "none", readOnly |-> FALSE, timeout |-> 0, timer |-> 0,
          dirty |-> FALSE, altered |-> FALSE, kept |-> FALSE]

Sessions == [txn : {"none", "open", "failed"}, readOnly : BOOLEAN, timeout : Nat,
             timer : Nat, dirty : BOOLEAN, altered : BOOLEAN, kept : BOOLEAN]

Configured(s, stmt) ==
  IF stmt = "READ ONLY" THEN [s EXCEPT !.readOnly = TRUE]
                        ELSE [s EXCEPT !.timeout = statement_timeout_ms]

\* Postgres refuses a statement_timeout beyond its integer range.
Settable(stmt) == stmt = "READ ONLY" \/ statement_timeout_ms <= TimeoutLimit

Started(s, stmt) ==
  IF stmt = "lift" THEN [s EXCEPT !.timer = s.timeout, !.timeout = 0, !.altered = TRUE]
                   ELSE [s EXCEPT !.timer = s.timeout]

Completed(s, stmt) ==
  [s EXCEPT !.timer = 0,
            !.altered = s.altered \/ stmt = "setting",
            !.dirty = s.dirty \/ stmt = "write"]

Failed(s) == [s EXCEPT !.txn = "failed", !.timer = 0]

\* COMMIT and ROLLBACK end a transaction and with it what was SET LOCAL; what was
\* set for the session survives the one and not the other.  Outside a transaction
\* there is nothing to roll back.
Committed(s) == [Fresh EXCEPT !.kept = s.kept \/ s.altered]
RolledBack(s) == IF s.txn = "none" THEN s ELSE [Fresh EXCEPT !.kept = s.kept]

Writes == {"write", "sequence"}
Endless == {"slow", "lift"}

Refused(s, stmt) == stmt = "invalid" \/ (stmt \in Writes /\ s.readOnly)

-----------------------------------------------------------------------------
Init ==
  /\ pc = [c \in Calls |-> "idle"]
  /\ sql \in [Calls -> Sql]
  /\ limit = [c \in Calls |-> 1]
  /\ step = [c \in Calls |-> 1]
  /\ conn = [c \in Calls |-> NoConn]
  /\ rows = [c \in Calls |-> 0]
  /\ outcome = [c \in Calls |-> "none"]
  /\ slot = [k \in Conns |-> "closed"]
  /\ link = [k \in Conns |-> "up"]
  /\ sess = [k \in Conns |-> Fresh]
  /\ reach = "up"
  /\ written = {}
  /\ statement_timeout_ms \in Timeouts

\* The call's connection answers: a round trip on it completes.
Connected(c) == reach = "up" /\ link[conn[c]] = "up"

\* An early `?` return: the transaction is dropped, its rollback queued, and
\* the connection handed back to the pool, while the caller gets the error.
Abandon(c) ==
  /\ pc' = [pc EXCEPT ![c] = "done"]
  /\ outcome' = [outcome EXCEPT ![c] = "error"]
  /\ slot' = [slot EXCEPT ![conn[c]] = "returning"]
  /\ conn' = [conn EXCEPT ![c] = NoConn]

-----------------------------------------------------------------------------
(* The steps of fetch_json.                                                *)

\* The tool resolves its limit and enters fetch_json, which clamps it again.
Submit(c) ==
  /\ pc[c] = "idle"
  /\ \E l \in Limits : limit' = [limit EXCEPT ![c] = clamp_limit(effective_limit(l))]
  /\ pc' = [pc EXCEPT ![c] = "acquire"]
  /\ UNCHANGED <<sql, step, conn, rows, outcome, slot, link, sess, reach, written,
                 statement_timeout_ms>>

Acquire_shared(c, k) ==
  /\ pc[c] = "acquire"
  /\ reach = "up"
  /\ pc' = [pc EXCEPT ![c] = "begin"]
  /\ conn' = [conn EXCEPT ![c] = k]
  /\ slot' = [slot EXCEPT ![k] = "held"]
  /\ link' = [link EXCEPT ![k] = "up"]
  /\ UNCHANGED <<sql, limit, step, rows, outcome, sess, reach, written,
                 statement_timeout_ms>>

\* `pool.begin()`, first half: take an idle connection that still answers, or
\* connect a new one in a free slot or in place of one found broken.
Acquire(c, k) ==
  /\ pc[c] = "acquire"
  /\ reach = "up"
  /\ slot[k] \in {"closed", "idle"}
  /\ pc' = [pc EXCEPT ![c] = "begin"]
  /\ conn' = [conn EXCEPT ![c] = k]
  /\ slot' = [slot EXCEPT ![k] = "held"]
  /\ link' = [link EXCEPT ![k] = "up"]
  /\ sess' = [sess EXCEPT ![k] = IF slot[k] = "idle" /\ link[k] = "up" THEN @ ELSE Fresh]
  /\ UNCHANGED <<sql, limit, step, rows, outcome, reach, written,
                 statement_timeout_ms>>

\* `pool.begin()` fails: no slot came free before the acquire timeout, or the
\* database could not be connected to.
AcquireFails(c) ==
  /\ pc[c] = "acquire"
  /\ reach = "up" => \A k \in Conns : slot[k] \notin {"closed", "idle"}
  /\ pc' = [pc EXCEPT ![c] = "done"]
  /\ outcome' = [outcome EXCEPT ![c] = "error"]
  /\ UNCHANGED <<sql, limit, step, conn, rows, slot, link, sess, reach, written,
                 statement_timeout_ms>>

\* `pool.begin()`, second half: BEGIN.
Begin(c) ==
  /\ pc[c] = "begin"
  /\ Connected(c)
  /\ sess' = [sess EXCEPT ![conn[c]].txn = "open"]
  /\ step' = [step EXCEPT ![c] = 1]
  /\ pc' = [pc EXCEPT ![c] = "configure"]
  /\ UNCHANGED <<sql, limit, conn, rows, outcome, slot, link, reach, written,
                 statement_timeout_ms>>

\* One round of `for stmt in transaction_preamble(..)`.
Configure(c) ==
  /\ pc[c] = "configure"
  /\ Connected(c)
  /\ Settable(transaction_preamble[step[c]])
  /\ sess' = [sess EXCEPT ![conn[c]] = Configured(@, transaction_preamble[step[c]])]
  /\ step' = [step EXCEPT ![c] = @ + 1]
  /\ pc' = [pc EXCEPT ![c] = IF step[c] = Len(transaction_preamble)
                               THEN "query" ELSE "configure"]
  /\ UNCHANGED <<sql, limit, conn, rows, outcome, slot, link, reach, written,
                 statement_timeout_ms>>

ConfigureRefused_ignored(c) ==
  /\ pc[c] = "configure"
  /\ Connected(c)
  /\ ~Settable(transaction_preamble[step[c]])
  /\ pc' = [pc EXCEPT ![c] = "query"]
  /\ UNCHANGED <<sql, limit, step, conn, rows, outcome, slot, link, sess, reach, written,
                 statement_timeout_ms>>

\* A preamble statement is refused: "failed to configure transaction".
ConfigureRefused(c) ==
  /\ pc[c] = "configure"
  /\ Connected(c)
  /\ ~Settable(transaction_preamble[step[c]])
  /\ sess' = [sess EXCEPT ![conn[c]] = Failed(@)]
  /\ Abandon(c)
  /\ UNCHANGED <<sql, limit, step, rows, link, reach, written,
                 statement_timeout_ms>>

\* The wrapped query reaches the server and starts to run.
StartQuery(c) ==
  /\ pc[c] = "query"
  /\ Connected(c)
  /\ sess' = [sess EXCEPT ![conn[c]] = Started(@, sql[c])]
  /\ pc' = [pc EXCEPT ![c] = "running"]
  /\ UNCHANGED <<sql, limit, step, conn, rows, outcome, slot, link, reach, written,
                 statement_timeout_ms>>

\* `fetch_one` and `try_get` succeed: the JSON is in hand.
FinishQuery(c) ==
  /\ pc[c] = "running"
  /\ Connected(c)
  /\ sql[c] \notin Endless
  /\ ~Refused(sess[conn[c]], sql[c])
  /\ \E n \in 0..TableRows : rows' = [rows EXCEPT ![c] = wrap_query(sql[c], limit[c], n)]
  /\ sess' = [sess EXCEPT ![conn[c]] = Completed(@, sql[c])]
  /\ written' = written \cup (IF sql[c] = "sequence" THEN {c} ELSE {})
  /\ pc' = [pc EXCEPT ![c] = "rollback"]
  /\ UNCHANGED <<sql, limit, step, conn, outcome, slot, link, reach,
                 statement_timeout_ms>>

\* `fetch_one` fails: a write in a read-only transaction, or invalid SQL.
QueryRefused(c) ==
  /\ pc[c] = "running"
  /\ Connected(c)
  /\ Refused(sess[conn[c]], sql[c])
  /\ sess' = [sess EXCEPT ![conn[c]] = Failed(@)]
  /\ Abandon(c)
  /\ UNCHANGED <<sql, limit, step, rows, link, reach, written,
                 statement_timeout_ms>>

\* `fetch_one` fails: "canceling statement due to statement timeout".
QueryTimedOut(c) ==
  /\ pc[c] = "running"
  /\ Connected(c)
  /\ sql[c] \in Endless
  /\ sess[conn[c]].timer > 0
  /\ sess' = [sess EXCEPT ![conn[c]] = Failed(@)]
  /\ Abandon(c)
  /\ UNCHANGED <<sql, limit, step, rows, link, reach, written,
                 statement_timeout_ms>>

ConnectionLost_queryOnly(c) ==
  /\ pc[c] = "running"
  /\ link[conn[c]] = "broken"
  /\ Abandon(c)
  /\ UNCHANGED <<sql, limit, step, rows, link, sess, reach, written,
                 statement_timeout_ms>>

\* Any await of a call whose connection broke fails.
ConnectionLost(c) ==
  /\ pc[c] \in {"begin", "configure", "query", "running"}
  /\ link[conn[c]] = "broken"
  /\ Abandon(c)
  /\ UNCHANGED <<sql, limit, step, rows, link, sess, reach, written,
                 statement_timeout_ms>>

Rollback_commits(c) ==
  /\ pc[c] = "rollback"
  /\ link[conn[c]] = "broken" \/ reach = "up"
  /\ sess' = [sess EXCEPT ![conn[c]] = Committed(@)]
  /\ written' = written \cup (IF sess[conn[c]].dirty THEN {c} ELSE {})
  /\ pc' = [pc EXCEPT ![c] = "done"]
  /\ outcome' = [outcome EXCEPT ![c] = "ok"]
  /\ slot' = [slot EXCEPT ![conn[c]] = "returning"]
  /\ conn' = [conn EXCEPT ![c] = NoConn]
  /\ UNCHANGED <<sql, limit, step, rows, link, reach, statement_timeout_ms>>

\* `let _ = tx.rollback().await`: its failure does not lose the answer.
Rollback(c) ==
  /\ pc[c] = "rollback"
  /\ link[conn[c]] = "broken" \/ reach = "up"
  /\ sess' = [sess EXCEPT ![conn[c]] = RolledBack(@)]
  /\ pc' = [pc EXCEPT ![c] = "done"]
  /\ outcome' = [outcome EXCEPT ![c] = "ok"]
  /\ slot' = [slot EXCEPT ![conn[c]] = "returning"]
  /\ conn' = [conn EXCEPT ![c] = NoConn]
  /\ UNCHANGED <<sql, limit, step, rows, link, reach, written,
                 statement_timeout_ms>>

-----------------------------------------------------------------------------
(* The pool and the database.                                              *)

\* The pool takes a connection back: a rollback still queued is flushed and the
\* connection, whatever is left in its session, kept if it answers and closed if
\* it does not.
ReturnConn(k) ==
  /\ slot[k] = "returning"
  /\ link[k] = "broken" \/ reach = "up"
  /\ slot' = [slot EXCEPT ![k] = IF link[k] = "broken" THEN "closed" ELSE "idle"]
  /\ sess' = [sess EXCEPT ![k] = RolledBack(@)]
  /\ UNCHANGED <<pc, sql, limit, step, conn, rows, outcome, link, reach, written,
                 statement_timeout_ms>>

\* The server ends one session: an administrator, an idle limit.
Terminate(k) ==
  /\ "terminate" \in Faults
  /\ reach = "up"
  /\ slot[k] # "closed"
  /\ link[k] = "up"
  /\ link' = [link EXCEPT ![k] = "broken"]
  /\ sess' = [sess EXCEPT ![k] = Fresh]
  /\ UNCHANGED <<pc, sql, limit, step, conn, rows, outcome, slot, reach, written,
                 statement_timeout_ms>>

\* The server goes down: every session ends, new connections are refused.
Crash ==
  /\ "crash" \in Faults
  /\ reach = "up"
  /\ reach' = "refusing"
  /\ link' = [k \in Conns |-> IF slot[k] = "closed" THEN link[k] ELSE "broken"]
  /\ sess' = [k \in Conns |-> Fresh]
  /\ UNCHANGED <<pc, sql, limit, step, conn, rows, outcome, slot, written,
                 statement_timeout_ms>>

\* The network to the server swallows packets: nothing is refused or reset.
Partition ==
  /\ "partition" \in Faults
  /\ reach = "up"
  /\ reach' = "silent"
  /\ UNCHANGED <<pc, sql, limit, step, conn, rows, outcome, slot, link, sess, written,
                 statement_timeout_ms>>

\* The server restarts, or the network heals.
Restore ==
  /\ reach # "up"
  /\ reach' = "up"
  /\ UNCHANGED <<pc, sql, limit, step, conn, rows, outcome, slot, link, sess, written,
                 statement_timeout_ms>>

CallStep(c) ==
  \/ \E k \in Conns : Acquire(c, k)
  \/ AcquireFails(c)
  \/ Begin(c)
  \/ Configure(c)
  \/ ConfigureRefused(c)
  \/ StartQuery(c)
  \/ FinishQuery(c)
  \/ QueryRefused(c)
  \/ QueryTimedOut(c)
  \/ ConnectionLost(c)
  \/ Rollback(c)

Next ==
  \/ \E c \in Calls : Submit(c) \/ CallStep(c)
  \/ \E k \in Conns : ReturnConn(k) \/ Terminate(k)
  \/ Crash
  \/ Partition
  \/ Restore

Spec == Init /\ [][Next]_vars

\* The runtime polls every future that can make progress, and the pool's
\* background task likewise; the server's statement timer fires.  Nothing is
\* owed by callers, and faults are never owed nor repaired.
Fairness ==
  /\ \A c \in Calls : WF_vars(CallStep(c))
  /\ \A k \in Conns : WF_vars(ReturnConn(k))

FairSpec == Spec /\ Fairness

-----------------------------------------------------------------------------
(* Properties.                                                             *)

InTransaction == {"configure", "query", "running", "rollback"}

\* Every variable has its type.
TypeOK ==
  /\ pc \in [Calls -> {"idle", "acquire", "begin", "done"} \cup InTransaction]
  /\ sql \in [Calls -> Sql]
  /\ limit \in [Calls -> 1..Larger(1, MaxRows)]
  /\ step \in [Calls -> 1..(Len(transaction_preamble) + 1)]
  /\ conn \in [Calls -> Conns \cup {NoConn}]
  /\ rows \in [Calls -> 0..TableRows]
  /\ outcome \in [Calls -> {"none", "ok", "error"}]
  /\ slot \in [Conns -> {"closed", "idle", "held", "returning"}]
  /\ link \in [Conns -> {"up", "broken"}]
  /\ sess \in [Conns -> Sessions]
  /\ reach \in {"up", "refusing", "silent"}
  /\ written \subseteq Calls
  /\ statement_timeout_ms \in Timeouts

\* No two calls ever share a connection, and a slot counts as held exactly
\* while some call holds it: the pool neither lends a connection twice nor
\* loses one, whichever `?` a call leaves by.
SlotAccounting ==
  /\ \A c, d \in Calls : conn[c] = conn[d] /\ conn[c] # NoConn => c = d
  /\ \A k \in Conns : slot[k] = "held" <=> \E c \in Calls : conn[c] = k

\* The caller's SQL runs only inside an open READ ONLY transaction, timed by
\* the configured timeout armed before the SQL itself could lift it: the two
\* SETs of `transaction_preamble` were both in force when it started.
GuardedExecution ==
  \A c \in Calls :
    pc[c] = "running" /\ link[conn[c]] = "up" =>
      /\ sess[conn[c]].txn = "open"
      /\ sess[conn[c]].readOnly
      /\ sess[conn[c]].timer = statement_timeout_ms

\* A connection the pool may lend again carries nothing of the call before: no
\* open transaction, no read-only flag, no setting its SQL changed, whether the
\* call rolled back itself or left by a `?`, its rollback only queued.
CleanIdle == \A k \in Conns : slot[k] = "idle" => sess[k] = Fresh

\* PG_MAX_ROWS (floored at one) is a cap and not merely a default: a limit
\* inside it is kept, one outside it or degenerate is pulled in, an omitted one
\* means the cap, clamping twice changes nothing, and no answer to a statement
\* that stays inside the wrapper has more rows than that.
RowsWithinCap ==
  LET cap == Larger(1, MaxRows)
  IN  /\ \A l \in Limits :
           /\ effective_limit(l) \in 1..cap
           /\ l \in 1..cap => effective_limit(l) = l
           /\ l = NoLimit => effective_limit(l) = cap
           /\ clamp_limit(effective_limit(l)) = effective_limit(l)
      /\ \A c \in Calls : outcome[c] = "ok" /\ sql[c] # "unenclosed" =>
           rows[c] <= limit[c] /\ limit[c] <= cap

\* Every submitted call is answered, one way or the other.
EveryCallAnswered == \A c \in Calls : pc[c] = "acquire" ~> pc[c] = "done"

\* Silences of the network come to an end.  A crash need not: it is answered.
SilenceEnds == <>[](reach # "silent")

\* Every submitted call is answered, whether it queues, runs an endless statement
\* or one that lifts its own timeout, or finds the database gone for good: all
\* that fetch_json leaves unbounded is a network that stays silent.
AnsweredUnlessSilent ==
  SilenceEnds => \A c \in Calls : pc[c] = "acquire" ~> pc[c] = "done"

\* Connections lent or being returned end up available again: whatever a silence,
\* a crash or an early return interrupted, no slot is lost for good.
PoolRecovers ==
  SilenceEnds => \A k \in Conns : []<>(slot[k] \in {"closed", "idle"})

\* What run_query promises its caller, with everything else hidden.
Promise == INSTANCE ReadOnlyQueries WITH
  Statements <- Sql,
  Readable <- Sql \cap {"select", "setting", "unenclosed"},
  status <- [c \in Calls |->
    IF pc[c] = "idle" THEN "idle"
    ELSE IF pc[c] # "done" THEN "pending"
    ELSE IF outcome[c] = "ok" THEN "answered" ELSE "refused"],
  request <- sql,
  contents <- written

\* The client implements that promise: a write, DDL, or overlong statement is
\* never answered, and the database never changes.
ImplementsPromise == Promise!Spec
=============================================================================
