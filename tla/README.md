# Verification of homelab-mcp-servers

TLA+ models of the MCP servers in this repository, their TLC configurations and
TLAPS proofs. Paths below are relative to the repository root; `pgmcp` stands for
`crates/postgres-mcp/pgmcp/src`, `tempomcp` for `crates/tempo-mcp/tempomcp/src`,
and so on for the other servers, `mcp-common` for `crates/common/mcp-common/src`.

Run a model with `tlc -config MCX_run.cfg MCX.tla`, check proofs with
`tlapm XProofs.tla`.

## 1. The system

Eight MCP servers (a library crate and a thin `-server` binary each) share
`mcp-common`. A server is an axum app: the streamable-HTTP MCP service of `rmcp`
at `/mcp`, one server object per session, plus health routes. All sessions clone
one client of one upstream. Tool calls of all sessions run concurrently, and a
server keeps no state of its own between calls except pgmcp's connection pool;
the state that matters is in the upstreams and in calls under way.

| Component | State | Operations | What is hard | What makes it correct |
|---|---|---|---|---|
| pgmcp query path (`client.rs`, `run_query` in `server.rs`) | sqlx pool, one server session per connection, calls in flight | `fetch_json`: acquire, BEGIN, two SETs, wrapped query, rollback | five awaits, each with an early return; pool reuse; database down, restarted, silent; SQL that works against its own limits | SQL runs only read-only and timed; connections neither shared, lost nor dirty; rows capped inside the wrapper; every call answered |
| configuration of each server (`config.rs`) | environment | parse credentials, timeouts, limits, URL, host list | zero, blank and junk values; ports and IPv6 literals; an empty host list | what is wrong is refused by name; the upstream asked and the hosts served are the ones meant |
| tempomcp trace view (`compact.rs`) | one trace document per call | collect spans, `tree_order`, totals, errors, slowest, cut at `max_spans` | parent links from the wire: cycles, missing parents, repeated IDs; missing times; truncation | every span once, order reads as the tree, figures over the whole trace |
| tempomcp client, tools, `time.rs` | none | GETs, 404 as not found, `status` of three requests, time arguments | partial failure, unit mistakes | errors name their cause, a wrong window is refused |
| pbsmcp `task_log` (`server.rs`) | none; the log grows in PBS | page, or probe then fetch a tail | the log grows between the two requests; tails longer than the log | a true window, pages that join |
| pbsmcp client, other tools | none | GET, unwrap `data` | error bodies | a failure is never an empty success |
| alertmanagermcp | write gate, fixed at start | list tools, `create_silence`, `expire_silence` | timeouts after the effect, retries | no silence by accident, none reported that is not there |
| hamcp | none | states, services, history, `set_state`, `call_service` | status handling, ambiguous timeouts | a failure is never reported as success |
| wpmcp | none | GETs, `step_logs` with a cap | truncation, cap 0 | the end of the log is kept and the cut is told |
| prommcp, lokimcp | none | GET passthroughs | error envelopes under any status | a failure is never an empty success |
| mcp-common | none | HTTP timeouts, base URLs, host allow-list, path segments, router, healthcheck | empty or zero values | every upstream request is bounded; the allow-list fails closed |
| e2e harness (`mcp-common/e2e.rs`) | MCP test sessions, child processes, loopback ports | requests and paged lists over a shared session; the contract of a server binary, clause by clause | replies framed and mixed in several ways; ports released before they are bound; early returns that leave processes behind | an answer is the request's own; a binary that passes keeps every clause, one that keeps them passes; nothing is left behind |
| server binaries (`main.rs`) | environment, `.env` | probe or serve | the same default in two places, refusals an operator must act on | the probe asks what is served; a refusal names what is wrong |
| Nix module, container, compose, release | - | deploy | - | - |

Interactions: a tool method calls its client; a client makes one or more
requests to its upstream; pgmcp calls meet in the pool, and everything else
meets only in the upstream. Nothing is persisted by a server.

## 2. Modules

| Module | Models | Extends or instantiates |
|---|---|---|
| `ReadOnlyQueries` | what `run_query` promises: abstract specification | |
| `PgClient` | `PgClient::fetch_json`, its helpers, the pool and the server sessions behind it | INSTANCE `ReadOnlyQueries` |
| `PgClientProofs` | proofs about `PgClient` | `PgClient`, `TLAPS` |
| `MCPgClient` | instances of `PgClient` | `PgClient` |
| `SpanTree` | `tree_order` of `tempomcp/compact.rs` | |
| `TaskLog` | `task_log` of `pbsmcp/server.rs` | |
| `TaskLogProofs` | proofs about `TaskLog` | `TaskLog`, `TLAPS` |
| `MCTaskLog` | its instance | `TaskLog` |
| `RestTools` | every tool of the seven REST servers: its parameters and its request | |
| `RestReplies` | how each client method reads an answer | |
| `RestCalls` | a call of any of these tools, from its arguments to its result | `RestTools`, `RestReplies` |
| `RestCallsProofs` | proofs about `RestCalls` | `RestCalls`, `TLAPS` |
| `MCRestCalls` | its instance | `RestCalls` |
| `AtMostOnce` | what a tool that writes promises: abstract specification | |
| `RemoteWrites` | `create_silence`, `expire_silence`, `set_state`, `call_service` and the upstreams they write to | `RestReplies`, INSTANCE `AtMostOnce` |
| `RemoteWritesProofs` | proofs about `RemoteWrites` | `RemoteWrites`, `TLAPS` |
| `MCRemoteWrites` | instances of `RemoteWrites` | `RemoteWrites` |
| `TraceView` | `collect_spans` and `trace_tree` of `tempomcp/compact.rs` | `SpanTree` |
| `TraceViewProofs` | proofs about `SpanTree` and `TraceView` | `TraceView`, `TLAPS` |
| `MCTraceView` | instances of `TraceView` and the `SpanTree` in it | `TraceView` |
| `TempoSearch` | `search` of tempomcp: time arguments, limit, trace IDs | |
| `TempoSearchProofs` | proofs about `TempoSearch` | `TempoSearch`, `TLAPS` |
| `MCTempoSearch` | its instance | `TempoSearch` |
| `StepLogs` | `step_logs` of wpmcp | |
| `StepLogsProofs` | proofs about `StepLogs` | `StepLogs`, `TLAPS` |
| `MCStepLogs` | its instance | `StepLogs` |
| `Startup` | configuration, host allow-list and base URL of all eight servers | |
| `MCStartup` | its instance | `Startup` |
| `BinaryContract` | `check_binary_contract` of the harness, its children and their ports | |
| `MCBinaryContract` | its instance | `BinaryContract` |
| `ServerProofs` | proofs about `Startup`, `BinaryContract` and `McpExchange` | `BinaryContract`, `Startup`, `McpExchange`, `TLAPS` |
| `McpExchange` | the harness's MCP session client: requests, replies, paged lists | |
| `MCMcpExchange` | its instance | `McpExchange` |

### PgClient

One process per call of `fetch_json`; `pc` names the await it is at.

| Code | Action |
|---|---|
| `run_query` resolves the limit, `fetch_json` clamps it again | `Submit` |
| `pool.begin()`: a connection is lent | `Acquire` |
| `pool.begin()` fails: acquire timeout, no connection | `AcquireFails` |
| `pool.begin()`: BEGIN | `Begin` |
| loop over `transaction_preamble` | `Configure`, `ConfigureRefused` |
| `fetch_one`, `try_get` | `StartQuery`, then `FinishQuery`, `QueryRefused` or `QueryTimedOut` |
| any `?` on a broken connection | `ConnectionLost` |
| `let _ = tx.rollback().await; Ok(json)` | `Rollback` |

`Abandon` is what every early `?` does: the transaction is dropped, which queues
its rollback, and the connection goes back to the pool. `ReturnConn` is the
pool's own task (sqlx, external): it flushes the queued rollback and keeps or
closes the connection. `sess` is the server's side of each connection
(Postgres, external): transaction state, read-only flag, timeout in force, the
timer armed when a statement started, uncommitted changes, and what the SQL set for
the session: `altered` until the transaction ends, `kept` if it outlives it. `RolledBack`
is what a rollback undoes of a session, awaited (`Rollback`) or queued (`ReturnConn`),
and all that cleans one: a session goes to the next caller as it is.
Statements are kinds, by what they do when run, after the shapes
`pgmcp/tests/e2e.rs` sends. Faults: one session ends (`Terminate`), the server
goes down and refuses connections (`Crash`), the network swallows packets
(`Partition`); `Restore` ends the last two. Time is abstract: a timeout may fire
whenever what it bounds has not happened, so no ordering of timeouts is assumed.

Data left out: SQL text, bind parameters, the JSON, error wording. `wrap_query` is what
the wrapper `SELECT .. LIMIT n` lets through of a statement: at most the limit, or
every row where the statement's own text ends the wrapper's parentheses (the kind
`unenclosed`); SQL that does not parse inside it fails. `ReadOnlyQueries` is the
read-only half of what `run_query` promises and says nothing of rows.

### SpanTree

The two loops of `tree_order`, one turn a step: `NextStart` takes the next start
span, `Skip` drops a visited stack top, `Visit` emits one. `starts` is the
iterator `roots.chain(0..n)`, `stack` the Rust vector with its top first. Child
lists are sets, listed in the total order `Before` (start, ID, index: the sort is
stable) when they are pushed. The trace itself is the initial state.

### TaskLog

One call at a time (calls share nothing): `Enter` checks the arguments, `Probe`
and `Fetch` are the two requests, `Fail` any way either can fail. `Write` and
`Stop` are the task in PBS. `Page` is a caller that goes on from the reply it
has, as the tool's description tells it to. The log is append-only, so a line is
its number. A `limit` or `tail` of zero is passed through by the code and its
meaning is PBS' own, so callers here send none.

### RestTools, RestReplies, RestCalls

`RestTools` is a table: for each tool of prommcp, lokimcp, tempomcp, pbsmcp,
alertmanagermcp, hamcp and wpmcp (and the methods of `HaClient` that no tool
uses) its required and optional parameters, whether the tool itself checks
them, and its request: method, path as literal and argument segments, the query
key of each argument, what goes into the body. `RestReplies` has one operator per
client method (`prom_get`, `am_post_json`, `ha_call_service`, ..) that reads an
answer (a status, and a body that is data, an error envelope, bare text, empty
or broken off) in the order of the method's checks. `RestCalls` is the call:

| Code | Action |
|---|---|
| serde's `deny_unknown_fields`, a tool's own checks, `path_segment` | `Invoke` |
| the request goes out; the URL parser's treatment of segments | `Send` (`Wire` in `heard`) |
| connection refused, DNS, TLS, broken | `SendFails` |
| reqwest follows a redirect, or gives up | `Redirect` |
| status and headers arrive | `Respond` |
| body read, status and envelope checked | `Finish` |
| `HttpTimeouts`: connect or whole request | `TimesOut` |

tempomcp's `status` is three requests in turn (`Over`). reqwest turns a POST into
a GET on 301 and 302, and anything into a GET on 303. Argument values are kinds,
by what they do to a path: plain, with a slash, empty, `.` and `..`.

### RemoteWrites

One process per call, beside the network and the upstream. `Invoke`, `Refuse`,
`Send`, `GiveUp` (transport error or timeout) and `Finish` are the call;
`CarryOut`, `OnlyRead`, `Decline` and `Redirect` the upstream or a proxy on the
way, whose answers may be lost (`Back`). `wire` says a request is on its way: it
stays so when its call has given up, which is how a write takes effect after its
caller was told of a failure. A retry is another call. A silence is named by the
call that made it; that it also ends at its `ends_at` is left out, and an
upstream that answers 4xx is taken to have done nothing. `AtMostOnce` is what a
caller may rely on: at most one effect, a success only after it, none after a
refusal; of a failure it promises nothing.

### TraceView

Extends `SpanTree` by what stands before and after it: `collect_spans` turns a
document into the `id`, `parent` and `start` that `SpanTree` walks (`hex_id`,
`nanos`), `Render` is the rest of `trace_tree` once the walk is done. Names,
services, attributes and events are copied along by the code and left out.

### TempoSearch

`Check` is `push_window` over both `unix_seconds`, `Ask` is Tempo (external: any of
the matches, as many as the limit lets through), `Summarise` is
`search_summary`, `Open` a caller who passes an ID to `trace`. Time counts in
half seconds, the smallest unit that has fractions of the seconds Tempo takes. An
integer is the number as typed, meant in seconds or (`scaled`) as so many of the `MILLI`
units of a second. The code tells the two apart by size alone: `Misread` says of which
instants the number in the other unit is still at most `MAX_UNIX_SECONDS`.

### StepLogs

The step `Write`s while `Fetch` asks and `Cut` caps, cuts and decodes. A line is
its number and whether its text happens to be valid base64; `encodes` says
whether Woodpecker encodes lines, as it does today.

### Startup

`Start` is the way of a main to a served address or to its first error: `checks`
lists for each server, in the order of the code, which variable a check reads,
what it refuses and which variable its message names. `Route` is the router over
a `Config` built by hand, `Correct` an operator who sets right what a refusal
named. `normalize_base_url` and `Address` follow a spelling of the target to where
reqwest connects; `parse_allowed_hosts` and `mcp_router` a host list to rmcp. Whitespace and
trailing slashes are left out, and `*_INSECURE` and `WP_MAX_LOG_LINES`, which
refuse nothing.

### BinaryContract

Contracts run side by side, as tests do. `Call` is a test that calls one; `slow` says
whether a machine may be too slow for `STARTUP_TIMEOUT`. `pc` is the await a contract is at;
each clause is an action that starts a child and one that judges it
(`RemoveVariable` and `VariableMissed`, `Occupy` and `OccupiedTried`, `Spawn` with
`Poll` and `Ask`, `ProbeHealthy` and `HealthyProbed`, `ListTools`, `ProbeDead` and
`DeadProbed`); `Expire` and `GiveUp` are `STARTUP_TIMEOUT`, `Fails` is any `?` or
`bail!`. Children are processes (`Configure`, `Bind`, `Probe`, `Die`), ports the
kernel's. A `build` says which clauses a binary breaks; the contract does not
see it. A process that was sent SIGKILL holds its port until it `Die`s, and does
not answer.

### McpExchange

`Request` takes the next ID and sends. `Push` (what comes ahead of the response on a
stream) and `Reply` (its end, or JSON, or a failure) are the server and rmcp (external).
`Reading` is the loop of `sse_events` over the lines so far, `Take` is `extract_message` and, for a
listing, the end of it, `Collect` a page of `list_tools`. A message is who it is
for, whether it is an error and, in a list, the page; a `data:` line is a whole
message or half of one.

## 3. Runs

| Run | Checks | Bounds | Shows |
|---|---|---|---|
| `queries` | `SlotAccounting`, `GuardedExecution`, `CleanIdle`, `RowsWithinCap`, `ImplementsPromise`, `AnsweredUnlessSilent`, `PoolRecovers` | 2 calls, 1 and 2 slots, four kinds of SQL that stand for all, limits -1..5 and omitted with a cap of 2 and 3 rows, a statement timeout Postgres takes and one it refuses, every fault | whatever path calls leave by, the pool stays exact and its sessions clean, SQL runs guarded, and capped if it stays in the wrapper; the client implements `ReadOnlyQueries`; calls end unless the network is silent for ever, and slots come back |
| `silent` (violated) | `EveryCallAnswered` | 2 calls, 1 slot, every fault | a silent network leaves a call unanswered for ever |
| `trace` | `EachSpanOnce`, `ReadsAsTree`, `SiblingsInOrder`, `CyclesLast`, `LinksSurvive`, `FiguresOfWholeTrace`, `TraceAnswered` | 4 spans: any parents, one of them missing, in 3 orders of start; repeated IDs; every mix of encodings of 3 IDs and 2 links; missing, reversed and instantaneous times with errors; cut to 0 and 2 | every span once, under the span it names, in an order that reads as the tree; figures are those of the whole trace; the walk ends |
| `windows` | `TailWasCurrent`, `PageComplete`, `PagingAdvances` | logs up to 5 lines, tails 1, 2, 6, starts 0, 2, 5, limits 1, 3 and default 2, 1 failure | every reply is a true window of the growing log |
| `calls` | `OwnEndpoint`, `NoArgumentDropped`, `NoFailureAsSuccess`, `CauseIsTrue`, `EveryCallAnswered` | every tool of 7 servers, both gates, every set of names (all, required, one optional, one missing, one misspelt), 5 kinds of path value, a status of every kind the code tells apart, every body, 302, 303 and 307 up to 2 hops, every setting of both timeouts | each request is the tool's own and whole, no failure reads as a success, no cause is hidden, a silent upstream keeps no call |
| `writes` | `SilencesAsReported`, `GateHolds`, `RefusalIsFinal`, `KeepsPromise` | a call of each of the 4 tools, any 2 at a time; 301, 303 and 307, 1 hop | the tools implement `AtMostOnce`, what is reported of a silence is true, the gate and refusals hold through any redirect |
| `redirected` (violated) | `ReportIsTrue` | as `writes`, 301 | a redirected creation is reported and never happened |
| `search` | `WindowIsMeant`, `EmptyMeansNone`, `MoreIsTold`, `FoundTracesOpen` | traces at 6 instants, every pair of time arguments, integers on both sides of `MAX_UNIX_SECONDS` in either unit, limits 0 to 2 | windows, limits and IDs mean what they say, but for milliseconds of the first years after 1970 |
| `steplogs` | `EndOfLogKept`, `LinesReadable` | logs up to 4 lines, encoded or not, caps 0, 1, 3 and unset, default 2 | the end of the log, readable |
| `contract` | `ContractSound`, `ConformingPasses`, `NothingLeft` | 1 contract of any build, fast or slow; 2 on 2 ports of the 3 builds that leave most behind | a pass means every clause is kept, no clause trips over another, nothing stays on the machine |
| `startup` | `HostsAsListed`, `TargetIsMeant`, `FixedInTurn` | 8 servers; every setting of every variable, then every spelling of a target and host lists of up to 2 entries | acting on refusals leads to a start; hosts and upstream are the ones meant |
| `exchange` | `AnswerIsOwn`, `ListIsWhole` | 2 tasks on a session, one listing 2 pages, every framing, a stream with anything ahead of the response until it has 3 lines | each request gets its own answer or an error |

Why the bounds are enough. Two calls on two slots run side by side and, when a
slot is being returned or replaced, meet on the other; on one slot (`queries` has a
pool of each size, `silent` the smaller) the second call waits for the first and
reuses the connection it left: clean, abandoned, terminated, across a crash. One call
per process suffices because calls keep nothing: a later call of the same
session is another member of `Calls`. The kinds of SQL left out of `queries` do
what one of the four does and no more (`HardSql`), and calls are interchangeable, so of
two statements one order is enough; the limits do not depend on the interleaving. Four spans hold every pattern the walk tells apart together: a
cycle of up to four, a cycle with a tail, a tree beside a cycle, siblings with
and without children, missing and self parents; `MAX_ERRORS` and `SLOWEST` are scaled
down to 1 and 2 so that four spans exceed them, and the limits of time arguments
likewise: 10 and 4 for 10^11 and 10^3 make an instant of up to 2.5 seconds one that
passes for seconds, and keep arguments of both units below, at and above the bound. Links, encodings, repeated IDs and times vary in turn and not all at
once: `hex_id` maps every encoding to one ID before the walk starts, and the figures
do not depend on it. Five lines hold tails shorter than, equal to and longer than
the log, and growth before, between and after the requests. REST calls share
nothing, so one call of each tool is every call; two hops hold a redirect
followed, followed again and one too many. Writing calls meet only where one ends
the silence another created, so pairs show all that can meet. Four log lines lie
on both sides of every cap and of the default. Two contracts on two ports make
them fight for one. No check of a start looks at a host list and no host list at a
check, so `startup` varies one beside a plain other.

The systems modelled stop when their calls are done or their faults are spent,
so every configuration sets `CHECK_DEADLOCK FALSE`; that nothing gets stuck is
what the liveness properties say.

### Fairness

`PgClient!Fairness` is weak fairness of each call's next step and of each slot's
`ReturnConn`: tokio polls every future that can make progress, sqlx's return task
runs on the same runtime, and a statement timer that is armed fires. Nothing is
assumed of callers (`Submit`), and faults are never forced nor repaired
(`Restore` is not fair); `AnsweredUnlessSilent` and `PoolRecovers` state their premise
themselves, `SilenceEnds`: the network is not silent for ever. A database that
crashed need not come back for them. The fairness of `TraceView` is that of the loop and
what follows it: a synchronous function runs until it returns.
`RestCalls!FairSpec` assumes of all actions only that an armed timer fires (`WF` of
`TimesOut`): not that the upstream ever answers, nor even that a request is ever
sent, so `EveryCallAnswered` rests on the timeouts alone. The fairness of `Startup`
runs a main that was started and lets its operator act on what it says.
`BinaryContract!Fairness` is weak fairness of each contract's steps, of its timer
and of each child: the runtime polls, timers fire, processes run and signals
arrive; which port is handed out, or who wins a race for it, is left open. The
modules without a fair specification state safety only.

### Faulty variants

A definition `X_variant` is `X` with a plausible bug. Substituting it for `X` must
break the property beside it in the same run.

| Run and property | `X` by `X_variant` | The bug |
|---|---|---|
| `queries` `SlotAccounting` | `Acquire` by `Acquire_shared` | a slot lent without looking whether it is free |
| `queries` `GuardedExecution` | `ConfigureRefused` by `.._ignored` | a failing preamble statement ignored |
| `queries` `CleanIdle` | `Rollback` by `Rollback_commits` | commit instead of rollback: what the SQL set for the session outlives the call |
| `queries` `RowsWithinCap` | `wrap_query` by `.._aggregatedFirst` | LIMIT around the aggregate instead of inside it |
| `queries` `ImplementsPromise` | `transaction_preamble` by `.._unprotected` | READ ONLY dropped |
| `queries` `AnsweredUnlessSilent` | `transaction_preamble` by `.._untimed` | statement_timeout dropped |
| `queries` `PoolRecovers` | `ConnectionLost` by `.._queryOnly` | an error path only on the query itself: a call that waits for ever keeps its slot for ever |
| `trace` `EachSpanOnce` | `Chain` by `Chain_rootsOnly` | walk from roots only |
| `trace` `ReadsAsTree` | `Visit` by `Visit_breadthFirst` | queue instead of stack |
| `trace` `SiblingsInOrder` | `Pushed` by `Pushed_notReversed` | children pushed without reversing |
| `trace` `CyclesLast` | `Chain` by `Chain_indexFirst` | index range before roots |
| `trace` `TraceAnswered` | `Skip` by `Skip_keeps` | a visited top is not popped |
| `windows` `TailWasCurrent` | `tail_start` by `.._offByOne` | one line too few |
| `windows` `PageComplete` | `Fetch` by `Fetch_staleTotal` | total from before the fetch |
| `windows` `PagingAdvances` | `paged_window` by `.._fromZero` | `start` ignored |
| `calls` `OwnEndpoint` | `path_segment` by `.._encodesDots` | dots percent-encoded instead of refused |
| `calls` `NoArgumentDropped` | `deserialize` by `.._lax` | unknown fields ignored |
| `calls` `NoFailureAsSuccess` | `ha_call_service` by `.._400only` | only one failure status looked at |
| `calls` `CauseIsTrue` | `tempo_get_json_or_404` by `.._late` | 404 checked after the status |
| `calls` `EveryCallAnswered` | `from_lookup` by `.._zeroMeansNone` | a timeout of zero switches it off |
| `writes` `SilencesAsReported` | `am_post_json` by `.._unchecked` | status not looked at |
| `writes` `KeepsPromise` | `GiveUp` by `GiveUp_resends` | a retry inside the client |
| `writes` `GateHolds` | `Registered` by `.._always` | silence tools always registered |
| `writes` `RefusalIsFinal` | `Refuse` by `Refuse_afterSending` | arguments checked after the request |
| `trace` `LinksSurvive` | `hex_id` by `.._caseSensitive` | hex compared as it came |
| `trace` `FiguresOfWholeTrace` | `trace_tree` by `.._cutFirst` | errors collected after the cut |
| `search` `WindowIsMeant` | `unix_seconds` by `.._anyInteger` | no integer is too large to be seconds |
| `search` `EmptyMeansNone` | `push_window` by `.._unordered` | order of the bounds not checked |
| `search` `MoreIsTold` | `search_summary` by `.._strictly` | limit reached only when exceeded |
| `search` `FoundTracesOpen` | `trace_id` by `.._fullLength` | 32 digits demanded |
| `steplogs` `EndOfLogKept` | `step_logs` by `.._fromStart` | the first lines kept |
| `steplogs` `LinesReadable` | `decode` by `decode_refusing` | an odd entry is an error |
| `startup` `FixedInTurn` | `HttpTimeouts` by `.._sameKey` | both refusals name one variable |
| `startup` `HostsAsListed` | `mcp_router` by `.._passthrough` | an empty list reaches rmcp |
| `startup` `TargetIsMeant` | `normalize_base_url` by `.._shared` | the common helper used for pbsmcp |
| `contract` `ContractSound` | `RefusedOccupied` by `.._anyExit` | any exit taken for the refusal |
| `contract` `ConformingPasses` | `Occupy` by `Occupy_released` | the listener closed before the start |
| `contract` `NothingLeft` | `Drop` by `Drop_serverOnly` | `kill_on_drop` left out |
| `exchange` `AnswerIsOwn` | `Request` by `Request_sameId` | the ID not counted up |
| `exchange` `ListIsWhole` | `More` by `More_never` | `nextCursor` not followed |

### Findings

Two runs show the code at odds with what the repository says of it.

1. `silent`: `fetch_json` bounds none of its awaits after a connection is lent. The
   acquire timeout is over by then and `statement_timeout` runs on the server, so
   when packets stop arriving the call never ends and its slot is never free.
   `pgmcp/tests/e2e.rs` (lines 31 and 626) wants unreachable databases to fail a call
   promptly; its test only covers a database that was never reached.
2. `redirected`: a 301, 302 or 303 (a proxy that moves http to https, say) turns the
   POST of `create_silence` into a GET, whose 200 with the list of silences is given
   to the caller as the result of the creation. Of requests that stay what they
   were, every report is true (`OkHadEffect`, proved in section 4; `writes` checks it as
   part of `KeepsPromise`).

Where a comment says more than the code does, the properties of the passing runs
state what does hold, and the difference is noted here:

- `PG_MAX_ROWS` is called a hard cap (`client.rs:24`, `server.rs:74-75`, the README of
  postgres-mcp, line 38) and the crate row-capped (`client.rs:104-108`). `wrap_query` puts
  the statement into its wrapper as text, so the cap is one of statements that stay
  inside it (`RowsWithinCap`); one whose text ends the wrapper's parentheses itself
  leaves the LIMIT out. It runs read-only and timed like any other (`GuardedExecution`,
  `ImplementsPromise`).
- `time.rs` says milliseconds and nanoseconds are refused (13-16), and at the constant, of
  current timestamps (22-23). Those of an instant before March 1973 in milliseconds, or in
  the first 100 seconds of 1970 in nanoseconds, are below `MAX_UNIX_SECONDS` and
  are searched as seconds (`WindowIsMeant` and `EmptyMeansNone` except them, by `Misread`).
- The comment on `tree_order` puts spans of a parent cycle at depth 0; only the span
  a cycle is entered by is (`LinksSurvive`: at depth 0 stands only a span without a
  parent in the trace, its own parent, or one that leads into a cycle).
- A comment in `compact.rs` says the cut can never hide the span that failed; with
  more than `MAX_ERRORS` failed spans it can (`FiguresOfWholeTrace` compares counts
  and the listed errors with those of the whole trace).
- `tail` of `task_log` is documented as the last N lines; lines written between probe
  and fetch are left out. `TailWasCurrent`: the reply is the last N lines as of some
  moment of the call.
- `delete_state`, `get_error_log` and `get_camera_image` of hamcp check for 404 only; no
  tool calls them, and `NoFailureAsSuccess` leaves them out (`LibraryOnly`).
- `WpClient::get` is documented to fail when the body holds an error message; under
  a success status it returns it as data, which is what `NoFailureAsSuccess`, judging
  wpmcp by the status, allows.
- `decode_log_entries` promises to pass plain lines through should Woodpecker stop
  encoding; a plain word that is valid base64 is decoded (`LinesReadable` is about
  encoded logs).
- `free_loopback_addr` says a port lost in between surfaces as a startup failure; with
  two contracts side by side the health check can be answered by the other test's
  server (`ContractSound` is about a contract on its own).
- `normalize_base_url` takes any colon for a port, so an IPv6 target without a port
  goes without its default (`TargetIsMeant` is about names, and about IPv6 with
  pbsmcp, which has its own rule).

## 4. Proofs

Everything below is for any value of the constants, from the `ASSUME`s of the
module (pool slots differ from `NoConn`, arguments have their types, limits
positive in `TaskLog`, the tool of each call and the redirects in
`RemoteWrites`, a finite set of instants in `TempoSearch` and of its two units only that a second has any, caps of at least 0 in
`StepLogs`, a bound on the numbers of IDs and times in `TraceView`, two ports in
`BinaryContract`, statuses of three digits in `RestCalls`, spellings that can be told apart in
`Startup`), and is checked to the last leaf.

**PgClientProofs.** `Inv` joins `TypeOK`, `SlotAccounting`, `CleanIdle` and
`GuardedExecution` with what makes them inductive: that no session has anything in it
that a rollback would not undo (`Undoable`: nothing is ever `kept`, and nothing is altered
or configured outside a transaction); which calls hold a connection
at which `pc`; what a held session looks like at each stage of the preamble;
what a result says of its statement (`Results`); that nobody has written. `InitInv` and one lemma per action give
`Invariance`; from it follow `TypeCorrect`, `PoolAccounting`, `IdleIsClean`,
`ExecutionIsGuarded`, `RowsCapped` and `Refinement` (`Spec => ImplementsPromise`:
initial states map to initial states, every step to a `Submit`, `Answer`, `Refuse`
or a stutter; that only readable SQL is answered needs the read-only flag in
force when it completes, which is where `Inv` comes in). `IdleIsClean` then is a matter of
`RollbackUndoes`: of an undoable session a rollback leaves a fresh one. `RowsCapped` is
about statements that stay inside the wrapper, `Refinement` about no rows at all.

**TraceViewProofs, of the walk.** `EmittedOnce` needs only that `visited` is what has been
emitted, and `EmittedAll` that every span not emitted is still among `starts` or on
the `stack` (`Pending`). `ReadsAsTree` needs more: `Hangs(e, b)` says entry `e` may
stand at position `b`, below an entry of its parent with nothing shallower in
between. Every stack entry would hang correctly if emitted next (`StackHangs`), and
since depths never increase towards the bottom of the stack (`Descending`), emitting
the top keeps this true of everything below it. `VisitEffect` says what one visit
does to order and stack, `VisitInv` preserves the seven conjuncts. Theorems:
`TypeCorrect`, `NoSpanTwice`, `NoSpanLost`, their sum `ListedOnce`, and `TreeReadable`.
`SiblingsSorted` needs an invariant of its own (`SiblingInv`): entries of one parent
came onto the stack together, from `Pushed` of that parent, and those still to come
stand below the one emitted now and start no earlier. That `Pushed` is sorted and has every child
comes from `SortedOnto`; ties go by index, so the order is total.
`CyclesListedLast` rests on `RootInv`: while a root is left to start from, everything
emitted or on the stack hangs from a root, and once none is left every span that
hangs from one has been visited. `Rooted` is the least set that contains the roots and the
children of its members; `RootedLeast` is that minimality, and takes the place of the
induction along parent links that the provers lack.

**TraceViewProofs, of the view.** `WalkIsTreeOrder` is the refinement `ViewSpec => Spec`: what
`collect_spans` makes of a document is a trace `SpanTree` can start from, and
`Render` is a stutter of the walk. Everything above so holds of the spans a
document carries (`ViewListsOnce`). `HexIdSame` says when two encodings of an ID meet: `hex_id`
is the same of them exactly when the ID is, or when both are the same odd text.
With `ViewInv` (the answer was rendered from the finished walk of the collected spans)
it gives `LinksAreKept`. That a trace has an earliest and a latest span, and an ID a
first span to answer for it, is an induction over finite sets; `MinimalSet` (a
nonempty family of finite sets has a member that contains no other, from the
library's well-foundedness of strict inclusion) takes its place in `LeastMember`.
`FiguresKept` says that counts, errors, the slowest spans, start and duration are those
of the whole trace. It needs that a sequence can be sorted stably and filtered at
all, which both definitions choose rather than compute: `ArrangementExists` (any
finite set has an arrangement under the order, again by `MinimalSet`) and `OneEach` give
it, `ByDurationSorts` and `ErrorsAreFailed` say what the lists then hold, and `CutKeeps` that the
cut leaves it alone. `TimesWithinTrace` is its half about times.

**TaskLogProofs.** A window under way was computed from the log at some moment since
the call (`WindowExplained`), a reply is the window's lines (`ReplyOfWindow`), and
the log only grows (`LogGrows`). `TailMoment` is the arithmetic: the moment of a
tail is the probe, or a later one when the log was then shorter than the tail.
Theorems: `TypeCorrect`, `TailLinearizable`, `PagesComplete`, `PagingProgress`.

**RemoteWritesProofs.** Invariants on top of each other. `Inv` is `TypeOK` with
`Sound(c)` of each call: before it is sent nothing is on the wire, while a request
is on the wire or the call is not sent there is no effect and no answer yet,
and a 4xx or a refusal goes with no effect. `TypeOK` bounds effects by one, so
`Inv` already says that nothing happens twice (`TypeCorrect`, `RefusalsAreFinal`).
`WorkInv` adds `Worked(c)`: of a request that still has its method, an answer of
success comes only after the effect. From it follow `SuccessHadEffect` and
`PromiseKept` (`Spec => KeepsPromise`: `CarryOut` maps to `TakeEffect`, the ends of a
call to `Succeed`, `Fail` or `Refuse`, the rest to stutters), for any redirects.
`ReportsAreTrue` is the one theorem with a premise: where redirects keep the method
(`KeptMethod`, `Redirects` within 307 and 308) every reported success happened, and
finding 2 shows the premise to be necessary. `GateInv` adds `Closed(c)`, that
without the gate no silence call is ever under way, for `GateAlwaysHolds`.
`SilenceInv` ties silences to the calls that took effect (`SilenceSound`); with
`WorkInv` it gives `CreatedSilencesStand` and `ExpiredSilencesEnded`, together
`SilencesTrue`. The type invariants of the modules with proofs are proved and
not listed among the runs.

**TempoSearchProofs.** `Inv` says that the window sent is the one the arguments mean
(`WindowSent`), unless it is one that is misread, that what Tempo found in it is everything or as much as the limit
(`FoundAllOrLimit`), and that the answer counts it (`AnswerCounts`). Theorems: `WindowMeant`,
`EmptyIsNone`, `MoreTold`, `IdsOpen`. That an empty answer is no accident of a limit needs
that a limit is never zero (`CapPositive`). `MAX_UNIX_SECONDS` may be any number and a second
any positive number of units, so both theorems hold of the code's 10^11 with 10^3 and with
10^9; that a number in the other unit that gets through is `Misread` is `UnixSeconds`, from the
arithmetic of `WholeUnits`.

**StepLogsProofs.** The fetched log is a prefix of the written one, entry by entry
(`FetchedIsWritten`), and the answer is `step_logs` of it (`AnswerIsCut`). `LastOf` says
what taking the end of a sequence leaves. Theorems: `EndKept`, `AllReadable`.

**RestCallsProofs.** `ReadingIsTrue` goes through the clients' readings (`EnvelopeReads`, `StatusReads`,
`TempoReads`, `AlertReads`, `HaReads`, `LibraryReads`) for any status and body: none hides a
failure or misnames one. `CallInv` carries that through a call: where its outcome comes from
(`Outcome`), that an answer was heard after a question (`HeardFirst`), and that of the parts
`status` of tempomcp collects the first succeeded (`PartsKept`). `OverInv` is the end of a
request, shared by the actions that end one. Theorems: `CallInvariant`, `NeverFailureAsSuccess`,
`CauseTold`, for any statuses, redirects, hops and timeouts. `AskInv` is the other end of a
call: once it is under way its arguments were accepted (`Accepted`), and what the upstream
heard is one of its requests (`Asked`). `WireIsMeant` says that a path none of whose pieces is
refused arrives as it was meant: `Wire` walks over the pieces, and `LeastNumber` on the first
piece gone astray takes the place of induction. `ToolsFit` goes through every
table of `RestTools`: each tool's path is made of pieces, each of its arguments has a place in
path, query, body or the answer's treatment, and no two share a key (`Fits`). Theorems:
`AskInvariant`, `AlwaysOwnEndpoint`, `NoneDropped`.

**ServerProofs, of Startup.** `StartInv` is that a server that came through `from_env` is held to
the list its variable holds. `ParsedNames` (dropping blanks loses no name) and
`RouterNeverOpen` (rmcp is never handed an empty list) then give `HostsListed`, for any lists;
`AddressOfSpelling`, server by server, gives `TargetMeant`, for any port.

**ServerProofs, of BinaryContract.** About a contract on its own: `AloneInv(c)` says where its child and
its server can be at each `pc` (`RunPlaced`, `ServerPlaced`), what an exit says of the
build (`ExitTells`), and what the clauses passed so far have shown (`Learned`), from which
`Sound` follows. For `Passes` it adds `InTime`: a conforming binary that starts in time
outlasts a timeout only where its server is up already. `AloneOwns` makes the
argument local: contracts that were not called hold nothing, so every taken port is
the contract's own (`AloneTaken`). `PortIsFree` is where two ports are needed: the
server that was killed may still hold one when a dead address is looked for.

**ServerProofs, of McpExchange.** `ExchangeInv` says that no two requests under way share an ID
(`IdsDiffer`), that what stands ahead of a response is never the task's own
(`AheadIsForeign`), that an ended answer yields exactly its own response, if it holds one
(`FindsItsOwn`), and that a listing has collected the pages before the one it asks for
(`PagesSoFar`). The lines of a stream are a fold: `ReadingAppend` says what one more line does
to it, by the least-number principle (`LeastNumber`, from `WFMin`) on the first
line where two readings would part. From there `AheadStaysForeign` (a sent event adds its
message or none) and `StreamEnds` (however the stream ends) need no fold. Theorems:
`AnswersAreOwn`, `ListsAreWhole`, for any tasks, pages and `MaxAhead`.

Only model-checked: liveness (`AnsweredUnlessSilent`, `EveryCallAnswered`, `PoolRecovers`,
`TraceAnswered`, `FixedInTurn`, `NothingLeft`), for which the prover has no rule for fairness
and ENABLED. Every invariant and action property of a passing run is a theorem.

## 5. Not modelled

- rmcp's sessions and transport: external; what they contribute is that calls
  run concurrently and share the client, how replies are framed, and the check of
  the Host header.
- SQL, JSON, OTLP and error texts; prompts, resources and schemas: no state. The
  catalog tools of pgmcp are fixed SQL through `fetch_json`.
- Session-level advisory locks taken by caller SQL, and whether a configured
  statement timeout of 0 is wise: the repository promises nothing about either.
- That a silence ends at its `ends_at`: Alertmanager's clock, and nothing in the code
  looks at it.
- `task_log` is not among the tools of `calls`; `TaskLog` has its windows. Beside `tail` it
  drops `limit` in silence, which `NoArgumentDropped` therefore does not cover. That
  `call_service` of hamcp lets its `entity_id` replace one in `data` is left out too.
- The working directory of a child of the harness: `run_to_exit` leaves it on disk when it
  times out, and `NothingLeft` counts processes and ports only.
- Requests from server to client in `McpExchange`: the servers here send none, so none that
  reuses an ID travels with a reply.
- Spellings: whitespace, trailing slashes, `*_INSECURE`, a path prefix in `HA_HOST`.
- Of the harness: `Scenario`, `check_contract`, `method_surface`, `unknown_arguments`, the
  prompt and resource checks and the TLS proxy. Each asserts something of one
  answer and keeps no state; the session they speak over is `McpExchange`.
- The bind address, which `main.rs` and `config.rs` each hold as a literal: a model
  would compare its own copies. The probe of `main` runs before `.env` is loaded.
- Schema helpers and the TLS provider of `mcp-common`: no state.
- Deployment files.

## 6. Plan

Every component with state is modelled and every safety property proved. What is
left is the safety half of the liveness properties: that each step of `TraceView` and
of `TaskLog` shortens what is left to do, which is where `TraceAnswered` gets its end from,
and that a call of `RestCalls` asks at most `MaxHops` times more for each request.
