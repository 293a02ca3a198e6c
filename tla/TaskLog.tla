------------------------------ MODULE TaskLog ------------------------------
(***************************************************************************)
(* `task_log` of pbsmcp (server.rs): reading a window of the log of a PBS   *)
(* task while that task may still be writing it.  A read of the last lines  *)
(* takes two requests: one that learns how long the log is, one that        *)
(* fetches the window computed from it.                                     *)
(*                                                                          *)
(* The log is append-only, so a line is its number and a run of lines is    *)
(* where it begins and how many there are.  Callers page as the tool's      *)
(* description tells them to, from the `start`, `total` and lines of the    *)
(* reply before.                                                            *)
(*                                                                          *)
(* X_variant, next to X, is a deliberately faulty variant of X; README.md   *)
(* says which property each one breaks.                                     *)
(***************************************************************************)
EXTENDS Integers

CONSTANTS
  MaxLines,     (* bound: the task writes at most this many lines           *)
  MaxFailures,  (* bound: requests that fail                                *)
  Starts,       (* the `start` arguments callers send                       *)
  Limits,       (* the `limit` arguments they send                          *)
  Tails,        (* the `tail` arguments they send                           *)
  Omitted,      (* an argument left out                                     *)
  DefaultLimit  (* lines returned when `limit` is omitted                   *)

ASSUME BoundAssumption == MaxLines \in Nat /\ MaxFailures \in Nat
\* What PBS makes of a limit of zero is its own business: callers send none.
ASSUME ArgumentAssumption ==
  /\ Starts \subseteq Nat
  /\ Limits \subseteq Nat \ {0}
  /\ Tails \subseteq Nat \ {0}
  /\ Omitted \notin Nat
  /\ DefaultLimit \in Nat \ {0}

VARIABLES
  written,   (* lines in the log                                            *)
  running,   (* whether the task may still write                            *)
  failures,  (* requests that have failed                                   *)
  pc,        (* the call: "idle", "probe" or "fetch"                        *)
  args,      (* what it was given                                           *)
  asked,     (* lines in the log when it was made                           *)
  win,       (* the window it resolved to                                   *)
  reply      (* what the last call returned                                 *)

vars == <<written, running, failures, pc, args, asked, win, reply>>

Opt(S) == S \cup {Omitted}
Arguments == [start : Opt(Nat), limit : Opt(Nat), tail : Opt(Nat)]
Windows == [start : Nat, limit : Nat]
Replies == [ok : BOOLEAN, total : Nat, start : Nat, lines : Nat]

Given(x, default) == IF x = Omitted THEN default ELSE x

-----------------------------------------------------------------------------
\* What PBS returns of a log of n lines for a window w.
LinesOf(n, w) ==
  IF w.start >= n THEN 0 ELSE IF n - w.start < w.limit THEN n - w.start ELSE w.limit

tail_start_offByOne(total, tail) == IF tail >= total THEN 0 ELSE total - tail + 1

\* `total.saturating_sub(tail)`
tail_start(total, tail) == IF tail >= total THEN 0 ELSE total - tail

paged_window_fromZero(a) == [start |-> 0, limit |-> Given(a.limit, DefaultLimit)]

\* The window of a call that names no tail.
paged_window(a) == [start |-> Given(a.start, 0), limit |-> Given(a.limit, DefaultLimit)]

Failure == [ok |-> FALSE, total |-> 0, start |-> 0, lines |-> 0]

-----------------------------------------------------------------------------
Init ==
  /\ written \in 0..MaxLines
  /\ running = TRUE
  /\ failures = 0
  /\ pc = "idle"
  /\ args = [start |-> Omitted, limit |-> Omitted, tail |-> Omitted]
  /\ asked = 0
  /\ win = [start |-> 0, limit |-> 0]
  /\ reply = Failure

\* The task writes a line.
Write ==
  /\ running
  /\ written < MaxLines
  /\ written' = written + 1
  /\ UNCHANGED <<running, failures, pc, args, asked, win, reply>>

\* The task stops.
Stop ==
  /\ running
  /\ running' = FALSE
  /\ UNCHANGED <<written, failures, pc, args, asked, win, reply>>

\* A call is made: `tail` with `start` is refused, `tail` alone is probed for,
\* anything else is a window as it stands.
Enter(a) ==
  /\ pc = "idle"
  /\ args' = a
  /\ asked' = written
  /\ \/ /\ a.tail # Omitted /\ a.start # Omitted
        /\ reply' = Failure
        /\ UNCHANGED <<pc, win>>
     \/ /\ a.tail # Omitted /\ a.start = Omitted
        /\ pc' = "probe"
        /\ UNCHANGED <<win, reply>>
     \/ /\ a.tail = Omitted
        /\ pc' = "fetch"
        /\ win' = paged_window(a)
        /\ UNCHANGED reply
  /\ UNCHANGED <<written, running, failures>>

Call == \E s \in Opt(Starts), l \in Opt(Limits), t \in Opt(Tails) :
          Enter([start |-> s, limit |-> l, tail |-> t])

\* A caller pages on from the reply it has.
Page ==
  /\ reply.ok
  /\ reply.start + reply.lines < reply.total
  /\ Enter([start |-> reply.start + reply.lines, limit |-> Omitted, tail |-> Omitted])

\* The one-line probe: its `total` fixes the window.
Probe ==
  /\ pc = "probe"
  /\ win' = [start |-> tail_start(written, args.tail), limit |-> args.tail]
  /\ pc' = "fetch"
  /\ UNCHANGED <<written, running, failures, args, asked, reply>>

Fetch_staleTotal ==
  /\ pc = "fetch"
  /\ reply' = [ok |-> TRUE, total |-> asked, start |-> win.start,
               lines |-> LinesOf(written, win)]
  /\ pc' = "idle"
  /\ UNCHANGED <<written, running, failures, args, asked, win>>

\* The window is fetched; `total` is that of this answer, not of the probe.
Fetch ==
  /\ pc = "fetch"
  /\ reply' = [ok |-> TRUE, total |-> written, start |-> win.start,
               lines |-> LinesOf(written, win)]
  /\ pc' = "idle"
  /\ UNCHANGED <<written, running, failures, args, asked, win>>

\* Either request times out, is refused, or answers without a `total`.
Fail ==
  /\ pc \in {"probe", "fetch"}
  /\ failures < MaxFailures
  /\ failures' = failures + 1
  /\ reply' = Failure
  /\ pc' = "idle"
  /\ UNCHANGED <<written, running, args, asked, win>>

Next == Write \/ Stop \/ Call \/ Page \/ Probe \/ Fetch \/ Fail

Spec == Init /\ [][Next]_vars

-----------------------------------------------------------------------------
(* Properties.                                                             *)

\* Every variable has its type; window offsets never fall below zero.
TypeOK ==
  /\ written \in Nat
  /\ running \in BOOLEAN
  /\ failures \in Nat
  /\ pc \in {"idle", "probe", "fetch"}
  /\ args \in Arguments
  /\ asked \in Nat
  /\ win \in Windows
  /\ reply \in Replies

Answered == pc = "idle" /\ reply.ok

\* A tail is the true last N lines of the log as it stood at some moment of
\* the call, however the log grows between the two requests.
TailWasCurrent ==
  Answered /\ args.tail # Omitted =>
    \E n \in asked..reply.total :
      /\ reply.start + reply.lines = n
      /\ reply.start = IF args.tail >= n THEN 0 ELSE n - args.tail

\* A reply is a page a caller can go on from: it begins where it was asked to,
\* stays inside the `total` it reports, and is short only at the log's end.
PageComplete ==
  Answered =>
    /\ args.start # Omitted => reply.start = args.start
    /\ reply.lines > 0 => reply.start + reply.lines <= reply.total
    /\ reply.lines < win.limit => reply.start + reply.lines >= reply.total

\* Paging from a reply that is not at the end brings new lines, with none
\* skipped in between.
PagingAdvances ==
  [][/\ pc = "fetch" /\ pc' = "idle" /\ reply'.ok
     /\ reply.ok /\ args.start = reply.start + reply.lines
     /\ reply.start + reply.lines < reply.total
     => reply'.start = reply.start + reply.lines /\ reply'.lines > 0]_vars
=============================================================================
