----------------------------- MODULE TempoSearch -----------------------------
(***************************************************************************)
(* Finding traces with tempomcp: the tool `search` checks its window        *)
(* (time.rs), asks Tempo and summarises the answer (compact.rs); `trace`     *)
(* then opens one of the IDs it returned.                                   *)
(*                                                                          *)
(* Instants count half seconds, so that a timestamp may fall between two    *)
(* seconds; Tempo's own unit is the second.  A time argument is <<form,     *)
(* value>>: of an RFC3339 timestamp the instant, of an integer the integer  *)
(* as typed, by somebody who had seconds in mind or another unit.           *)
(*                                                                          *)
(* X_variant, next to X, is a deliberately faulty variant of X.             *)
(***************************************************************************)
EXTENDS Integers, FiniteSets

CONSTANTS
  Arguments,        (* the time arguments given                             *)
  Limits,           (* the values of `limit`                                *)
  Instants,         (* when traces start                                    *)
  MAX_UNIX_SECONDS, (* larger integers are taken for another unit           *)
  MILLI,            (* milliseconds (or nanoseconds) in a second            *)
  TempoDefault      (* how many traces Tempo returns for a limit of 0       *)

Forms == {"omitted", "seconds", "scaled", "rfc3339", "before_1970", "junk"}
ASSUME ArgumentAssumption == Arguments \subseteq Forms \X Nat
ASSUME InstantAssumption == IsFiniteSet(Instants) /\ Instants \subseteq Nat
ASSUME LimitAssumption == Limits \subseteq Nat /\ TempoDefault \in Nat \ {0}
ASSUME UnitAssumption == MAX_UNIX_SECONDS \in Nat /\ MILLI \in Nat \ {0}

VARIABLES
  traces, (* when the matching traces in Tempo start                        *)
  given,  (* the window's two arguments and the limit                       *)
  pc,     (* "check", "ask", "summarise", "open" or "done"                  *)
  window, (* start and end as sent, None if not                             *)
  found,  (* what Tempo returned                                            *)
  answer  (* the tool's answer                                              *)

vars == <<traces, given, pc, window, found, answer>>

None == -1
Refused == -2
NoAnswer == [returned |-> 0, limitReached |-> FALSE, opened |-> "nothing"]

-----------------------------------------------------------------------------
unix_seconds_anyInteger(a) ==
  CASE a[1] = "omitted" -> None
    [] a[1] \in {"seconds", "scaled"} -> a[2]
    [] a[1] = "rfc3339" -> a[2] \div 2
    [] a[1] \in {"before_1970", "junk"} -> Refused

\* An argument in Unix seconds: an integer that is not too large, whatever its
\* unit was, or an RFC3339 timestamp, whose fraction is dropped.
unix_seconds(a) ==
  CASE a[1] = "omitted" -> None
    [] a[1] \in {"seconds", "scaled"} -> IF a[2] > MAX_UNIX_SECONDS THEN Refused ELSE a[2]
    [] a[1] = "rfc3339" -> a[2] \div 2
    [] a[1] \in {"before_1970", "junk"} -> Refused

push_window_unordered(w) == w.start # Refused /\ w.end # Refused

\* Whether the pair is sent: both understood and, if both are given, in order.
push_window(w) ==
  /\ w.start # Refused /\ w.end # Refused
  /\ w.start # None /\ w.end # None => w.start <= w.end

\* What Tempo searches: nothing known of "recent" where a bound is missing.
Within(w) ==
  {t \in traces : /\ w.start # None => 2 * w.start <= t
                  /\ w.end # None => t <= 2 * w.end}

Cap(limit) == IF limit = 0 THEN TempoDefault ELSE limit

search_summary_strictly(set, limit) ==
  [NoAnswer EXCEPT !.returned = Cardinality(set), !.limitReached = Cardinality(set) > limit]

\* Summaries, and whether there may be more than the limit let through.
search_summary(set, limit) ==
  [NoAnswer EXCEPT !.returned = Cardinality(set), !.limitReached = Cardinality(set) >= limit]

\* The IDs of `search` are hex with leading zeros trimmed, 1 to 32 digits.
SearchIds == {"full_length", "fewer_digits"}
TypedIds == SearchIds \cup {"uppercase", "uuid", "base64", "dots", "blank"}

trace_id_fullLength(raw) ==
  IF raw \in {"full_length", "uppercase"} THEN "full_length" ELSE "refused"

\* Validated and in lowercase, or refused before any request.
trace_id(raw) ==
  CASE raw \in {"full_length", "uppercase"} -> "full_length"
    [] raw = "fewer_digits" -> "fewer_digits"
    [] raw \in {"uuid", "base64", "dots", "blank"} -> "refused"

-----------------------------------------------------------------------------
Init ==
  /\ traces \in SUBSET Instants
  /\ given \in [start : Arguments, end : Arguments, limit : Limits]
  /\ pc = "check"
  /\ window = [start |-> None, end |-> None]
  /\ found = {}
  /\ answer = NoAnswer

Check ==
  /\ pc = "check"
  /\ LET w == [start |-> unix_seconds(given.start), end |-> unix_seconds(given.end)] IN
       IF push_window(w) THEN pc' = "ask" /\ window' = w
       ELSE pc' = "done" /\ UNCHANGED window
  /\ UNCHANGED <<traces, given, found, answer>>

\* Tempo returns as many matches as the limit lets through, of its choice; with
\* a bound missing it may look at recent traces only.
Ask ==
  /\ pc = "ask"
  /\ pc' = "summarise"
  /\ \E set \in SUBSET Within(window) :
       /\ found' = set
       /\ Cardinality(set) <= Cap(given.limit)
       /\ window.start # None /\ window.end # None =>
            set = Within(window) \/ Cardinality(set) = Cap(given.limit)
  /\ UNCHANGED <<traces, given, window, answer>>

Summarise ==
  /\ pc = "summarise"
  /\ pc' = "open"
  /\ answer' = search_summary(found, given.limit)
  /\ UNCHANGED <<traces, given, window, found>>

\* A returned ID is passed to `trace`, as it is or as someone retyped it.
Open ==
  /\ pc = "open" /\ found # {}
  /\ pc' = "done"
  /\ \E raw \in TypedIds :
       answer' = [answer EXCEPT !.opened = IF trace_id(raw) # "refused" THEN "trace"
                                           ELSE IF raw \in SearchIds THEN "own_id_refused"
                                           ELSE "refused"]
  /\ UNCHANGED <<traces, given, window, found>>

Next == Check \/ Ask \/ Summarise \/ Open

Spec == Init /\ [][Next]_vars

-----------------------------------------------------------------------------
(* Properties.                                                             *)

\* The instant an argument means, in half seconds.
Meant(a) == CASE a[1] = "rfc3339" -> a[2]
              [] a[1] = "scaled" -> (2 * a[2]) \div MILLI
              [] OTHER -> 2 * a[2]

\* An instant so soon after 1970 that in another unit it is still a plausible
\* number of seconds: until March 1973 in milliseconds, for 100 s in nanoseconds.
Misread(a) == a[1] = "scaled" /\ MILLI * Meant(a) <= 2 * MAX_UNIX_SECONDS

\* A bound that is sent is the instant that was meant, to the second; one that
\* was not given is not sent.  Milliseconds and nanoseconds pass for seconds only
\* where they mean the first years after 1970.
WindowIsMeant ==
  pc # "check" /\ window # [start |-> None, end |-> None] =>
    /\ given.start[1] = "omitted" <=> window.start = None
    /\ given.end[1] = "omitted" <=> window.end = None
    /\ window.start # None =>
         Meant(given.start) - 2 * window.start \in {0, 1} \/ Misread(given.start)
    /\ window.end # None =>
         Meant(given.end) - 2 * window.end \in {0, 1} \/ Misread(given.end)

\* An empty answer to a search with a window means that nothing matched in it,
\* up to the last whole second before its end: a window that contains no
\* instant is refused, not searched, and so is one in another unit, unless it
\* lies in those first years.
EmptyMeansNone ==
  pc \in {"open", "done"} /\ window.start # None /\ window.end # None /\ answer.returned = 0
    /\ ~Misread(given.start) /\ ~Misread(given.end) =>
    /\ window.start <= window.end
    /\ ~\E t \in traces : Meant(given.start) <= t /\ t <= 2 * (Meant(given.end) \div 2)

\* Where the limit held traces back, the answer says so.
MoreIsTold ==
  pc \in {"open", "done"} /\ window.start # None /\ window.end # None
    /\ found # Within(window) => answer.limitReached

\* Every ID that search returns can be opened, leading zeros or not.
FoundTracesOpen == answer.opened # "own_id_refused"
=============================================================================
