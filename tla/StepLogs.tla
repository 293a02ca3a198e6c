------------------------------ MODULE StepLogs ------------------------------
(***************************************************************************)
(* `step_logs` of wpmcp: the log of a pipeline step, fetched whole while    *)
(* the step may still write, cut to its last lines and decoded.             *)
(*                                                                          *)
(* A line is <<number, kind>>; a "word" is one whose text happens to be     *)
(* valid base64 (`done`).  An entry is <<form, line>>: Woodpecker encodes   *)
(* the text of a line, a later version might not, and an odd entry has none. *)
(*                                                                          *)
(* X_variant, next to X, is a deliberately faulty variant of X.             *)
(***************************************************************************)
EXTENDS Naturals, Sequences

CONSTANTS
  Kinds,       (* the lines steps write: "text", "word" or "odd"            *)
  Encodes,     (* whether Woodpecker encodes them: a set of Booleans        *)
  MaxWritten,  (* no more lines are written                                 *)
  Caps,        (* values of max_lines and of WP_MAX_LOG_LINES that are given *)
  DEFAULT      (* the default of the latter                                 *)

ASSUME KindAssumption == Kinds \subseteq {"text", "word", "odd"} /\ Encodes \subseteq BOOLEAN
ASSUME CapAssumption == Caps \subseteq Nat /\ MaxWritten \in Nat /\ DEFAULT \in Nat \ {0}

VARIABLES
  encodes,       (* whether this Woodpecker encodes lines                   *)
  max_log_lines, (* the configured cap                                      *)
  max_lines,     (* the caller's                                            *)
  written,       (* the lines written so far                                *)
  pc,            (* "ask", "cut" or "done"                                  *)
  entries,       (* what Woodpecker answered                                *)
  answer         (* what the tool answered                                  *)

vars == <<encodes, max_log_lines, max_lines, written, pc, entries, answer>>

\* A number that may not be given: none, or the only member.
Options == {{}} \cup {{n} : n \in Caps}
The(o) == CHOOSE n \in o : TRUE

Least(a, b) == IF a < b THEN a ELSE b
Last(s, n) == SubSeq(s, Len(s) - Least(n, Len(s)) + 1, Len(s))
NoAnswer == [truncated |-> FALSE, total |-> 0, entries |-> <<>>]

-----------------------------------------------------------------------------
\* WP_MAX_LOG_LINES: unset, no number and zero are the default.
configured(env) == IF env \subseteq {0} THEN DEFAULT ELSE The(env)

\* The cap in force: zero lines are never meant.
cap(n, default) == IF n \subseteq {0} THEN default ELSE The(n)

\* How Woodpecker sends a line.
Entry(line) ==
  CASE line[2] = "odd" -> <<"none", line>>
    [] line[2] # "odd" -> <<IF encodes THEN "base64" ELSE "plain", line>>

decode_refusing(entry) ==
  CASE entry[1] = "base64" -> <<"readable", entry[2]>>
    [] entry[1] # "base64" -> <<"failed", entry[2]>>

\* The text of an entry: what does not decode is left as it is, what does is
\* replaced, by garbage where it was not base64 to begin with.
decode(entry) ==
  CASE entry[1] = "base64" -> <<"readable", entry[2]>>
    [] entry[1] = "plain" -> <<IF entry[2][2] = "word" THEN "garbage" ELSE "readable", entry[2]>>
    [] entry[1] = "none" -> <<"as_received", entry[2]>>

decode_log_entries(s) == [i \in DOMAIN s |-> decode(s[i])]

step_logs_fromStart(s, n) ==
  [truncated |-> Len(s) > n, total |-> Len(s),
   entries |-> decode_log_entries(SubSeq(s, 1, Least(n, Len(s))))]

\* The last n entries, decoded, and whether that is all.
step_logs(s, n) ==
  [truncated |-> Len(s) > n, total |-> Len(s), entries |-> decode_log_entries(Last(s, n))]

-----------------------------------------------------------------------------
Init ==
  /\ encodes \in Encodes
  /\ \E env \in Options : max_log_lines = configured(env)
  /\ max_lines \in Options
  /\ written = <<>>
  /\ pc = "ask"
  /\ entries = <<>>
  /\ answer = NoAnswer

\* The step writes, before the request or while its answer is on its way.
Write ==
  /\ Len(written) < MaxWritten /\ pc # "done"
  /\ \E kind \in Kinds : written' = Append(written, <<Len(written) + 1, kind>>)
  /\ UNCHANGED <<encodes, max_log_lines, max_lines, pc, entries, answer>>

Fetch ==
  /\ pc = "ask"
  /\ pc' = "cut"
  /\ entries' = [i \in DOMAIN written |-> Entry(written[i])]
  /\ UNCHANGED <<encodes, max_log_lines, max_lines, written, answer>>

Cut ==
  /\ pc = "cut"
  /\ pc' = "done"
  /\ answer' = step_logs(entries, cap(max_lines, max_log_lines))
  /\ UNCHANGED <<encodes, max_log_lines, max_lines, written, entries>>

Next == Write \/ Fetch \/ Cut

Spec == Init /\ [][Next]_vars

-----------------------------------------------------------------------------
(* Properties.                                                             *)

Shown == [i \in DOMAIN answer.entries |-> answer.entries[i][2]]

\* The answer ends where the log ended when it was fetched: it is the last lines
\* in order and without a gap, and says how many there were and whether some
\* are left out.  The cause of a failure is in its last line.
EndsWhereLogEnded ==
  pc = "done" =>
    /\ \A i \in 1..Len(Shown) : Shown[Len(Shown) + 1 - i] = entries[Len(entries) + 1 - i][2]
    /\ answer.total = Len(entries)
    /\ answer.truncated <=> Len(Shown) < Len(entries)

\* A step that printed something never reads as one that printed nothing, and
\* the caller gets no more lines than asked for.
NeverEmptyNorMore ==
  pc = "done" =>
    /\ entries # <<>> => Shown # <<>>
    /\ \A n \in max_lines \ {0} : Len(Shown) <= n

\* What step_logs returns is the end of the log, neither empty nor too much.
EndOfLogKept == EndsWhereLogEnded /\ NeverEmptyNorMore

\* A line's text is returned, and an odd entry costs the caller no other line:
\* it is there as it was received.
LinesReadable ==
  pc = "done" /\ encodes =>
    \A i \in DOMAIN answer.entries :
      answer.entries[i][1] = (IF answer.entries[i][2][2] = "odd" THEN "as_received" ELSE "readable")
=============================================================================
