------------------------------ MODULE TraceView ------------------------------
(***************************************************************************)
(* `trace_tree` of tempomcp (compact.rs): an OTLP document becomes spans    *)
(* (collect_spans), the spans an order (SpanTree), and the order the answer *)
(* of the tool `trace`, cut to max_spans, with the trace's errors and its   *)
(* slowest spans.                                                           *)
(*                                                                          *)
(* A document is what each raw span holds: IDs in one of several encodings, *)
(* times and a status that may be missing.  Names, services, attributes and *)
(* events are copied along and left out here.                               *)
(*                                                                          *)
(* X_variant, next to X, is a deliberately faulty variant of X.             *)
(***************************************************************************)
EXTENDS SpanTree

CONSTANTS
  Documents, (* the documents Tempo answers with                            *)
  Views,     (* the values of max_spans                                     *)
  Unknown,   (* the ID of a span that has none: after every hex ID          *)
  MAX_ERRORS, SLOWEST

\* An ID is how it is written and what: its bytes, or the text that is "other".
Missing == -1
Encodings == {"hex", "upper", "base64", "other"}
RawIds == (Encodings \X (1..(Unknown - 1))) \cup ({"absent", "zeros"} \X {0})
RawSpans == [spanId : RawIds, parentSpanId : RawIds, start : Times \cup {Missing},
             end : Times \cup {Missing}, code : {"ok", "error", "unset"}]

ASSUME UnknownAssumption == Unknown \in Nat \ {0} /\ 1..(2 * Unknown) \subseteq Ids
ASSUME NanosAssumption == 0 \in Times /\ Times \subseteq Nat
ASSUME DocumentAssumption == \A doc \in Documents : \A i \in Span : doc[i] \in RawSpans
ASSUME ViewAssumption == Views \subseteq Nat /\ MAX_ERRORS \in Nat /\ SLOWEST \in Nat

VARIABLES
  raw,       (* the document: per span its spanId, parentSpanId, start, end, code *)
  max_spans, (* what the caller asked to see                                *)
  answer     (* the tool's answer, once it is there                         *)

viewVars == <<raw, max_spans, answer>>

-----------------------------------------------------------------------------
hex_id_caseSensitive(r) ==
  CASE r[1] \in {"absent", "zeros"} -> NoParent
    [] r[1] \in {"hex", "base64"} -> r[2]
    [] r[1] \in {"upper", "other"} -> Unknown + r[2]

\* An ID as lowercase hex, whatever it came as; absent and all-zero ones are none.
hex_id(r) ==
  CASE r[1] \in {"absent", "zeros"} -> NoParent
    [] r[1] \in {"hex", "upper", "base64"} -> r[2]
    [] r[1] = "other" -> Unknown + r[2]

nanos(t) == IF t = Missing THEN 0 ELSE t

Later(a, b) == IF a > b THEN a ELSE b
duration(i) == Later(nanos(raw[i].end) - start[i], 0)
Least(S) == CHOOSE a \in S : \A b \in S : a <= b
Greatest(S) == CHOOSE a \in S : \A b \in S : a >= b

\* The spans of the document, in the order they arrived.
collect_spans(doc) ==
  /\ id = [i \in Span |-> IF hex_id(doc[i].spanId) = NoParent THEN Unknown ELSE hex_id(doc[i].spanId)]
  /\ parent = [i \in Span |-> hex_id(doc[i].parentSpanId)]
  /\ start = [i \in Span |-> nanos(doc[i].start)]

Walked == [k \in DOMAIN order |-> order[k].span]
Take(s, n) == SubSeq(s, 1, IF Len(s) < n THEN Len(s) ELSE n)

\* The spans listed in s that failed, in its order.
FailedOf(s) ==
  LET at == {k \in DOMAIN s : raw[s[k]].code = "error"}
      kept == CHOOSE p \in [1..Cardinality(at) -> at] : \A a, b \in DOMAIN p : a < b => p[a] < p[b]
  IN [a \in 1..Cardinality(at) |-> s[kept[a]]]

errors == FailedOf(Walked)

\* By falling duration; equal ones keep their order in the tree (a stable sort).
by_duration ==
  CHOOSE s \in [1..Len(Walked) -> Span] :
    /\ \A i \in Span : \E k \in DOMAIN s : s[k] = i
    /\ \A a, b \in DOMAIN s : a < b =>
         \/ duration(s[a]) > duration(s[b])
         \/ /\ duration(s[a]) = duration(s[b])
            /\ \E m, n \in DOMAIN Walked : m < n /\ Walked[m] = s[a] /\ Walked[n] = s[b]

trace_start == Least({start[i] : i \in Span})
trace_end == Greatest({nanos(raw[i].end) : i \in Span})

span_entry(e) ==
  [span |-> e.span, depth |-> e.depth, parentSpanID |-> parent[e.span],
   startMs |-> start[e.span] - trace_start, durationMs |-> duration(e.span)]

Listed(s) == [k \in DOMAIN Take(s, max_spans) |-> span_entry(s[k])]

trace_tree_cutFirst ==
  LET shown == Take(order, max_spans)
      failed == FailedOf([k \in DOMAIN shown |-> shown[k].span])
  IN [startTime |-> trace_start, durationMs |-> Later(trace_end - trace_start, 0),
      errorCount |-> Len(failed), errors |-> Take(failed, MAX_ERRORS),
      slowest |-> Take(by_duration, SLOWEST), spans |-> Listed(order),
      omittedSpans |-> N - Len(shown)]

\* Errors and the slowest are taken over the whole trace, before the cut.
trace_tree ==
  [startTime |-> trace_start, durationMs |-> Later(trace_end - trace_start, 0),
   errorCount |-> Len(errors), errors |-> Take(errors, MAX_ERRORS),
   slowest |-> Take(by_duration, SLOWEST), spans |-> Listed(order),
   omittedSpans |-> N - Len(Take(order, max_spans))]

-----------------------------------------------------------------------------
NoAnswer == [spans |-> <<>>]

ViewInit ==
  /\ raw \in Documents
  /\ max_spans \in Views
  /\ answer = NoAnswer
  /\ collect_spans(raw)
  /\ \E s \in Sorted(Roots) : starts = Chain(s)
  /\ stack = <<>> /\ visited = {} /\ order = <<>>

Walk == Next /\ UNCHANGED viewVars

Render ==
  /\ Done /\ answer = NoAnswer
  /\ answer' = trace_tree
  /\ UNCHANGED <<vars, raw, max_spans>>

ViewNext == Walk \/ Render
ViewSpec == ViewInit /\ [][ViewNext]_<<vars, viewVars>>

\* A pure function on a document in hand: it runs until it returns.
ViewFairSpec == ViewSpec /\ WF_<<vars, viewVars>>(ViewNext)

-----------------------------------------------------------------------------
(* Properties.                                                             *)

Answered == answer # NoAnswer
Shown == {answer.spans[k].span : k \in DOMAIN answer.spans}
In(s) == {s[k] : k \in DOMAIN s}
Failed == {i \in Span : raw[i].code = "error"}

\* The spans a span names as its parent, however the two IDs are written: by
\* the same bytes, or by the same text that is neither hex nor base64.
Named(i) ==
  {j \in Span : LET written == {raw[j].spanId[1], raw[i].parentSpanId[1]} IN
     /\ written \subseteq {"hex", "upper", "base64"} \/ written = {"other"}
     /\ raw[j].spanId[2] = raw[i].parentSpanId[2]}

\* A link survives its encodings: a listed span whose parent arrived is listed
\* one level below it, and is at the top only if it names no span of the trace,
\* names its own ID, or its links form a cycle.
LinksSurvive ==
  Answered =>
    \A k \in DOMAIN answer.spans :
      LET i == answer.spans[k].span  depth == answer.spans[k].depth IN
      IF depth = 0 THEN Named(i) = {} \/ i \in Named(i) \/ i \notin Rooted
      ELSE \E m \in 1..(k - 1) : answer.spans[m].span \in Named(i) /\ answer.spans[m].depth = depth - 1

\* The cut loses nothing of what it reports: the errors are counted over the
\* whole trace, no span left out of `slowest` is longer than one in it, and
\* shown and omitted spans add up to the trace.
CutKeepsFigures ==
  Answered =>
    /\ answer.errorCount = Cardinality(Failed)
    /\ In(answer.errors) \subseteq Failed
    /\ Len(answer.errors) = (IF answer.errorCount < MAX_ERRORS THEN answer.errorCount ELSE MAX_ERRORS)
    /\ Len(answer.slowest) = (IF N < SLOWEST THEN N ELSE SLOWEST)
    /\ \A i \in In(answer.slowest), j \in Span \ In(answer.slowest) : duration(i) >= duration(j)
    /\ Cardinality(Shown) + answer.omittedSpans = N

\* Every span whose times arrived lies within the trace's own start and
\* duration, and none starts before the trace.
SpansWithinTrace ==
  Answered =>
    \A k \in DOMAIN answer.spans :
      LET e == answer.spans[k] IN
      /\ e.startMs >= 0
      /\ raw[e.span].start # Missing /\ raw[e.span].end # Missing /\ raw[e.span].end >= raw[e.span].start =>
           e.startMs + e.durationMs <= answer.durationMs

\* The figures of an answer are those of the whole trace, however little of it
\* is listed and whatever times are missing.
FiguresOfWholeTrace == CutKeepsFigures /\ SpansWithinTrace

\* Whatever a document's links say, walking it ends and the tool answers.
TraceAnswered == <>Answered
=============================================================================
