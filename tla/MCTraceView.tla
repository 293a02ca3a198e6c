----------------------------- MODULE MCTraceView -----------------------------
\* TraceView for TLC: four spans, whose documents vary in their links, in the
\* encodings of these, in repeated IDs, or in times and errors.
EXTENDS TraceView

Doc(ids, up, time, failed) ==
  [i \in Span |-> [spanId |-> ids[i], parentSpanId |-> up[i],
                   start |-> time[i][1], end |-> time[i][2],
                   code |-> IF i \in failed THEN "error" ELSE "ok"]]
Own(form) == [i \in Span |-> <<form, i>>]
None == <<"absent", 0>>
Starting(at) == [i \in Span |-> <<at[i], 4>>]

\* Every parent of every span, one that never arrived included.
LinkedDocuments ==
  {Doc(Own("base64"), up, Starting(at), {}) :
     up \in [Span -> {None} \cup ({"hex"} \X (1..(N + 1)))],
     at \in {<<1, 1, 1, 1>>, <<2, 1, 2, 1>>, <<4, 3, 2, 1>>}}

\* IDs that several spans carry.
RepeatedDocuments ==
  {Doc([i \in Span |-> <<"hex", ids[i]>>], up, Starting(at), {}) :
     ids \in {<<1, 1, 2, 3>>, <<1, 2, 1, 2>>, <<2, 1, 1, 1>>},
     up \in [Span -> {None} \cup ({"hex"} \X (1..3))],
     at \in {<<1, 1, 1, 1>>, <<2, 1, 2, 1>>}}

\* Every encoding of three IDs, and of the parents of the second and third span.
Links == {None, <<"zeros", 0>>} \cup ({"upper", "base64", "other"} \X (1..(N + 1)))
EncodedDocuments ==
  {Doc(Append([i \in 1..(N - 1) |-> <<form[i], i>>], <<"hex", N>>),
       <<None, up, up2, <<"hex", 3>>>>, Starting(<<1, 1, 1, 1>>), {}) :
     form \in [1..(N - 1) -> {"base64", "other"}], up, up2 \in Links}

\* Ordinary, instantaneous, without a start, without an end, ending before it starts.
Spells == {<<1, 3>>, <<2, 2>>, <<Missing, 3>>, <<2, Missing>>, <<3, 1>>}
TimedDocuments ==
  {Doc(Own("base64"), up, Append(time, <<1, 2>>), failed) :
     up \in {[i \in Span |-> None], [i \in Span |-> <<"hex", 1>>]},
     time \in [1..(N - 1) -> Spells], failed \in {{}, {1}, {3}, {2, N}}}

AllDocuments == LinkedDocuments \cup RepeatedDocuments \cup EncodedDocuments \cup TimedDocuments

\* Only documents with times and errors are also cut down to nothing.
MCInit == ViewInit /\ (max_spans = 0 => raw \in TimedDocuments)
MCSpec == MCInit /\ [][ViewNext]_<<vars, viewVars>> /\ WF_<<vars, viewVars>>(ViewNext)

AllIds == 1..200
AllTimes == 0..200
=============================================================================
