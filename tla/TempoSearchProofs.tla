------------------------- MODULE TempoSearchProofs -------------------------
(***************************************************************************)
(* Proofs about TempoSearch for any time arguments, limits and traces.     *)
(***************************************************************************)
EXTENDS TempoSearch, FiniteSetTheorems, TLAPS

Bounds == Nat \cup {None}
NoWindow == [start |-> None, end |-> None]
Pcs == {"check", "ask", "summarise", "open", "done"}

\* Every variable has its type.
TypeOK ==
  /\ traces \subseteq Instants
  /\ given \in [start : Arguments, end : Arguments, limit : Limits]
  /\ pc \in Pcs
  /\ window \in [start : Bounds, end : Bounds]
  /\ found \subseteq traces
  /\ answer \in [returned : Nat, limitReached : BOOLEAN,
                 opened : {"nothing", "trace", "refused"}]

\* Bound b is what argument a means, to the second, unless it is misread; none is
\* sent for none.
Means(a, b) ==
  /\ a[1] = "omitted" <=> b = None
  /\ b # None => Meant(a) - 2 * b \in {0, 1} \/ Misread(a)

Bounded == window.start # None /\ window.end # None

\* A call that was not refused has the window its arguments mean, in order.
WindowSent ==
  pc \in {"ask", "summarise", "open"} \/ window # NoWindow =>
    /\ Means(given.start, window.start) /\ Means(given.end, window.end)
    /\ Bounded => window.start <= window.end

\* Nothing is sent before the check.
NothingSent == pc = "check" => window = NoWindow

\* Tempo found everything in a bounded window, or as much as the limit allows.
FoundAllOrLimit ==
  pc \in {"summarise", "open", "done"} /\ Bounded =>
    found = Within(window) \/ Cardinality(found) = Cap(given.limit)

\* The answer counts what was found and compares that with the limit.
AnswerCounts ==
  pc \in {"open", "done"} /\ Bounded =>
    /\ answer.returned = Cardinality(found)
    /\ answer.limitReached <=> Cardinality(found) >= given.limit

Inv == TypeOK /\ NothingSent /\ WindowSent /\ FoundAllOrLimit /\ AnswerCounts

-----------------------------------------------------------------------------
\* Whole units in a number of them.
LEMMA WholeUnits ==
  ASSUME NEW n \in Nat, NEW m \in Nat \ {0}
  PROVE  n \div m \in Nat /\ m * (n \div m) <= n
<1>1. n \in Int /\ m \in Int /\ m > 0
  OBVIOUS
<1>2. n \div m \in Int
  BY <1>1, SMT
<1>3. n % m \in 0..(m - 1)
  BY <1>1, SMT
<1>4. n = (m * (n \div m)) + (n % m)
  BY <1>1, SMT
<1>5. n \div m >= 0
  BY <1>1, SMT
<1>6. m * (n \div m) <= n
  BY <1>1, SMT
<1>. QED BY <1>2, <1>5, <1>6

\* Every argument means an instant.
LEMMA MeantIsInstant ==
  ASSUME NEW a \in Arguments
  PROVE  Meant(a) \in Nat
<1>1. a[2] \in Nat
  BY ArgumentAssumption
<1>2. (2 * a[2]) \div MILLI \in Nat
  BY <1>1, UnitAssumption, WholeUnits
<1>. QED BY <1>1, <1>2 DEF Meant

\* What a time argument becomes: refused, not sent, or the second it falls in. An
\* integer in another unit that is not refused means a time soon after 1970.
LEMMA UnixSeconds ==
  ASSUME NEW a \in Arguments, unix_seconds(a) # Refused
  PROVE  unix_seconds(a) \in Bounds /\ Means(a, unix_seconds(a))
<1>. USE DEF unix_seconds, Means, Bounds, None, Refused
<1>1. a[1] \in Forms /\ a[2] \in Nat
  BY ArgumentAssumption
<1>2. CASE a[1] = "omitted"
  BY <1>2
<1>3. CASE a[1] = "seconds"
  <2>1. Meant(a) = 2 * a[2] /\ unix_seconds(a) = a[2]
    BY <1>3 DEF Meant
  <2>. QED BY <1>1, <1>3, <2>1
<1>4. CASE a[1] = "scaled"
  <2>1. unix_seconds(a) = a[2] /\ a[2] <= MAX_UNIX_SECONDS
    BY <1>1, <1>4, UnitAssumption
  <2>2. MILLI * ((2 * a[2]) \div MILLI) <= 2 * a[2] /\ (2 * a[2]) \div MILLI \in Nat
    BY <1>1, UnitAssumption, WholeUnits
  <2>3. Meant(a) = (2 * a[2]) \div MILLI
    BY <1>4 DEF Meant
  <2>4. MILLI * Meant(a) \in Nat /\ MILLI * Meant(a) <= 2 * a[2]
    BY <2>2, <2>3, UnitAssumption
  <2>5. Misread(a)
    BY <1>1, <1>4, <2>1, <2>4, UnitAssumption DEF Misread
  <2>. QED BY <1>1, <1>4, <2>1, <2>5
<1>5. CASE a[1] = "rfc3339"
  <2>1. Meant(a) = a[2] /\ unix_seconds(a) = a[2] \div 2
    BY <1>5 DEF Meant
  <2>. QED BY <1>1, <1>5, <2>1
<1>6. CASE a[1] \in {"before_1970", "junk"}
  BY <1>6
<1>. QED BY <1>1, <1>2, <1>3, <1>4, <1>5, <1>6 DEF Forms

\* Sets of traces are finite, so that an answer can count them.
LEMMA TracesFinite ==
  ASSUME TypeOK, NEW set \in SUBSET traces
  PROVE  IsFiniteSet(set) /\ Cardinality(set) \in Nat
<1>1. set \in SUBSET Instants
  BY DEF TypeOK
<1>. QED BY <1>1, InstantAssumption, FS_Subset, FS_CardinalityType

\* A limit of zero is Tempo's own default, never nothing.
LEMMA CapPositive ==
  ASSUME TypeOK
  PROVE  Cap(given.limit) \in Nat \ {0} /\ Cap(given.limit) >= given.limit
<1>1. given.limit \in Nat
  BY LimitAssumption DEF TypeOK
<1>. QED BY <1>1, LimitAssumption DEF Cap

-----------------------------------------------------------------------------
LEMMA InitInv == Init => Inv
<1>. SUFFICES ASSUME Init PROVE Inv
  OBVIOUS
<1>1. TypeOK
  BY DEF Init, TypeOK, NoAnswer, Bounds, Pcs
<1>2. NothingSent /\ WindowSent
  BY DEF Init, NothingSent, WindowSent, NoWindow
<1>3. FoundAllOrLimit /\ AnswerCounts
  BY DEF Init, FoundAllOrLimit, AnswerCounts
<1>. QED BY <1>1, <1>2, <1>3 DEF Inv

LEMMA CheckInv == Inv /\ Check => Inv'
<1>. SUFFICES ASSUME Inv, Check PROVE Inv'
  OBVIOUS
<1>. DEFINE w == [start |-> unix_seconds(given.start), end |-> unix_seconds(given.end)]
<1>1. CASE push_window(w)
  <2>1. pc' = "ask" /\ window' = w
    BY <1>1 DEF Check
  <2>2. /\ w.start \in Bounds /\ w.end \in Bounds
        /\ Means(given.start, w.start) /\ Means(given.end, w.end)
        /\ w.start # None /\ w.end # None => w.start <= w.end
    BY <1>1, UnixSeconds DEF push_window, Inv, TypeOK
  <2>. HIDE DEF w
  <2>3. w \in [start : Bounds, end : Bounds]
    BY <2>2 DEF w
  <2>4. TypeOK'
    BY <2>1, <2>3 DEF Inv, TypeOK, Check, Pcs
  <2>5. WindowSent'
    BY <2>1, <2>2 DEF WindowSent, Check, Bounded, Means, Meant, Misread
  <2>. QED BY <2>1, <2>4, <2>5 DEF Inv, NothingSent, FoundAllOrLimit, AnswerCounts
<1>2. CASE ~push_window(w)
  <2>1. pc' = "done" /\ window' = NoWindow
    BY <1>2 DEF Check, Inv, NothingSent
  <2>2. TypeOK'
    BY <2>1, <1>2 DEF Inv, TypeOK, Check, Pcs
  <2>. QED BY <2>1, <2>2 DEF Inv, NothingSent, WindowSent, FoundAllOrLimit, AnswerCounts,
                             Bounded, NoWindow
<1>. QED BY <1>1, <1>2

LEMMA AskInv == Inv /\ Ask => Inv'
<1>. SUFFICES ASSUME Inv, Ask PROVE Inv'
  OBVIOUS
<1>1. /\ found' \subseteq Within(window)
      /\ Bounded => found' = Within(window) \/ Cardinality(found') = Cap(given.limit)
      /\ pc = "ask" /\ pc' = "summarise"
      /\ UNCHANGED <<traces, given, window, answer>>
  BY DEF Ask, Bounded
<1>2. TypeOK'
  BY <1>1 DEF Inv, TypeOK, Within, Pcs
<1>3. WindowSent'
  BY <1>1 DEF Inv, WindowSent, Bounded, Means, Meant, Misread
<1>4. FoundAllOrLimit'
  BY <1>1 DEF FoundAllOrLimit, Bounded, Within
<1>. QED BY <1>1, <1>2, <1>3, <1>4 DEF Inv, NothingSent, AnswerCounts

LEMMA SummariseInv == Inv /\ Summarise => Inv'
<1>. SUFFICES ASSUME Inv, Summarise PROVE Inv'
  OBVIOUS
<1>1. /\ pc = "summarise" /\ pc' = "open"
      /\ answer' = search_summary(found, given.limit)
      /\ UNCHANGED <<traces, given, window, found>>
  BY DEF Summarise
<1>2. Cardinality(found) \in Nat
  BY TracesFinite DEF Inv, TypeOK
<1>3. answer' = [returned |-> Cardinality(found),
                 limitReached |-> Cardinality(found) >= given.limit, opened |-> "nothing"]
  BY <1>1 DEF search_summary, NoAnswer
<1>4. TypeOK'
  BY <1>1, <1>2, <1>3 DEF Inv, TypeOK, Pcs
<1>5. WindowSent'
  BY <1>1 DEF Inv, WindowSent, Bounded, Means, Meant, Misread
<1>6. FoundAllOrLimit'
  BY <1>1 DEF Inv, FoundAllOrLimit, Bounded, Within
<1>7. AnswerCounts'
  <2>1. /\ answer'.returned = Cardinality(found)
        /\ answer'.limitReached <=> Cardinality(found) >= given.limit
    BY <1>3
  <2>. QED BY <1>1, <2>1 DEF AnswerCounts
<1>. QED BY <1>1, <1>4, <1>5, <1>6, <1>7 DEF Inv, NothingSent

\* Of an ID that was found, only what somebody retyped can be refused.
LEMMA OpenInv == Inv /\ Open => Inv'
<1>. SUFFICES ASSUME Inv, Open PROVE Inv'
  OBVIOUS
<1>1. /\ pc = "open" /\ pc' = "done"
      /\ UNCHANGED <<traces, given, window, found>>
  BY DEF Open
<1>2. PICK raw \in TypedIds :
        answer' = [answer EXCEPT !.opened = IF trace_id(raw) # "refused" THEN "trace"
                                            ELSE IF raw \in SearchIds THEN "own_id_refused"
                                            ELSE "refused"]
  BY DEF Open
<1>3. \A r \in SearchIds : trace_id(r) # "refused"
  BY DEF SearchIds, trace_id
<1>4. \E o \in {"trace", "refused"} : answer' = [answer EXCEPT !.opened = o]
  BY <1>2, <1>3
<1>5. TypeOK'
  BY <1>1, <1>4 DEF Inv, TypeOK, Pcs
<1>6. WindowSent'
  BY <1>1 DEF Inv, WindowSent, Bounded, Means, Meant, Misread
<1>7. FoundAllOrLimit'
  BY <1>1 DEF Inv, FoundAllOrLimit, Bounded, Within
<1>8. AnswerCounts'
  BY <1>1, <1>4 DEF Inv, TypeOK, AnswerCounts, Bounded
<1>. QED BY <1>1, <1>5, <1>6, <1>7, <1>8 DEF Inv, NothingSent

\* The window is the one the arguments mean, what Tempo found in it is complete
\* or as much as the limit allows, and the answer counts what it found.
THEOREM Invariant == Spec => []Inv
<1>1. Inv /\ [Next]_vars => Inv'
  <2>. SUFFICES ASSUME Inv, [Next]_vars PROVE Inv'
    OBVIOUS
  <2>1. CASE Check
    BY <2>1, CheckInv
  <2>2. CASE Ask
    BY <2>2, AskInv
  <2>3. CASE Summarise
    BY <2>3, SummariseInv
  <2>4. CASE Open
    BY <2>4, OpenInv
  <2>5. CASE UNCHANGED vars
    BY <2>5 DEF vars, Inv, TypeOK, NothingSent, WindowSent, FoundAllOrLimit, AnswerCounts,
                Bounded, Means, Meant, Misread, Within
  <2>. QED BY <2>1, <2>2, <2>3, <2>4, <2>5 DEF Next
<1>. QED BY InitInv, <1>1, PTL DEF Spec

-----------------------------------------------------------------------------
\* `push_window` sends the seconds that were meant, for every form of a time
\* argument and every unit, times soon after 1970 in another unit excepted.
THEOREM WindowMeant == Spec => []WindowIsMeant
<1>1. Inv => WindowIsMeant
  BY DEF Inv, WindowSent, WindowIsMeant, Means, NoWindow
<1>. QED BY Invariant, <1>1, PTL

\* `search` with a window and an empty answer: nothing in the window matched,
\* whatever the limit, and the window was not upside down.
THEOREM EmptyIsNone == Spec => []EmptyMeansNone
<1>1. Inv => EmptyMeansNone
  <2>. SUFFICES ASSUME Inv, pc \in {"open", "done"}, Bounded, answer.returned = 0,
                       ~Misread(given.start), ~Misread(given.end)
                PROVE  /\ window.start <= window.end
                       /\ ~\E t \in traces : /\ Meant(given.start) <= t
                                             /\ t <= 2 * (Meant(given.end) \div 2)
    BY DEF EmptyMeansNone, Bounded
  <2>1. window # NoWindow
    BY DEF Bounded, NoWindow
  <2>2. /\ window.start <= window.end
        /\ Meant(given.start) - 2 * window.start \in {0, 1}
        /\ Meant(given.end) - 2 * window.end \in {0, 1}
        /\ window.start \in Nat /\ window.end \in Nat
    BY <2>1 DEF Inv, TypeOK, WindowSent, Means, Bounded, Bounds
  <2>3. found = {}
    BY TracesFinite, FS_EmptySet DEF Inv, TypeOK, AnswerCounts
  <2>4. Within(window) = {}
    BY <2>3, CapPositive, FS_EmptySet DEF Inv, FoundAllOrLimit
  <2>5. ASSUME NEW t \in traces, Meant(given.start) <= t, t <= 2 * (Meant(given.end) \div 2)
        PROVE  FALSE
    <3>1. t \in Nat /\ Meant(given.start) \in Nat /\ Meant(given.end) \in Nat
      BY InstantAssumption, MeantIsInstant DEF Inv, TypeOK
    <3>2. 2 * window.start <= t
      BY <2>2, <2>5, <3>1
    <3>3. t <= 2 * window.end
      BY <2>2, <2>5, <3>1
    <3>. QED BY <2>4, <3>2, <3>3 DEF Within
  <2>. QED BY <2>2, <2>5
<1>. QED BY Invariant, <1>1, PTL

\* `limit_reached`: an answer that leaves out a trace of the window says so.
THEOREM MoreTold == Spec => []MoreIsTold
<1>1. Inv => MoreIsTold
  BY CapPositive DEF Inv, FoundAllOrLimit, AnswerCounts, MoreIsTold, Bounded
<1>. QED BY Invariant, <1>1, PTL

\* `trace` opens every ID that `search` returns.
THEOREM IdsOpen == Spec => []FoundTracesOpen
<1>1. Inv => FoundTracesOpen
  BY DEF Inv, TypeOK, FoundTracesOpen
<1>. QED BY Invariant, <1>1, PTL
=============================================================================
