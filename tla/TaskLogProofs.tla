--------------------------- MODULE TaskLogProofs ---------------------------
(***************************************************************************)
(* Proofs about TaskLog for logs, windows and arguments of any size.       *)
(***************************************************************************)
EXTENDS TaskLog, TLAPS

\* A window fetched for a tail was computed from the log at some moment of
\* the call; any other window is the one its arguments name.
WindowExplained ==
  pc = "fetch" =>
    /\ args.tail = Omitted => win = paged_window(args)
    /\ args.tail # Omitted =>
         /\ win.limit = args.tail
         /\ \E n \in asked..written : win.start = tail_start(n, args.tail)

\* A call under way never names both a tail and a start; only a tail probes.
Exclusive ==
  /\ pc # "idle" => args.tail = Omitted \/ args.start = Omitted
  /\ pc = "probe" => args.tail # Omitted

\* Nothing is known of the log beyond what has been written.
LogGrows == asked <= written /\ reply.total <= written

\* The window of a reply that is in.
ReplyOfWindow ==
  Answered =>
    /\ reply.start = win.start
    /\ reply.lines = LinesOf(reply.total, win)
    /\ args.start # Omitted => win.start = args.start

Positive == args.tail # 0 /\ args.limit # 0

Inv ==
  /\ TypeOK
  /\ WindowExplained
  /\ Exclusive
  /\ LogGrows
  /\ ReplyOfWindow
  /\ Positive
  /\ TailWasCurrent

-----------------------------------------------------------------------------
\* A window never starts before the log, nor past its end.
LEMMA TailStartType ==
  ASSUME NEW total \in Nat, NEW tail \in Nat
  PROVE  tail_start(total, tail) \in 0..total
BY DEF tail_start

\* How many lines a window holds.
LEMMA LinesOfType ==
  ASSUME NEW n \in Nat, NEW w \in Windows
  PROVE  /\ LinesOf(n, w) \in 0..w.limit
         /\ LinesOf(n, w) > 0 => w.start + LinesOf(n, w) <= n
         /\ LinesOf(n, w) < w.limit => w.start + LinesOf(n, w) >= n
         /\ w.start < n /\ w.limit > 0 => LinesOf(n, w) > 0
BY DEF LinesOf, Windows

\* A paged window is a window.
LEMMA PagedWindowType ==
  ASSUME NEW a \in Arguments, a.limit # 0
  PROVE  paged_window(a) \in Windows /\ paged_window(a).limit > 0
BY ArgumentAssumption DEF paged_window, Windows, Arguments, Opt, Given

LEMMA InitInv == Init => Inv
BY BoundAssumption, ArgumentAssumption
   DEF Init, Inv, TypeOK, WindowExplained, Exclusive, LogGrows, ReplyOfWindow, Positive,
       TailWasCurrent, Answered, Arguments, Windows, Replies, Failure, Opt

\* A call is entered with whatever arguments its caller may send.
LEMMA EnterInv ==
  ASSUME NEW a \in Arguments, a.tail # 0, a.limit # 0, Inv, Enter(a)
  PROVE  Inv'
<1>1. TypeOK'
  <2>1. paged_window(a) \in Windows
    BY PagedWindowType
  <2>2. Failure \in Replies
    BY DEF Failure, Replies
  <2>. QED BY <2>1, <2>2 DEF Inv, TypeOK, Enter
<1>2. WindowExplained' /\ Exclusive'
  BY DEF Inv, Enter, WindowExplained, Exclusive, TypeOK
<1>3. LogGrows' /\ Positive'
  BY DEF Inv, Enter, LogGrows, Positive, TypeOK, Failure
<1>4. ReplyOfWindow' /\ TailWasCurrent'
  BY DEF Inv, Enter, ReplyOfWindow, TailWasCurrent, Answered, Failure
<1>. QED BY <1>1, <1>2, <1>3, <1>4 DEF Inv

\* A line written, or the task stopping, changes no call.
LEMMA TaskInv == Inv /\ (Write \/ Stop) => Inv'
<1>. SUFFICES ASSUME Inv, Write \/ Stop PROVE Inv'
  OBVIOUS
<1>1. written' >= written /\ written' \in Nat /\ written \in Nat /\ asked \in Nat
  BY DEF Inv, TypeOK, Write, Stop
<1>2. UNCHANGED <<pc, args, asked, win, reply, failures>> /\ running' \in BOOLEAN
  BY DEF Inv, TypeOK, Write, Stop
<1>3. TypeOK' /\ LogGrows'
  BY <1>1, <1>2 DEF Inv, TypeOK, LogGrows, Replies
<1>4. WindowExplained'
  BY <1>1, <1>2 DEF Inv, WindowExplained
<1>5. Exclusive' /\ ReplyOfWindow' /\ Positive' /\ TailWasCurrent'
  BY <1>2 DEF Inv, Exclusive, ReplyOfWindow, Positive, TailWasCurrent, Answered
<1>. QED BY <1>3, <1>4, <1>5 DEF Inv

\* The probe computes the window from the log as it stands.
LEMMA ProbeInv == Inv /\ Probe => Inv'
<1>. SUFFICES ASSUME Inv, Probe PROVE Inv'
  OBVIOUS
<1>1. /\ args.tail \in Nat /\ written \in Nat /\ asked \in Nat /\ asked <= written
      /\ args.tail # Omitted
  BY DEF Inv, TypeOK, Arguments, Opt, Exclusive, Probe, LogGrows
<1>2. win'.limit = args.tail /\ win'.start = tail_start(written, args.tail)
  BY DEF Probe
<1>3. TypeOK'
  <2>1. tail_start(written, args.tail) \in Nat
    BY <1>1, TailStartType
  <2>2. win' = [start |-> tail_start(written, args.tail), limit |-> args.tail]
    BY DEF Probe
  <2>3. win' \in Windows
    BY <1>1, <2>1, <2>2 DEF Windows
  <2>. QED BY <2>3 DEF Inv, TypeOK, Probe
<1>4. WindowExplained'
  BY <1>1, <1>2 DEF Probe, WindowExplained
<1>5. Exclusive' /\ LogGrows' /\ ReplyOfWindow' /\ Positive' /\ TailWasCurrent'
  BY DEF Inv, Probe, Exclusive, LogGrows, ReplyOfWindow, Positive, TailWasCurrent, Answered
<1>. QED BY <1>3, <1>4, <1>5 DEF Inv

\* A request that fails leaves no answer behind.
LEMMA FailInv == Inv /\ Fail => Inv'
<1>. SUFFICES ASSUME Inv, Fail PROVE Inv'
  OBVIOUS
<1>1. reply' = Failure /\ Failure \in Replies /\ Failure.total = 0 /\ ~Failure.ok
  BY DEF Fail, Failure, Replies
<1>2. TypeOK'
  BY <1>1 DEF Inv, TypeOK, Fail
<1>3. WindowExplained' /\ Exclusive' /\ Positive'
  BY DEF Inv, Fail, WindowExplained, Exclusive, Positive
<1>4. LogGrows' /\ ReplyOfWindow' /\ TailWasCurrent'
  BY <1>1 DEF Inv, TypeOK, Fail, LogGrows, ReplyOfWindow, TailWasCurrent, Answered
<1>. QED BY <1>2, <1>3, <1>4 DEF Inv

\* The moment of the call at which a fetched tail was the end of the log: the
\* probe's, unless the log was then shorter than the tail.
LEMMA TailMoment ==
  ASSUME NEW n \in Nat, NEW total \in Nat, n <= total, NEW tail \in Nat, NEW w \in Windows,
         w.limit = tail, w.start = tail_start(n, tail)
  PROVE  LET end == w.start + LinesOf(total, w)
         IN  end \in n..total /\ w.start = IF tail >= end THEN 0 ELSE end - tail
BY DEF tail_start, LinesOf, Windows

\* The answer to a fetch is explained by its window.
LEMMA FetchInv == Inv /\ Fetch => Inv'
<1>. SUFFICES ASSUME Inv, Fetch PROVE Inv'
  OBVIOUS
<1>1. /\ pc = "fetch" /\ pc' = "idle" /\ win \in Windows /\ written \in Nat /\ asked \in Nat
      /\ asked <= written
      /\ reply' = [ok |-> TRUE, total |-> written, start |-> win.start,
                   lines |-> LinesOf(written, win)]
      /\ UNCHANGED <<written, running, failures, args, asked, win>>
  BY DEF Inv, TypeOK, LogGrows, Fetch
<1>2. LinesOf(written, win) \in Nat /\ win.start \in Nat /\ win.limit \in Nat
  BY <1>1, LinesOfType DEF Windows
<1>3. TypeOK'
  BY <1>1, <1>2 DEF Inv, TypeOK, Replies
<1>4. WindowExplained' /\ Exclusive' /\ LogGrows' /\ Positive'
  BY <1>1 DEF Inv, WindowExplained, Exclusive, LogGrows, Positive
<1>5. ReplyOfWindow'
  <2>1. args.start # Omitted => win.start = args.start
    BY <1>1 DEF Inv, Exclusive, WindowExplained, paged_window, Given
  <2>2. LinesOf(written, win)' = LinesOf(written, win)
    BY <1>1
  <2>. QED BY <1>1, <2>1, <2>2 DEF ReplyOfWindow, Answered
<1>6. TailWasCurrent'
  <2>. SUFFICES ASSUME args.tail # Omitted PROVE TailWasCurrent'
    BY <1>1 DEF TailWasCurrent
  <2>1. PICK n \in asked..written : win.start = tail_start(n, args.tail)
    BY <1>1 DEF Inv, WindowExplained
  <2>2. win.limit = args.tail /\ args.tail \in Nat
    BY <1>1 DEF Inv, WindowExplained, TypeOK, Arguments, Opt
  <2>. DEFINE end == win.start + LinesOf(written, win)
  <2>3. end \in n..written /\ win.start = IF args.tail >= end THEN 0 ELSE end - args.tail
    BY <1>1, <2>1, <2>2, TailMoment
  <2>4. end \in asked..written
    BY <1>1, <1>2, <2>1, <2>3
  <2>. HIDE DEF end
  <2>5. reply'.start = win.start /\ reply'.total = written /\ reply'.start + reply'.lines = end
    BY <1>1 DEF end
  <2>. QED BY <1>1, <2>3, <2>4, <2>5 DEF TailWasCurrent
<1>. QED BY <1>3, <1>4, <1>5, <1>6 DEF Inv

\* Every action preserves the invariant.
LEMMA NextInv == Inv /\ [Next]_vars => Inv'
<1>. SUFFICES ASSUME Inv, [Next]_vars PROVE Inv'
  OBVIOUS
<1>1. CASE Call
  <2>1. PICK s \in Opt(Starts), l \in Opt(Limits), t \in Opt(Tails) :
          Enter([start |-> s, limit |-> l, tail |-> t])
    BY <1>1 DEF Call
  <2>2. [start |-> s, limit |-> l, tail |-> t] \in Arguments /\ t # 0 /\ l # 0
    BY ArgumentAssumption DEF Arguments, Opt
  <2>. QED BY <2>1, <2>2, EnterInv
<1>2. CASE Page
  <2>. DEFINE a == [start |-> reply.start + reply.lines, limit |-> Omitted, tail |-> Omitted]
  <2>1. a \in Arguments /\ a.tail # 0 /\ a.limit # 0
    BY ArgumentAssumption DEF Inv, TypeOK, Replies, Arguments, Opt
  <2>2. Enter(a)
    BY <1>2 DEF Page
  <2>. QED BY <2>1, <2>2, EnterInv
<1>3. CASE UNCHANGED vars
  BY <1>3 DEF vars, Inv, TypeOK, WindowExplained, Exclusive, LogGrows, ReplyOfWindow,
              Positive, TailWasCurrent, Answered
<1>. QED BY <1>1, <1>2, <1>3, TaskInv, ProbeInv, FetchInv, FailInv DEF Next

-----------------------------------------------------------------------------
(* Theorems.                                                               *)

\* The inductive invariant holds of every call, however the log grows.
THEOREM Invariance == Spec => []Inv
BY InitInv, NextInv, PTL DEF Spec

\* Window offsets and lengths are natural numbers: tail_start never wraps.
THEOREM TypeCorrect == Spec => []TypeOK
<1>1. Inv => TypeOK
  BY DEF Inv
<1>. QED BY <1>1, Invariance, PTL

\* A tail is the last N lines of the log at some moment of the call.
THEOREM TailLinearizable == Spec => []TailWasCurrent
<1>1. Inv => TailWasCurrent
  BY DEF Inv
<1>. QED BY <1>1, Invariance, PTL

\* Every reply is a page a caller can go on from.
THEOREM PagesComplete == Spec => []PageComplete
<1>1. ASSUME Inv PROVE PageComplete
  <2>. SUFFICES ASSUME Answered PROVE PageComplete
    BY DEF PageComplete
  <2>1. /\ reply.start = win.start /\ reply.lines = LinesOf(reply.total, win)
        /\ args.start # Omitted => win.start = args.start
        /\ win \in Windows /\ reply.total \in Nat
    BY <1>1 DEF Inv, TypeOK, ReplyOfWindow, Replies
  <2>. QED BY <2>1, LinesOfType DEF PageComplete
<1>. QED BY <1>1, Invariance, PTL

\* Paging on from a reply always brings the lines that follow it.
THEOREM PagingProgress == Spec => PagingAdvances
<1>. DEFINE A == /\ pc = "fetch" /\ pc' = "idle" /\ reply'.ok
                 /\ reply.ok /\ args.start = reply.start + reply.lines
                 /\ reply.start + reply.lines < reply.total
                 => reply'.start = reply.start + reply.lines /\ reply'.lines > 0
<1>1. ASSUME Inv, [Next]_vars PROVE [A]_vars
  <2>. SUFFICES ASSUME pc = "fetch", pc' = "idle", reply'.ok,
                       reply.ok, args.start = reply.start + reply.lines,
                       reply.start + reply.lines < reply.total
                PROVE  reply'.start = reply.start + reply.lines /\ reply'.lines > 0
    OBVIOUS
  <2>1. Fetch
    BY <1>1 DEF Next, Write, Stop, Call, Page, Enter, Probe, Fail, Failure, vars
  <2>2. args.start \in Nat /\ args.start < written /\ written \in Nat
    BY <1>1 DEF Inv, TypeOK, Replies, LogGrows
  <2>3. args.tail = Omitted /\ win = paged_window(args) /\ args \in Arguments /\ args.limit # 0
    BY <1>1, <2>2, ArgumentAssumption DEF Inv, TypeOK, Exclusive, WindowExplained, Positive
  <2>4. win \in Windows /\ win.limit > 0 /\ win.start = args.start
    BY <2>2, <2>3, PagedWindowType, ArgumentAssumption DEF paged_window, Given
  <2>5. LinesOf(written, win) > 0
    BY <2>2, <2>4, LinesOfType
  <2>6. reply'.start = win.start /\ reply'.lines = LinesOf(written, win)
    BY <2>1 DEF Fetch
  <2>. QED BY <2>4, <2>5, <2>6
<1>. QED BY <1>1, Invariance, PTL DEF Spec, PagingAdvances
=============================================================================
