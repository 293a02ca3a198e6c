--------------------------- MODULE StepLogsProofs ---------------------------
(***************************************************************************)
(* Proofs about StepLogs for logs of any length and caps of any size.      *)
(***************************************************************************)
EXTENDS StepLogs, TLAPS

Lines == Nat \X Kinds
Received == {"base64", "plain", "none"} \X Lines

\* Every variable has its type.  A cap is never zero once it is configured.
TypeOK ==
  /\ encodes \in BOOLEAN
  /\ max_log_lines \in Nat \ {0}
  /\ max_lines \in Options
  /\ written \in Seq(Lines)
  /\ pc \in {"ask", "cut", "done"}
  /\ entries \in Seq(Received)

\* The log as fetched is what the step had written at that moment, every line
\* as Woodpecker sends it; the step may have written more since.
FetchedIsWritten ==
  /\ Len(entries) <= Len(written)
  /\ \A i \in DOMAIN entries : entries[i] = Entry(written[i])

\* The answer is what step_logs returns for the fetched log.
AnswerIsCut == pc = "done" => answer = step_logs(entries, cap(max_lines, max_log_lines))

Inv == TypeOK /\ FetchedIsWritten /\ AnswerIsCut

-----------------------------------------------------------------------------
\* A number that is given and not zero is what The returns of it.
LEMMA OptionValue ==
  ASSUME NEW o \in Options, ~(o \subseteq {0})
  PROVE  The(o) \in Nat \ {0} /\ o = {The(o)}
<1>1. PICK n \in Caps : o = {n}
  BY DEF Options
<1>2. The(o) = n
  BY <1>1 DEF The
<1>. QED BY <1>1, <1>2, CapAssumption

\* The cap in force is positive, and the caller's own where it names one.
LEMMA CapPositive ==
  ASSUME NEW o \in Options, NEW default \in Nat \ {0}
  PROVE  cap(o, default) \in Nat \ {0} /\ \A n \in o \ {0} : cap(o, default) = n
<1>1. CASE o \subseteq {0}
  BY <1>1 DEF cap
<1>2. CASE ~(o \subseteq {0})
  BY <1>2, OptionValue DEF cap
<1>. QED BY <1>1, <1>2

\* A line is sent in one of three forms, with its text.
LEMMA EntryReceived ==
  ASSUME NEW line \in Lines
  PROVE  Entry(line) \in Received /\ Entry(line)[2] = line
BY DEF Entry, Received

\* Last(s, n) is the end of s: at most n elements, all of them where s is short.
LEMMA LastOf ==
  ASSUME NEW S, NEW s \in Seq(S), NEW n \in Nat
  PROVE  /\ Last(s, n) \in Seq(S)
         /\ Len(Last(s, n)) = Least(n, Len(s))
         /\ \A i \in 1..Len(Last(s, n)) : Last(s, n)[i] = s[Len(s) - Least(n, Len(s)) + i]
<1>. DEFINE k == Least(n, Len(s))
<1>1. k \in Nat /\ k <= Len(s)
  BY DEF Least
<1>. HIDE DEF k
<1>2. /\ SubSeq(s, Len(s) - k + 1, Len(s)) \in Seq(S)
      /\ Len(SubSeq(s, Len(s) - k + 1, Len(s))) = k
      /\ \A i \in 1..k : SubSeq(s, Len(s) - k + 1, Len(s))[i] = s[Len(s) - k + i]
  BY <1>1
<1>. QED BY <1>2 DEF Last, k

\* Decoding answers every entry, in place, and keeps the line it is about.
LEMMA DecodeKeepsLines ==
  ASSUME NEW s \in Seq(Received)
  PROVE  /\ DOMAIN decode_log_entries(s) = 1..Len(s)
         /\ \A i \in 1..Len(s) : decode_log_entries(s)[i] = decode(s[i])
         /\ \A i \in 1..Len(s) : decode(s[i])[2] = s[i][2]
<1>1. \A e \in Received : decode(e)[2] = e[2]
  BY DEF decode, Received
<1>. QED BY <1>1 DEF decode_log_entries

-----------------------------------------------------------------------------
LEMMA InitInv == Init => Inv
<1>. SUFFICES ASSUME Init PROVE Inv
  OBVIOUS
<1>1. \A env \in Options : configured(env) \in Nat \ {0}
  BY CapAssumption, OptionValue DEF configured
<1>2. TypeOK
  BY <1>1, KindAssumption DEF Init, TypeOK
<1>. QED BY <1>2 DEF Init, Inv, FetchedIsWritten, AnswerIsCut

\* A line written after the fetch leaves the fetched log alone.
LEMMA WriteInv == Inv /\ Write => Inv'
<1>. SUFFICES ASSUME Inv, Write PROVE Inv'
  OBVIOUS
<1>1. PICK kind \in Kinds : written' = Append(written, <<Len(written) + 1, kind>>)
  BY DEF Write
<1>2. /\ written' \in Seq(Lines) /\ Len(written') = Len(written) + 1
      /\ \A i \in 1..Len(written) : written'[i] = written[i]
  BY <1>1 DEF Inv, TypeOK, Lines
<1>3. TypeOK'
  BY <1>2 DEF Inv, TypeOK, Write
<1>4. FetchedIsWritten'
  BY <1>2 DEF Inv, TypeOK, FetchedIsWritten, Write, Entry
<1>5. AnswerIsCut'
  BY DEF Inv, AnswerIsCut, Write
<1>. QED BY <1>3, <1>4, <1>5 DEF Inv

LEMMA FetchInv == Inv /\ Fetch => Inv'
<1>. SUFFICES ASSUME Inv, Fetch PROVE Inv'
  OBVIOUS
<1>1. /\ entries' = [i \in 1..Len(written) |-> Entry(written[i])]
      /\ \A i \in 1..Len(written) : Entry(written[i]) \in Received
  BY EntryReceived DEF Inv, TypeOK, Fetch
<1>2. entries' \in Seq(Received) /\ Len(entries') = Len(written)
  BY <1>1 DEF Inv, TypeOK
<1>3. TypeOK'
  BY <1>2 DEF Inv, TypeOK, Fetch
<1>4. FetchedIsWritten'
  BY <1>1, <1>2 DEF Inv, TypeOK, FetchedIsWritten, Fetch, Entry
<1>5. AnswerIsCut'
  BY DEF AnswerIsCut, Fetch
<1>. QED BY <1>3, <1>4, <1>5 DEF Inv

\* What leaves the log and the fetched log alone keeps what is known of them.
LEMMA LogsKept ==
  ASSUME Inv, UNCHANGED <<encodes, max_log_lines, max_lines, written, entries>>,
         pc' \in {"ask", "cut", "done"}
  PROVE  TypeOK' /\ FetchedIsWritten'
<1>1. \A i : Entry(written[i])' = Entry(written[i])
  BY DEF Entry
<1>. QED BY <1>1 DEF Inv, TypeOK, FetchedIsWritten

LEMMA CutInv == Inv /\ Cut => Inv'
<1>. SUFFICES ASSUME Inv, Cut PROVE Inv'
  OBVIOUS
<1>1. TypeOK' /\ FetchedIsWritten'
  BY LogsKept DEF Cut
<1>2. AnswerIsCut'
  BY DEF AnswerIsCut, Cut
<1>. QED BY <1>1, <1>2 DEF Inv

\* The variables have their types, the fetched log is a prefix of the written
\* one, and the answer is cut from it.
THEOREM Invariant == Spec => []Inv
<1>1. Inv /\ [Next]_vars => Inv'
  <2>. SUFFICES ASSUME Inv, [Next]_vars PROVE Inv'
    OBVIOUS
  <2>1. CASE Write
    BY <2>1, WriteInv
  <2>2. CASE Fetch
    BY <2>2, FetchInv
  <2>3. CASE Cut
    BY <2>3, CutInv
  <2>4. CASE UNCHANGED vars
    <3>1. TypeOK' /\ FetchedIsWritten'
      BY <2>4, LogsKept DEF vars, Inv, TypeOK
    <3>2. AnswerIsCut'
      BY <2>4 DEF vars, Inv, AnswerIsCut
    <3>. QED BY <3>1, <3>2 DEF Inv
  <2>. QED BY <2>1, <2>2, <2>3, <2>4 DEF Next
<1>. QED BY InitInv, <1>1, PTL DEF Spec

-----------------------------------------------------------------------------
\* What the answer shows, line by line.
LEMMA AnswerLines ==
  ASSUME Inv, pc = "done"
  PROVE  LET c == cap(max_lines, max_log_lines)
             k == Least(c, Len(entries))
         IN  /\ k \in Nat /\ k <= Len(entries) /\ k <= c /\ c \in Nat \ {0}
             /\ k = Len(entries) \/ k = c
             /\ DOMAIN answer.entries = 1..k
             /\ \A i \in 1..k : /\ answer.entries[i] = decode(entries[Len(entries) - k + i])
                                /\ answer.entries[i][2] = entries[Len(entries) - k + i][2]
             /\ answer.total = Len(entries)
             /\ answer.truncated <=> Len(entries) > c
<1>. DEFINE c == cap(max_lines, max_log_lines)
            k == Least(c, Len(entries))
            s == Last(entries, c)
<1>1. entries \in Seq(Received) /\ c \in Nat \ {0}
  BY CapPositive DEF Inv, TypeOK
<1>2. answer = [truncated |-> Len(entries) > c, total |-> Len(entries),
                entries |-> decode_log_entries(s)]
  BY DEF Inv, AnswerIsCut, step_logs
<1>. HIDE DEF c
<1>3. k \in Nat /\ k <= Len(entries) /\ k <= c /\ (k = Len(entries) \/ k = c)
  BY <1>1 DEF Least
<1>4. /\ s \in Seq(Received) /\ Len(s) = k
      /\ \A i \in 1..k : s[i] = entries[Len(entries) - k + i]
  BY <1>1, LastOf
<1>. HIDE DEF s, k
<1>5. /\ DOMAIN decode_log_entries(s) = 1..k
      /\ \A i \in 1..k : /\ decode_log_entries(s)[i] = decode(entries[Len(entries) - k + i])
                         /\ decode_log_entries(s)[i][2] = entries[Len(entries) - k + i][2]
  BY <1>4, DecodeKeepsLines
<1>. QED BY <1>1, <1>2, <1>3, <1>5 DEF c, k

\* Shown, counted.
LEMMA ShownLines ==
  ASSUME NEW k \in Nat, DOMAIN answer.entries = 1..k
  PROVE  Len(Shown) = k /\ \A i \in 1..k : Shown[i] = answer.entries[i][2]
BY DEF Shown

\* `step_logs` returns the end of the log as it was when it was fetched, in order
\* and without a gap, says how much there was, never shows nothing of a log that
\* has lines and never more than the caller asked for: for any log and any caps.
THEOREM EndKept == Spec => []EndOfLogKept
<1>1. Inv => EndOfLogKept
  <2>. SUFFICES ASSUME Inv, pc = "done"
                PROVE  EndOfLogKept
    BY DEF EndOfLogKept, EndsWhereLogEnded, NeverEmptyNorMore
  <2>. DEFINE c == cap(max_lines, max_log_lines)
              k == Least(c, Len(entries))
              m == Len(entries)
  <2>1. /\ k \in Nat /\ k <= m /\ k <= c /\ c \in Nat \ {0} /\ m \in Nat
        /\ k = m \/ k = c
        /\ DOMAIN answer.entries = 1..k
        /\ \A i \in 1..k : answer.entries[i][2] = entries[m - k + i][2]
        /\ answer.total = m
        /\ answer.truncated <=> m > c
    BY AnswerLines DEF Inv, TypeOK
  <2>2. \A n \in max_lines \ {0} : c = n
    BY CapPositive DEF Inv, TypeOK
  <2>. HIDE DEF c, k
  <2>3. Len(Shown) = k /\ \A i \in 1..k : Shown[i] = answer.entries[i][2]
    BY <2>1, ShownLines
  <2>4. EndsWhereLogEnded
    <3>1. ASSUME NEW i \in 1..k
          PROVE  Shown[k + 1 - i] = entries[m + 1 - i][2]
      <4>1. k + 1 - i \in 1..k /\ m - k + (k + 1 - i) = m + 1 - i
        BY <2>1
      <4>. QED BY <2>1, <2>3, <4>1
    <3>2. answer.truncated <=> k < m
      BY <2>1
    <3>. QED BY <2>1, <2>3, <3>1, <3>2 DEF EndsWhereLogEnded
  <2>5. NeverEmptyNorMore
    <3>1. entries # <<>> => m > 0
      BY DEF Inv, TypeOK
    <3>2. k > 0 => Shown # <<>>
      BY <2>3
    <3>. QED BY <2>1, <2>2, <2>3, <3>1, <3>2 DEF NeverEmptyNorMore
  <2>. QED BY <2>4, <2>5 DEF EndOfLogKept
<1>. QED BY Invariant, <1>1, PTL

\* Where Woodpecker encodes the lines, every line shown is decoded, and an odd
\* entry is there as it was received and costs no other line.
THEOREM AllReadable == Spec => []LinesReadable
<1>1. Inv => LinesReadable
  <2>. SUFFICES ASSUME Inv, pc = "done", encodes,
                       NEW i \in DOMAIN answer.entries
                PROVE  answer.entries[i][1] =
                         (IF answer.entries[i][2][2] = "odd" THEN "as_received" ELSE "readable")
    BY DEF LinesReadable
  <2>. DEFINE k == Least(cap(max_lines, max_log_lines), Len(entries))
              j == Len(entries) - k + i
  <2>1. /\ k \in Nat /\ k <= Len(entries) /\ i \in 1..k
        /\ answer.entries[i] = decode(entries[j])
    BY AnswerLines
  <2>. HIDE DEF k
  <2>2. j \in DOMAIN entries /\ j \in DOMAIN written
    BY <2>1 DEF Inv, TypeOK, FetchedIsWritten
  <2>3. entries[j] = Entry(written[j]) /\ written[j] \in Lines
    BY <2>2 DEF Inv, TypeOK, FetchedIsWritten
  <2>. HIDE DEF j
  <2>. QED BY <2>1, <2>3 DEF Entry, decode, Lines
<1>. QED BY Invariant, <1>1, PTL
=============================================================================
