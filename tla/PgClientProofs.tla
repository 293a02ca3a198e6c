--------------------------- MODULE PgClientProofs ---------------------------
(***************************************************************************)
(* Proofs about PgClient for any number of calls and connections, any      *)
(* limits, row cap and statement timeout, and all faults.                  *)
(***************************************************************************)
EXTENDS PgClient, TLAPS

Holding == {"begin"} \cup InTransaction

\* A call holds a connection exactly from `begin` to `rollback`, alone.
Ownership ==
  /\ \A c \in Calls : conn[c] # NoConn <=> pc[c] \in Holding
  /\ SlotAccounting

\* How far the preamble of a call's transaction has got, on the server.
Protected(c) ==
  LET s == sess[conn[c]]
  IN  /\ pc[c] = "configure" =>
           /\ s.txn = "open"
           /\ step[c] \in 1..2
           /\ step[c] = 2 => s.readOnly
      /\ pc[c] = "query" =>
           s.txn = "open" /\ s.readOnly /\ s.timeout = statement_timeout_ms
      /\ pc[c] = "running" =>
           s.txn = "open" /\ s.readOnly /\ s.timer = statement_timeout_ms

Progress ==
  \A c \in Calls : link[conn[c]] = "up" /\ pc[c] \in Holding => Protected(c)

\* A result in hand, or given, is that of a statement that reads, and capped if
\* the statement stayed inside the wrapper.
Results ==
  \A c \in Calls :
    /\ sql[c] # "unenclosed" => rows[c] <= limit[c]
    /\ pc[c] \notin {"rollback", "done"} => rows[c] = 0
    /\ outcome[c] # "none" <=> pc[c] = "done"
    /\ pc[c] = "rollback" \/ outcome[c] = "ok" => sql[c] \in {"select", "setting", "unenclosed"}

\* A rollback would make the session as it was before the call: nothing in it has
\* outlived a transaction, and outside of one there is nothing in it.
Undoable(s) == ~s.kept /\ (s.txn = "none" => s = Fresh)

Inv ==
  /\ TypeOK
  /\ Ownership
  /\ CleanIdle
  /\ \A k \in Conns : Undoable(sess[k])
  /\ Progress
  /\ Results
  /\ written = {}

-----------------------------------------------------------------------------
\* What the limit helpers return.
LEMMA ClampInRange ==
  ASSUME NEW l \in Int
  PROVE  /\ clamp_limit(l) \in 1..Larger(1, MaxRows)
         /\ l \in 1..Larger(1, MaxRows) => clamp_limit(l) = l
  BY LimitAssumption DEF clamp_limit, Larger, Smaller

\* What a tool's optional limit resolves to.
LEMMA LimitResolution ==
  ASSUME NEW l \in Limits
  PROVE  /\ effective_limit(l) \in 1..Larger(1, MaxRows)
         /\ l \in 1..Larger(1, MaxRows) => effective_limit(l) = l
         /\ l = NoLimit => effective_limit(l) = Larger(1, MaxRows)
         /\ clamp_limit(effective_limit(l)) = effective_limit(l)
<1>1. CASE l = NoLimit
  <2>1. effective_limit(l) = clamp_limit(MaxRows)
    BY <1>1 DEF effective_limit
  <2>2. clamp_limit(MaxRows) = Larger(1, MaxRows)
    BY LimitAssumption DEF clamp_limit, Larger, Smaller
  <2>3. Larger(1, MaxRows) \in 1..Larger(1, MaxRows)
    BY LimitAssumption DEF Larger
  <2>4. l \notin Int
    BY <1>1, LimitAssumption
  <2>. QED BY <2>1, <2>2, <2>3, <2>4, ClampInRange
<1>2. CASE l # NoLimit
  <2>1. l \in Int /\ effective_limit(l) = clamp_limit(l)
    BY <1>2, LimitAssumption DEF effective_limit
  <2>. QED BY <1>2, <2>1, ClampInRange
<1>. QED BY <1>1, <1>2

\* The preamble and the session operators keep to their types.
LEMMA SessionTypes ==
  ASSUME NEW s \in Sessions, NEW stmt
  PROVE  /\ Fresh \in Sessions
         /\ TypeOK => Configured(s, stmt) \in Sessions
         /\ Started(s, stmt) \in Sessions
         /\ Completed(s, stmt) \in Sessions
         /\ Failed(s) \in Sessions
         /\ RolledBack(s) \in Sessions
<1>1. TypeOK => statement_timeout_ms \in Nat
  BY TimeoutAssumption DEF TypeOK
<1>2. RolledBack(s) \in Sessions
  BY DEF Sessions, Fresh, RolledBack
<1>. QED BY <1>1, <1>2 DEF Sessions, Fresh, Configured, Started, Completed, Failed

\* What a call does to its session inside its transaction can be undone, for
\* only COMMIT makes a setting outlive it.
LEMMA StaysUndoable ==
  ASSUME NEW s \in Sessions, Undoable(s), NEW stmt
  PROVE  /\ Undoable([s EXCEPT !.txn = "open"])
         /\ Undoable(Failed(s))
         /\ s.txn # "none" => /\ Undoable(Configured(s, stmt))
                              /\ Undoable(Started(s, stmt))
                              /\ Undoable(Completed(s, stmt))
<1>1. Undoable([s EXCEPT !.txn = "open"]) /\ Undoable(Failed(s))
  BY DEF Sessions, Undoable, Failed
<1>2. s.txn # "none" => Undoable(Configured(s, stmt))
  BY DEF Sessions, Undoable, Configured
<1>3. s.txn # "none" => Undoable(Started(s, stmt)) /\ Undoable(Completed(s, stmt))
  BY DEF Sessions, Undoable, Started, Completed
<1>. QED BY <1>1, <1>2, <1>3

\* And a rollback undoes it.
LEMMA RollbackUndoes ==
  ASSUME NEW s \in Sessions, Undoable(s)
  PROVE  RolledBack(s) = Fresh /\ Undoable(Fresh)
<1>1. Undoable(Fresh)
  BY DEF Undoable, Fresh
<1>2. s.kept = FALSE
  BY DEF Undoable, Sessions
<1>3. RolledBack(s) = Fresh
  BY <1>2 DEF Undoable, RolledBack, Fresh
<1>. QED BY <1>1, <1>3

\* One session is replaced by another that can be undone.
LEMMA OneSession ==
  ASSUME Inv, NEW k \in Conns, NEW t, Undoable(t), sess' = [sess EXCEPT ![k] = t]
  PROVE  \A j \in Conns : Undoable(sess'[j])
BY DEF Inv, TypeOK

LEMMA PreambleLength == Len(transaction_preamble) = 2
  BY DEF transaction_preamble

LEMMA PreambleStatements ==
  /\ transaction_preamble[1] = "READ ONLY"
  /\ transaction_preamble[2] = "statement_timeout"
  BY DEF transaction_preamble

-----------------------------------------------------------------------------
LEMMA InitInv == Init => Inv
<1>. SUFFICES ASSUME Init PROVE Inv
  OBVIOUS
<1>1. Fresh \in Sessions
  BY DEF Fresh, Sessions
<1>2. 1 \in 1..Larger(1, MaxRows) /\ 0 \in 0..TableRows
  BY LimitAssumption DEF Larger
<1>2a. \A k \in Conns : Undoable(sess[k])
  BY DEF Init, Undoable, Fresh
<1>3. TypeOK
  <2>1. step \in [Calls -> 1..(Len(transaction_preamble) + 1)]
    <3>1. 1 \in 1..(Len(transaction_preamble) + 1)
      BY PreambleLength
    <3>. QED BY <3>1 DEF Init
  <2>2. sess \in [Conns -> Sessions]
    BY <1>1 DEF Init
  <2>3. limit \in [Calls -> 1..Larger(1, MaxRows)] /\ rows \in [Calls -> 0..TableRows]
    BY <1>2 DEF Init
  <2>4. /\ pc \in [Calls -> {"idle", "acquire", "begin", "done"} \cup InTransaction]
        /\ sql \in [Calls -> Sql]
        /\ conn \in [Calls -> Conns \cup {NoConn}]
        /\ outcome \in [Calls -> {"none", "ok", "error"}]
        /\ slot \in [Conns -> {"closed", "idle", "held", "returning"}]
        /\ link \in [Conns -> {"up", "broken"}]
        /\ reach \in {"up", "refusing", "silent"}
        /\ written \subseteq Calls
        /\ statement_timeout_ms \in Timeouts
    BY DEF Init
  <2>. QED BY <2>1, <2>2, <2>3, <2>4 DEF TypeOK
<1>4. Ownership
  BY ConnAssumption DEF Init, Ownership, SlotAccounting, Holding, InTransaction
<1>5. CleanIdle /\ Progress /\ Results /\ written = {}
  BY DEF Init, CleanIdle, Progress, Results, Holding, InTransaction
<1>. QED BY <1>2a, <1>3, <1>4, <1>5 DEF Inv

\* A call at or past `begin` holds a slot that counts as held, not idle.
LEMMA HeldConn ==
  ASSUME Inv, NEW c \in Calls, pc[c] \in Holding
  PROVE  /\ conn[c] \in Conns
         /\ sess[conn[c]] \in Sessions
         /\ slot[conn[c]] = "held"
         /\ \A d \in Calls \ {c} : conn[d] # conn[c]
<1>1. conn[c] \in Conns
  BY ConnAssumption DEF Inv, TypeOK, Ownership
<1>. QED BY <1>1, ConnAssumption DEF Inv, TypeOK, Ownership, SlotAccounting

\* The session of a held connection may be replaced by any other.
LEMMA SessionUpdate ==
  ASSUME Inv, NEW c \in Calls, pc[c] \in Holding, NEW t \in Sessions,
         sess' = [sess EXCEPT ![conn[c]] = t]
  PROVE  /\ sess' \in [Conns -> Sessions]
         /\ sess'[conn[c]] = t
         /\ \A d \in Calls \ {c} : sess'[conn[d]] = sess[conn[d]]
         /\ \A k \in Conns : slot[k] = "idle" => sess'[k] = sess[k]
  BY HeldConn DEF Inv, TypeOK

LEMMA SubmitInv ==
  ASSUME Inv, NEW c \in Calls, Submit(c)
  PROVE  Inv'
<1>. PICK l \in Limits : limit' = [limit EXCEPT ![c] = clamp_limit(effective_limit(l))]
  BY DEF Submit
<1>0. clamp_limit(effective_limit(l)) \in 1..Larger(1, MaxRows)
  BY LimitResolution
<1>1. TypeOK'
  <2>1. limit' \in [Calls -> 1..Larger(1, MaxRows)]
    BY <1>0 DEF Inv, TypeOK
  <2>2. pc' \in [Calls -> {"idle", "acquire", "begin", "done"} \cup InTransaction]
    BY DEF Inv, TypeOK, Submit
  <2>. QED BY <2>1, <2>2 DEF Inv, TypeOK, Submit
<1>2. Ownership'
  BY ConnAssumption DEF Inv, Submit, TypeOK, Ownership, SlotAccounting, Holding, InTransaction
<1>3. CleanIdle'
  BY DEF Inv, Submit, TypeOK, CleanIdle, Ownership, SlotAccounting, Holding, InTransaction
<1>4. Progress'
  BY PreambleLength DEF Inv, Submit, TypeOK, Progress, Protected, Ownership, SlotAccounting, Holding, InTransaction, Connected
<1>5. Results'
  <2>1. limit'[c] \in 1..Larger(1, MaxRows) /\ \A d \in Calls \ {c} : limit'[d] = limit[d]
    BY <1>0 DEF Inv, TypeOK
  <2>2. rows'[c] = 0
    BY DEF Inv, Results, Submit
  <2>. QED BY <2>1, <2>2 DEF Inv, Submit, TypeOK, Results
<1>6. written' = {}
  BY DEF Inv, Submit
<1>7. \A j \in Conns : Undoable(sess'[j])
  BY DEF Inv, Submit
<1>. QED BY <1>1, <1>2, <1>3, <1>4, <1>5, <1>6, <1>7 DEF Inv

LEMMA AcquireInv ==
  ASSUME Inv, NEW c \in Calls, NEW k \in Conns, Acquire(c, k)
  PROVE  Inv'
<1>1. TypeOK'
  BY SessionTypes DEF Inv, Acquire, TypeOK, InTransaction
<1>2. Ownership'
  <2>1. \A d \in Calls : conn[d] # k
    BY ConnAssumption DEF Inv, Acquire, Ownership, SlotAccounting
  <2>2. conn'[c] = k /\ \A d \in Calls \ {c} : conn'[d] = conn[d] /\ pc'[d] = pc[d]
    BY DEF Inv, Acquire, TypeOK
  <2>3. \A d \in Calls : conn'[d] # NoConn <=> pc'[d] \in Holding
    BY <2>2, ConnAssumption DEF Inv, Acquire, TypeOK, Ownership, Holding, InTransaction
  <2>4. \A d, e \in Calls : conn'[d] = conn'[e] /\ conn'[d] # NoConn => d = e
    BY <2>1, <2>2 DEF Inv, Ownership, SlotAccounting
  <2>5. \A j \in Conns : slot'[j] = "held" <=> \E d \in Calls : conn'[d] = j
    <3>1. TAKE j \in Conns
    <3>2. CASE j = k
      BY <2>2, <3>2 DEF Inv, Acquire, TypeOK
    <3>3. CASE j # k
      <4>1. slot'[j] = slot[j]
        BY <3>3 DEF Inv, Acquire, TypeOK
      <4>2. conn[c] # j
        BY ConnAssumption DEF Inv, Acquire, Ownership, Holding, InTransaction
      <4>. QED BY <2>2, <3>3, <4>1, <4>2 DEF Inv, Ownership, SlotAccounting
    <3>. QED BY <3>2, <3>3
  <2>. QED BY <2>3, <2>4, <2>5 DEF Ownership, SlotAccounting
<1>3. CleanIdle'
  BY DEF Inv, Acquire, TypeOK, CleanIdle, Ownership, SlotAccounting, Holding, InTransaction
<1>4. Progress'
  BY PreambleLength DEF Inv, Acquire, TypeOK, Progress, Protected, Ownership, SlotAccounting, Holding, InTransaction, Connected
<1>5. Results'
  BY DEF Inv, Acquire, TypeOK, Results
<1>6. written' = {}
  BY DEF Inv, Acquire
<1>7. \A j \in Conns : Undoable(sess'[j])
  <2>1. Undoable(IF slot[k] = "idle" /\ link[k] = "up" THEN sess[k] ELSE Fresh)
    BY DEF Inv, Undoable, Fresh
  <2>. QED BY <2>1, OneSession DEF Acquire
<1>. QED BY <1>1, <1>2, <1>3, <1>4, <1>5, <1>6, <1>7 DEF Inv

LEMMA AcquireFailsInv ==
  ASSUME Inv, NEW c \in Calls, AcquireFails(c)
  PROVE  Inv'
<1>1. TypeOK'
  BY SessionTypes DEF Inv, AcquireFails, TypeOK, InTransaction
<1>2. Ownership'
  BY ConnAssumption DEF Inv, AcquireFails, TypeOK, Ownership, SlotAccounting, Holding, InTransaction
<1>3. CleanIdle'
  BY DEF Inv, AcquireFails, TypeOK, CleanIdle, Ownership, SlotAccounting, Holding, InTransaction
<1>4. Progress'
  BY PreambleLength DEF Inv, AcquireFails, TypeOK, Progress, Protected, Ownership, SlotAccounting, Holding, InTransaction, Connected
<1>5. Results'
  BY DEF Inv, AcquireFails, TypeOK, Results
<1>6. written' = {}
  BY DEF Inv, AcquireFails
<1>7. \A j \in Conns : Undoable(sess'[j])
  BY DEF Inv, AcquireFails
<1>. QED BY <1>1, <1>2, <1>3, <1>4, <1>5, <1>6, <1>7 DEF Inv

LEMMA BeginInv ==
  ASSUME Inv, NEW c \in Calls, Begin(c)
  PROVE  Inv'
<1>. DEFINE s == sess[conn[c]]
            t == [s EXCEPT !.txn = "open"]
<1>a. pc[c] \in Holding
  BY DEF Begin, Holding, InTransaction
<1>b. /\ conn[c] \in Conns /\ s \in Sessions /\ slot[conn[c]] = "held"
      /\ \A d \in Calls \ {c} : conn[d] # conn[c]
  BY <1>a, HeldConn
<1>c. t \in Sessions /\ sess' = [sess EXCEPT ![conn[c]] = t]
  BY <1>b, SessionTypes DEF Begin, Sessions, Inv, TypeOK
<1>d. /\ sess' \in [Conns -> Sessions]
      /\ sess'[conn[c]] = t
      /\ \A d \in Calls \ {c} : sess'[conn[d]] = sess[conn[d]]
      /\ \A k \in Conns : slot[k] = "idle" => sess'[k] = sess[k]
  <2>. HIDE DEF t
  <2>. QED BY <1>a, <1>c, SessionUpdate
<1>1. TypeOK'
  BY <1>d, PreambleLength DEF Inv, Begin, TypeOK, InTransaction
<1>2. Ownership'
  BY ConnAssumption DEF Inv, Begin, TypeOK, Ownership, SlotAccounting, Holding, InTransaction
<1>3. CleanIdle'
  BY <1>d DEF Inv, Begin, CleanIdle
<1>4. Progress'
  <2>1. Protected(c)'
    BY <1>b, <1>d DEF Inv, Begin, TypeOK, Protected, Sessions
  <2>2. ASSUME NEW d \in Calls \ {c}, link'[conn'[d]] = "up", pc'[d] \in Holding
        PROVE  Protected(d)'
    BY <1>d, <2>2 DEF Inv, Begin, TypeOK, Progress, Protected
  <2>. QED BY <2>1, <2>2 DEF Progress
<1>5. Results'
  BY DEF Inv, Begin, TypeOK, Results
<1>6. written' = {}
  BY DEF Inv, Begin
<1>7. \A j \in Conns : Undoable(sess'[j])
  <2>1. Undoable(t)
    BY <1>b, StaysUndoable DEF Inv
  <2>. HIDE DEF t
  <2>. QED BY <1>b, <1>c, <2>1, OneSession
<1>. QED BY <1>1, <1>2, <1>3, <1>4, <1>5, <1>6, <1>7 DEF Inv

LEMMA ConfigureInv ==
  ASSUME Inv, NEW c \in Calls, Configure(c)
  PROVE  Inv'
<1>. DEFINE s == sess[conn[c]]
            t == Configured(s, transaction_preamble[step[c]])
<1>a. pc[c] \in Holding
  BY DEF Configure, Holding, InTransaction
<1>b. /\ conn[c] \in Conns /\ s \in Sessions /\ slot[conn[c]] = "held"
      /\ \A d \in Calls \ {c} : conn[d] # conn[c]
  BY <1>a, HeldConn
<1>c. t \in Sessions /\ sess' = [sess EXCEPT ![conn[c]] = t]
  BY <1>b, SessionTypes DEF Configure, Sessions, Inv, TypeOK
<1>d. /\ sess' \in [Conns -> Sessions]
      /\ sess'[conn[c]] = t
      /\ \A d \in Calls \ {c} : sess'[conn[d]] = sess[conn[d]]
      /\ \A k \in Conns : slot[k] = "idle" => sess'[k] = sess[k]
  <2>. HIDE DEF t
  <2>. QED BY <1>a, <1>c, SessionUpdate
<1>e. s.txn = "open" /\ step[c] \in 1..2 /\ (step[c] = 2 => s.readOnly)
  BY <1>a DEF Inv, Configure, Connected, Progress, Protected
<1>1. TypeOK'
  <2>1. step' \in [Calls -> 1..(Len(transaction_preamble) + 1)]
    BY <1>e, PreambleLength DEF Inv, Configure, TypeOK
  <2>2. pc' \in [Calls -> {"idle", "acquire", "begin", "done"} \cup InTransaction]
    BY DEF Inv, Configure, TypeOK, InTransaction
  <2>. QED BY <1>d, <2>1, <2>2 DEF Inv, Configure, TypeOK
<1>2. Ownership'
  BY ConnAssumption DEF Inv, Configure, TypeOK, Ownership, SlotAccounting, Holding, InTransaction
<1>3. CleanIdle'
  BY <1>d DEF Inv, Configure, CleanIdle
<1>4. Progress'
  <2>1. ASSUME step[c] = 1 PROVE Protected(c)'
    <3>1. t = [s EXCEPT !.readOnly = TRUE]
      BY <2>1, PreambleStatements DEF Configured
    <3>2. pc'[c] = "configure" /\ step'[c] = 2 /\ conn'[c] = conn[c]
      BY <2>1, PreambleLength DEF Inv, Configure, TypeOK
    <3>. QED BY <1>b, <1>d, <1>e, <3>1, <3>2 DEF Protected, Sessions
  <2>2. ASSUME step[c] = 2 PROVE Protected(c)'
    <3>1. t = [s EXCEPT !.timeout = statement_timeout_ms]
      BY <2>2, PreambleStatements DEF Configured
    <3>2. /\ pc'[c] = "query" /\ conn'[c] = conn[c]
          /\ statement_timeout_ms' = statement_timeout_ms
      BY <2>2, PreambleLength DEF Inv, Configure, TypeOK
    <3>. QED BY <1>b, <1>d, <1>e, <2>2, <3>1, <3>2 DEF Protected, Sessions
  <2>3. ASSUME NEW d \in Calls \ {c}, link'[conn'[d]] = "up", pc'[d] \in Holding
        PROVE  Protected(d)'
    BY <1>d, <2>3 DEF Inv, Configure, TypeOK, Progress, Protected
  <2>4. Protected(c)'
    BY <1>e, <2>1, <2>2
  <2>. QED BY <2>3, <2>4 DEF Progress
<1>5. Results'
  BY DEF Inv, Configure, TypeOK, Results
<1>6. written' = {}
  BY DEF Inv, Configure
<1>7. \A j \in Conns : Undoable(sess'[j])
  <2>1. s.txn = "open"
    BY <1>a DEF Inv, Configure, Connected, Progress, Protected
  <2>2. Undoable(t)
    BY <1>b, <2>1, StaysUndoable DEF Inv
  <2>. HIDE DEF t
  <2>. QED BY <1>b, <1>c, <2>2, OneSession
<1>. QED BY <1>1, <1>2, <1>3, <1>4, <1>5, <1>6, <1>7 DEF Inv

LEMMA ConfigureRefusedInv ==
  ASSUME Inv, NEW c \in Calls, ConfigureRefused(c)
  PROVE  Inv'
<1>1. TypeOK'
  BY SessionTypes DEF Inv, ConfigureRefused, Abandon, TypeOK, InTransaction
<1>2. Ownership'
  BY ConnAssumption DEF Inv, ConfigureRefused, Abandon, TypeOK, Ownership, SlotAccounting, Holding, InTransaction
<1>3. CleanIdle'
  BY DEF Inv, ConfigureRefused, Abandon, TypeOK, CleanIdle, Ownership, SlotAccounting, Holding, InTransaction
<1>4. Progress'
  BY PreambleLength DEF Inv, ConfigureRefused, Abandon, TypeOK, Progress, Protected, Ownership, SlotAccounting, Holding, InTransaction, Connected
<1>5. Results'
  BY DEF Inv, ConfigureRefused, Abandon, TypeOK, Results
<1>6. written' = {}
  BY DEF Inv, ConfigureRefused, Abandon
<1>7. \A j \in Conns : Undoable(sess'[j])
  <2>1. conn[c] \in Conns /\ sess[conn[c]] \in Sessions
    BY HeldConn DEF ConfigureRefused, Holding, InTransaction
  <2>2. Undoable(Failed(sess[conn[c]]))
    BY <2>1, StaysUndoable DEF Inv
  <2>. QED BY <2>1, <2>2, OneSession DEF ConfigureRefused
<1>. QED BY <1>1, <1>2, <1>3, <1>4, <1>5, <1>6, <1>7 DEF Inv

LEMMA StartQueryInv ==
  ASSUME Inv, NEW c \in Calls, StartQuery(c)
  PROVE  Inv'
<1>. DEFINE s == sess[conn[c]]
            t == Started(s, sql[c])
<1>a. pc[c] \in Holding
  BY DEF StartQuery, Holding, InTransaction
<1>b. /\ conn[c] \in Conns /\ s \in Sessions /\ slot[conn[c]] = "held"
      /\ \A d \in Calls \ {c} : conn[d] # conn[c]
  BY <1>a, HeldConn
<1>c. t \in Sessions /\ sess' = [sess EXCEPT ![conn[c]] = t]
  BY <1>b, SessionTypes DEF StartQuery, Sessions, Inv, TypeOK
<1>d. /\ sess' \in [Conns -> Sessions]
      /\ sess'[conn[c]] = t
      /\ \A d \in Calls \ {c} : sess'[conn[d]] = sess[conn[d]]
      /\ \A k \in Conns : slot[k] = "idle" => sess'[k] = sess[k]
  <2>. HIDE DEF t
  <2>. QED BY <1>a, <1>c, SessionUpdate
<1>1. TypeOK'
  BY SessionTypes DEF Inv, StartQuery, TypeOK, InTransaction
<1>2. Ownership'
  BY ConnAssumption DEF Inv, StartQuery, TypeOK, Ownership, SlotAccounting, Holding, InTransaction
<1>3. CleanIdle'
  BY <1>d DEF Inv, StartQuery, CleanIdle
<1>4. Progress'
  <2>1. s.txn = "open" /\ s.readOnly /\ s.timeout = statement_timeout_ms
    BY <1>a DEF Inv, StartQuery, Connected, Progress, Protected
  <2>2. t.txn = "open" /\ t.readOnly /\ t.timer = statement_timeout_ms
    BY <1>b, <2>1 DEF Started, Sessions
  <2>3. /\ pc'[c] = "running" /\ conn'[c] = conn[c]
        /\ statement_timeout_ms' = statement_timeout_ms
    BY DEF Inv, StartQuery, TypeOK
  <2>4. Protected(c)'
    BY <1>d, <2>2, <2>3 DEF Protected
  <2>5. ASSUME NEW d \in Calls \ {c}, link'[conn'[d]] = "up", pc'[d] \in Holding
        PROVE  Protected(d)'
    BY <1>d, <2>5 DEF Inv, StartQuery, TypeOK, Progress, Protected
  <2>. QED BY <2>4, <2>5 DEF Progress
<1>5. Results'
  BY DEF Inv, StartQuery, TypeOK, Results
<1>6. written' = {}
  BY DEF Inv, StartQuery
<1>7. \A j \in Conns : Undoable(sess'[j])
  <2>1. s.txn = "open"
    BY <1>a DEF Inv, StartQuery, Connected, Progress, Protected
  <2>2. Undoable(t)
    BY <1>b, <2>1, StaysUndoable DEF Inv
  <2>. HIDE DEF t
  <2>. QED BY <1>b, <1>c, <2>2, OneSession
<1>. QED BY <1>1, <1>2, <1>3, <1>4, <1>5, <1>6, <1>7 DEF Inv

LEMMA FinishQueryInv ==
  ASSUME Inv, NEW c \in Calls, FinishQuery(c)
  PROVE  Inv'
<1>. DEFINE s == sess[conn[c]]
            t == Completed(s, sql[c])
<1>a. pc[c] \in Holding
  BY DEF FinishQuery, Holding, InTransaction
<1>b. /\ conn[c] \in Conns /\ s \in Sessions /\ slot[conn[c]] = "held"
      /\ \A d \in Calls \ {c} : conn[d] # conn[c]
  BY <1>a, HeldConn
<1>c. t \in Sessions /\ sess' = [sess EXCEPT ![conn[c]] = t]
  BY <1>b, SessionTypes DEF FinishQuery, Sessions, Inv, TypeOK
<1>d. /\ sess' \in [Conns -> Sessions]
      /\ sess'[conn[c]] = t
      /\ \A d \in Calls \ {c} : sess'[conn[d]] = sess[conn[d]]
      /\ \A k \in Conns : slot[k] = "idle" => sess'[k] = sess[k]
  <2>. HIDE DEF t
  <2>. QED BY <1>a, <1>c, SessionUpdate
<1>e. PICK n \in 0..TableRows : rows' = [rows EXCEPT ![c] = wrap_query(sql[c], limit[c], n)]
  BY DEF FinishQuery
<1>f. /\ wrap_query(sql[c], limit[c], n) \in 0..TableRows
      /\ sql[c] # "unenclosed" => wrap_query(sql[c], limit[c], n) <= limit[c]
  BY LimitAssumption DEF wrap_query, Smaller, Larger, Inv, TypeOK
<1>g. sql[c] \in {"select", "setting", "unenclosed"}
  <2>1. s.readOnly
    BY <1>a DEF Inv, FinishQuery, Connected, Progress, Protected
  <2>2. sql[c] \notin {"slow", "lift", "invalid", "write", "sequence"}
    BY <2>1 DEF FinishQuery, Endless, Refused, Writes
  <2>. QED BY <2>2, SqlAssumption DEF Inv, TypeOK, StatementKinds
<1>1. TypeOK'
  <2>1. rows' \in [Calls -> 0..TableRows]
    BY <1>e, <1>f DEF Inv, TypeOK
  <2>2. pc' \in [Calls -> {"idle", "acquire", "begin", "done"} \cup InTransaction]
    BY DEF Inv, FinishQuery, TypeOK, InTransaction
  <2>3. written' = written
    BY <1>g DEF FinishQuery
  <2>. QED BY <1>d, <2>1, <2>2, <2>3 DEF Inv, FinishQuery, TypeOK
<1>2. Ownership'
  BY ConnAssumption DEF Inv, FinishQuery, TypeOK, Ownership, SlotAccounting, Holding, InTransaction
<1>3. CleanIdle'
  BY <1>d DEF Inv, FinishQuery, CleanIdle
<1>4. Progress'
  BY PreambleLength DEF Inv, FinishQuery, TypeOK, Progress, Protected, Ownership, SlotAccounting, Holding, InTransaction, Connected
<1>5. Results'
  <2>1. (sql[c] # "unenclosed" => rows'[c] <= limit'[c]) /\ \A d \in Calls \ {c} : rows'[d] = rows[d]
    BY <1>e, <1>f DEF Inv, TypeOK, FinishQuery
  <2>2. pc'[c] = "rollback" /\ \A d \in Calls \ {c} : pc'[d] = pc[d]
    BY DEF Inv, TypeOK, FinishQuery
  <2>. QED BY <1>g, <2>1, <2>2 DEF Inv, FinishQuery, Results
<1>6. written' = {}
  BY <1>g DEF Inv, FinishQuery
<1>7. \A j \in Conns : Undoable(sess'[j])
  <2>1. s.txn = "open"
    BY <1>a DEF Inv, FinishQuery, Connected, Progress, Protected
  <2>2. Undoable(t)
    BY <1>b, <2>1, StaysUndoable DEF Inv
  <2>. HIDE DEF t
  <2>. QED BY <1>b, <1>c, <2>2, OneSession
<1>. QED BY <1>1, <1>2, <1>3, <1>4, <1>5, <1>6, <1>7 DEF Inv

LEMMA QueryRefusedInv ==
  ASSUME Inv, NEW c \in Calls, QueryRefused(c)
  PROVE  Inv'
<1>1. TypeOK'
  BY SessionTypes DEF Inv, QueryRefused, Abandon, TypeOK, InTransaction
<1>2. Ownership'
  BY ConnAssumption DEF Inv, QueryRefused, Abandon, TypeOK, Ownership, SlotAccounting, Holding, InTransaction
<1>3. CleanIdle'
  BY DEF Inv, QueryRefused, Abandon, TypeOK, CleanIdle, Ownership, SlotAccounting, Holding, InTransaction
<1>4. Progress'
  BY PreambleLength DEF Inv, QueryRefused, Abandon, TypeOK, Progress, Protected, Ownership, SlotAccounting, Holding, InTransaction, Connected
<1>5. Results'
  BY DEF Inv, QueryRefused, Abandon, TypeOK, Results
<1>6. written' = {}
  BY DEF Inv, QueryRefused, Abandon
<1>7. \A j \in Conns : Undoable(sess'[j])
  <2>1. conn[c] \in Conns /\ sess[conn[c]] \in Sessions
    BY HeldConn DEF QueryRefused, Holding, InTransaction
  <2>2. Undoable(Failed(sess[conn[c]]))
    BY <2>1, StaysUndoable DEF Inv
  <2>. QED BY <2>1, <2>2, OneSession DEF QueryRefused
<1>. QED BY <1>1, <1>2, <1>3, <1>4, <1>5, <1>6, <1>7 DEF Inv

LEMMA QueryTimedOutInv ==
  ASSUME Inv, NEW c \in Calls, QueryTimedOut(c)
  PROVE  Inv'
<1>1. TypeOK'
  BY SessionTypes DEF Inv, QueryTimedOut, Abandon, TypeOK, InTransaction
<1>2. Ownership'
  BY ConnAssumption DEF Inv, QueryTimedOut, Abandon, TypeOK, Ownership, SlotAccounting, Holding, InTransaction
<1>3. CleanIdle'
  BY DEF Inv, QueryTimedOut, Abandon, TypeOK, CleanIdle, Ownership, SlotAccounting, Holding, InTransaction
<1>4. Progress'
  BY PreambleLength DEF Inv, QueryTimedOut, Abandon, TypeOK, Progress, Protected, Ownership, SlotAccounting, Holding, InTransaction, Connected
<1>5. Results'
  BY DEF Inv, QueryTimedOut, Abandon, TypeOK, Results
<1>6. written' = {}
  BY DEF Inv, QueryTimedOut, Abandon
<1>7. \A j \in Conns : Undoable(sess'[j])
  <2>1. conn[c] \in Conns /\ sess[conn[c]] \in Sessions
    BY HeldConn DEF QueryTimedOut, Holding, InTransaction
  <2>2. Undoable(Failed(sess[conn[c]]))
    BY <2>1, StaysUndoable DEF Inv
  <2>. QED BY <2>1, <2>2, OneSession DEF QueryTimedOut
<1>. QED BY <1>1, <1>2, <1>3, <1>4, <1>5, <1>6, <1>7 DEF Inv

LEMMA ConnectionLostInv ==
  ASSUME Inv, NEW c \in Calls, ConnectionLost(c)
  PROVE  Inv'
<1>1. TypeOK'
  BY SessionTypes DEF Inv, ConnectionLost, Abandon, TypeOK, InTransaction
<1>2. Ownership'
  BY ConnAssumption DEF Inv, ConnectionLost, Abandon, TypeOK, Ownership, SlotAccounting, Holding, InTransaction
<1>3. CleanIdle'
  BY DEF Inv, ConnectionLost, Abandon, TypeOK, CleanIdle, Ownership, SlotAccounting, Holding, InTransaction
<1>4. Progress'
  BY PreambleLength DEF Inv, ConnectionLost, Abandon, TypeOK, Progress, Protected, Ownership, SlotAccounting, Holding, InTransaction, Connected
<1>5. Results'
  BY DEF Inv, ConnectionLost, Abandon, TypeOK, Results
<1>6. written' = {}
  BY DEF Inv, ConnectionLost, Abandon
<1>7. \A j \in Conns : Undoable(sess'[j])
  BY DEF Inv, ConnectionLost
<1>. QED BY <1>1, <1>2, <1>3, <1>4, <1>5, <1>6, <1>7 DEF Inv

LEMMA RollbackInv ==
  ASSUME Inv, NEW c \in Calls, Rollback(c)
  PROVE  Inv'
<1>1. TypeOK'
  BY SessionTypes DEF Inv, Rollback, TypeOK, InTransaction
<1>2. Ownership'
  BY ConnAssumption DEF Inv, Rollback, TypeOK, Ownership, SlotAccounting, Holding, InTransaction
<1>3. CleanIdle'
  BY DEF Inv, Rollback, TypeOK, CleanIdle, Ownership, SlotAccounting, Holding, InTransaction
<1>4. Progress'
  BY PreambleLength DEF Inv, Rollback, TypeOK, Progress, Protected, Ownership, SlotAccounting, Holding, InTransaction, Connected
<1>5. Results'
  BY DEF Inv, Rollback, TypeOK, Results
<1>6. written' = {}
  BY DEF Inv, Rollback
<1>7. \A j \in Conns : Undoable(sess'[j])
  <2>1. conn[c] \in Conns /\ sess[conn[c]] \in Sessions
    BY HeldConn DEF Rollback, Holding, InTransaction
  <2>2. Undoable(RolledBack(sess[conn[c]]))
    BY <2>1, RollbackUndoes DEF Inv
  <2>. QED BY <2>1, <2>2, OneSession DEF Rollback
<1>. QED BY <1>1, <1>2, <1>3, <1>4, <1>5, <1>6, <1>7 DEF Inv

LEMMA ReturnConnInv ==
  ASSUME Inv, NEW k \in Conns, ReturnConn(k)
  PROVE  Inv'
<1>1. TypeOK'
  BY SessionTypes DEF Inv, ReturnConn, TypeOK, InTransaction
<1>2. Ownership'
  BY ConnAssumption DEF Inv, ReturnConn, TypeOK, Ownership, SlotAccounting, Holding, InTransaction
<1>3. CleanIdle'
  <2>1. sess'[k] = Fresh
    BY RollbackUndoes DEF Inv, TypeOK, ReturnConn
  <2>2. \A j \in Conns \ {k} : slot'[j] = slot[j] /\ sess'[j] = sess[j]
    BY DEF Inv, TypeOK, ReturnConn
  <2>. QED BY <2>1, <2>2 DEF Inv, CleanIdle
<1>4. Progress'
  BY PreambleLength DEF Inv, ReturnConn, TypeOK, Progress, Protected, Ownership, SlotAccounting, Holding, InTransaction, Connected
<1>5. Results'
  BY DEF Inv, ReturnConn, TypeOK, Results
<1>6. written' = {}
  BY DEF Inv, ReturnConn
<1>7. \A j \in Conns : Undoable(sess'[j])
  <2>1. Undoable(RolledBack(sess[k]))
    BY RollbackUndoes DEF Inv, TypeOK
  <2>. QED BY <2>1, OneSession DEF ReturnConn
<1>. QED BY <1>1, <1>2, <1>3, <1>4, <1>5, <1>6, <1>7 DEF Inv

LEMMA TerminateInv ==
  ASSUME Inv, NEW k \in Conns, Terminate(k)
  PROVE  Inv'
<1>1. TypeOK'
  BY SessionTypes DEF Inv, Terminate, TypeOK, InTransaction
<1>2. Ownership'
  BY ConnAssumption DEF Inv, Terminate, TypeOK, Ownership, SlotAccounting, Holding, InTransaction
<1>3. CleanIdle'
  BY DEF Inv, Terminate, TypeOK, CleanIdle, Ownership, SlotAccounting, Holding, InTransaction
<1>4. Progress'
  BY PreambleLength DEF Inv, Terminate, TypeOK, Progress, Protected, Ownership, SlotAccounting, Holding, InTransaction, Connected
<1>5. Results'
  BY DEF Inv, Terminate, TypeOK, Results
<1>6. written' = {}
  BY DEF Inv, Terminate
<1>7. \A j \in Conns : Undoable(sess'[j])
  <2>1. Undoable(Fresh)
    BY DEF Undoable, Fresh
  <2>. QED BY <2>1, OneSession DEF Terminate
<1>. QED BY <1>1, <1>2, <1>3, <1>4, <1>5, <1>6, <1>7 DEF Inv

LEMMA CrashInv ==
  ASSUME Inv, Crash
  PROVE  Inv'
<1>1. TypeOK'
  BY SessionTypes DEF Inv, Crash, TypeOK, InTransaction
<1>2. Ownership'
  BY ConnAssumption DEF Inv, Crash, TypeOK, Ownership, SlotAccounting, Holding, InTransaction
<1>3. CleanIdle'
  BY DEF Inv, Crash, TypeOK, CleanIdle, Ownership, SlotAccounting, Holding, InTransaction
<1>4. Progress'
  BY PreambleLength DEF Inv, Crash, TypeOK, Progress, Protected, Ownership, SlotAccounting, Holding, InTransaction, Connected
<1>5. Results'
  BY DEF Inv, Crash, TypeOK, Results
<1>6. written' = {}
  BY DEF Inv, Crash
<1>7. \A j \in Conns : Undoable(sess'[j])
  <2>1. Undoable(Fresh)
    BY DEF Undoable, Fresh
  <2>. QED BY <2>1 DEF Crash
<1>. QED BY <1>1, <1>2, <1>3, <1>4, <1>5, <1>6, <1>7 DEF Inv

LEMMA PartitionInv ==
  ASSUME Inv, Partition
  PROVE  Inv'
<1>1. TypeOK'
  BY SessionTypes DEF Inv, Partition, TypeOK, InTransaction
<1>2. Ownership'
  BY ConnAssumption DEF Inv, Partition, TypeOK, Ownership, SlotAccounting, Holding, InTransaction
<1>3. CleanIdle'
  BY DEF Inv, Partition, TypeOK, CleanIdle, Ownership, SlotAccounting, Holding, InTransaction
<1>4. Progress'
  BY PreambleLength DEF Inv, Partition, TypeOK, Progress, Protected, Ownership, SlotAccounting, Holding, InTransaction, Connected
<1>5. Results'
  BY DEF Inv, Partition, TypeOK, Results
<1>6. written' = {}
  BY DEF Inv, Partition
<1>7. \A j \in Conns : Undoable(sess'[j])
  BY DEF Inv, Partition
<1>. QED BY <1>1, <1>2, <1>3, <1>4, <1>5, <1>6, <1>7 DEF Inv

LEMMA RestoreInv ==
  ASSUME Inv, Restore
  PROVE  Inv'
<1>1. TypeOK'
  BY SessionTypes DEF Inv, Restore, TypeOK, InTransaction
<1>2. Ownership'
  BY ConnAssumption DEF Inv, Restore, TypeOK, Ownership, SlotAccounting, Holding, InTransaction
<1>3. CleanIdle'
  BY DEF Inv, Restore, TypeOK, CleanIdle, Ownership, SlotAccounting, Holding, InTransaction
<1>4. Progress'
  BY PreambleLength DEF Inv, Restore, TypeOK, Progress, Protected, Ownership, SlotAccounting, Holding, InTransaction, Connected
<1>5. Results'
  BY DEF Inv, Restore, TypeOK, Results
<1>6. written' = {}
  BY DEF Inv, Restore
<1>7. \A j \in Conns : Undoable(sess'[j])
  BY DEF Inv, Restore
<1>. QED BY <1>1, <1>2, <1>3, <1>4, <1>5, <1>6, <1>7 DEF Inv

-----------------------------------------------------------------------------
LEMMA NextInv == Inv /\ [Next]_vars => Inv'
<1>. SUFFICES ASSUME Inv, [Next]_vars PROVE Inv'
  OBVIOUS
<1>1. ASSUME NEW c \in Calls, Submit(c) \/ CallStep(c) PROVE Inv'
  BY <1>1, SubmitInv, AcquireInv, AcquireFailsInv, BeginInv, ConfigureInv,
     ConfigureRefusedInv, StartQueryInv, FinishQueryInv, QueryRefusedInv,
     QueryTimedOutInv, ConnectionLostInv, RollbackInv
     DEF CallStep
<1>2. ASSUME NEW k \in Conns, ReturnConn(k) \/ Terminate(k) PROVE Inv'
  BY <1>2, ReturnConnInv, TerminateInv
<1>3. CASE Crash \/ Partition \/ Restore
  BY <1>3, CrashInv, PartitionInv, RestoreInv
<1>4. CASE UNCHANGED vars
  BY <1>4 DEF vars, Inv, TypeOK, Ownership, SlotAccounting, CleanIdle, Progress,
              Protected, Results
<1>. QED BY <1>1, <1>2, <1>3, <1>4 DEF Next

\* The inductive invariant holds in every reachable state.
THEOREM Invariance == Spec => []Inv
<1>. QED BY InitInv, NextInv, PTL DEF Spec

\* Every variable of the client keeps its type.
THEOREM TypeCorrect == Spec => []TypeOK
<1>1. Inv => TypeOK
  BY DEF Inv
<1>. QED BY <1>1, Invariance, PTL

\* The pool never lends a connection twice and never loses one.
THEOREM PoolAccounting == Spec => []SlotAccounting
<1>1. Inv => SlotAccounting
  BY DEF Inv, Ownership
<1>. QED BY <1>1, Invariance, PTL

\* A connection that can be lent again carries nothing of an earlier call: each
\* way out of fetch_json rolls back, and none commits what the SQL has set.
THEOREM IdleIsClean == Spec => []CleanIdle
<1>1. Inv => CleanIdle
  BY DEF Inv
<1>. QED BY <1>1, Invariance, PTL

\* The caller's SQL runs read-only and timed, whatever it does itself.
THEOREM ExecutionIsGuarded == Spec => []GuardedExecution
<1>1. Inv => GuardedExecution
  BY DEF Inv, Progress, Protected, GuardedExecution, Holding, InTransaction
<1>. QED BY <1>1, Invariance, PTL

\* Limits resolve into [1, PG_MAX_ROWS], and no answer to a statement that stays
\* inside the wrapper exceeds them.
THEOREM RowsCapped == Spec => []RowsWithinCap
<1>1. Inv => RowsWithinCap
  <2>. SUFFICES ASSUME Inv PROVE RowsWithinCap
    OBVIOUS
  <2>1. ASSUME NEW c \in Calls 
        PROVE  (sql[c] # "unenclosed" => rows[c] <= limit[c]) /\ limit[c] <= Larger(1, MaxRows)
    BY LimitAssumption DEF Inv, TypeOK, Results, Larger
  <2>. QED BY <2>1, LimitResolution DEF RowsWithinCap
<1>. QED BY <1>1, Invariance, PTL

-----------------------------------------------------------------------------
(* Refinement: a step of the client is a step of the promise, or none.     *)

LEMMA InitRefines == Init => Promise!Init
  BY DEF Init, Promise!Init

\* Steps that end a call with an error.
LEMMA FailureRefines ==
  ASSUME Inv, NEW c \in Calls, pc[c] \notin {"idle", "done"},
         pc' = [pc EXCEPT ![c] = "done"],
         outcome' = [outcome EXCEPT ![c] = "error"],
         UNCHANGED <<sql, written>>
  PROVE  Promise!Refuse(c)
  BY DEF Inv, TypeOK, Results, Promise!Refuse

\* Steps of a call that is still pending afterwards.
LEMMA PendingRefines ==
  ASSUME Inv, NEW c \in Calls, pc[c] \notin {"idle", "done"},
         NEW p \in {"begin"} \cup InTransaction,
         pc' = [pc EXCEPT ![c] = p],
         UNCHANGED <<sql, outcome, written>>
  PROVE  UNCHANGED Promise!vars
  BY DEF Inv, TypeOK, Results, Promise!vars, InTransaction

LEMMA SubmitRefines ==
  ASSUME Inv, NEW c \in Calls, Submit(c)
  PROVE  Promise!Submit(c)
  BY DEF Inv, TypeOK, Submit, Promise!Submit

LEMMA RollbackRefines ==
  ASSUME Inv, NEW c \in Calls, Rollback(c)
  PROVE  Promise!Answer(c)
<1>. DEFINE status == [d \in Calls |-> IF pc[d] = "idle" THEN "idle"
                         ELSE IF pc[d] # "done" THEN "pending"
                         ELSE IF outcome[d] = "ok" THEN "answered" ELSE "refused"]
<1>1. /\ pc[c] = "rollback" /\ pc' = [pc EXCEPT ![c] = "done"]
      /\ outcome' = [outcome EXCEPT ![c] = "ok"] /\ outcome[c] = "none"
      /\ UNCHANGED <<sql, written>>
  BY DEF Inv, TypeOK, Results, Rollback
<1>2. status[c] = "pending" /\ status' = [status EXCEPT ![c] = "answered"]
  BY <1>1 DEF Inv, TypeOK
<1>3. sql[c] \in Sql \cap {"select", "setting", "unenclosed"}
  BY <1>1 DEF Inv, TypeOK, Results
<1>. QED BY <1>1, <1>2, <1>3 DEF Promise!Answer

LEMMA StepRefines == Inv /\ [Next]_vars => [Promise!Next]_Promise!vars
<1>. SUFFICES ASSUME Inv, [Next]_vars PROVE Promise!Next \/ UNCHANGED Promise!vars
  OBVIOUS
<1>1. ASSUME NEW c \in Calls, Submit(c) PROVE Promise!Next
  BY <1>1, SubmitRefines DEF Promise!Next
<1>2. ASSUME NEW c \in Calls, Rollback(c) PROVE Promise!Next
  BY <1>2, RollbackRefines DEF Promise!Next
<1>3. ASSUME NEW c \in Calls,
             \/ AcquireFails(c) \/ ConfigureRefused(c) \/ QueryRefused(c)
             \/ QueryTimedOut(c) \/ ConnectionLost(c)
      PROVE  Promise!Next
  <2>1. /\ pc[c] \notin {"idle", "done"}
        /\ pc' = [pc EXCEPT ![c] = "done"]
        /\ outcome' = [outcome EXCEPT ![c] = "error"]
        /\ UNCHANGED <<sql, written>>
    BY <1>3 DEF AcquireFails, ConfigureRefused, QueryRefused, QueryTimedOut,
                ConnectionLost, Abandon
  <2>. QED BY <2>1, FailureRefines DEF Promise!Next
<1>4. ASSUME NEW c \in Calls,
             \/ \E k \in Conns : Acquire(c, k)
             \/ Begin(c) \/ Configure(c) \/ StartQuery(c) \/ FinishQuery(c)
      PROVE  UNCHANGED Promise!vars
  <2>1. pc[c] \notin {"idle", "done"} /\ outcome[c] # "ok"
    BY <1>4 DEF Inv, TypeOK, Results, Acquire, Begin, Configure, StartQuery, FinishQuery
  <2>2. PICK p \in {"begin"} \cup InTransaction : pc' = [pc EXCEPT ![c] = p]
    BY <1>4 DEF Acquire, Begin, Configure, StartQuery, FinishQuery, InTransaction
  <2>3. UNCHANGED <<sql, outcome>>
    BY <1>4 DEF Acquire, Begin, Configure, StartQuery, FinishQuery
  <2>4. UNCHANGED written
    <3>1. CASE FinishQuery(c)
      BY <3>1, FinishQueryInv DEF Inv
    <3>2. CASE ~FinishQuery(c)
      BY <1>4, <3>2 DEF Acquire, Begin, Configure, StartQuery
    <3>. QED BY <3>1, <3>2
  <2>. QED BY <2>1, <2>2, <2>3, <2>4, PendingRefines
<1>5. ASSUME (\E k \in Conns : ReturnConn(k) \/ Terminate(k)) \/ Crash \/ Partition
             \/ Restore \/ UNCHANGED vars
      PROVE  UNCHANGED Promise!vars
  <2>1. UNCHANGED <<pc, sql, outcome, written>>
    BY <1>5 DEF ReturnConn, Terminate, Crash, Partition, Restore, vars
  <2>. QED BY <2>1 DEF Promise!vars
<1>. QED BY <1>1, <1>2, <1>3, <1>4, <1>5 DEF Next, CallStep

\* The client implements what run_query promises: a statement that writes, is
\* invalid or never ends is never answered, and the database is untouched by
\* every interleaving of calls and faults.
THEOREM Refinement == Spec => ImplementsPromise
<1>1. Inv /\ [Next]_vars => [Promise!Next]_Promise!vars
  BY StepRefines
<1>. QED BY <1>1, InitRefines, Invariance, PTL DEF Spec, ImplementsPromise, Promise!Spec
=============================================================================
