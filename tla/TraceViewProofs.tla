-------------------------- MODULE TraceViewProofs --------------------------
(***************************************************************************)
(* Proofs about SpanTree, for traces of any size with any IDs, parent links *)
(* and start times, and about TraceView, for any documents and max_spans:   *)
(* the walk is SpanTree's, links survive their encodings, and the figures   *)
(* are those of the whole trace.                                            *)
(***************************************************************************)
EXTENDS TraceView, FiniteSetTheorems, SequenceTheorems, TLAPS

-----------------------------------------------------------------------------
(* SpanTree: the invariant of the walk.                                    *)

\* Entry e hangs below an entry before position b of the order, and everything
\* emitted since is at least as deep as e.
Hangs(e, b) ==
  \E a \in 1..(b - 1) :
    /\ order[a].span = ById(parent[e.span])
    /\ order[a].depth = e.depth - 1
    /\ \A m \in (a + 1)..(b - 1) : order[m].depth >= e.depth

\* What has been visited is what has been emitted.
VisitedIsEmitted == visited = {order[a].span : a \in DOMAIN order}

\* A span not emitted yet is still to be walked from, or on the stack.
Pending ==
  \A i \in Span :
    \/ i \in visited
    \/ \E a \in DOMAIN starts : starts[a] = i
    \/ \E q \in DOMAIN stack : stack[q].span = i

\* The stack gets shallower towards its bottom.
Descending ==
  \A q, r \in DOMAIN stack : q < r => stack[q].depth >= stack[r].depth

\* Every stack entry would hang correctly if it were emitted now.
StackHangs == \A q \in DOMAIN stack : stack[q].depth > 0 => Hangs(stack[q], Len(order) + 1)

\* Every emitted entry hangs correctly where it is.
OrderHangs == \A b \in DOMAIN order : order[b].depth > 0 => Hangs(order[b], b)

Inv ==
  /\ TypeOK
  /\ VisitedIsEmitted
  /\ EmittedOnce
  /\ Pending
  /\ Descending
  /\ StackHangs
  /\ OrderHangs

-----------------------------------------------------------------------------
\* A listing of a set of spans is a sequence over it.
LEMMA SortedType ==
  ASSUME NEW S \in SUBSET Span, NEW s \in Sorted(S)
  PROVE  s \in Seq(S) /\ s \in Seq(Span)
<1>1. IsFiniteSet(Span)
  BY SizeAssumption, FS_Interval DEF Span
<1>2. Cardinality(S) \in Nat
  BY <1>1, FS_Subset, FS_CardinalityType
<1>3. s \in [1..Cardinality(S) -> S]
  BY DEF Sorted
<1>. QED BY <1>2, <1>3

\* The sort key never puts a span before itself.
LEMMA BeforeIrreflexive ==
  ASSUME TypeOK, NEW i \in Span
  PROVE  ~Before(i, i)
<1>1. start[i] \in Int /\ id[i] \in Int
  BY TimeAssumption, IdAssumption DEF TypeOK
<1>2. i \in Int
  BY SizeAssumption DEF Span
<1>. QED BY <1>1, <1>2 DEF Before

\* A listing of a set leaves none of its members out.
LEMMA SortedOnto ==
  ASSUME TypeOK, NEW S \in SUBSET Span, NEW s \in Sorted(S), NEW c \in S
  PROVE  \E q \in DOMAIN s : s[q] = c
<1>. DEFINE n == Cardinality(S)
<1>1. IsFiniteSet(S) /\ n \in Nat
  <2>1. IsFiniteSet(Span)
    BY SizeAssumption, FS_Interval DEF Span
  <2>. QED BY <2>1, FS_Subset, FS_CardinalityType
<1>2. s \in [1..n -> S] /\ \A a, b \in 1..n : a < b => Before(s[a], s[b])
  <2>1. s \in [1..n -> S] /\ \A a, b \in DOMAIN s : a < b => Before(s[a], s[b])
    BY DEF Sorted
  <2>. QED BY <2>1, Zenon
<1>3. \A a, b \in 1..n : s[a] = s[b] => a = b
  <2>. SUFFICES ASSUME NEW a \in 1..n, NEW b \in 1..n, s[a] = s[b], a < b
                PROVE  FALSE
    BY <1>1
  <2>. QED BY <1>2, BeforeIrreflexive
<1>4. s \in Injection(1..n, S)
  BY <1>2, <1>3 DEF Injection, IsInjective
<1>5. Cardinality(1..n) = n
  BY <1>1, FS_Interval
<1>6. s \in Surjection(1..n, S)
  <2>. HIDE DEF n
  <2>. QED BY <1>1, <1>4, <1>5, FS_Injection, Zenon DEF n
<1>. QED BY <1>2, <1>6 DEF Surjection

\* The chain of start spans is a sequence that names every span.
LEMMA ChainType ==
  ASSUME NEW s \in Seq(Span)
  PROVE  /\ Chain(s) \in Seq(Span)
         /\ \A i \in Span : \E a \in DOMAIN Chain(s) : Chain(s)[a] = i
<1>. DEFINE all == [i \in Span |-> i]
<1>1. all \in Seq(Span) /\ Len(all) = N
  BY SizeAssumption DEF Span
<1>2. Chain(s) \in Seq(Span)
  BY <1>1 DEF Chain
<1>3. ASSUME NEW i \in Span
      PROVE  Len(s) + i \in DOMAIN Chain(s) /\ Chain(s)[Len(s) + i] = i
  BY <1>1, SizeAssumption DEF Chain, Span
<1>. QED BY <1>2, <1>3

LEMMA InitInv == Init => Inv
<1>. SUFFICES ASSUME Init PROVE Inv
  OBVIOUS
<1>1. PICK s \in Sorted(Roots) : starts = Chain(s)
  BY DEF Init
<1>2. s \in Seq(Span)
  BY SortedType DEF Roots
<1>3. starts \in Seq(Span) /\ \A i \in Span : \E a \in DOMAIN starts : starts[a] = i
  BY <1>1, <1>2, ChainType
<1>4. TypeOK
  BY <1>3 DEF Init, TypeOK
<1>5. Pending
  BY <1>3 DEF Pending
<1>. QED BY <1>4, <1>5 DEF Init, Inv, VisitedIsEmitted, EmittedOnce, Descending,
                          StackHangs, OrderHangs

\* A new start span begins a stack of its own at depth 0.
LEMMA NextStartInv == Inv /\ NextStart => Inv'
<1>. SUFFICES ASSUME Inv, NextStart PROVE Inv'
  OBVIOUS
<1>. DEFINE e == [span |-> Head(starts), depth |-> 0]
<1>1. e \in Entries /\ stack' = <<e>> /\ starts' \in Seq(Span)
  BY DEF Inv, TypeOK, NextStart, Entries
<1>2. TypeOK'
  BY <1>1 DEF Inv, TypeOK, NextStart
<1>3. Pending'
  <2>1. ASSUME NEW i \in Span, NEW a \in DOMAIN starts, starts[a] = i
        PROVE  stack'[1].span = i \/ \E b \in DOMAIN starts' : starts'[b] = i
    <3>1. CASE a = 1
      BY <1>1, <2>1, <3>1 DEF Inv, TypeOK
    <3>2. CASE a # 1
      <4>1. a - 1 \in DOMAIN starts' /\ starts'[a - 1] = i
        BY <2>1, <3>2 DEF Inv, TypeOK, NextStart
      <4>. QED BY <4>1
    <3>. QED BY <3>1, <3>2
  <2>2. 1 \in DOMAIN stack' /\ stack = <<>>
    BY <1>1 DEF NextStart
  <2>. QED BY <2>1, <2>2 DEF Inv, Pending, NextStart
<1>4. Descending' /\ StackHangs'
  BY <1>1 DEF Descending, StackHangs
<1>5. VisitedIsEmitted' /\ EmittedOnce' /\ OrderHangs'
  BY DEF Inv, NextStart, VisitedIsEmitted, EmittedOnce, OrderHangs, Hangs, ById
<1>. QED BY <1>2, <1>3, <1>4, <1>5 DEF Inv

\* Dropping a visited top leaves the rest of the stack as it was.
LEMMA SkipInv == Inv /\ Skip => Inv'
<1>. SUFFICES ASSUME Inv, Skip PROVE Inv'
  OBVIOUS
<1>1. /\ stack' \in Seq(Entries)
      /\ \A q \in DOMAIN stack' : q + 1 \in DOMAIN stack /\ stack'[q] = stack[q + 1]
  BY DEF Inv, TypeOK, Skip
<1>2. TypeOK'
  BY <1>1 DEF Inv, TypeOK, Skip
<1>3. Pending'
  <2>1. ASSUME NEW q \in DOMAIN stack
        PROVE  stack[q].span \in visited \/ \E r \in DOMAIN stack' : stack'[r] = stack[q]
    <3>1. CASE q = 1
      BY <3>1 DEF Inv, TypeOK, Skip
    <3>2. CASE q # 1
      <4>1. q - 1 \in DOMAIN stack' /\ stack'[q - 1] = stack[q]
        BY <3>2 DEF Inv, TypeOK, Skip
      <4>. QED BY <4>1
    <3>. QED BY <3>1, <3>2
  <2>. QED BY <2>1 DEF Inv, Pending, Skip
<1>4. Descending'
  <2>. SUFFICES ASSUME NEW q \in DOMAIN stack', NEW r \in DOMAIN stack', q < r
                PROVE  stack'[q].depth >= stack'[r].depth
    BY DEF Descending
  <2>1. q \in Nat /\ r \in Nat
    BY <1>1
  <2>2. q + 1 \in DOMAIN stack /\ r + 1 \in DOMAIN stack /\ q + 1 < r + 1
    BY <1>1, <2>1
  <2>. QED BY <1>1, <2>2 DEF Inv, Descending
<1>5. StackHangs'
  <2>. SUFFICES ASSUME NEW q \in DOMAIN stack', stack'[q].depth > 0
                PROVE  Hangs(stack[q], Len(order) + 1)'
    BY DEF StackHangs
  <2>1. Hangs(stack[q + 1], Len(order) + 1)
    BY <1>1 DEF Inv, StackHangs
  <2>. QED BY <1>1, <2>1 DEF Skip, Hangs, ById
<1>6. VisitedIsEmitted' /\ EmittedOnce' /\ OrderHangs'
  BY DEF Inv, Skip, VisitedIsEmitted, EmittedOnce, OrderHangs, Hangs, ById
<1>. QED BY <1>2, <1>3, <1>4, <1>5, <1>6 DEF Inv

-----------------------------------------------------------------------------
\* Where the elements of a concatenation come from.
LEMMA ConcatAt ==
  ASSUME NEW S, NEW p \in Seq(S), NEW t \in Seq(S)
  PROVE  /\ p \o t \in Seq(S) /\ Len(p \o t) = Len(p) + Len(t)
         /\ \A q \in 1..Len(p) : (p \o t)[q] = p[q]
         /\ \A r \in 1..Len(t) : (p \o t)[Len(p) + r] = t[r]
OBVIOUS

\* What one visit does: the new order, and a stack of children of the emitted
\* span one level deeper, followed by what was below it.
LEMMA VisitEffect ==
  ASSUME Inv, Visit
  PROVE  /\ Head(stack) \in Entries /\ stack[1] = Head(stack)
         /\ Head(stack).span \notin visited
         /\ visited' = visited \cup {Head(stack).span}
         /\ order' = Append(order, Head(stack))
         /\ UNCHANGED <<id, parent, start, starts>>
         /\ stack' \in Seq(Entries)
         /\ \E n \in Nat :
              /\ n <= Len(stack')
              /\ \A q, r \in 1..n : q < r => Before(stack'[q].span, stack'[r].span)
              /\ \A c \in Children(Head(stack).span) :
                   c \in visited' \/ \E q \in 1..n : stack'[q].span = c
              /\ \A q \in DOMAIN stack' :
                   \/ /\ q <= n
                      /\ stack'[q].depth = Head(stack).depth + 1
                      /\ stack'[q].span \in Children(Head(stack).span)
                      /\ ById(parent[stack'[q].span]) = Head(stack).span
                   \/ /\ q > n
                      /\ q - n + 1 \in DOMAIN stack
                      /\ stack'[q] = stack[q - n + 1]
              /\ \A r \in DOMAIN stack : r > 1 =>
                   n + r - 1 \in DOMAIN stack' /\ stack'[n + r - 1] = stack[r]
<1>. DEFINE e == Head(stack)
            U == Children(e.span) \ visited'
<1>1. /\ e \in Entries /\ stack[1] = e /\ stack # <<>>
      /\ e.span \notin visited
      /\ visited' = visited \cup {e.span}
      /\ order' = Append(order, e)
      /\ UNCHANGED <<id, parent, start, starts>>
  BY DEF Inv, TypeOK, Visit
<1>2. PICK s \in Sorted(U) : stack' = Pushed(e.span, s, e.depth) \o Tail(stack)
  BY DEF Visit
<1>3. s \in Seq(U) /\ \A q \in DOMAIN s : /\ s[q] \in Children(e.span) /\ s[q] \in Span
                                           /\ ById(parent[s[q]]) = e.span
  <2>1. U \in SUBSET Span
    BY DEF Children
  <2>2. s \in Seq(U)
    BY <2>1, SortedType
  <2>3. \A x \in U : x \in Children(e.span) /\ x \in Span /\ ById(parent[x]) = e.span
    BY DEF Children
  <2>. QED BY <2>2, <2>3
<1>. DEFINE p == Pushed(e.span, s, e.depth)
<1>4. /\ p \in Seq(Entries) /\ Len(p) = Len(s)
      /\ \A q \in 1..Len(s) : p[q].depth = e.depth + 1 /\ p[q].span = s[q]
  <2>1. DOMAIN s = 1..Len(s) /\ Len(s) \in Nat
    BY <1>3
  <2>2. p = [q \in 1..Len(s) |-> [span |-> s[q], depth |-> e.depth + 1]]
    BY <2>1 DEF Pushed
  <2>3. \A q \in 1..Len(s) : [span |-> s[q], depth |-> e.depth + 1] \in Entries
    BY <1>1, <1>3, <2>1 DEF Entries
  <2>4. p \in Seq(Entries) /\ Len(p) = Len(s)
    <3>. HIDE DEF e
    <3>. QED BY <2>1, <2>2, <2>3
  <2>. QED BY <2>2, <2>4
<1>5. /\ Tail(stack) \in Seq(Entries) /\ Len(Tail(stack)) = Len(stack) - 1
      /\ \A r \in 1..(Len(stack) - 1) : Tail(stack)[r] = stack[r + 1]
      /\ stack \in Seq(Entries)
  BY <1>1 DEF Inv, TypeOK
<1>6. /\ stack' \in Seq(Entries) /\ Len(stack') = Len(s) + Len(stack) - 1
      /\ \A q \in 1..Len(s) : stack'[q] = p[q]
      /\ \A r \in 1..(Len(stack) - 1) : stack'[Len(s) + r] = stack[r + 1]
  <2>. DEFINE t == Tail(stack)
  <2>1. stack' = p \o t /\ p \in Seq(Entries) /\ t \in Seq(Entries)
        /\ Len(p) = Len(s) /\ Len(t) = Len(stack) - 1
        /\ \A r \in 1..(Len(stack) - 1) : t[r] = stack[r + 1]
    BY <1>2, <1>4, <1>5
  <2>2. Len(s) \in Nat /\ Len(stack) \in Nat
    BY <1>3, <1>5
  <2>. HIDE DEF p, t
  <2>3. /\ p \o t \in Seq(Entries) /\ Len(p \o t) = Len(p) + Len(t)
        /\ \A q \in 1..Len(p) : (p \o t)[q] = p[q]
        /\ \A r \in 1..Len(t) : (p \o t)[Len(p) + r] = t[r]
    <3>1. p \in Seq(Entries) /\ t \in Seq(Entries)
      BY <2>1
    <3>2. \A u, v : u \in Seq(Entries) /\ v \in Seq(Entries) =>
            /\ u \o v \in Seq(Entries) /\ Len(u \o v) = Len(u) + Len(v)
            /\ \A q \in 1..Len(u) : (u \o v)[q] = u[q]
            /\ \A r \in 1..Len(v) : (u \o v)[Len(u) + r] = v[r]
      BY ConcatAt
    <3>. QED BY <3>1, <3>2, SMT
  <2>. QED BY <2>1, <2>2, <2>3
<1>7. Len(s) \in Nat /\ Len(stack) \in Nat /\ DOMAIN stack = 1..Len(stack)
      /\ DOMAIN stack' = 1..Len(stack') /\ DOMAIN s = 1..Len(s)
  BY <1>3, <1>5, <1>6
<1>8. ASSUME NEW q \in DOMAIN stack'
      PROVE  \/ /\ q <= Len(s)
                /\ stack'[q].depth = e.depth + 1
                /\ stack'[q].span \in Children(e.span)
                /\ ById(parent[stack'[q].span]) = e.span
             \/ /\ q > Len(s)
                /\ q - Len(s) + 1 \in DOMAIN stack
                /\ stack'[q] = stack[q - Len(s) + 1]
  <2>. HIDE DEF p
  <2>1. CASE q <= Len(s)
    <3>1. q \in 1..Len(s)
      BY <1>7, <2>1
    <3>2. stack'[q] = p[q]
      BY <1>6, <3>1
    <3>3. p[q].depth = e.depth + 1 /\ p[q].span = s[q]
      BY <1>4, <3>1
    <3>4. s[q] \in Children(e.span) /\ ById(parent[s[q]]) = e.span
      BY <1>3, <1>7, <3>1
    <3>. QED BY <2>1, <3>2, <3>3, <3>4
  <2>2. CASE q > Len(s)
    <3>1. q - Len(s) \in 1..(Len(stack) - 1)
      BY <1>6, <1>7, <2>2
    <3>2. stack'[Len(s) + (q - Len(s))] = stack[q - Len(s) + 1]
      BY <1>6, <3>1
    <3>3. Len(s) + (q - Len(s)) = q
      BY <1>7
    <3>. QED BY <1>7, <2>2, <3>1, <3>2, <3>3
  <2>. QED BY <1>7, <2>1, <2>2
<1>9. ASSUME NEW r \in DOMAIN stack, r > 1
      PROVE  Len(s) + r - 1 \in DOMAIN stack' /\ stack'[Len(s) + r - 1] = stack[r]
  <2>1. r - 1 \in 1..(Len(stack) - 1)
    BY <1>7, <1>9
  <2>2. stack'[Len(s) + (r - 1)] = stack[(r - 1) + 1]
    BY <1>6, <2>1
  <2>3. Len(s) + (r - 1) = Len(s) + r - 1 /\ (r - 1) + 1 = r
    BY <1>7
  <2>. QED BY <1>6, <1>7, <2>1, <2>2, <2>3
<1>10. \A q \in 1..Len(s) : stack'[q].span = s[q]
  BY <1>4, <1>6
<1>11. \A q, r \in 1..Len(s) : q < r => Before(stack'[q].span, stack'[r].span)
  <2>1. \A q, r \in 1..Len(s) : q < r => Before(s[q], s[r])
    BY <1>2, <1>7 DEF Sorted
  <2>. QED BY <1>10, <2>1
<1>12. ASSUME NEW c \in Children(e.span), c \notin visited'
       PROVE  \E q \in 1..Len(s) : stack'[q].span = c
  <2>1. U \in SUBSET Span /\ c \in U
    BY <1>12 DEF Children
  <2>2. \E q \in DOMAIN s : s[q] = c
    BY <1>2, <2>1, SortedOnto DEF Inv
  <2>. QED BY <1>7, <1>10, <2>2
<1>13. Len(s) <= Len(stack')
  <2>1. stack # <<>> /\ Len(stack) \in Nat /\ Len(stack) > 0
    BY <1>1, <1>5, <1>7
  <2>. QED BY <1>6, <1>7, <2>1
<1>. HIDE DEF e, U, p
<1>14. \E n \in Nat :
              /\ n <= Len(stack')
              /\ \A q, r \in 1..n : q < r => Before(stack'[q].span, stack'[r].span)
              /\ \A c \in Children(e.span) :
                   c \in visited' \/ \E q \in 1..n : stack'[q].span = c
              /\ \A q \in DOMAIN stack' :
                   \/ /\ q <= n
                      /\ stack'[q].depth = e.depth + 1
                      /\ stack'[q].span \in Children(e.span)
                      /\ ById(parent[stack'[q].span]) = e.span
                   \/ /\ q > n
                      /\ q - n + 1 \in DOMAIN stack
                      /\ stack'[q] = stack[q - n + 1]
              /\ \A r \in DOMAIN stack : r > 1 =>
                   n + r - 1 \in DOMAIN stack' /\ stack'[n + r - 1] = stack[r]
  BY <1>7, <1>8, <1>9, <1>11, <1>12, <1>13, Zenon
<1>. QED BY <1>1, <1>6, <1>14 DEF e

\* ById depends on the input alone.
LEMMA ByIdUnchanged ==
  ASSUME UNCHANGED <<id, parent>>, NEW i \in Span
  PROVE  ById(parent[i])' = ById(parent[i])
<1>1. id' = id /\ parent'[i] = parent[i]
  OBVIOUS
<1>. QED BY <1>1 DEF ById

\* Emitting an entry keeps the order a listing of the tree.
LEMMA VisitInv == Inv /\ Visit => Inv'
<1>. SUFFICES ASSUME Inv, Visit PROVE Inv'
  OBVIOUS
<1>. PICK e : e = Head(stack)
  OBVIOUS
<1>. PICK L : L = Len(order)
  OBVIOUS
<1>1. /\ e \in Entries /\ stack[1] = e /\ e.span \notin visited
      /\ visited' = visited \cup {e.span}
      /\ order' = Append(order, e)
      /\ UNCHANGED <<id, parent, start, starts>>
      /\ stack' \in Seq(Entries)
  BY VisitEffect
<1>2. PICK n \in Nat :
        /\ \A q \in DOMAIN stack' :
             \/ /\ q <= n
                /\ stack'[q].depth = e.depth + 1
                /\ ById(parent[stack'[q].span]) = e.span
             \/ /\ q > n
                /\ q - n + 1 \in DOMAIN stack
                /\ stack'[q] = stack[q - n + 1]
        /\ \A r \in DOMAIN stack : r > 1 =>
             n + r - 1 \in DOMAIN stack' /\ stack'[n + r - 1] = stack[r]
  BY VisitEffect
<1>3. /\ stack \in Seq(Entries) /\ stack # <<>> /\ 1 \in DOMAIN stack
      /\ \A q \in DOMAIN stack : q \in Nat /\ q >= 1 /\ stack[q] \in Entries
      /\ \A q \in DOMAIN stack' : q \in Nat /\ q >= 1 /\ stack'[q] \in Entries
  BY <1>1 DEF Inv, TypeOK, Visit
<1>4. e.span \in Span /\ e.depth \in Nat
  BY <1>1 DEF Entries
<1>5. /\ order \in Seq(Entries) /\ L \in Nat /\ DOMAIN order = 1..L
      /\ order' \in Seq(Entries) /\ Len(order') = L + 1 /\ DOMAIN order' = 1..(L + 1)
      /\ \A a \in 1..L : order'[a] = order[a] /\ order[a] \in Entries
      /\ order'[L + 1] = e
  <2>. QED BY <1>1 DEF Inv, TypeOK
<1>6. TypeOK'
  BY <1>1, <1>4, <1>5 DEF Inv, TypeOK
<1>7. VisitedIsEmitted'
  BY <1>1, <1>5 DEF Inv, VisitedIsEmitted
<1>8. EmittedOnce'
  BY <1>1, <1>5 DEF Inv, VisitedIsEmitted, EmittedOnce
<1>9. Pending'
  <2>1. ASSUME NEW r \in DOMAIN stack
        PROVE  stack[r].span \in visited' \/ \E q \in DOMAIN stack' : stack'[q] = stack[r]
    BY <1>1, <1>2, <1>3, <2>1
  <2>. QED BY <1>1, <2>1 DEF Inv, Pending
<1>10. \A q \in DOMAIN stack : stack[q].depth <= e.depth
  BY <1>1, <1>3, <1>4 DEF Inv, Descending, Entries
<1>11. Descending'
  <2>. SUFFICES ASSUME NEW q \in DOMAIN stack', NEW r \in DOMAIN stack', q < r
                PROVE  stack'[q].depth >= stack'[r].depth
    BY DEF Descending
  <2>1. CASE q <= n /\ r <= n
    BY <1>2, <1>3, <1>4, <2>1
  <2>2. CASE q <= n /\ r > n
    <3>1. r - n + 1 \in DOMAIN stack /\ stack'[r] = stack[r - n + 1]
      BY <1>2, <1>3, <2>2
    <3>2. stack'[r].depth <= e.depth /\ stack'[r].depth \in Nat
      BY <1>3, <1>10, <3>1 DEF Entries
    <3>3. stack'[q].depth = e.depth + 1
      BY <1>2, <1>3, <2>2
    <3>. QED BY <1>4, <3>2, <3>3
  <2>3. CASE q > n
    <3>1. /\ q - n + 1 \in DOMAIN stack /\ stack'[q] = stack[q - n + 1]
          /\ r - n + 1 \in DOMAIN stack /\ stack'[r] = stack[r - n + 1]
      BY <1>2, <1>3, <2>3
    <3>2. q - n + 1 < r - n + 1
      BY <1>3
    <3>. QED BY <3>1, <3>2 DEF Inv, Descending
  <2>. QED BY <1>3, <2>1, <2>2, <2>3
\* Entries that hung correctly still do if they are no deeper than e.
<1>12. ASSUME NEW x \in Entries, x.depth > 0, x.depth <= e.depth, Hangs(x, L + 1)
       PROVE  Hangs(x, L + 2)'
  <2>1. PICK a \in 1..L :
          /\ order[a].span = ById(parent[x.span])
          /\ order[a].depth = x.depth - 1
          /\ \A m \in (a + 1)..L : order[m].depth >= x.depth
    BY <1>5, <1>12 DEF Hangs
  <2>2. a \in 1..(L + 1) /\ order'[a] = order[a]
    BY <1>5
  <2>3. ASSUME NEW m \in (a + 1)..(L + 1)
        PROVE  order'[m].depth >= x.depth
    <3>1. CASE m = L + 1
      BY <1>4, <1>5, <1>12, <3>1 DEF Entries
    <3>2. CASE m # L + 1
      <4>1. m \in (a + 1)..L /\ m \in 1..L
        BY <1>5, <3>2
      <4>. QED BY <1>5, <2>1, <4>1
    <3>. QED BY <3>1, <3>2
  <2>4. order'[a].span = ById(parent[x.span])'
    BY <1>1, <2>1, <2>2, ByIdUnchanged DEF Entries
  <2>. QED BY <1>5, <2>1, <2>2, <2>3, <2>4 DEF Hangs
\* What an entry hangs by lies before it, where nothing changes.
<1>13. ASSUME NEW x \in Entries, NEW b \in 1..(L + 1), Hangs(x, b)
       PROVE  Hangs(x, b)'
  <2>1. PICK a \in 1..(b - 1) :
          /\ order[a].span = ById(parent[x.span])
          /\ order[a].depth = x.depth - 1
          /\ \A m \in (a + 1)..(b - 1) : order[m].depth >= x.depth
    BY <1>13 DEF Hangs
  <2>2. order'[a] = order[a] /\ \A m \in (a + 1)..(b - 1) : order'[m] = order[m]
    BY <1>5
  <2>3. order'[a].span = ById(parent[x.span])'
    BY <1>1, <2>1, <2>2, ByIdUnchanged DEF Entries
  <2>. QED BY <2>1, <2>2, <2>3 DEF Hangs
<1>14. StackHangs'
  <2>. SUFFICES ASSUME NEW q \in DOMAIN stack', stack'[q].depth > 0
                PROVE  Hangs(stack[q], Len(order) + 1)'
    BY DEF StackHangs
  <2>. PICK x : x = stack'[q]
    OBVIOUS
  <2>1. CASE q <= n
    <3>1. x.depth = e.depth + 1 /\ ById(parent[x.span]) = e.span
      BY <1>2, <1>3, <2>1
    <3>2. ById(parent[x.span])' = e.span
      BY <1>1, <1>3, <3>1, ByIdUnchanged DEF Entries
    <3>. QED BY <1>4, <1>5, <3>1, <3>2 DEF Hangs
  <2>2. CASE q > n
    <3>1. q - n + 1 \in DOMAIN stack /\ x = stack[q - n + 1]
      BY <1>2, <1>3, <2>2
    <3>2. Hangs(x, L + 1)
      BY <3>1 DEF Inv, StackHangs
    <3>3. x \in Entries /\ x.depth <= e.depth
      BY <1>3, <1>10, <3>1
    <3>4. Hangs(x, L + 2)'
      BY <1>12, <3>2, <3>3
    <3>. QED BY <1>5, <3>4 DEF Hangs
  <2>. QED BY <1>3, <2>1, <2>2
<1>15. OrderHangs'
  <2>. SUFFICES ASSUME NEW b \in DOMAIN order', order'[b].depth > 0
                PROVE  Hangs(order[b], b)'
    BY DEF OrderHangs
  <2>1. CASE b = L + 1
    <3>1. Hangs(e, L + 1)
      BY <1>1, <1>3, <1>5, <2>1 DEF Inv, StackHangs
    <3>2. Hangs(e, L + 1)'
      BY <1>1, <1>5, <1>13, <3>1
    <3>3. order'[b] = e /\ b = L + 1
      BY <1>5, <2>1
    <3>. QED BY <3>2, <3>3 DEF Hangs
  <2>2. CASE b \in 1..L
    <3>1. Hangs(order[b], b)
      BY <1>5, <2>2 DEF Inv, OrderHangs
    <3>2. PICK x : x = order[b]
      OBVIOUS
    <3>3. x \in Entries /\ b \in 1..(L + 1) /\ x = order'[b]
      BY <1>5, <2>2, <3>2
    <3>4. Hangs(x, b)'
      BY <1>13, <3>1, <3>2, <3>3
    <3>. QED BY <3>3, <3>4 DEF Hangs
  <2>. QED BY <1>5, <2>1, <2>2
<1>. QED BY <1>6, <1>7, <1>8, <1>9, <1>11, <1>14, <1>15 DEF Inv

LEMMA NextInv == Inv /\ [Next]_vars => Inv'
<1>1. Inv /\ UNCHANGED vars => Inv'
  BY DEF Inv, vars, TypeOK, VisitedIsEmitted, EmittedOnce, Pending, Descending,
         StackHangs, OrderHangs, Hangs, ById
<1>. QED BY <1>1, NextStartInv, SkipInv, VisitInv DEF Next

-----------------------------------------------------------------------------
(* Theorems.                                                               *)

\* The inductive invariant holds throughout every walk.
THEOREM Invariance == Spec => []Inv
BY InitInv, NextInv, PTL DEF Spec

\* The walk keeps every variable in its type.
THEOREM TypeCorrect == Spec => []TypeOK
<1>1. Inv => TypeOK
  BY DEF Inv
<1>. QED BY <1>1, Invariance, PTL

\* tree_order emits no span twice, whatever the parent links and IDs.
THEOREM NoSpanTwice == Spec => []EmittedOnce
<1>1. Inv => EmittedOnce
  BY DEF Inv
<1>. QED BY <1>1, Invariance, PTL

\* When tree_order returns, it has emitted every span.
THEOREM NoSpanLost == Spec => []EmittedAll
<1>1. Inv => EmittedAll
  BY DEF Inv, Pending, VisitedIsEmitted, EmittedAll, Done
<1>. QED BY <1>1, Invariance, PTL

\* Both together: the list tree_order returns has every span exactly once.
THEOREM ListedOnce == Spec => []EachSpanOnce
<1>1. EmittedOnce /\ EmittedAll => EachSpanOnce
  BY DEF EachSpanOnce
<1>. QED BY <1>1, NoSpanTwice, NoSpanLost, PTL

\* The depths of the flat list determine every emitted span's parent.
THEOREM TreeReadable == Spec => []ReadsAsTree
<1>1. Inv => ReadsAsTree
  BY DEF Inv, OrderHangs, ReadsAsTree, Hangs
<1>. QED BY <1>1, Invariance, PTL

-----------------------------------------------------------------------------
(* The order of siblings and of what no root reaches.  These invariants    *)
(* hold beside Inv and are preserved because of it.                        *)

\* Entries x and y hang below the same parent.
SameParent(x, y) == x.depth > 0 /\ y.depth > 0 /\ ById(parent[x.span]) = ById(parent[y.span])

\* What is deeper than the top was put there by its parent, which was emitted.
PutByParent ==
  /\ \A b \in DOMAIN order : order[b].depth > 0 =>
       IsChild(order[b].span) /\ ById(parent[order[b].span]) \in visited
  /\ \A q \in DOMAIN stack : stack[q].depth > 0 =>
       IsChild(stack[q].span) /\ ById(parent[stack[q].span]) \in visited

\* Siblings are in order on the stack, and after those that were emitted.
SiblingsToCome ==
  /\ \A q, r \in DOMAIN stack :
       q < r /\ SameParent(stack[q], stack[r]) => Before(stack[q].span, stack[r].span)
  /\ \A b \in DOMAIN order, q \in DOMAIN stack :
       SameParent(order[b], stack[q]) => Before(order[b].span, stack[q].span)

SiblingInv == PutByParent /\ SiblingsToCome /\ SiblingsInOrder

\* What is on the stack or in the order is an entry.
LEMMA EntriesAre ==
  ASSUME TypeOK
  PROVE  /\ \A q \in DOMAIN stack : stack[q] \in Entries /\ q \in Nat
         /\ \A b \in DOMAIN order : order[b] \in Entries /\ b \in Nat
BY DEF TypeOK

\* The links and the sort key depend on the input alone.
LEMMA InputFixed ==
  ASSUME UNCHANGED input
  PROVE  /\ \A x, y : SameParent(x, y)' <=> SameParent(x, y)
         /\ \A i, j : Before(i, j)' <=> Before(i, j)
         /\ \A i : (IsChild(i)' <=> IsChild(i)) /\ ById(parent[i])' = ById(parent[i])
         /\ Roots' = Roots /\ Rooted' = Rooted
         /\ \A p : Children(p)' = Children(p)
<1>1. /\ id' = id /\ parent' = parent /\ start' = start
  BY DEF input
<1>2. \A i, j : Before(i, j)' <=> Before(i, j)
  BY <1>1 DEF Before
<1>3. \A p : ById(p)' = ById(p)
  BY <1>1 DEF ById
<1>4. \A i : ById(parent[i])' = ById(parent[i])
  BY <1>1 DEF ById
<1>5. \A i : IsChild(i)' <=> IsChild(i)
  BY <1>1 DEF IsChild, ById
<1>6. \A p : Children(p)' = Children(p)
  BY <1>1 DEF Children, IsChild, ById
<1>7. Roots' = Roots
  BY <1>1 DEF Roots, IsChild, ById
<1>8. Rooted' = Rooted
  BY <1>1 DEF Rooted, Roots, Children, IsChild, ById
<1>9. \A x, y : SameParent(x, y)' <=> SameParent(x, y)
  BY <1>1 DEF SameParent, ById
<1>. QED BY <1>2, <1>4, <1>5, <1>6, <1>7, <1>8, <1>9

\* What a step does to the stack and the order, as the next lemmas use it: with
\* n the number of entries put on top, m the number taken off, the rest moves.
LEMMA NextStartEffect ==
  ASSUME Inv, NextStart
  PROVE  /\ UNCHANGED input /\ visited' = visited /\ order' = order
         /\ stack = <<>> /\ DOMAIN stack' = {1} /\ DOMAIN stack = {}
         /\ stack'[1].span = Head(starts) /\ stack'[1].depth = 0
         /\ Len(starts) > 0 /\ Len(starts') = Len(starts) - 1 /\ Head(starts) = starts[1]
         /\ \A k \in 1..(Len(starts) - 1) : starts'[k] = starts[k + 1]
BY DEF Inv, TypeOK, NextStart, input

LEMMA SkipEffect ==
  ASSUME Inv, Skip
  PROVE  /\ UNCHANGED input /\ visited' = visited /\ order' = order /\ starts' = starts
         /\ 1 \in DOMAIN stack /\ stack[1].span \in visited
         /\ \A q \in DOMAIN stack' : q + 1 \in DOMAIN stack /\ stack'[q] = stack[q + 1]
         /\ \A q \in DOMAIN stack : q # 1 =>
              q - 1 \in DOMAIN stack' /\ stack'[q - 1] = stack[q]
BY DEF Inv, TypeOK, Skip, input

LEMMA SiblingInit == Init => SiblingInv
BY DEF Init, SiblingInv, PutByParent, SiblingsToCome, SiblingsInOrder

LEMMA SiblingNextStart == Inv /\ SiblingInv /\ NextStart => SiblingInv'
<1>. SUFFICES ASSUME Inv, SiblingInv, NextStart PROVE SiblingInv'
  OBVIOUS
<1>1. /\ UNCHANGED input /\ visited' = visited /\ order' = order
      /\ \A q \in DOMAIN stack' : stack'[q].depth = 0
  BY NextStartEffect
<1>2. PutByParent'
  BY <1>1, InputFixed DEF SiblingInv, PutByParent
<1>3. \A x, y : SameParent(x, y) => x.depth > 0 /\ y.depth > 0
  BY DEF SameParent
<1>4. SiblingsToCome'
  BY <1>1, <1>3, InputFixed DEF SiblingsToCome
<1>5. SiblingsInOrder'
  BY <1>1, InputFixed DEF SiblingInv, SiblingsInOrder
<1>. QED BY <1>2, <1>4, <1>5 DEF SiblingInv

LEMMA SiblingSkip == Inv /\ SiblingInv /\ Skip => SiblingInv'
<1>. SUFFICES ASSUME Inv, SiblingInv, Skip PROVE SiblingInv'
  OBVIOUS
<1>1. /\ UNCHANGED input /\ visited' = visited /\ order' = order
      /\ \A q \in DOMAIN stack' : q \in Nat /\ q + 1 \in DOMAIN stack /\ stack'[q] = stack[q + 1]
  BY SkipEffect DEF Inv, TypeOK, Skip
<1>2. PutByParent'
  BY <1>1, InputFixed DEF SiblingInv, PutByParent
<1>3. SiblingsToCome'
  <2>1. ASSUME NEW q \in DOMAIN stack', NEW r \in DOMAIN stack', q < r,
               SameParent(stack'[q], stack'[r])
        PROVE  Before(stack'[q].span, stack'[r].span)
    <3>1. q + 1 < r + 1
      BY <1>1, <2>1
    <3>. QED BY <1>1, <2>1, <3>1 DEF SiblingInv, SiblingsToCome
  <2>2. ASSUME NEW b \in DOMAIN order, NEW q \in DOMAIN stack', SameParent(order[b], stack'[q])
        PROVE  Before(order[b].span, stack'[q].span)
    BY <1>1, <2>2 DEF SiblingInv, SiblingsToCome
  <2>. QED BY <1>1, <2>1, <2>2, InputFixed DEF SiblingsToCome
<1>4. SiblingsInOrder'
  BY <1>1, InputFixed DEF SiblingInv, SiblingsInOrder
<1>. QED BY <1>2, <1>3, <1>4 DEF SiblingInv

\* The children put on the stack are in order, and nothing before them hangs
\* below the emitted span.
LEMMA SiblingVisit == Inv /\ SiblingInv /\ Visit => SiblingInv'
<1>. SUFFICES ASSUME Inv, SiblingInv, Visit PROVE SiblingInv'
  OBVIOUS
<1>. PICK e : e = Head(stack)
  OBVIOUS
<1>. PICK L : L = Len(order)
  OBVIOUS
<1>1. /\ e \in Entries /\ stack[1] = e /\ e.span \notin visited
      /\ visited' = visited \cup {e.span} /\ order' = Append(order, e)
      /\ UNCHANGED input /\ stack' \in Seq(Entries) /\ 1 \in DOMAIN stack
  <2>1. 1 \in DOMAIN stack
    BY DEF Inv, TypeOK, Visit
  <2>. QED BY <2>1, VisitEffect DEF input
<1>2. PICK n \in Nat :
        /\ n <= Len(stack')
        /\ \A q, r \in 1..n : q < r => Before(stack'[q].span, stack'[r].span)
        /\ \A q \in DOMAIN stack' :
             \/ /\ q <= n
                /\ stack'[q].depth = e.depth + 1
                /\ stack'[q].span \in Children(e.span)
                /\ ById(parent[stack'[q].span]) = e.span
             \/ /\ q > n
                /\ q - n + 1 \in DOMAIN stack
                /\ stack'[q] = stack[q - n + 1]
  BY VisitEffect
<1>3. /\ L \in Nat /\ DOMAIN order = 1..L /\ DOMAIN order' = 1..(L + 1)
      /\ \A a \in 1..L : order'[a] = order[a]
      /\ order'[L + 1] = e
  BY <1>1 DEF Inv, TypeOK
<1>4. \A q \in DOMAIN stack' : q \in Nat /\ q >= 1
  BY <1>1
\* An entry that was there does not hang below the emitted span.
<1>5. /\ \A b \in 1..L : order[b].depth > 0 => ById(parent[order[b].span]) # e.span
      /\ \A q \in DOMAIN stack : stack[q].depth > 0 => ById(parent[stack[q].span]) # e.span
  BY <1>1, <1>3 DEF SiblingInv, PutByParent
<1>6. PutByParent'
  <2>1. ASSUME NEW b \in 1..(L + 1), order'[b].depth > 0
        PROVE  IsChild(order'[b].span) /\ ById(parent[order'[b].span]) \in visited'
    <3>1. CASE b = L + 1
      BY <1>1, <1>3, <2>1, <3>1 DEF SiblingInv, PutByParent
    <3>2. CASE b \in 1..L
      BY <1>1, <1>3, <2>1, <3>2 DEF SiblingInv, PutByParent
    <3>. QED BY <1>3, <3>1, <3>2
  <2>2. ASSUME NEW q \in DOMAIN stack', stack'[q].depth > 0
        PROVE  IsChild(stack'[q].span) /\ ById(parent[stack'[q].span]) \in visited'
    <3>1. \A c \in Children(e.span) : IsChild(c)
      BY DEF Children
    <3>. QED BY <1>1, <1>2, <2>2, <3>1 DEF SiblingInv, PutByParent
  <2>. QED BY <1>1, <1>3, <2>1, <2>2, InputFixed DEF PutByParent
<1>7. ASSUME NEW q \in DOMAIN stack', NEW r \in DOMAIN stack', q < r,
             SameParent(stack'[q], stack'[r])
      PROVE  Before(stack'[q].span, stack'[r].span)
  <2>1. CASE r <= n
    <3>1. q \in 1..n /\ r \in 1..n
      BY <1>4, <1>7, <2>1
    <3>. QED BY <1>2, <1>7, <3>1
  <2>2. CASE q <= n /\ r > n
    <3>1. ById(parent[stack'[q].span]) = e.span
      BY <1>2, <1>4, <2>2
    <3>2. r - n + 1 \in DOMAIN stack /\ stack'[r] = stack[r - n + 1]
      BY <1>2, <1>4, <2>2
    <3>. QED BY <1>5, <1>7, <3>1, <3>2 DEF SameParent
  <2>3. CASE q > n
    <3>1. /\ q - n + 1 \in DOMAIN stack /\ stack'[q] = stack[q - n + 1]
          /\ r - n + 1 \in DOMAIN stack /\ stack'[r] = stack[r - n + 1]
          /\ q - n + 1 < r - n + 1
      BY <1>2, <1>4, <1>7, <2>3
    <3>. QED BY <1>7, <3>1 DEF SiblingInv, SiblingsToCome
  <2>. QED BY <1>4, <1>7, <2>1, <2>2, <2>3
<1>8. ASSUME NEW b \in 1..(L + 1), NEW q \in DOMAIN stack', SameParent(order'[b], stack'[q])
      PROVE  Before(order'[b].span, stack'[q].span)
  <2>1. order'[b].depth > 0 => ById(parent[order'[b].span]) # e.span
    <3>1. CASE b \in 1..L
      BY <1>3, <1>5, <3>1
    <3>2. CASE b = L + 1
      BY <1>1, <1>3, <1>5, <3>2
    <3>. QED BY <1>3, <3>1, <3>2
  <2>2. q > n
    BY <1>2, <1>4, <1>8, <2>1 DEF SameParent
  <2>3. q - n + 1 \in DOMAIN stack /\ stack'[q] = stack[q - n + 1] /\ q - n + 1 > 1
    BY <1>2, <1>4, <2>2
  <2>4. CASE b \in 1..L
    BY <1>3, <1>8, <2>3, <2>4 DEF SiblingInv, SiblingsToCome
  <2>5. CASE b = L + 1
    BY <1>1, <1>3, <1>8, <2>3, <2>5 DEF SiblingInv, SiblingsToCome
  <2>. QED BY <1>3, <2>4, <2>5
<1>9. SiblingsToCome'
  BY <1>1, <1>3, <1>7, <1>8, InputFixed DEF SiblingsToCome
<1>10. SiblingsInOrder'
  <2>1. ASSUME NEW a \in 1..(L + 1), NEW b \in 1..(L + 1), a < b,
               SameParent(order'[a], order'[b])
        PROVE  Before(order'[a].span, order'[b].span)
    <3>1. CASE b = L + 1
      BY <1>1, <1>3, <2>1, <3>1 DEF SiblingInv, SiblingsToCome
    <3>2. CASE b \in 1..L
      <4>1. a \in 1..L
        BY <1>3, <2>1, <3>2
      <4>. QED BY <1>3, <2>1, <3>2, <4>1 DEF SiblingInv, SiblingsInOrder, SameParent
    <3>. QED BY <1>3, <3>1, <3>2
  <2>. QED BY <1>1, <1>3, <2>1, InputFixed DEF SiblingsInOrder, SameParent
<1>. QED BY <1>6, <1>9, <1>10 DEF SiblingInv

LEMMA SiblingStutter == SiblingInv /\ UNCHANGED vars => SiblingInv'
<1>. SUFFICES ASSUME SiblingInv, UNCHANGED vars PROVE SiblingInv'
  OBVIOUS
<1>1. UNCHANGED input /\ visited' = visited /\ order' = order /\ stack' = stack
  BY DEF vars, input
<1>. QED BY <1>1, InputFixed DEF SiblingInv, PutByParent, SiblingsToCome, SiblingsInOrder

\* Entries below the same parent are listed by start time and ID, for traces of
\* any size.
THEOREM SiblingsSorted == Spec => []SiblingsInOrder
<1>1. Inv /\ SiblingInv /\ [Next]_vars => SiblingInv'
  BY SiblingStutter, SiblingNextStart, SiblingSkip, SiblingVisit DEF Next
<1>2. SiblingInv => SiblingsInOrder
  BY DEF SiblingInv
<1>. QED BY SiblingInit, <1>1, <1>2, Invariance, PTL DEF Spec

-----------------------------------------------------------------------------
(* What no root reaches comes last.                                        *)

\* The children of what was emitted are emitted or on the stack.
ChildrenKnown ==
  \A p \in visited : \A c \in Children(p) :
    c \in visited \/ \E q \in DOMAIN stack : stack[q].span = c

\* The walk is still among the roots: the next n starts are those left, in
\* order and after the roots before them, and nothing else was met but what
\* roots reach.
RootsLeft(n) ==
  /\ \A k \in 1..n : starts[k] \in Roots
  /\ \A k, l \in 1..n : k < l => Before(starts[k], starts[l])
  /\ \A i \in Roots : \/ i \in visited
                      \/ \E k \in 1..n : starts[k] = i
                      \/ \E q \in DOMAIN stack : stack[q].span = i
  /\ \A b \in DOMAIN order :
       /\ order[b].span \in Rooted
       /\ order[b].span \in Roots => \A k \in 1..n : Before(order[b].span, starts[k])
  /\ \A q \in DOMAIN stack :
       /\ stack[q].span \in Rooted
       /\ stack[q].depth = 0 => stack[q].span \in Roots
       /\ stack[q].span \in Roots => \A k \in 1..n : Before(stack[q].span, starts[k])
  /\ \A b \in DOMAIN order, q \in DOMAIN stack :
       order[b].span \in Roots /\ stack[q].span \in Roots => Before(order[b].span, stack[q].span)
  /\ \A q, r \in DOMAIN stack : stack[q].span \in Roots /\ stack[r].span \in Roots => q = r

\* Once it has left the roots, everything they reach has been emitted.
RootsBeforeRest == (\E n \in 0..Len(starts) : RootsLeft(n)) \/ Rooted \subseteq visited

RootedInOrder ==
  \A a, b \in DOMAIN order : a < b =>
    /\ order[b].span \in Rooted => order[a].span \in Rooted
    /\ order[a].span \in Roots /\ order[b].span \in Roots => Before(order[a].span, order[b].span)

\* Of what roots reach, only they themselves are listed at the top.
RootedBelow ==
  \A a \in DOMAIN order :
    order[a].depth = 0 /\ order[a].span \in Rooted => order[a].span \in Roots

RootInv == ChildrenKnown /\ RootsBeforeRest /\ RootedInOrder /\ RootedBelow

\* Rooted has the roots and the children of its members, and is the least such set.
LEMMA RootedLeast ==
  /\ Roots \subseteq Rooted
  /\ \A p \in Rooted : Children(p) \subseteq Rooted
  /\ \A R \in SUBSET Span : Roots \subseteq R /\ (\A p \in R : Children(p) \subseteq R) => Rooted \subseteq R
<1>. DEFINE Closed(R) == Roots \subseteq R /\ \A p \in R : Children(p) \subseteq R
<1>1. Rooted = {i \in Span : \A R \in SUBSET Span : Closed(R) => i \in R}
  <2>1. \A R \in SUBSET Span :
          (\A p \in R : [x \in Span |-> Children(x)][p] \subseteq R)
            <=> (\A p \in R : Children(p) \subseteq R)
    OBVIOUS
  <2>. QED BY <2>1 DEF Rooted
<1>2. Roots \subseteq Span /\ \A p : Children(p) \subseteq Span
  BY DEF Roots, Children
<1>3. Roots \subseteq Rooted
  BY <1>1, <1>2
<1>4. ASSUME NEW p \in Rooted, NEW c \in Children(p)
      PROVE  c \in Rooted
  <2>1. ASSUME NEW R \in SUBSET Span, Closed(R)
        PROVE  c \in R
    BY <1>1, <2>1
  <2>. HIDE DEF Closed
  <2>. QED BY <1>1, <1>2, <2>1
<1>. QED BY <1>1, <1>3, <1>4

LEMMA RootInit == Init => RootInv
<1>. SUFFICES ASSUME Init PROVE RootInv
  OBVIOUS
<1>1. PICK s \in Sorted(Roots) : starts = Chain(s)
  BY DEF Init
<1>2. Roots \in SUBSET Span /\ TypeOK
  BY InitInv DEF Roots, Inv
<1>3. s \in Seq(Roots) /\ s \in Seq(Span)
  BY <1>2, SortedType
<1>. DEFINE n == Len(s)
<1>4. /\ n \in Nat /\ DOMAIN s = 1..n
      /\ \A k \in 1..n : s[k] \in Roots
      /\ \A k, l \in 1..n : k < l => Before(s[k], s[l])
  <2>1. \A k, l \in DOMAIN s : k < l => Before(s[k], s[l])
    BY DEF Sorted
  <2>2. n \in Nat /\ DOMAIN s = 1..n /\ \A k \in 1..n : s[k] \in Roots
    BY <1>3
  <2>. QED BY <2>1, <2>2
<1>5. n <= Len(starts) /\ \A k \in 1..n : starts[k] = s[k]
  <2>. DEFINE all == [i \in Span |-> i]
  <2>1. all \in Seq(Span) /\ Len(all) \in Nat
    BY SizeAssumption DEF Span
  <2>. HIDE DEF all
  <2>2. Len(s \o all) = n + Len(all) /\ \A k \in 1..n : (s \o all)[k] = s[k]
    BY <1>3, <2>1
  <2>3. starts = s \o all
    BY <1>1 DEF Chain, all
  <2>. QED BY <1>4, <2>1, <2>2, <2>3
<1>6. \A i \in Roots : \E k \in 1..n : starts[k] = i
  <2>. SUFFICES ASSUME NEW i \in Roots PROVE \E k \in 1..n : starts[k] = i
    OBVIOUS
  <2>1. PICK k \in DOMAIN s : s[k] = i
    BY <1>2, SortedOnto
  <2>. QED BY <1>4, <1>5, <2>1
<1>7. stack = <<>> /\ order = <<>> /\ visited = {} /\ DOMAIN stack = {} /\ DOMAIN order = {}
  BY DEF Init
<1>. HIDE DEF n
<1>8. RootsLeft(n)
  <2>1. /\ \A k \in 1..n : starts[k] \in Roots
        /\ \A k, l \in 1..n : k < l => Before(starts[k], starts[l])
    BY <1>4, <1>5
  <2>. QED BY <1>6, <1>7, <2>1 DEF RootsLeft
<1>9. n \in 0..Len(starts)
  BY <1>2, <1>4, <1>5 DEF TypeOK
<1>. QED BY <1>7, <1>8, <1>9 DEF RootInv, ChildrenKnown, RootsBeforeRest, RootedInOrder,
                                     RootedBelow

\* Leaving the roots: everything they reach is then emitted.
LEMMA RootNextStart == Inv /\ RootInv /\ NextStart => RootInv'
<1>. SUFFICES ASSUME Inv, RootInv, NextStart PROVE RootInv'
  OBVIOUS
<1>1. /\ UNCHANGED input /\ visited' = visited /\ order' = order
      /\ stack = <<>> /\ DOMAIN stack' = {1} /\ DOMAIN stack = {}
      /\ stack'[1].span = starts[1] /\ stack'[1].depth = 0
      /\ Len(starts) \in Nat /\ Len(starts) > 0 /\ Len(starts') = Len(starts) - 1
      /\ \A k \in 1..(Len(starts) - 1) : starts'[k] = starts[k + 1]
  <2>1. Len(starts) \in Nat
    BY DEF Inv, TypeOK
  <2>. QED BY <2>1, NextStartEffect
<1>2. \A p \in visited : Children(p) \subseteq visited
  BY <1>1 DEF RootInv, ChildrenKnown
<1>3. ChildrenKnown'
  BY <1>1, <1>2, InputFixed DEF ChildrenKnown
<1>4. RootsBeforeRest'
  <2>1. CASE Rooted \subseteq visited
    BY <1>1, <2>1, InputFixed DEF RootsBeforeRest
  <2>2. ASSUME NEW n \in 0..Len(starts), RootsLeft(n)
        PROVE  RootsBeforeRest'
    <3>1. CASE n = 0
      <4>1. Roots \subseteq visited
        BY <1>1, <2>2, <3>1 DEF RootsLeft
      <4>2. Rooted \subseteq visited
        BY <1>2, <4>1, RootedLeast DEF Inv, TypeOK
      <4>. QED BY <1>1, <4>2, InputFixed DEF RootsBeforeRest
    <3>2. CASE n # 0
      <4>1. n - 1 \in 0..Len(starts') /\ 1 \in 1..n
        BY <1>1, <3>2
      <4>2. \A k \in 1..(n - 1) : k + 1 \in 1..n /\ starts'[k] = starts[k + 1]
        BY <1>1, <3>2
      <4>3. /\ starts[1] \in Roots /\ starts[1] \in Rooted
            /\ \A k \in 1..(n - 1) : starts'[k] \in Roots /\ Before(starts[1], starts'[k])
            /\ \A k, l \in 1..(n - 1) : k < l => Before(starts'[k], starts'[l])
        <5>1. \A k \in 1..(n - 1) : 1 < k + 1
          BY <3>2
        <5>2. \A k, l \in 1..(n - 1) : k < l => k + 1 < l + 1
          BY <3>2
        <5>. QED BY <2>2, <4>1, <4>2, <5>1, <5>2, RootedLeast DEF RootsLeft
      <4>4. ASSUME NEW i \in Roots
            PROVE  i \in visited \/ (\E k \in 1..(n - 1) : starts'[k] = i) \/ starts[1] = i
        <5>1. ASSUME NEW k \in 1..n, k # 1, starts[k] = i
              PROVE  k - 1 \in 1..(n - 1) /\ starts'[k - 1] = i
          BY <1>1, <5>1
        <5>. QED BY <1>1, <2>2, <5>1 DEF RootsLeft
      <4>5. \A b \in DOMAIN order :
              /\ order[b].span \in Rooted
              /\ order[b].span \in Roots =>
                   /\ Before(order[b].span, starts[1])
                   /\ \A k \in 1..(n - 1) : Before(order[b].span, starts'[k])
        BY <2>2, <4>1, <4>2 DEF RootsLeft
      <4>6. RootsLeft(n - 1)'
        BY <1>1, <4>3, <4>4, <4>5, InputFixed DEF RootsLeft
      <4>. QED BY <4>1, <4>6 DEF RootsBeforeRest
    <3>. QED BY <3>1, <3>2
  <2>. QED BY <2>1, <2>2 DEF RootInv, RootsBeforeRest
<1>5. RootedInOrder' /\ RootedBelow'
  BY <1>1, InputFixed DEF RootInv, RootedInOrder, RootedBelow
<1>. QED BY <1>3, <1>4, <1>5 DEF RootInv

LEMMA RootSkip == Inv /\ RootInv /\ Skip => RootInv'
<1>. SUFFICES ASSUME Inv, RootInv, Skip PROVE RootInv'
  OBVIOUS
<1>1. /\ UNCHANGED input /\ visited' = visited /\ order' = order /\ starts' = starts
      /\ stack[1].span \in visited
      /\ \A q \in DOMAIN stack' : q \in Nat /\ q + 1 \in DOMAIN stack /\ stack'[q] = stack[q + 1]
      /\ \A q \in DOMAIN stack : q # 1 =>
           q - 1 \in DOMAIN stack' /\ stack'[q - 1] = stack[q]
  BY SkipEffect DEF Inv, TypeOK, Skip
\* What was on the stack still is, or was emitted.
<1>2. ASSUME NEW c, \E q \in DOMAIN stack : stack[q].span = c
      PROVE  c \in visited \/ \E q \in DOMAIN stack' : stack'[q].span = c
  BY <1>1, <1>2
<1>3. ChildrenKnown'
  BY <1>1, <1>2, InputFixed DEF RootInv, ChildrenKnown
<1>4. ASSUME NEW n \in 0..Len(starts), RootsLeft(n)
      PROVE  RootsLeft(n)'
  <2>1. \A q, r \in DOMAIN stack' :
          stack'[q].span \in Roots /\ stack'[r].span \in Roots => q = r
    <3>1. \A q, r \in DOMAIN stack' : q + 1 = r + 1 => q = r
      BY <1>1
    <3>. QED BY <1>1, <1>4, <3>1 DEF RootsLeft
  <2>2. \A i \in Roots : \/ i \in visited
                         \/ \E k \in 1..n : starts[k] = i
                         \/ \E q \in DOMAIN stack' : stack'[q].span = i
    BY <1>2, <1>4 DEF RootsLeft
  <2>3. \A q \in DOMAIN stack' :
          /\ stack'[q].span \in Rooted
          /\ stack'[q].depth = 0 => stack'[q].span \in Roots
          /\ stack'[q].span \in Roots => \A k \in 1..n : Before(stack'[q].span, starts[k])
    BY <1>1, <1>4 DEF RootsLeft
  <2>4. \A b \in DOMAIN order, q \in DOMAIN stack' :
          order[b].span \in Roots /\ stack'[q].span \in Roots => Before(order[b].span, stack'[q].span)
    BY <1>1, <1>4 DEF RootsLeft
  <2>. QED BY <1>1, <1>4, <2>1, <2>2, <2>3, <2>4, InputFixed DEF RootsLeft
<1>5. RootsBeforeRest'
  BY <1>1, <1>4, InputFixed DEF RootInv, RootsBeforeRest
<1>6. RootedInOrder' /\ RootedBelow'
  BY <1>1, InputFixed DEF RootInv, RootedInOrder, RootedBelow
<1>. QED BY <1>3, <1>5, <1>6 DEF RootInv

\* Among the roots, what is emitted is reached by a root; after them, it is not.
LEMMA RootVisit == Inv /\ RootInv /\ Visit => RootInv'
<1>. SUFFICES ASSUME Inv, RootInv, Visit PROVE RootInv'
  OBVIOUS
<1>. PICK e : e = Head(stack)
  OBVIOUS
<1>. PICK L : L = Len(order)
  OBVIOUS
<1>1. /\ e \in Entries /\ stack[1] = e /\ e.span \notin visited
      /\ visited' = visited \cup {e.span} /\ order' = Append(order, e)
      /\ UNCHANGED input /\ starts' = starts /\ 1 \in DOMAIN stack
      /\ stack \in Seq(Entries) /\ stack' \in Seq(Entries)
  <2>1. 1 \in DOMAIN stack /\ stack \in Seq(Entries)
    BY DEF Inv, TypeOK, Visit
  <2>. QED BY <2>1, VisitEffect DEF input
<1>2. PICK n \in Nat :
        /\ n <= Len(stack')
        /\ \A c \in Children(e.span) :
             c \in visited' \/ \E q \in 1..n : stack'[q].span = c
        /\ \A q \in DOMAIN stack' :
             \/ /\ q <= n /\ stack'[q].span \in Children(e.span)
                /\ stack'[q].depth # 0
             \/ q > n /\ q - n + 1 \in DOMAIN stack /\ stack'[q] = stack[q - n + 1]
        /\ \A r \in DOMAIN stack : r > 1 =>
             n + r - 1 \in DOMAIN stack' /\ stack'[n + r - 1] = stack[r]
  <2>1. e.depth + 1 # 0
    BY <1>1 DEF Entries
  <2>. QED BY <2>1, VisitEffect
<1>3. /\ L \in Nat /\ DOMAIN order = 1..L /\ DOMAIN order' = 1..(L + 1)
      /\ \A a \in 1..L : order'[a] = order[a]
      /\ order'[L + 1] = e
  BY <1>1 DEF Inv, TypeOK
<1>4. /\ \A q \in DOMAIN stack' : q \in Nat /\ q >= 1
      /\ \A q \in 1..n : q \in DOMAIN stack'
      /\ \A q \in DOMAIN stack : q = 1 \/ (q \in Nat /\ q > 1)
  BY <1>1, <1>2
\* What was on the stack still is, or is emitted now.
<1>5. ASSUME NEW c, \E q \in DOMAIN stack : stack[q].span = c
      PROVE  c \in visited' \/ \E q \in DOMAIN stack' : stack'[q].span = c
  BY <1>1, <1>2, <1>4, <1>5
<1>6. ChildrenKnown'
  <2>. SUFFICES ASSUME NEW p \in visited', NEW c \in Children(p)
                PROVE  c \in visited' \/ \E q \in DOMAIN stack' : stack'[q].span = c
    BY <1>1, InputFixed DEF ChildrenKnown
  <2>1. CASE p = e.span
    BY <1>2, <1>4, <2>1
  <2>2. CASE p \in visited
    BY <1>1, <1>5, <2>2 DEF RootInv, ChildrenKnown
  <2>. QED BY <1>1, <2>1, <2>2
\* A child is no root; of what is on the stack below the top, nothing is new.
<1>7. \A c \in Children(e.span) : c \notin Roots
  BY DEF Children, Roots
<1>8. ASSUME NEW m \in 0..Len(starts), RootsLeft(m)
      PROVE  RootsLeft(m)'
  <2>1. e.span \in Rooted /\ \A c \in Children(e.span) : c \in Rooted
    BY <1>1, <1>8, RootedLeast DEF RootsLeft
  <2>2. \A i \in Roots : \/ i \in visited'
                         \/ \E k \in 1..m : starts[k] = i
                         \/ \E q \in DOMAIN stack' : stack'[q].span = i
    BY <1>1, <1>5, <1>8 DEF RootsLeft
  <2>3. \A b \in 1..(L + 1) :
          /\ order'[b].span \in Rooted
          /\ order'[b].span \in Roots => \A k \in 1..m : Before(order'[b].span, starts[k])
    <3>1. \A b \in 1..(L + 1) : b \in 1..L \/ b = L + 1
      BY <1>3
    <3>2. e.span \in Roots => \A k \in 1..m : Before(e.span, starts[k])
      BY <1>1, <1>8 DEF RootsLeft
    <3>. QED BY <1>3, <1>8, <2>1, <3>1, <3>2 DEF RootsLeft
  <2>4. \A q \in DOMAIN stack' :
          /\ stack'[q].span \in Rooted
          /\ stack'[q].depth = 0 => stack'[q].span \in Roots
          /\ stack'[q].span \in Roots => \A k \in 1..m : Before(stack'[q].span, starts[k])
    BY <1>2, <1>7, <1>8, <2>1 DEF RootsLeft
  <2>5. ASSUME NEW q \in DOMAIN stack', stack'[q].span \in Roots
        PROVE  /\ q > n /\ q - n + 1 \in DOMAIN stack /\ q - n + 1 # 1
               /\ stack'[q] = stack[q - n + 1]
    BY <1>2, <1>4, <1>7, <2>5
  <2>6. ASSUME NEW b \in 1..(L + 1), NEW q \in DOMAIN stack',
               order'[b].span \in Roots, stack'[q].span \in Roots
        PROVE  Before(order'[b].span, stack'[q].span)
    <3>1. /\ q - n + 1 \in DOMAIN stack /\ q - n + 1 # 1
          /\ stack'[q] = stack[q - n + 1]
      BY <2>5, <2>6
    <3>2. CASE b \in 1..L
      BY <1>3, <1>8, <2>6, <3>1, <3>2 DEF RootsLeft
    <3>3. CASE b = L + 1
      BY <1>1, <1>3, <1>8, <2>6, <3>1, <3>3 DEF RootsLeft
    <3>. QED BY <1>3, <3>2, <3>3
  <2>7. ASSUME NEW q \in DOMAIN stack', NEW r \in DOMAIN stack',
               stack'[q].span \in Roots, stack'[r].span \in Roots
        PROVE  q = r
    <3>1. /\ q - n + 1 \in DOMAIN stack /\ stack'[q] = stack[q - n + 1]
          /\ r - n + 1 \in DOMAIN stack /\ stack'[r] = stack[r - n + 1]
      BY <2>5, <2>7
    <3>2. q - n + 1 = r - n + 1
      BY <1>8, <2>7, <3>1 DEF RootsLeft
    <3>. QED BY <1>4, <3>2
  <2>. QED BY <1>1, <1>3, <1>8, <2>2, <2>3, <2>4, <2>6, <2>7, InputFixed DEF RootsLeft
<1>9. RootsBeforeRest'
  BY <1>1, <1>8, InputFixed DEF RootInv, RootsBeforeRest
\* The emitted span is rooted only while everything emitted is.
<1>10. e.depth = 0 /\ e.span \in Rooted => e.span \in Roots
  BY <1>1 DEF RootInv, RootsBeforeRest, RootsLeft
<1>11. RootedBelow'
  <2>1. \A b \in 1..(L + 1) : b \in 1..L \/ b = L + 1
    BY <1>3
  <2>. QED BY <1>1, <1>3, <1>10, <2>1, InputFixed DEF RootInv, RootedBelow
<1>12. ASSUME NEW a \in 1..L
       PROVE  /\ e.span \in Rooted => order[a].span \in Rooted
              /\ order[a].span \in Roots /\ e.span \in Roots => Before(order[a].span, e.span)
  <2>1. CASE Rooted \subseteq visited
    BY <1>1, <2>1, RootedLeast
  <2>2. CASE \E m \in 0..Len(starts) : RootsLeft(m)
    BY <1>1, <1>3, <2>2 DEF RootsLeft
  <2>. QED BY <2>1, <2>2 DEF RootInv, RootsBeforeRest
<1>13. RootedInOrder'
  <2>1. ASSUME NEW a \in 1..(L + 1), NEW b \in 1..(L + 1), a < b
        PROVE  /\ order'[b].span \in Rooted => order'[a].span \in Rooted
               /\ order'[a].span \in Roots /\ order'[b].span \in Roots =>
                    Before(order'[a].span, order'[b].span)
    <3>1. a \in 1..L /\ order'[a] = order[a]
      BY <1>3, <2>1
    <3>2. CASE b = L + 1
      BY <1>3, <1>12, <3>1, <3>2
    <3>3. CASE b \in 1..L
      BY <1>3, <2>1, <3>1, <3>3 DEF RootInv, RootedInOrder
    <3>. QED BY <1>3, <3>2, <3>3
  <2>. QED BY <1>1, <1>3, <2>1, InputFixed DEF RootedInOrder
<1>. QED BY <1>6, <1>9, <1>13, <1>11 DEF RootInv

LEMMA RootStutter == RootInv /\ UNCHANGED vars => RootInv'
<1>. SUFFICES ASSUME RootInv, UNCHANGED vars PROVE RootInv'
  OBVIOUS
<1>1. /\ UNCHANGED input /\ visited' = visited /\ order' = order
      /\ stack' = stack /\ starts' = starts
  BY DEF vars, input
<1>2. \A n : RootsLeft(n)' <=> RootsLeft(n)
  BY <1>1, InputFixed DEF RootsLeft
<1>. QED BY <1>1, <1>2, InputFixed DEF RootInv, ChildrenKnown, RootsBeforeRest, RootedInOrder,
                                  RootedBelow

\* The three invariants hold together throughout every walk.
THEOREM WalkInvariant == Spec => [](Inv /\ SiblingInv /\ RootInv)
<1>1. Inv /\ RootInv /\ [Next]_vars => RootInv'
  BY RootStutter, RootNextStart, RootSkip, RootVisit DEF Next
<1>2. Inv /\ SiblingInv /\ [Next]_vars => SiblingInv'
  BY SiblingStutter, SiblingNextStart, SiblingSkip, SiblingVisit DEF Next
<1>. QED BY SiblingInit, RootInit, <1>1, <1>2, Invariance, PTL DEF Spec

\* tree_order starts from the roots in order, and lists what only a parent cycle
\* leads to after everything a root reaches, for traces of any size.
THEOREM CyclesListedLast == Spec => []CyclesLast
<1>1. Inv /\ SiblingInv /\ RootInv => CyclesLast
  <2>. SUFFICES ASSUME Inv, SiblingInv, RootInv PROVE CyclesLast
    OBVIOUS
  <2>1. \A a \in DOMAIN order : order[a].span \in Roots => order[a].depth = 0
    <3>1. \A i \in Roots : ~IsChild(i)
      BY DEF Roots
    <3>2. \A a \in DOMAIN order : order[a].depth \in Nat
      BY EntriesAre DEF Inv, Entries
    <3>. QED BY <3>1, <3>2 DEF SiblingInv, PutByParent
  <2>. QED BY <2>1 DEF RootInv, RootedInOrder, CyclesLast
<1>. QED BY WalkInvariant, <1>1, PTL

-----------------------------------------------------------------------------
(* TraceView: its invariant.                                               *)

\* The spans are those of the document.
Collected == raw \in Documents /\ max_spans \in Nat /\ collect_spans(raw)

\* What was answered is what trace_tree makes of a finished walk.
Rendered == answer # NoAnswer => Done /\ answer = trace_tree

ViewInv == Collected /\ Rendered

-----------------------------------------------------------------------------
(* What the document's IDs become.                                         *)

\* hex_id returns an ID, and none exactly for one that is absent or all zeros.
LEMMA HexIdType ==
  ASSUME NEW r \in RawIds
  PROVE  /\ hex_id(r) \in Ids \cup {NoParent} /\ hex_id(r) # Unknown
         /\ hex_id(r) = NoParent <=> r[1] \in {"absent", "zeros"}
<1>1. Unknown \in Nat \ {0} /\ 1..(2 * Unknown) \subseteq Ids /\ NoParent \notin Ids
  BY UnknownAssumption, IdAssumption
<1>2. Unknown \in Ids
  BY <1>1
<1>3. CASE r \in Encodings \X (1..(Unknown - 1))
  <2>1. r[2] \in 1..(2 * Unknown) /\ Unknown + r[2] \in 1..(2 * Unknown)
        /\ r[2] # Unknown /\ Unknown + r[2] # Unknown
    BY <1>1, <1>3
  <2>2. r[1] \in Encodings
    BY <1>3
  <2>3. hex_id(r) = r[2] \/ hex_id(r) = Unknown + r[2]
    BY <2>2 DEF hex_id, Encodings
  <2>. QED BY <1>1, <2>1, <2>2, <2>3 DEF Encodings
<1>4. CASE r \in {"absent", "zeros"} \X {0}
  BY <1>1, <1>2, <1>4 DEF hex_id
<1>. QED BY <1>3, <1>4 DEF RawIds

\* Two IDs become the same exactly if they are the same bytes, however written,
\* or the same text.
LEMMA HexIdSame ==
  ASSUME NEW a \in RawIds, NEW b \in RawIds
  PROVE  hex_id(a) = hex_id(b) /\ hex_id(b) # NoParent <=>
           /\ {a[1], b[1]} \subseteq {"hex", "upper", "base64"} \/ {a[1], b[1]} = {"other"}
           /\ a[2] = b[2]
<1>1. \A r \in RawIds : r[1] \notin {"absent", "zeros"} =>
        /\ r[1] \in Encodings /\ r[2] \in 1..(Unknown - 1)
        /\ r[1] = "other" => hex_id(r) = Unknown + r[2]
        /\ r[1] # "other" => hex_id(r) = r[2]
  BY DEF RawIds, hex_id, Encodings
<1>2. Unknown \in Nat
  BY UnknownAssumption
<1>3. CASE a[1] \in {"absent", "zeros"} \/ b[1] \in {"absent", "zeros"}
  BY <1>3, HexIdType
<1>4. CASE a[1] \notin {"absent", "zeros"} /\ b[1] \notin {"absent", "zeros"}
  <2>1. hex_id(b) # NoParent
    BY <1>4, HexIdType
  <2>2. hex_id(a) = hex_id(b) <=> ((a[1] = "other" <=> b[1] = "other") /\ a[2] = b[2])
    BY <1>1, <1>2, <1>4
  <2>. QED BY <1>1, <1>4, <2>1, <2>2 DEF Encodings
<1>. QED BY <1>3, <1>4

\* The spans named as a span's parent are those whose ID is its parent's.
LEMMA NamedIsLinked ==
  ASSUME Collected, NEW i \in Span
  PROVE  Named(i) = {j \in Span : id[j] = parent[i]}
<1>1. \A j \in Span : raw[j].spanId \in RawIds /\ raw[j].parentSpanId \in RawIds
  BY DocumentAssumption DEF Collected, RawSpans
<1>2. \A j \in Span :
        /\ id[j] = IF hex_id(raw[j].spanId) = NoParent THEN Unknown ELSE hex_id(raw[j].spanId)
        /\ parent[j] = hex_id(raw[j].parentSpanId)
  BY DEF Collected, collect_spans
<1>3. ASSUME NEW j \in Span
      PROVE  j \in Named(i) <=> id[j] = parent[i]
  <2>1. j \in Named(i) <=>
          hex_id(raw[j].spanId) = hex_id(raw[i].parentSpanId) /\ hex_id(raw[i].parentSpanId) # NoParent
    BY <1>1, HexIdSame DEF Named
  <2>2. /\ hex_id(raw[i].parentSpanId) # Unknown
        /\ Unknown # NoParent
    BY <1>1, HexIdType, UnknownAssumption, IdAssumption
  <2>. QED BY <1>2, <2>1, <2>2
<1>. QED BY <1>3 DEF Named

-----------------------------------------------------------------------------
(* A walk over a document is a walk of SpanTree.                           *)

\* The spans of a document are a trace that tree_order takes.
LEMMA CollectedTrace ==
  ASSUME raw \in Documents, collect_spans(raw)
  PROVE  /\ id \in [Span -> Ids]
         /\ parent \in [Span -> Ids \cup {NoParent}]
         /\ start \in [Span -> Times]
<1>1. \A j \in Span : /\ raw[j].spanId \in RawIds /\ raw[j].parentSpanId \in RawIds
                      /\ raw[j].start \in Times \cup {Missing}
  BY DocumentAssumption DEF RawSpans
<1>2. Unknown \in Ids
  BY UnknownAssumption
<1>3. \A j \in Span : nanos(raw[j].start) \in Times
  BY <1>1, NanosAssumption DEF nanos
<1>. QED BY <1>1, <1>2, <1>3, HexIdType DEF collect_spans

\* Serving `trace` walks the document as tree_order is specified to: everything
\* proved of SpanTree holds of what the tool walks.
THEOREM WalkIsTreeOrder == ViewSpec => Spec
<1>1. ViewInit => Init
  BY CollectedTrace DEF ViewInit, Init
<1>2. [ViewNext]_<<vars, viewVars>> => [Next]_vars
  BY DEF ViewNext, Walk, Render
<1>. QED BY <1>1, <1>2, PTL DEF ViewSpec, Spec

\* Every span of the document is walked once, whatever its links.
THEOREM ViewListsOnce == ViewSpec => []EachSpanOnce
BY WalkIsTreeOrder, ListedOnce, PTL

LEMMA ViewInitInv == ViewInit => ViewInv
BY ViewAssumption DEF ViewInit, ViewInv, Collected, Rendered, NoAnswer

\* Nothing is walked once the answer is there.
LEMMA ViewNextInv == ViewInv /\ [ViewNext]_<<vars, viewVars>> => ViewInv'
<1>. SUFFICES ASSUME ViewInv, [ViewNext]_<<vars, viewVars>> PROVE ViewInv'
  OBVIOUS
<1>1. UNCHANGED input /\ raw' = raw /\ max_spans' = max_spans
  BY DEF ViewNext, Walk, Render, Next, NextStart, Skip, Visit, vars, input, viewVars
<1>2. Collected'
  BY <1>1 DEF ViewInv, Collected, collect_spans, input
<1>3. UNCHANGED vars => trace_tree' = trace_tree
  <2>. SUFFICES ASSUME UNCHANGED vars
                PROVE  trace_tree' = trace_tree
    OBVIOUS
  <2>1. UNCHANGED <<raw, max_spans, id, parent, start, order>>
    BY <1>1 DEF vars, input
  <2>2. \A i \in Span : duration(i)' = duration(i)
    BY <2>1 DEF duration
  <2>3. Walked' = Walked
    BY <2>1 DEF Walked
  <2>4. errors' = errors
    BY <2>1, <2>3 DEF errors, FailedOf
  <2>5. by_duration' = by_duration
    BY <2>1, <2>3 DEF by_duration, duration
  <2>6. Listed(order)' = Listed(order)
    BY <2>1 DEF Listed, Take, span_entry, trace_start, duration
  <2>. QED BY <2>1, <2>4, <2>5, <2>6 DEF trace_tree, Take, trace_start, trace_end
<1>4. CASE UNCHANGED vars /\ answer' = answer
  BY <1>2, <1>3, <1>4 DEF ViewInv, Rendered, Done, vars, NoAnswer
<1>5. CASE Render
  BY <1>2, <1>3, <1>5 DEF Render, ViewInv, Rendered, Done, vars
<1>6. CASE Next /\ answer' = answer
  <2>1. ~Done
    BY <1>6 DEF Next, NextStart, Skip, Visit, Done
  <2>. QED BY <1>2, <1>6, <2>1 DEF ViewInv, Rendered, NoAnswer
<1>. QED BY <1>2, <1>4, <1>5, <1>6 DEF ViewNext, Walk, viewVars, ViewInv

\* The answer is rendered from the document's spans after the walk.
THEOREM ViewInvariant == ViewSpec => []ViewInv
BY ViewInitInv, ViewNextInv, PTL DEF ViewSpec

-----------------------------------------------------------------------------
(* The first, the earliest and the last of a trace's spans.                *)

\* A finite set of sets has one that has no other within it.
LEMMA MinimalSet ==
  ASSUME NEW S, IsFiniteSet(S), NEW T \in SUBSET (SUBSET S), T # {}
  PROVE  \E X \in T : \A Y \in T : ~(Y \subseteq X /\ Y # X)
<1>1. T \subseteq FiniteSubsetsOf(S)
  BY FS_Subset DEF FiniteSubsetsOf
<1>2. IsWellFoundedOn(StrictSubsetOrdering(S), FiniteSubsetsOf(S))
  BY FS_StrictSubsetOrderingWellFounded
<1>3. \E X \in T : \A Y \in T : ~(<<Y, X>> \in StrictSubsetOrdering(S))
  BY <1>1, <1>2, WFMin
<1>. QED BY <1>3 DEF StrictSubsetOrdering

\* Of some spans that each have a number, one has the least.
LEMMA LeastMember ==
  ASSUME NEW S \in SUBSET Span, S # {}, NEW f, \A i \in S : f[i] \in Int
  PROVE  \E i \in S : \A j \in S : f[i] <= f[j]
<1>. DEFINE below(i) == {j \in S : f[j] < f[i]}
            T == {below(i) : i \in S}
<1>1. IsFiniteSet(S)
  <2>1. IsFiniteSet(Span)
    BY SizeAssumption, FS_Interval DEF Span
  <2>. QED BY <2>1, FS_Subset
<1>2. PICK X \in T : \A Y \in T : ~(Y \subseteq X /\ Y # X)
  <2>1. T \in SUBSET (SUBSET S) /\ T # {}
    OBVIOUS
  <2>. HIDE DEF T
  <2>. QED BY <1>1, <2>1, MinimalSet
<1>3. PICK i \in S : X = below(i)
  OBVIOUS
<1>4. ASSUME NEW j \in S, f[j] < f[i]
      PROVE  FALSE
  <2>1. below(j) \in T /\ below(j) \subseteq below(i)
    BY <1>4
  <2>2. j \in below(i) /\ j \notin below(j)
    BY <1>4
  <2>. QED BY <1>2, <1>3, <2>1, <2>2
<1>. QED BY <1>4

\* Of the spans with a given ID, one answers for it.
LEMMA ByIdHasId ==
  ASSUME NEW p, NEW k \in Span, id[k] = p
  PROVE  ById(p) \in Span /\ id[ById(p)] = p
<1>. DEFINE S == {j \in Span : id[j] = p}
            f == [j \in Span |-> j]
<1>1. \E i \in S : \A j \in S : f[i] <= f[j]
  <2>1. S \in SUBSET Span /\ S # {} /\ \A j \in S : f[j] \in Int
    BY SizeAssumption DEF Span
  <2>. HIDE DEF S, f
  <2>. QED BY <2>1, LeastMember
<1>2. \E i \in Span : id[i] = p /\ \A j \in Span : id[j] = p => i <= j
  BY <1>1
<1>. QED BY <1>2 DEF ById

\* What is listed is what was walked first, in that order.
LEMMA ListedEntries ==
  ASSUME Inv, Collected, NEW k \in DOMAIN Listed(order)
  PROVE  /\ k \in DOMAIN order /\ order[k] \in Entries
         /\ Listed(order)[k] = span_entry(order[k])
         /\ \A m \in 1..(k - 1) : m \in DOMAIN Listed(order)
<1>. DEFINE n == IF Len(order) < max_spans THEN Len(order) ELSE max_spans
<1>1. order \in Seq(Entries) /\ n \in 0..Len(order)
  BY DEF Inv, TypeOK, Collected
<1>. HIDE DEF n
<1>2. DOMAIN SubSeq(order, 1, n) = 1..n
  BY <1>1
<1>3. Listed(order) = [a \in 1..n |-> span_entry(order[a])]
  BY <1>2 DEF Listed, Take, n
<1>. QED BY <1>1, <1>3

-----------------------------------------------------------------------------
(* Putting a finite set in order.                                          *)

\* R orders the members of S, no two of them alike.
OrdersStrictly(R, S) ==
  /\ \A i \in S : <<i, i>> \notin R
  /\ \A i, j \in S : i = j \/ <<i, j>> \in R \/ <<j, i>> \in R
  /\ \A i, j, k \in S : <<i, j>> \in R /\ <<j, k>> \in R => <<i, k>> \in R

\* The sequence s lists S by R.
Arranges(s, S, R) ==
  /\ s \in [1..Cardinality(S) -> S]
  /\ \A a, b \in 1..Cardinality(S) : a < b => <<s[a], s[b]>> \in R

\* Of a finite set put in order, one member comes first.
LEMMA FirstMember ==
  ASSUME NEW S, IsFiniteSet(S), S # {}, NEW R, OrdersStrictly(R, S)
  PROVE  \E m \in S : \A j \in S \ {m} : <<m, j>> \in R
<1>. DEFINE below(i) == {j \in S : <<j, i>> \in R}
            T == {below(i) : i \in S}
<1>1. PICK X \in T : \A Y \in T : ~(Y \subseteq X /\ Y # X)
  <2>1. T \in SUBSET (SUBSET S) /\ T # {}
    OBVIOUS
  <2>. HIDE DEF T
  <2>. QED BY <2>1, MinimalSet
<1>2. PICK m \in S : X = below(m)
  OBVIOUS
<1>3. ASSUME NEW j \in S, <<j, m>> \in R
      PROVE  FALSE
  <2>1. below(j) \in T /\ below(j) \subseteq below(m)
    BY <1>3 DEF OrdersStrictly
  <2>2. j \in below(m) /\ j \notin below(j)
    BY <1>3 DEF OrdersStrictly
  <2>. QED BY <1>1, <1>2, <2>1, <2>2
<1>. QED BY <1>3 DEF OrdersStrictly

\* A finite set that can be put in order has a listing in that order.
LEMMA ArrangementExists ==
  ASSUME NEW S, IsFiniteSet(S), NEW R, OrdersStrictly(R, S)
  PROVE  \E s : Arranges(s, S, R)
<1>. DEFINE T == {X \in SUBSET S : \A s : ~Arranges(s, X, R)}
<1>. SUFFICES ASSUME T # {} PROVE FALSE
  OBVIOUS
<1>1. PICK X \in T : \A Y \in T : ~(Y \subseteq X /\ Y # X)
  <2>1. T \in SUBSET (SUBSET S)
    OBVIOUS
  <2>. HIDE DEF T
  <2>. QED BY <2>1, MinimalSet
<1>2. X \in SUBSET S /\ IsFiniteSet(X) /\ OrdersStrictly(R, X)
  <2>1. X \in SUBSET S
    OBVIOUS
  <2>. QED BY <2>1, FS_Subset DEF OrdersStrictly
<1>3. X # {}
  <2>1. Arranges([a \in 1..0 |-> a], {}, R)
    BY FS_EmptySet DEF Arranges
  <2>. QED BY <2>1
<1>4. PICK m \in X : \A j \in X \ {m} : <<m, j>> \in R
  BY <1>2, <1>3, FirstMember
<1>. DEFINE n == Cardinality(X)
<1>5. n \in Nat /\ Cardinality(X \ {m}) = n - 1
  BY <1>2, FS_CardinalityType, FS_RemoveElement
<1>6. PICK u : Arranges(u, X \ {m}, R)
  <2>1. X \ {m} \notin T
    BY <1>1
  <2>. QED BY <1>2, <2>1
<1>7. u \in [1..(n - 1) -> X \ {m}] /\ \A a, b \in 1..(n - 1) : a < b => <<u[a], u[b]>> \in R
  BY <1>5, <1>6 DEF Arranges
<1>. DEFINE s == [a \in 1..n |-> IF a = 1 THEN m ELSE u[a - 1]]
<1>. HIDE DEF n, T
<1>8. s \in [1..n -> X]
  <2>1. \A a \in 1..n : a = 1 \/ a - 1 \in 1..(n - 1)
    BY <1>5
  <2>. QED BY <1>7, <2>1
<1>9. ASSUME NEW a \in 1..n, NEW b \in 1..n, a < b
      PROVE  <<s[a], s[b]>> \in R
  <2>1. b - 1 \in 1..(n - 1) /\ s[b] = u[b - 1] /\ u[b - 1] \in X \ {m}
    BY <1>5, <1>7, <1>9
  <2>2. CASE a = 1
    BY <1>4, <2>1, <2>2
  <2>3. CASE a # 1
    <3>1. a - 1 \in 1..(n - 1) /\ s[a] = u[a - 1] /\ a - 1 < b - 1
      BY <1>5, <1>9, <2>3
    <3>. QED BY <1>7, <2>1, <3>1
  <2>. QED BY <2>2, <2>3
<1>10. Arranges(s, X, R)
  <2>. HIDE DEF s
  <2>. QED BY <1>8, <1>9 DEF Arranges, n
<1>. QED BY <1>10 DEF T

\* A listing of a set leaves none of its members out.
LEMMA ArrangementOnto ==
  ASSUME NEW S, IsFiniteSet(S), NEW R, OrdersStrictly(R, S), NEW s, Arranges(s, S, R), NEW c \in S
  PROVE  \E a \in 1..Cardinality(S) : s[a] = c
<1>. DEFINE n == Cardinality(S)
<1>1. n \in Nat
  BY FS_CardinalityType
<1>2. s \in [1..n -> S] /\ \A a, b \in 1..n : a < b => <<s[a], s[b]>> \in R
  BY DEF Arranges
<1>. HIDE DEF n
<1>3. \A a, b \in 1..n : s[a] = s[b] => a = b
  <2>. SUFFICES ASSUME NEW a \in 1..n, NEW b \in 1..n, s[a] = s[b], a < b
                PROVE  FALSE
    BY <1>1
  <2>. QED BY <1>2 DEF OrdersStrictly
<1>4. s \in Injection(1..n, S)
  BY <1>2, <1>3 DEF Injection, IsInjective
<1>5. Cardinality(1..n) = n
  BY <1>1, FS_Interval
<1>6. s \in Surjection(1..n, S)
  BY <1>1, <1>4, <1>5, FS_Injection, Zenon DEF n
<1>. QED BY <1>2, <1>6 DEF Surjection, n

\* As many positions as there are members, if each holds one of its own.
LEMMA OneEach ==
  ASSUME NEW A, NEW B, IsFiniteSet(A), NEW f,
         \A a \in A : f[a] \in B,
         \A a, b \in A : f[a] = f[b] => a = b,
         \A c \in B : \E a \in A : f[a] = c
  PROVE  Cardinality(B) = Cardinality(A)
<1>. DEFINE g == [a \in A |-> f[a]]
<1>1. g \in Bijection(A, B)
  BY DEF Bijection, Injection, Surjection, IsInjective
<1>2. ExistsBijection(A, B)
  BY <1>1 DEF ExistsBijection
<1>. QED BY <1>2, FS_Bijection

-----------------------------------------------------------------------------
(* The figures of a trace.                                                 *)

\* The failures of a list are as many as there are, each from a place of its own.
LEMMA FailedOfAt ==
  ASSUME NEW n \in Nat, NEW s, DOMAIN s = 1..n,
         NEW at, at = {k \in 1..n : raw[s[k]].code = "error"}
  PROVE  /\ FailedOf(s) \in [1..Cardinality(at) -> {s[k] : k \in at}]
         /\ Cardinality(at) \in Nat
<1>. DEFINE R == {e \in (1..n) \X (1..n) : e[1] < e[2]}
            c == Cardinality(at)
<1>1. IsFiniteSet(at) /\ c \in Nat
  <2>1. IsFiniteSet(1..n)
    BY FS_Interval
  <2>. QED BY <2>1, FS_Subset, FS_CardinalityType
<1>2. OrdersStrictly(R, at)
  BY DEF OrdersStrictly
<1>3. PICK q : Arranges(q, at, R)
  BY <1>1, <1>2, ArrangementExists
<1>4. \E p \in [1..c -> at] : \A a, b \in DOMAIN p : a < b => p[a] < p[b]
  <2>1. q \in [1..c -> at] /\ \A a, b \in 1..c : a < b => <<q[a], q[b]>> \in R
    BY <1>3 DEF Arranges
  <2>2. \A a, b : <<a, b>> \in R => a < b
    OBVIOUS
  <2>. HIDE DEF c, R
  <2>. QED BY <2>1, <2>2
<1>. DEFINE kept == CHOOSE p \in [1..c -> at] : \A a, b \in DOMAIN p : a < b => p[a] < p[b]
<1>5. kept \in [1..c -> at]
  BY <1>4
<1>6. FailedOf(s) = [a \in 1..c |-> s[kept[a]]]
  BY DEF FailedOf
<1>. HIDE DEF kept, c
<1>7. FailedOf(s) \in [1..c -> {s[k] : k \in at}]
  BY <1>5, <1>6
<1>. QED BY <1>1, <1>7 DEF c

\* When the walk is done the order has a place for each span, and one only.
LEMMA WholeOrder ==
  ASSUME Inv, EachSpanOnce, Done
  PROVE  /\ Len(order) = N /\ DOMAIN order = 1..N
         /\ Walked \in [1..N -> Span]
         /\ \A a, b \in 1..N : Walked[a] = Walked[b] => a = b
         /\ \A i \in Span : \E a \in 1..N : Walked[a] = i
<1>. DEFINE n == Len(order)
<1>1. n \in Nat /\ DOMAIN order = 1..n /\ \A a \in 1..n : order[a].span \in Span
  <2>1. order \in Seq(Entries)
    BY DEF Inv, TypeOK
  <2>2. n \in Nat /\ DOMAIN order = 1..n /\ \A a \in 1..n : order[a] \in Entries
    BY <2>1
  <2>. QED BY <2>2 DEF Entries
<1>2. DOMAIN Walked = 1..n /\ \A a \in 1..n : Walked[a] = order[a].span
  BY <1>1 DEF Walked
<1>3. /\ \A a, b \in 1..n : Walked[a] = Walked[b] => a = b
      /\ \A i \in Span : \E a \in 1..n : Walked[a] = i
  BY <1>1, <1>2 DEF EachSpanOnce, EmittedOnce, EmittedAll
<1>. HIDE DEF n
<1>4. IsFiniteSet(1..n) /\ Cardinality(1..n) = n /\ Cardinality(Span) = N
  <2>1. IsFiniteSet(1..n) /\ Cardinality(1..n) = n
    BY <1>1, FS_Interval
  <2>. QED BY <2>1, SizeAssumption, FS_Interval DEF Span
<1>5. Cardinality(Span) = Cardinality(1..n)
  BY <1>1, <1>2, <1>3, <1>4, OneEach
<1>6. Walked = [a \in 1..n |-> order[a].span]
  BY <1>1 DEF Walked
<1>7. n = N
  BY <1>4, <1>5
<1>8. Walked \in [1..n -> Span]
  BY <1>1, <1>6
<1>. QED BY <1>1, <1>3, <1>7, <1>8 DEF n

\* `errors`: every failed span of the trace is in it, and nothing else.
LEMMA ErrorsAreFailed ==
  ASSUME Inv, EachSpanOnce, Done
  PROVE  errors \in [1..Cardinality(Failed) -> Failed] /\ Cardinality(Failed) \in Nat
<1>. DEFINE at == {k \in 1..N : raw[Walked[k]].code = "error"}
            c == Cardinality(at)
<1>1. /\ Walked \in [1..N -> Span] /\ N \in Nat
      /\ \A a, b \in 1..N : Walked[a] = Walked[b] => a = b
      /\ \A i \in Span : \E a \in 1..N : Walked[a] = i
  BY WholeOrder, SizeAssumption
<1>2. /\ FailedOf(Walked) \in [1..c -> {Walked[k] : k \in at}]
      /\ c \in Nat
  <2>1. DOMAIN Walked = 1..N /\ at = {k \in 1..N : raw[Walked[k]].code = "error"}
    BY <1>1
  <2>. HIDE DEF at
  <2>. QED BY <1>1, <2>1, FailedOfAt
<1>3. {Walked[k] : k \in at} = Failed
  BY <1>1 DEF Failed
<1>4. IsFiniteSet(at)
  <2>1. IsFiniteSet(1..N)
    BY <1>1, FS_Interval
  <2>. QED BY <2>1, FS_Subset
<1>5. c = Cardinality(Failed)
  <2>1. \A k \in at : Walked[k] \in Failed
    BY <1>3
  <2>2. \A a, b \in at : Walked[a] = Walked[b] => a = b
    BY <1>1
  <2>3. \A i \in Failed : \E k \in at : Walked[k] = i
    BY <1>3
  <2>. HIDE DEF at
  <2>. QED BY <1>4, <2>1, <2>2, <2>3, OneEach
<1>. QED BY <1>2, <1>3, <1>5 DEF errors

\* Durations are numbers: those of spans whose end is missing are 0.
LEMMA DurationType ==
  ASSUME Collected, NEW i \in Span
  PROVE  duration(i) \in Nat
<1>1. raw[i].start \in Times \cup {Missing} /\ raw[i].end \in Times \cup {Missing}
  BY DocumentAssumption DEF Collected, RawSpans
<1>2. \A t \in Times \cup {Missing} : nanos(t) \in Nat
  BY NanosAssumption DEF nanos
<1>3. start[i] \in Nat
  BY <1>1, <1>2 DEF Collected, collect_spans
<1>. QED BY <1>1, <1>2, <1>3 DEF duration, Later

\* The stable sort by duration has a result: every span once, none after a
\* shorter one.
LEMMA ByDurationSorts ==
  ASSUME Inv, EachSpanOnce, Done, Collected
  PROVE  /\ by_duration \in [1..N -> Span]
         /\ \A i \in Span : \E k \in 1..N : by_duration[k] = i
         /\ \A a, b \in 1..N : a < b => duration(by_duration[a]) >= duration(by_duration[b])
<1>. DEFINE d == [i \in Span |-> duration(i)]
            earlier(i, j) == \E m, n \in 1..N : m < n /\ Walked[m] = i /\ Walked[n] = j
            first(i, j) == d[i] > d[j] \/ (d[i] = d[j] /\ earlier(i, j))
            R == {e \in Span \X Span : first(e[1], e[2])}
            OK(s) == /\ \A i \in Span : \E k \in DOMAIN s : s[k] = i
                     /\ \A a, b \in DOMAIN s : a < b =>
                          \/ duration(s[a]) > duration(s[b])
                          \/ /\ duration(s[a]) = duration(s[b])
                             /\ \E m, n \in DOMAIN Walked : m < n /\ Walked[m] = s[a] /\ Walked[n] = s[b]
<1>1. /\ Walked \in [1..N -> Span] /\ N \in Nat
      /\ \A a, b \in 1..N : Walked[a] = Walked[b] => a = b
      /\ \A i \in Span : \E a \in 1..N : Walked[a] = i
  BY WholeOrder, SizeAssumption
<1>2. d \in [Span -> Nat] /\ \A i \in Span : d[i] = duration(i)
  BY DurationType
<1>. HIDE DEF d
<1>3. IsFiniteSet(Span) /\ Cardinality(Span) = N
  BY SizeAssumption, FS_Interval DEF Span
<1>4. \A i \in Span : ~earlier(i, i)
  <2>1. \A m, n \in 1..N : m < n => m # n
    OBVIOUS
  <2>. QED BY <1>1, <2>1
<1>5. \A i, j \in Span : i = j \/ earlier(i, j) \/ earlier(j, i)
  <2>. SUFFICES ASSUME NEW i \in Span, NEW j \in Span, i # j
                PROVE  earlier(i, j) \/ earlier(j, i)
    OBVIOUS
  <2>1. PICK m \in 1..N, n \in 1..N : Walked[m] = i /\ Walked[n] = j
    BY <1>1
  <2>2. m < n \/ n < m
    BY <2>1
  <2>. QED BY <2>1, <2>2
<1>6. \A i, j, k \in Span : earlier(i, j) /\ earlier(j, k) => earlier(i, k)
  <2>. SUFFICES ASSUME NEW i \in Span, NEW j \in Span, NEW k \in Span,
                       earlier(i, j), earlier(j, k)
                PROVE  earlier(i, k)
    OBVIOUS
  <2>1. PICK m \in 1..N, n \in 1..N : m < n /\ Walked[m] = i /\ Walked[n] = j
    OBVIOUS
  <2>2. PICK q \in 1..N, r \in 1..N : q < r /\ Walked[q] = j /\ Walked[r] = k
    OBVIOUS
  <2>3. m < r
    BY <1>1, <2>1, <2>2
  <2>. QED BY <2>1, <2>2, <2>3
<1>. HIDE DEF earlier
<1>7. \A i, j \in Span : <<i, j>> \in R <=> first(i, j)
  OBVIOUS
<1>8. /\ \A i \in Span : ~first(i, i)
      /\ \A i, j \in Span : i = j \/ first(i, j) \/ first(j, i)
      /\ \A i, j, k \in Span : first(i, j) /\ first(j, k) => first(i, k)
  BY <1>2, <1>4, <1>5, <1>6
<1>9. OrdersStrictly(R, Span)
  <2>. HIDE DEF R, first
  <2>. QED BY <1>7, <1>8 DEF OrdersStrictly
<1>10. PICK s : Arranges(s, Span, R)
  <2>. HIDE DEF R
  <2>. QED BY <1>3, <1>9, ArrangementExists
<1>11. /\ s \in [1..N -> Span]
       /\ \A a, b \in 1..N : a < b => <<s[a], s[b]>> \in R
       /\ \A i \in Span : \E k \in 1..N : s[k] = i
  <2>. HIDE DEF R
  <2>1. \A i \in Span : \E k \in 1..Cardinality(Span) : s[k] = i
    BY <1>3, <1>9, <1>10, ArrangementOnto
  <2>. QED BY <1>3, <1>10, <2>1 DEF Arranges
<1>12. Len(Walked) = N /\ DOMAIN Walked = 1..N
  BY <1>1
<1>13. OK(s)
  <2>1. \A a, b \in 1..N : a < b => first(s[a], s[b])
    <3>. HIDE DEF R, first
    <3>. QED BY <1>7, <1>11
  <2>2. ASSUME NEW a \in 1..N, NEW b \in 1..N, a < b
        PROVE  \/ duration(s[a]) > duration(s[b])
               \/ /\ duration(s[a]) = duration(s[b])
                  /\ \E m, n \in 1..N : m < n /\ Walked[m] = s[a] /\ Walked[n] = s[b]
    BY <1>2, <1>11, <2>1, <2>2 DEF earlier
  <2>3. DOMAIN s = 1..N
    BY <1>11
  <2>4. \A i \in Span : \E k \in DOMAIN s : s[k] = i
    BY <1>11, <2>3
  <2>5. \A a, b \in DOMAIN s : a < b =>
          \/ duration(s[a]) > duration(s[b])
          \/ /\ duration(s[a]) = duration(s[b])
             /\ \E m, n \in DOMAIN Walked : m < n /\ Walked[m] = s[a] /\ Walked[n] = s[b]
    BY <1>12, <2>2, <2>3
  <2>. QED BY <2>4, <2>5
<1>14. by_duration = CHOOSE t \in [1..N -> Span] : OK(t)
  BY <1>12 DEF by_duration
<1>15. by_duration \in [1..N -> Span] /\ OK(by_duration)
  <2>1. \E t \in [1..N -> Span] : OK(t)
    BY <1>11, <1>13
  <2>. HIDE DEF OK
  <2>. QED BY <1>14, <2>1
<1>16. DOMAIN by_duration = 1..N
  BY <1>15
<1>17. ASSUME NEW a \in 1..N, NEW b \in 1..N, a < b
       PROVE  duration(by_duration[a]) >= duration(by_duration[b])
  <2>1. by_duration[a] \in Span /\ by_duration[b] \in Span
    BY <1>15
  <2>2. duration(by_duration[a]) \in Nat /\ duration(by_duration[b]) \in Nat
    BY <2>1, DurationType
  <2>3. \/ duration(by_duration[a]) > duration(by_duration[b])
        \/ duration(by_duration[a]) = duration(by_duration[b])
    BY <1>15, <1>16, <1>17
  <2>. QED BY <2>2, <2>3
<1>. QED BY <1>15, <1>16, <1>17

\* The first n elements of a sequence, or all of it.
LEMMA TakeIs ==
  ASSUME NEW S, NEW s \in Seq(S), NEW n \in Nat, NEW m \in Nat,
         Len(s) < n => m = Len(s), ~(Len(s) < n) => m = n
  PROVE  /\ Take(s, n) \in Seq(S) /\ Len(Take(s, n)) = m /\ m <= Len(s)
         /\ \A k \in 1..m : Take(s, n)[k] = s[k]
<1>1. m \in 0..Len(s)
  OBVIOUS
<1>2. Take(s, n) = SubSeq(s, 1, m)
  BY DEF Take
<1>3. /\ SubSeq(s, 1, m) \in Seq(S) /\ Len(SubSeq(s, 1, m)) = m
      /\ \A k \in 1..m : SubSeq(s, 1, m)[k] = s[k]
  BY <1>1
<1>. QED BY <1>1, <1>2, <1>3

\* The cut takes from the list alone: errors and the slowest spans are those of
\* the whole trace, and what is shown and what is omitted add up to it.
LEMMA CutKeeps ==
  ASSUME Inv, EachSpanOnce, ViewInv
  PROVE  CutKeepsFigures
<1>. SUFFICES ASSUME answer # NoAnswer
              PROVE  CutKeepsFigures
  BY DEF CutKeepsFigures, Answered
<1>1. Done /\ Collected /\ answer = trace_tree
  BY DEF ViewInv, Rendered
<1>2. /\ answer.errorCount = Len(errors)
      /\ answer.errors = Take(errors, MAX_ERRORS)
      /\ answer.slowest = Take(by_duration, SLOWEST)
      /\ answer.spans = Listed(order)
      /\ answer.omittedSpans = N - Len(Take(order, max_spans))
  BY <1>1 DEF trace_tree
<1>3. N \in Nat /\ MAX_ERRORS \in Nat /\ SLOWEST \in Nat /\ max_spans \in Nat
  BY <1>1, SizeAssumption, ViewAssumption DEF Collected
<1>4. /\ errors \in [1..Cardinality(Failed) -> Failed] /\ Cardinality(Failed) \in Nat
  BY <1>1, ErrorsAreFailed
<1>. DEFINE c == Cardinality(Failed)
            e == IF c < MAX_ERRORS THEN c ELSE MAX_ERRORS
<1>5. Len(errors) = c /\ Len(answer.errors) = e /\ In(answer.errors) \subseteq Failed
  <2>. HIDE DEF c
  <2>1. c \in Nat /\ errors \in [1..c -> Failed] /\ e \in Nat
        /\ (c < MAX_ERRORS => e = c) /\ (~(c < MAX_ERRORS) => e = MAX_ERRORS)
    BY <1>3, <1>4 DEF c
  <2>. HIDE DEF e
  <2>2. /\ Len(errors) = c /\ e \in 0..c
        /\ Len(answer.errors) = e /\ DOMAIN answer.errors = 1..e
        /\ \A k \in 1..e : answer.errors[k] = errors[k]
    <3>1. errors \in Seq(Failed) /\ Len(errors) = c
      BY <2>1
    <3>2. /\ Take(errors, MAX_ERRORS) \in Seq(Failed) /\ Len(Take(errors, MAX_ERRORS)) = e
          /\ e <= Len(errors)
          /\ \A k \in 1..e : Take(errors, MAX_ERRORS)[k] = errors[k]
      BY <1>3, <2>1, <3>1, TakeIs
    <3>. QED BY <1>2, <2>1, <3>1, <3>2
  <2>3. \A k \in 1..e : k \in 1..c
    BY <2>1, <2>2
  <2>. QED BY <2>1, <2>2, <2>3 DEF In
<1>. DEFINE m == IF N < SLOWEST THEN N ELSE SLOWEST
<1>6. /\ by_duration \in [1..N -> Span]
      /\ \A i \in Span : \E k \in 1..N : by_duration[k] = i
      /\ \A a, b \in 1..N : a < b => duration(by_duration[a]) >= duration(by_duration[b])
  BY <1>1, ByDurationSorts
<1>7. /\ Len(answer.slowest) = m /\ m \in 0..N
      /\ DOMAIN answer.slowest = 1..m
      /\ \A k \in 1..m : answer.slowest[k] = by_duration[k]
  <2>1. m \in Nat /\ (N < SLOWEST => m = N) /\ (~(N < SLOWEST) => m = SLOWEST)
    BY <1>3
  <2>. HIDE DEF m
  <2>2. by_duration \in Seq(Span) /\ Len(by_duration) = N
    BY <1>3, <1>6
  <2>3. /\ Take(by_duration, SLOWEST) \in Seq(Span) /\ Len(Take(by_duration, SLOWEST)) = m
        /\ m <= Len(by_duration)
        /\ \A k \in 1..m : Take(by_duration, SLOWEST)[k] = by_duration[k]
    BY <1>3, <2>1, <2>2, TakeIs
  <2>. QED BY <1>2, <1>3, <2>1, <2>2, <2>3
<1>8. ASSUME NEW i \in In(answer.slowest), NEW j \in Span \ In(answer.slowest)
      PROVE  duration(i) >= duration(j)
  <2>. HIDE DEF m
  <2>1. PICK a \in 1..m : i = by_duration[a]
    BY <1>7 DEF In
  <2>2. PICK b \in 1..N : j = by_duration[b]
    BY <1>6
  <2>3. b \notin 1..m
    BY <1>7, <2>2 DEF In
  <2>4. a \in 1..N /\ a < b
    BY <1>3, <1>7, <2>3
  <2>. QED BY <1>6, <2>1, <2>2, <2>4
<1>9. Cardinality(Shown) + answer.omittedSpans = N
  <2>. DEFINE n == IF N < max_spans THEN N ELSE max_spans
  <2>1. order \in [1..N -> Entries]
    BY <1>1, WholeOrder DEF Inv, TypeOK
  <2>2. n \in Nat /\ (N < max_spans => n = N) /\ (~(N < max_spans) => n = max_spans)
    BY <1>3
  <2>. HIDE DEF n
  <2>3. n \in 0..N /\ Len(Take(order, max_spans)) = n /\ DOMAIN Take(order, max_spans) = 1..n
    <3>1. order \in Seq(Entries) /\ Len(order) = N
      BY <1>3, <2>1
    <3>2. /\ Take(order, max_spans) \in Seq(Entries) /\ Len(Take(order, max_spans)) = n
          /\ n <= Len(order)
      BY <1>3, <2>2, <3>1, TakeIs
    <3>. QED BY <2>2, <3>1, <3>2
  <2>4. DOMAIN answer.spans = 1..n /\ \A k \in 1..n : answer.spans[k].span = order[k].span
    BY <1>2, <2>3 DEF Listed, span_entry
  <2>5. \A a, b \in 1..n : a \in 1..N /\ (order[a].span = order[b].span => a = b)
    BY <1>1, <1>3, <2>1, <2>3 DEF EachSpanOnce, EmittedOnce
  <2>6. Shown = {order[k].span : k \in 1..n}
    BY <2>4 DEF Shown
  <2>7. IsFiniteSet(1..n) /\ Cardinality(1..n) = n
    BY <2>3, FS_Interval
  <2>8. Cardinality(Shown) = Cardinality(1..n)
    <3>. DEFINE f == [k \in 1..n |-> order[k].span]
    <3>1. /\ \A k \in 1..n : f[k] \in Shown
          /\ \A a, b \in 1..n : f[a] = f[b] => a = b
          /\ \A i \in Shown : \E k \in 1..n : f[k] = i
      BY <2>5, <2>6
    <3>. HIDE DEF f
    <3>. QED BY <2>7, <3>1, OneEach
  <2>. QED BY <1>2, <1>3, <2>3, <2>7, <2>8
<1>. QED BY <1>2, <1>5, <1>7, <1>8, <1>9 DEF CutKeepsFigures

-----------------------------------------------------------------------------
\* `trace`: a listed span whose parent arrived is listed one level below it,
\* however the two IDs are encoded, unless it is its own parent or in a cycle.
THEOREM LinksAreKept == ViewSpec => []LinksSurvive
<1>1. Inv /\ SiblingInv /\ RootInv /\ ReadsAsTree /\ ViewInv => LinksSurvive
  <2>. SUFFICES ASSUME Inv, SiblingInv, RootInv, ReadsAsTree, ViewInv, answer # NoAnswer,
                       NEW k \in DOMAIN answer.spans
                PROVE  LET i == answer.spans[k].span  depth == answer.spans[k].depth IN
                       IF depth = 0 THEN Named(i) = {} \/ i \in Named(i) \/ i \notin Rooted
                       ELSE \E m \in 1..(k - 1) : /\ answer.spans[m].span \in Named(i)
                                                  /\ answer.spans[m].depth = depth - 1
    BY DEF LinksSurvive, Answered
  <2>. DEFINE i == order[k].span
              depth == order[k].depth
  <2>1. answer.spans = Listed(order)
    BY DEF ViewInv, Rendered, trace_tree
  <2>2. /\ k \in DOMAIN order /\ i \in Span /\ depth \in Nat
        /\ answer.spans[k].span = i /\ answer.spans[k].depth = depth
    BY <2>1, ListedEntries DEF ViewInv, span_entry, Entries
  <2>3. \A m \in 1..(k - 1) : /\ answer.spans[m].span = order[m].span
                              /\ answer.spans[m].depth = order[m].depth
    <3>. SUFFICES ASSUME NEW m \in 1..(k - 1)
                  PROVE  /\ answer.spans[m].span = order[m].span
                         /\ answer.spans[m].depth = order[m].depth
      OBVIOUS
    <3>1. m \in DOMAIN Listed(order)
      BY <2>1, ListedEntries DEF ViewInv
    <3>. QED BY <2>1, <3>1, ListedEntries DEF ViewInv, span_entry
  <2>. HIDE DEF i, depth
  <2>4. Named(i) = {j \in Span : id[j] = parent[i]}
    BY <2>2, NamedIsLinked DEF ViewInv
  <2>5. CASE depth # 0
    <3>1. IsChild(i)
      BY <2>2, <2>5 DEF SiblingInv, PutByParent, i, depth
    <3>2. ById(parent[i]) \in Named(i)
      BY <2>4, <3>1, ByIdHasId DEF IsChild
    <3>3. PICK m \in 1..(k - 1) : order[m].span = ById(parent[i]) /\ order[m].depth = depth - 1
      BY <2>2, <2>5 DEF ReadsAsTree, i, depth
    <3>. QED BY <2>2, <2>3, <2>5, <3>2, <3>3
  <2>6. CASE depth = 0 /\ i \in Rooted
    <3>1. ~IsChild(i)
      BY <2>2, <2>6 DEF RootInv, RootedBelow, Roots, i, depth
    <3>2. Named(i) = {} \/ i \in Named(i)
      BY <2>2, <2>4, <3>1, ByIdHasId DEF IsChild
    <3>. QED BY <2>2, <2>6, <3>2
  <2>7. CASE depth = 0 /\ i \notin Rooted
    BY <2>2, <2>7
  <2>. QED BY <2>5, <2>6, <2>7
<1>. QED BY WalkIsTreeOrder, WalkInvariant, TreeReadable, ViewInvariant, <1>1, PTL

\* `startMs` and `durationMs`: every listed span whose times arrived lies within
\* the trace's start and duration, which are those of all its spans.
THEOREM TimesWithinTrace == ViewSpec => []SpansWithinTrace
<1>1. Inv /\ ViewInv => SpansWithinTrace
  <2>. SUFFICES ASSUME Inv, ViewInv, answer # NoAnswer, NEW k \in DOMAIN answer.spans
                PROVE  LET e == answer.spans[k] IN
                       /\ e.startMs >= 0
                       /\ /\ raw[e.span].start # Missing /\ raw[e.span].end # Missing
                          /\ raw[e.span].end >= raw[e.span].start
                          => e.startMs + e.durationMs <= answer.durationMs
    BY DEF SpansWithinTrace, Answered
  <2>. DEFINE i == order[k].span
              ends == [j \in Span |-> nanos(raw[j].end)]
  <2>1. /\ answer.spans = Listed(order)
        /\ answer.durationMs = Later(trace_end - trace_start, 0)
    BY DEF ViewInv, Rendered, trace_tree
  <2>2. /\ i \in Span /\ answer.spans[k].span = i
        /\ answer.spans[k].startMs = start[i] - trace_start
        /\ answer.spans[k].durationMs = duration(i)
    BY <2>1, ListedEntries DEF ViewInv, span_entry, Entries
  <2>. HIDE DEF i
  <2>3. /\ start \in [Span -> Nat]
        /\ \A j \in Span : start[j] = nanos(raw[j].start) /\ ends[j] \in Nat
    <3>1. \A j \in Span : raw[j].start \in Times \cup {Missing} /\ raw[j].end \in Times \cup {Missing}
      BY DocumentAssumption DEF ViewInv, Collected, RawSpans
    <3>2. \A t \in Times \cup {Missing} : nanos(t) \in Nat
      BY NanosAssumption DEF nanos
    <3>3. start = [j \in Span |-> nanos(raw[j].start)]
      BY DEF ViewInv, Collected, collect_spans
    <3>. QED BY <3>1, <3>2, <3>3
  <2>4. trace_start \in Nat /\ \A j \in Span : trace_start <= start[j]
    <3>1. PICK a \in Span : \A j \in Span : start[a] <= start[j]
      BY <2>2, <2>3, LeastMember
    <3>. DEFINE S == {start[j] : j \in Span}
    <3>2. \E t \in S : \A b \in S : t <= b
      BY <3>1
    <3>3. trace_start \in S /\ \A b \in S : trace_start <= b
      BY <3>2 DEF trace_start, Least
    <3>. QED BY <2>3, <3>3
  <2>5. trace_end \in Nat /\ \A j \in Span : ends[j] <= trace_end
    <3>. DEFINE f == [j \in Span |-> 0 - ends[j]]
                S == {nanos(raw[j].end) : j \in Span}
    <3>1. PICK a \in Span : \A j \in Span : f[a] <= f[j]
      <4>1. \A j \in Span : f[j] \in Int
        BY <2>3
      <4>. HIDE DEF f
      <4>. QED BY <2>2, <4>1, LeastMember
    <3>2. \A j \in Span : ends[j] <= ends[a]
      BY <2>3, <3>1
    <3>3. \E t \in S : \A b \in S : t >= b
      BY <3>2, <2>3
    <3>4. trace_end \in S /\ \A b \in S : trace_end >= b
      BY <3>3 DEF trace_end, Greatest
    <3>. QED BY <2>3, <3>4
  <2>6. ASSUME raw[i].start # Missing, raw[i].end # Missing, raw[i].end >= raw[i].start
        PROVE  start[i] - trace_start + duration(i) <= answer.durationMs
    <3>1. start[i] = raw[i].start /\ ends[i] = raw[i].end /\ nanos(raw[i].end) = raw[i].end
      BY <2>2, <2>3, <2>6 DEF nanos
    <3>2. duration(i) = raw[i].end - start[i]
      BY <2>2, <2>3, <2>6, <3>1 DEF duration, Later
    <3>. HIDE DEF ends
    <3>. QED BY <2>1, <2>2, <2>3, <2>4, <2>5, <3>1, <3>2 DEF Later
  <2>. QED BY <2>2, <2>3, <2>4, <2>6
<1>. QED BY WalkIsTreeOrder, Invariance, ViewInvariant, <1>1, PTL

\* The figures of `trace` are those of the whole trace for every document and
\* every max_spans: counted, sorted and timed before anything is cut.
THEOREM FiguresKept == ViewSpec => []FiguresOfWholeTrace
<1>1. Inv /\ EachSpanOnce /\ ViewInv => CutKeepsFigures
  BY CutKeeps
<1>2. [](CutKeepsFigures /\ SpansWithinTrace) => []FiguresOfWholeTrace
  BY PTL DEF FiguresOfWholeTrace
<1>. QED BY WalkIsTreeOrder, Invariance, ViewListsOnce, ViewInvariant, TimesWithinTrace, <1>1, <1>2, PTL
=============================================================================
