------------------------------ MODULE SpanTree ------------------------------
(***************************************************************************)
(* `tree_order` of tempomcp (compact.rs): the depth-first order in which   *)
(* the spans of one trace are listed, whatever their parent links say:     *)
(* missing parents, self parents, cycles and repeated IDs included.        *)
(*                                                                          *)
(* A step is one turn of one of the two walking loops.  Child lists are    *)
(* kept as sets: each is sorted by one total order (Before), so the sorted *)
(* list is the set's listing in that order.                                *)
(*                                                                          *)
(* X_variant, next to X, is a deliberately faulty variant of X; README.md   *)
(* says which property each one breaks.                                     *)
(***************************************************************************)
EXTENDS Integers, Sequences, FiniteSets

CONSTANTS
  N,         (* the number of spans in the trace                            *)
  Ids,       (* span IDs, ordered as numbers                                *)
  NoParent,  (* the parent of a span that names none                        *)
  Times      (* start times                                                 *)

ASSUME SizeAssumption == N \in Nat
ASSUME IdAssumption == Ids \subseteq Int /\ NoParent \notin Ids
ASSUME TimeAssumption == Times \subseteq Int

Span == 1..N

VARIABLES
  id,        (* per span: its ID                                            *)
  parent,    (* per span: the ID it names as its parent, or NoParent        *)
  start,     (* per span: when it started                                   *)
  starts,    (* the start spans still to walk from, in order                *)
  stack,     (* spans to visit with their depths, the top first             *)
  visited,   (* the spans emitted                                           *)
  order      (* what is emitted: spans with their depths                    *)

input == <<id, parent, start>>
vars == <<id, parent, start, starts, stack, visited, order>>

Entries == [span : Span, depth : Nat]

-----------------------------------------------------------------------------
(* Linking spans: `by_id`, `children`, `roots`.                            *)

\* `by_id`: the first span with an ID answers for it.
ById(p) ==
  CHOOSE i \in Span : id[i] = p /\ \A j \in Span : id[j] = p => i <= j

\* A span hangs below the span its parent ID names, unless that is missing
\* from the trace or is the span itself: then the span is a root.
IsChild(i) == (\E j \in Span : id[j] = parent[i]) /\ ById(parent[i]) # i

Children(p) == {i \in Span : IsChild(i) /\ ById(parent[i]) = p}
Roots == {i \in Span : ~IsChild(i)}

\* The sort key (start time, ID); the sort is stable, so index decides last.
Before(i, j) ==
  \/ start[i] < start[j]
  \/ start[i] = start[j] /\ (id[i] < id[j] \/ (id[i] = id[j] /\ i < j))

\* The listing of a set of spans in sorted order.
Sorted(S) ==
  {s \in [1..Cardinality(S) -> S] :
     \A a, b \in DOMAIN s : a < b => Before(s[a], s[b])}

-----------------------------------------------------------------------------
\* `roots.into_iter().chain(0..spans.len())`
Chain_rootsOnly(s) == s
Chain_indexFirst(s) == [i \in Span |-> i] \o s
Chain(s) == s \o [i \in Span |-> i]

Init ==
  /\ id \in [Span -> Ids]
  /\ parent \in [Span -> Ids \cup {NoParent}]
  /\ start \in [Span -> Times]
  /\ \E s \in Sorted(Roots) : starts = Chain(s)
  /\ stack = <<>>
  /\ visited = {}
  /\ order = <<>>

\* `for start in ..`: a new stack with the next start span at depth 0.
NextStart ==
  /\ stack = <<>>
  /\ starts # <<>>
  /\ stack' = <<[span |-> Head(starts), depth |-> 0]>>
  /\ starts' = Tail(starts)
  /\ UNCHANGED <<id, parent, start, visited, order>>

Skip_keeps ==
  /\ stack # <<>>
  /\ Head(stack).span \in visited
  /\ UNCHANGED vars

\* `if !visited.insert(i) { continue; }`
Skip ==
  /\ stack # <<>>
  /\ Head(stack).span \in visited
  /\ stack' = Tail(stack)
  /\ UNCHANGED <<id, parent, start, starts, visited, order>>

Pushed_notReversed(i, s, depth) ==
  [a \in DOMAIN s |-> [span |-> s[Len(s) + 1 - a], depth |-> depth + 1]]

\* The unvisited children s of span i as stack entries.  The code pushes them
\* in reverse, so that the earliest ends up on top.
Pushed(i, s, depth) == [a \in DOMAIN s |-> [span |-> s[a], depth |-> depth + 1]]

Visit_breadthFirst ==
  /\ stack # <<>>
  /\ Head(stack).span \notin visited
  /\ LET i == Head(stack).span
         depth == Head(stack).depth
     IN  /\ visited' = visited \cup {i}
         /\ order' = Append(order, Head(stack))
         /\ \E s \in Sorted(Children(i) \ visited') :
              stack' = Tail(stack) \o Pushed(i, s, depth)
  /\ UNCHANGED <<id, parent, start, starts>>

\* Emit the top span and put its unvisited children on top of the stack.
Visit ==
  /\ stack # <<>>
  /\ Head(stack).span \notin visited
  /\ LET i == Head(stack).span
         depth == Head(stack).depth
     IN  /\ visited' = visited \cup {i}
         /\ order' = Append(order, Head(stack))
         /\ \E s \in Sorted(Children(i) \ visited') :
              stack' = Pushed(i, s, depth) \o Tail(stack)
  /\ UNCHANGED <<id, parent, start, starts>>

Next == NextStart \/ Skip \/ Visit

Spec == Init /\ [][Next]_vars

Done == stack = <<>> /\ starts = <<>>

-----------------------------------------------------------------------------
(* Properties.                                                             *)

\* Every variable has its type.
TypeOK ==
  /\ id \in [Span -> Ids]
  /\ parent \in [Span -> Ids \cup {NoParent}]
  /\ start \in [Span -> Times]
  /\ starts \in Seq(Span)
  /\ stack \in Seq(Entries)
  /\ visited \subseteq Span
  /\ order \in Seq(Entries)

\* No span is emitted twice, cycles and repeated IDs included.
EmittedOnce ==
  \A a, b \in DOMAIN order : order[a].span = order[b].span => a = b

\* When the walk ends every span has been emitted: none is lost to a missing
\* parent or a cycle.
EmittedAll == Done => \A i \in Span : \E a \in DOMAIN order : order[a].span = i

\* tree_order emits each span once: none twice, and in the end none is missing.
EachSpanOnce == EmittedOnce /\ EmittedAll

\* The flat list with depths reads as the tree: the parent of an entry is the
\* nearest entry above it that is one level shallower.
ReadsAsTree ==
  \A b \in DOMAIN order : order[b].depth > 0 =>
    \E a \in 1..(b - 1) :
      /\ order[a].span = ById(parent[order[b].span])
      /\ order[a].depth = order[b].depth - 1
      /\ \A m \in (a + 1)..(b - 1) : order[m].depth >= order[b].depth

\* Entries that hang below the same parent are listed by start time and ID.
SiblingsInOrder ==
  \A a, b \in DOMAIN order :
    LET i == order[a].span
        j == order[b].span
    IN  /\ a < b
        /\ order[a].depth > 0 /\ order[b].depth > 0
        /\ ById(parent[i]) = ById(parent[j])
        => Before(i, j)

\* What the roots reach: the least set that has them and its members' children.
Rooted ==
  LET roots == Roots
      children == [p \in Span |-> Children(p)]
  IN  {i \in Span : \A R \in SUBSET Span :
         roots \subseteq R /\ (\A p \in R : children[p] \subseteq R) => i \in R}

\* Roots are at depth 0, in order of start time; what no root reaches (the
\* parent cycles) comes after everything a root reaches.
CyclesLast ==
  LET rooted == Rooted
      roots == Roots
  IN  /\ \A a \in DOMAIN order : order[a].span \in roots => order[a].depth = 0
      /\ \A a, b \in DOMAIN order :
           a < b =>
             /\ order[b].span \in rooted => order[a].span \in rooted
             /\ order[a].span \in roots /\ order[b].span \in roots =>
                  Before(order[a].span, order[b].span)
=============================================================================
