----------------------------- MODULE LinkedList -----------------------------
(***************************************************************************)
(* struct LinkedList of LinkedList.swift, on the heap. A list is a struct  *)
(* of two references and a count; a copy of the struct shares the nodes.   *)
(* MapNext has the operations that Map uses, Next all that change a list.  *)
(* A call that traps (a failed precondition, a forced nil) ends the        *)
(* program and is no step.                                                 *)
(***************************************************************************)
EXTENDS Integers, SequencesExt

CONSTANTS
  Lists,       \* the variables that hold lists
  Elements,
  Addr,        \* addresses of nodes
  Nil

ASSUME ListAssumption == IsFiniteSet(Addr) /\ Nil \notin Addr

VARIABLES
  heap,        \* the nodes that are alive: [value, next, previous]
  lists        \* the lists there are: [headNode, tailNode, count]

vars == << heap, lists >>

Ref == Addr \cup {Nil}
Node == [value : Elements, next : Ref, previous : Ref]

Init == heap = << >> /\ lists = << >>

-----------------------------------------------------------------------------

\* The addresses that the first k new nodes get.
Fresh(k) == CHOOSE as \in Injection(1 .. k, Addr \ DOMAIN heap) : TRUE
Room(k) == Cardinality(Addr \ DOMAIN heap) >= k

\* The heap with the new nodes too
With(nodes) ==
  [a \in DOMAIN heap \cup DOMAIN nodes |-> IF a \in DOMAIN heap THEN heap[a] ELSE nodes[a]]

\* chain(of:), at the addresses as, and the list it makes
Chain(vs, as) ==
  [a \in ToSet(as) |->
     LET i == CHOOSE j \in DOMAIN as : as[j] = a
     IN  [value    |-> vs[i],
          next     |-> IF i = Len(as) THEN Nil ELSE as[i + 1],
          previous |-> IF i = 1 THEN Nil ELSE as[i - 1]]]

ListOf(as) ==
  [headNode |-> IF as = << >> THEN Nil ELSE Head(as),
   tailNode |-> IF as = << >> THEN Nil ELSE Last(as),
   count    |-> Len(as)]

\* The nodes that the Iterator of a list visits, along next (bound: one more than
\* there can be nodes, so that a cycle shows).
NodesOf(h, list) ==
  LET at[i \in 1 .. Cardinality(Addr) + 1] ==
        IF i = 1 THEN list.headNode
        ELSE IF at[i - 1] = Nil THEN Nil ELSE h[at[i - 1]].next
  IN  [i \in {j \in DOMAIN at : at[j] # Nil} |-> at[i]]

Walk(l) == NodesOf(heap, lists[l])
Value(l) == [i \in DOMAIN Walk(l) |-> heap[Walk(l)[i]].value]

\* The node of the index i steps after startIndex
NodeAt(l, i) == IF i < Len(Walk(l)) THEN Walk(l)[i + 1] ELSE Nil

\* Reference counting: headNode, tailNode and next keep a node alive, previous is
\* weak and becomes nil when its node dies.
Held(h, ls, C) ==
  /\ \A l \in DOMAIN ls : {ls[l].headNode, ls[l].tailNode} \subseteq C \cup {Nil}
  /\ \A a \in C : h[a].next \in C \cup {Nil}

Store(h, ls) ==
  LET alive == {a \in DOMAIN h : \A C \in SUBSET DOMAIN h : Held(h, ls, C) => a \in C}
  IN  /\ lists' = ls
      /\ heap' = [a \in alive |-> [h[a] EXCEPT !.previous = IF @ \in alive THEN @ ELSE Nil]]

\* Optional chaining: a?.next = b and a?.previous = b
SetNext(h, a, b) == IF a = Nil THEN h ELSE [h EXCEPT ![a].next = b]
SetPrevious(h, a, b) == IF a = Nil THEN h ELSE [h EXCEPT ![a].previous = b]

\* LinkedList(arrayLiteral:) into a variable
Literal(l, vs) ==
  /\ Room(Len(vs))
  /\ Store(With(Chain(vs, Fresh(Len(vs)))),
           [m \in DOMAIN lists \cup {l} |->
              IF m = l THEN ListOf(Fresh(Len(vs))) ELSE lists[m]])

\* An assignment of one list to another variable
Copy(l, m) ==
  Store(heap, [k \in DOMAIN lists \cup {m} |-> IF k = m THEN lists[l] ELSE lists[k]])

\* Seeded fault: the new node is linked past the one it comes before.
SplicedOver(l, e, i) ==
  LET list == lists[l]
      new  == Fresh(1)[1]
      nxt  == IF i = list.count THEN Nil ELSE NodeAt(l, i)
      prv  == IF i = list.count THEN list.tailNode ELSE IF nxt = Nil THEN Nil ELSE heap[nxt].previous
      past == IF nxt = Nil THEN Nil ELSE heap[nxt].next
      h    == With([a \in {new} |-> [value |-> e, next |-> past, previous |-> prv]])
  IN  SetPrevious(SetNext(h, prv, new), past, new)

\* The nodes after insert(_:at:). Indices compare by their offsets: an insertion
\* at endIndex follows tailNode, another one precedes the node of the index.
Spliced(l, e, i) ==
  LET list == lists[l]
      new  == Fresh(1)[1]
      nxt  == IF i = list.count THEN Nil ELSE NodeAt(l, i)
      prv  == IF i = list.count THEN list.tailNode ELSE IF nxt = Nil THEN Nil ELSE heap[nxt].previous
      h    == With([a \in {new} |-> [value |-> e, next |-> nxt, previous |-> prv]])
  IN  SetPrevious(SetNext(h, prv, new), nxt, new)

\* Seeded fault: an insertion at startIndex does not move headNode.
InsertButHead(l, e, i) ==
  /\ i \in 0 .. lists[l].count /\ Room(1)
  /\ Store(Spliced(l, e, i),
           [lists EXCEPT ![l].tailNode = IF i = lists[l].count THEN Fresh(1)[1] ELSE @,
                         ![l].count = @ + 1])

\* insert(_:at:). At endIndex headNode stays, also when the list is empty.
InsertElement(l, e, i) ==
  LET list == lists[l]
      new  == Fresh(1)[1]
  IN  /\ i \in 0 .. list.count /\ Room(1)
      /\ Store(Spliced(l, e, i),
               [lists EXCEPT ![l] =
                  [headNode |-> IF i = 0 /\ list.count # 0 THEN new ELSE list.headNode,
                   tailNode |-> IF i = list.count THEN new ELSE list.tailNode,
                   count    |-> list.count + 1]])

\* replaceSubrange of an empty range, before a node or, if there is none, at the
\* end: headNode and count stay as they are.
ReplaceEmpty(l, vs, node) ==
  LET as  == Fresh(Len(vs))
      h   == With(Chain(vs, as))
      prv == IF node = Nil THEN lists[l].tailNode ELSE heap[node].previous
      h1  == SetPrevious(SetNext(h, prv, Head(as)), Head(as), prv)
  IN  /\ vs # << >> /\ Room(Len(vs))
      /\ IF node = Nil
         THEN Store(h1, [lists EXCEPT ![l].tailNode = Last(as)])
         ELSE Store(SetPrevious(SetNext(h1, Last(as), node), node, Last(as)), lists)

Prepend(l, e) == ReplaceEmpty(l, << e >>, lists[l].headNode)
AppendAll(l, vs) == ReplaceEmpty(l, vs, Nil)

\* replaceSubrange of one index by nothing, what removeFirst and removeLast call:
\* copyNodes(removing:) sets count, the caller subtracts the length again.
RemoveElement(l, i) ==
  LET list == lists[l]
      kept == RemoveAt(SubSeq(Value(l), 1, list.count), i + 1)
  IN  /\ Len(Walk(l)) >= list.count /\ (list.count = 1 => Len(Walk(l)) = 1)
      /\ Room(Len(kept))
      /\ LET as == Fresh(Len(kept))
         IN  Store(With(Chain(kept, as)),
                   [lists EXCEPT ![l] = [ListOf(as) EXCEPT !.count = @ - 1]])

PopFirst(l) == lists[l].count > 0 /\ RemoveElement(l, 0)
PopLast(l) == lists[l].count > 0 /\ lists[l].tailNode # Nil /\ RemoveElement(l, lists[l].count - 1)

\* isKnownUniquelyReferenced(&headNode)
HeadIsUnique(l) ==
  LET a == lists[l].headNode
  IN  Cardinality({m \in DOMAIN lists : lists[m].headNode = a})
      + Cardinality({m \in DOMAIN lists : lists[m].tailNode = a})
      + Cardinality({b \in DOMAIN heap : heap[b].next = a}) = 1

\* The setter of the subscript: in place (through an index without a node nothing
\* changes), or copyNodes(settingNodeAt:to:)
SetElement(l, i, e) ==
  /\ i \in 0 .. lists[l].count - 1
  /\ IF HeadIsUnique(l)
     THEN NodeAt(l, i) # Nil /\ Store([heap EXCEPT ![NodeAt(l, i)].value = e], lists)
     ELSE LET vs == [SubSeq(Value(l), 1, lists[l].count) EXCEPT ![i + 1] = e]
              as == Fresh(Len(vs))
          IN  /\ Len(Walk(l)) >= lists[l].count /\ Room(Len(vs))
              /\ Store(With(Chain(vs, as)), [lists EXCEPT ![l] = ListOf(as)])

\* The owner of the lists is released, and with them their nodes.
Release == lists # << >> /\ Store(heap, << >>)

\* What Map does with a list: one of one element, then insertions into it.
MapNext ==
  \/ \E l \in Lists, e \in Elements :
       \/ l \notin DOMAIN lists /\ Literal(l, << e >>)
       \/ l \in DOMAIN lists /\ \E i \in 0 .. lists[l].count : InsertElement(l, e, i)
  \/ Release

MapSpec == Init /\ [][MapNext]_vars

Change(l) ==
  \/ \E m \in Lists \ {l} : Copy(l, m)
  \/ PopFirst(l) \/ PopLast(l)
  \/ \E e \in Elements :
       \/ Prepend(l, e) \/ AppendAll(l, << e >>)
       \/ \E i \in 0 .. lists[l].count : InsertElement(l, e, i) \/ SetElement(l, i, e)

Next ==
  \E l \in Lists :
    \/ l \notin DOMAIN lists /\ \E vs \in BoundedSeq(Elements, 2) : Literal(l, vs)
    \/ l \in DOMAIN lists /\ Change(l)

Spec == Init /\ [][Next]_vars

-----------------------------------------------------------------------------

TypeOK ==
  /\ DOMAIN heap \subseteq Addr /\ \A a \in DOMAIN heap : heap[a] \in Node
  /\ DOMAIN lists \subseteq Lists
  /\ \A l \in DOMAIN lists : lists[l] \in [headNode : Ref, tailNode : Ref, count : Nat]

\* The lists of Map are well formed: along next there are count nodes, the last
\* of them is tailNode, previous runs back, and no node belongs to two lists.
Intact ==
  /\ TypeOK
  /\ \A l \in DOMAIN lists :
       /\ Len(Walk(l)) = lists[l].count
       /\ lists[l].tailNode = Last(Walk(l))
       /\ \A i \in DOMAIN Walk(l) :
            heap[Walk(l)[i]].previous = IF i = 1 THEN Nil ELSE Walk(l)[i - 1]
  /\ \A l, m \in DOMAIN lists : l # m => ToSet(Walk(l)) \cap ToSet(Walk(m)) = {}

Values == INSTANCE ValueLists WITH
  Names <- Lists, Contents <- Elements, values <- [l \in DOMAIN lists |-> Value(l)]

\* Used as Map uses them, linked lists are values.
ImplementsValues == Values!ValuesSpec

\* "The number of elements in the linked list." (the comment on count)
CountIsLength == \A l \in DOMAIN lists : lists[l].count = Len(Walk(l))

\* "Copy-on-write semantics for nodes" (the comment in the subscript's setter)
SetterCopiesOnWrite ==
  [][\A l \in DOMAIN lists : \A i \in 0 .. lists[l].count - 1, e \in Elements :
       SetElement(l, i, e) => \A m \in DOMAIN lists \ {l} : Value(m)' = Value(m)]_vars
=============================================================================
