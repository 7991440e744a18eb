--------------------------- MODULE LRUCacheProofs ---------------------------
(***************************************************************************)
(* Memory safety of LRUCache: its unowned(unsafe) references never outlive *)
(* the containers they point to, for any keys, addresses and threads.      *)
(***************************************************************************)
EXTENDS LRUCache, FiniteSetTheorems, SequenceTheorems, WellFoundedInduction, TLAPS

\* What makes a list [heap, head, tail] well linked, seen from each container:
\* references are mutual, and only the ends have none.
Linked(l) ==
  /\ l.head \in DOMAIN l.heap \cup {Nil} /\ l.tail \in DOMAIN l.heap \cup {Nil}
  /\ l.head = Nil <=> l.tail = Nil
  /\ l.head # Nil => l.heap[l.head].prev = Nil
  /\ l.tail # Nil => l.heap[l.tail].next = Nil
  /\ \A a \in DOMAIN l.heap :
       LET c == l.heap[a]
       IN  /\ c.next \in DOMAIN l.heap \cup {Nil} /\ c.prev \in DOMAIN l.heap \cup {Nil}
           /\ c.next # Nil => l.heap[c.next].prev = a
           /\ c.prev # Nil => l.heap[c.prev].next = a
           /\ c.next = Nil => l.tail = a
           /\ c.prev = Nil => l.head = a

\* The same with a container a set aside: it is live but not in the list.
LinkedWithout(l, a) ==
  /\ a \in DOMAIN l.heap
  /\ l.head \in (DOMAIN l.heap \ {a}) \cup {Nil} /\ l.tail \in (DOMAIN l.heap \ {a}) \cup {Nil}
  /\ l.head = Nil <=> l.tail = Nil
  /\ l.head # Nil => l.heap[l.head].prev = Nil
  /\ l.tail # Nil => l.heap[l.tail].next = Nil
  /\ \A b \in DOMAIN l.heap \ {a} :
       LET c == l.heap[b]
       IN  /\ c.next \in (DOMAIN l.heap \ {a}) \cup {Nil} /\ c.prev \in (DOMAIN l.heap \ {a}) \cup {Nil}
           /\ c.next # Nil => l.heap[c.next].prev = b
           /\ c.prev # Nil => l.heap[c.prev].next = b
           /\ c.next = Nil => l.tail = b
           /\ c.prev = Nil => l.head = b

\* Types of the live containers.
IsHeap(h) == DOMAIN h \subseteq Addr /\ \A a \in DOMAIN h : h[a] \in Containers

\* The heap of a list after remove(_:), container by container.
LEMMA UnlinkFields ==
  ASSUME NEW l, IsHeap(l.heap), NEW a \in DOMAIN l.heap
  PROVE  LET u == Unlink(l, a)
             c == l.heap[a] IN
         /\ DOMAIN u.heap = DOMAIN l.heap
         /\ \A x \in DOMAIN l.heap :
              /\ u.heap[x].prev = IF x = c.next THEN c.prev ELSE l.heap[x].prev
              /\ u.heap[x].next = IF x = a THEN Nil ELSE IF x = c.prev THEN c.next ELSE l.heap[x].next
              /\ u.heap[x].key = l.heap[x].key /\ u.heap[x].value = l.heap[x].value
              /\ u.heap[x].cost = l.heap[x].cost
              /\ u.heap[x] \in Containers
         /\ u.head = IF l.head = a THEN c.next ELSE l.head
         /\ u.tail = IF l.tail = a THEN c.prev ELSE l.tail
  BY DEF Unlink, IsHeap, Containers, Ref

\* The heap of a list after append(_:).
LEMMA LinkFields ==
  ASSUME NEW l, IsHeap(l.heap), NEW a \in DOMAIN l.heap, l.tail \in Ref
  PROVE  LET k == Link(l, a) IN
         /\ DOMAIN k.heap = DOMAIN l.heap
         /\ \A x \in DOMAIN l.heap :
              /\ k.heap[x].prev = IF x = a THEN l.tail ELSE l.heap[x].prev
              /\ k.heap[x].next = IF x = l.tail THEN a ELSE l.heap[x].next
              /\ k.heap[x].key = l.heap[x].key /\ k.heap[x].value = l.heap[x].value
              /\ k.heap[x].cost = l.heap[x].cost
              /\ k.heap[x] \in Containers
         /\ k.head = IF l.head = Nil THEN a ELSE l.head
         /\ k.tail = a
  BY DEF Link, IsHeap, Containers, Ref

\* remove(_:) leaves a well linked list without the container, whose next it
\* clears: the assertion of append(_:) holds.
LEMMA UnlinkKeepsLinks ==
  ASSUME NEW l, IsHeap(l.heap), Linked(l), NEW a \in DOMAIN l.heap
  PROVE  /\ IsHeap(Unlink(l, a).heap)
         /\ LinkedWithout(Unlink(l, a), a)
         /\ Unlink(l, a).heap[a].next = Nil
<1> DEFINE u == Unlink(l, a)
           c == l.heap[a]
<1>1. /\ DOMAIN u.heap = DOMAIN l.heap
      /\ \A x \in DOMAIN l.heap :
           /\ u.heap[x].prev = IF x = c.next THEN c.prev ELSE l.heap[x].prev
           /\ u.heap[x].next = IF x = a THEN Nil ELSE IF x = c.prev THEN c.next ELSE l.heap[x].next
           /\ u.heap[x] \in Containers
      /\ u.head = IF l.head = a THEN c.next ELSE l.head
      /\ u.tail = IF l.tail = a THEN c.prev ELSE l.tail
  BY UnlinkFields
<1>2. Nil \notin DOMAIN l.heap
  BY CacheAssumption DEF IsHeap
<1> HIDE DEF u
<1>3. IsHeap(u.heap)
  BY <1>1 DEF IsHeap
<1>4. u.heap[a].next = Nil
  BY <1>1
<1>5. c.next = a <=> c.prev = a
  BY <1>2 DEF Linked
<1>6. u.head \in (DOMAIN l.heap \ {a}) \cup {Nil} /\ u.tail \in (DOMAIN l.heap \ {a}) \cup {Nil}
  BY <1>1, <1>2, <1>5 DEF Linked
<1>7. u.head = Nil <=> u.tail = Nil
  BY <1>1, <1>2 DEF Linked
<1>8. /\ u.head # Nil => u.heap[u.head].prev = Nil
      /\ u.tail # Nil => u.heap[u.tail].next = Nil
  BY <1>1, <1>2, <1>6 DEF Linked
<1>9. ASSUME NEW b \in DOMAIN l.heap \ {a}
      PROVE  /\ u.heap[b].next \in (DOMAIN l.heap \ {a}) \cup {Nil}
             /\ u.heap[b].prev \in (DOMAIN l.heap \ {a}) \cup {Nil}
             /\ u.heap[b].next # Nil => u.heap[u.heap[b].next].prev = b
             /\ u.heap[b].prev # Nil => u.heap[u.heap[b].prev].next = b
             /\ u.heap[b].next = Nil => u.tail = b
             /\ u.heap[b].prev = Nil => u.head = b
  <2>1. /\ u.heap[b].next \in (DOMAIN l.heap \ {a}) \cup {Nil}
        /\ u.heap[b].prev \in (DOMAIN l.heap \ {a}) \cup {Nil}
    BY <1>1, <1>2, <1>5 DEF Linked
  <2>2. u.heap[b].next # Nil => u.heap[u.heap[b].next].prev = b
    BY <1>1, <1>2, <1>5, <2>1 DEF Linked
  <2>3. u.heap[b].prev # Nil => u.heap[u.heap[b].prev].next = b
    BY <1>1, <1>2, <1>5, <2>1 DEF Linked
  <2>4. u.heap[b].next = Nil => u.tail = b
    BY <1>1, <1>2, <1>5 DEF Linked
  <2>5. u.heap[b].prev = Nil => u.head = b
    BY <1>1, <1>2, <1>5 DEF Linked
  <2> QED
    BY <2>1, <2>2, <2>3, <2>4, <2>5
<1>10. LinkedWithout(u, a)
  BY <1>1, <1>6, <1>7, <1>8, <1>9 DEF LinkedWithout
<1> QED
  BY <1>3, <1>4, <1>10 DEF u

\* append(_:) puts a container that is set aside at the end.
LEMMA LinkKeepsLinks ==
  ASSUME NEW l, IsHeap(l.heap), NEW a, LinkedWithout(l, a), l.heap[a].next = Nil
  PROVE  IsHeap(Link(l, a).heap) /\ Linked(Link(l, a))
<1> DEFINE k == Link(l, a)
<1>1. a \in DOMAIN l.heap /\ l.tail \in Ref
  BY DEF LinkedWithout, IsHeap, Ref
<1>2. /\ DOMAIN k.heap = DOMAIN l.heap
      /\ \A x \in DOMAIN l.heap :
           /\ k.heap[x].prev = IF x = a THEN l.tail ELSE l.heap[x].prev
           /\ k.heap[x].next = IF x = l.tail THEN a ELSE l.heap[x].next
           /\ k.heap[x] \in Containers
      /\ k.head = IF l.head = Nil THEN a ELSE l.head
      /\ k.tail = a
  BY <1>1, LinkFields
<1>3. Nil \notin DOMAIN l.heap
  BY CacheAssumption DEF IsHeap
<1> HIDE DEF k
<1>4. IsHeap(k.heap)
  BY <1>2 DEF IsHeap
<1>5. ASSUME NEW b \in DOMAIN l.heap
      PROVE  /\ k.heap[b].next \in DOMAIN l.heap \cup {Nil}
             /\ k.heap[b].prev \in DOMAIN l.heap \cup {Nil}
             /\ k.heap[b].next # Nil => k.heap[k.heap[b].next].prev = b
             /\ k.heap[b].prev # Nil => k.heap[k.heap[b].prev].next = b
             /\ k.heap[b].next = Nil => k.tail = b
             /\ k.heap[b].prev = Nil => k.head = b
  <2>1. /\ k.heap[b].next \in DOMAIN l.heap \cup {Nil}
        /\ k.heap[b].prev \in DOMAIN l.heap \cup {Nil}
    BY <1>1, <1>2, <1>3 DEF LinkedWithout
  <2>2. k.heap[b].next # Nil => k.heap[k.heap[b].next].prev = b
    BY <1>1, <1>2, <1>3, <2>1 DEF LinkedWithout
  <2>3. k.heap[b].prev # Nil => k.heap[k.heap[b].prev].next = b
    BY <1>1, <1>2, <1>3, <2>1 DEF LinkedWithout
  <2>4. k.heap[b].next = Nil => k.tail = b
    BY <1>1, <1>2, <1>3 DEF LinkedWithout
  <2>5. k.heap[b].prev = Nil => k.head = b
    BY <1>1, <1>2, <1>3 DEF LinkedWithout
  <2> QED
    BY <2>1, <2>2, <2>3, <2>4, <2>5
<1>6. /\ k.head \in DOMAIN l.heap \cup {Nil} /\ k.tail \in DOMAIN l.heap \cup {Nil}
      /\ k.head = Nil <=> k.tail = Nil
  BY <1>1, <1>2, <1>3 DEF LinkedWithout
<1>7. /\ k.head # Nil => k.heap[k.head].prev = Nil
      /\ k.tail # Nil => k.heap[k.tail].next = Nil
  BY <1>1, <1>2, <1>3 DEF LinkedWithout
<1>8. Linked(k)
  BY <1>2, <1>5, <1>6, <1>7 DEF Linked
<1> QED
  BY <1>4, <1>8 DEF k

\* A container that is set aside may be freed.
LEMMA FreeKeepsLinks ==
  ASSUME NEW h, NEW first, NEW last, IsHeap(h), NEW a,
         LinkedWithout([heap |-> h, head |-> first, tail |-> last], a)
  PROVE  LET f == Free([heap |-> h, head |-> first, tail |-> last], a)
         IN  /\ f.heap = [x \in DOMAIN h \ {a} |-> h[x]]
             /\ IsHeap(f.heap) /\ Linked(f)
  BY CacheAssumption DEF Free, LinkedWithout, Linked, IsHeap
-----------------------------------------------------------------------------

\* The dictionary and the heap name the same containers.
Named(dict, h) ==
  /\ \A k \in DOMAIN dict : dict[k] \in DOMAIN h /\ h[dict[k]].key = k
  /\ \A a \in DOMAIN h : h[a].key \in DOMAIN dict /\ dict[h[a].key] = a

LInv ==
  /\ IsHeap(heap)
  /\ Linked(List)
  /\ Named(values, heap)

\* Keys do not move when containers are relinked.
LEMMA NamedSurvives ==
  ASSUME NEW dict, NEW h, NEW g, Named(dict, h), DOMAIN g = DOMAIN h,
         \A x \in DOMAIN h : g[x].key = h[x].key
  PROVE  Named(dict, g)
  BY DEF Named

\* The dictionary may forget a container together with its key.
LEMMA NamedWithout ==
  ASSUME NEW dict, NEW h, Named(dict, h), NEW a \in DOMAIN h
  PROVE  Named([x \in DOMAIN dict \ {h[a].key} |-> dict[x]], [x \in DOMAIN h \ {a} |-> h[x]])
  BY DEF Named

\* The fields of the list that the variables form.
LEMMA ListFields ==
  /\ List.heap = heap /\ List.head = head /\ List.tail = tail
  /\ List = [heap |-> heap, head |-> head, tail |-> tail]
  BY DEF List

\* The list that SetList stores is the list of the next state.
LEMMA SetListIsList ==
  ASSUME NEW l, SetList(l), Linked(l)
  PROVE  Linked(List)'
  BY DEF SetList, List, Linked

\* The records that Unlink and Link return.
LEMMA ListRecords ==
  ASSUME NEW l, NEW a
  PROVE  /\ Unlink(l, a) = [heap |-> Unlink(l, a).heap, head |-> Unlink(l, a).head,
                            tail |-> Unlink(l, a).tail]
         /\ Link(l, a) = [heap |-> Link(l, a).heap, head |-> Link(l, a).head,
                          tail |-> Link(l, a).tail]
  BY DEF Unlink, Link

\* remove then free, as removeValue and clean do.
LEMMA UnlinkAndFree ==
  ASSUME LInv, NEW a \in DOMAIN heap, SetList(Free(Unlink(List, a), a)),
         Forget(heap[a].key)
  PROVE  LInv'
<1> DEFINE u == Unlink(List, a)
           f == Free(u, a)
<1>1. IsHeap(List.heap) /\ a \in DOMAIN List.heap /\ Linked(List)
  BY ListFields DEF LInv
<1>2. IsHeap(u.heap) /\ LinkedWithout(u, a)
  BY <1>1, UnlinkKeepsLinks
<1>3. u = [heap |-> u.heap, head |-> u.head, tail |-> u.tail]
  BY ListRecords
<1>4. DOMAIN u.heap = DOMAIN heap /\ \A x \in DOMAIN heap : u.heap[x].key = heap[x].key
  <2>1. /\ DOMAIN u.heap = DOMAIN List.heap
        /\ \A x \in DOMAIN List.heap : u.heap[x].key = List.heap[x].key
    BY <1>1, UnlinkFields
  <2> HIDE DEF u
  <2> QED
    BY <2>1, ListFields
<1> HIDE DEF u
<1>5. /\ f.heap = [x \in DOMAIN u.heap \ {a} |-> u.heap[x]]
      /\ IsHeap(f.heap) /\ Linked(f)
  <2> DEFINE h == u.heap
             first == u.head
             last == u.tail
  <2>1. u = [heap |-> h, head |-> first, tail |-> last]
    BY <1>3
  <2>2. IsHeap(h)
    BY <1>2
  <2> HIDE DEF h, first, last
  <2>3. LinkedWithout([heap |-> h, head |-> first, tail |-> last], a)
    BY <1>2, <2>1
  <2>4. LET g == Free([heap |-> h, head |-> first, tail |-> last], a)
        IN  /\ g.heap = [x \in DOMAIN h \ {a} |-> h[x]]
            /\ IsHeap(g.heap) /\ Linked(g)
    BY <2>2, <2>3, FreeKeepsLinks
  <2> QED
    BY <2>1, <2>4 DEF h
<1> HIDE DEF f
<1>6. SetList(f)
  BY DEF f, u
<1>7. Named(values, u.heap) /\ u.heap[a].key = heap[a].key
  BY <1>4, NamedSurvives DEF LInv
<1>8. Named(values', f.heap)
  <2>1. values' = [x \in DOMAIN values \ {u.heap[a].key} |-> values[x]]
    BY <1>7 DEF Forget
  <2> DEFINE h == u.heap
  <2>2. a \in DOMAIN h /\ Named(values, h)
    BY <1>4, <1>7
  <2>3. /\ f.heap = [x \in DOMAIN h \ {a} |-> h[x]]
        /\ values' = [x \in DOMAIN values \ {h[a].key} |-> values[x]]
    BY <1>5, <2>1
  <2> HIDE DEF h
  <2>4. Named([x \in DOMAIN values \ {h[a].key} |-> values[x]], [x \in DOMAIN h \ {a} |-> h[x]])
    BY <2>2, NamedWithout
  <2> QED
    BY <2>3, <2>4
<1>9. heap' = f.heap /\ Linked(List)'
  BY <1>5, <1>6, SetListIsList DEF SetList
<1> QED
  BY <1>5, <1>8, <1>9 DEF LInv, IsHeap, Named

\* remove then append, as value(forKey:) and setValue of a cached key do.
LEMMA UnlinkAndLink ==
  ASSUME NEW l, IsHeap(l.heap), Linked(l), Named(values, l.heap), NEW a \in DOMAIN l.heap,
         SetList(Link(Unlink(l, a), a)), values' = values
  PROVE  LInv'
<1> DEFINE u == Unlink(l, a)
           k == Link(u, a)
<1>1. IsHeap(u.heap) /\ LinkedWithout(u, a) /\ u.heap[a].next = Nil
  BY UnlinkKeepsLinks
<1>2. DOMAIN u.heap = DOMAIN l.heap /\ \A x \in DOMAIN l.heap : u.heap[x].key = l.heap[x].key
  BY UnlinkFields
<1> HIDE DEF u
<1>3. IsHeap(k.heap) /\ Linked(k)
  BY <1>1, LinkKeepsLinks
<1>4. DOMAIN k.heap = DOMAIN u.heap /\ \A x \in DOMAIN u.heap : k.heap[x].key = u.heap[x].key
  <2>1. a \in DOMAIN u.heap /\ u.tail \in Ref
    BY <1>1 DEF LinkedWithout, IsHeap, Ref
  <2> QED
    BY <1>1, <2>1, LinkFields
<1> HIDE DEF k
<1>5. Named(values, k.heap)
  BY <1>2, <1>4, NamedSurvives
<1>6. SetList(k)
  BY DEF k, u
<1>7. heap' = k.heap /\ Linked(List)'
  BY <1>3, <1>6, SetListIsList DEF SetList
<1> QED
  BY <1>3, <1>5, <1>7 DEF LInv, IsHeap, Named

\* setValue of a cached key keeps the invariant.
LEMMA UpdateStep ==
  ASSUME LInv, NEW t, NEW k \in CacheKeys, NEW v \in CacheValues, NEW cost \in Costs,
         UpdateValue(t, k, v, cost)
  PROVE  LInv'
<1> DEFINE a == values[k]
           c == [heap[a] EXCEPT !.value = v, !.cost = cost]
           h == [heap EXCEPT ![a] = c]
           l == [List EXCEPT !.heap = h]
<1>1. /\ a \in DOMAIN heap /\ values' = values
      /\ SetList(Link(Unlink(l, a), a))
  BY DEF UpdateValue, LInv, Named
<1>2. heap[a] \in Containers
  BY <1>1 DEF LInv, IsHeap
<1>3. /\ c \in Containers /\ c.key = heap[a].key
      /\ c.prev = heap[a].prev /\ c.next = heap[a].next
  BY <1>2 DEF Containers
<1> HIDE DEF a, c
<1>4. DOMAIN h = DOMAIN heap /\ \A x \in DOMAIN heap : h[x] = IF x = a THEN c ELSE heap[x]
  BY <1>1
<1>5. l = [heap |-> h, head |-> head, tail |-> tail]
  BY DEF List
<1>6. /\ DOMAIN h = DOMAIN heap /\ IsHeap(h)
      /\ \A x \in DOMAIN heap :
           h[x].key = heap[x].key /\ h[x].prev = heap[x].prev /\ h[x].next = heap[x].next
  BY <1>3, <1>4 DEF LInv, IsHeap
<1> HIDE DEF h, l
<1>7. Named(values, h)
  BY <1>6, NamedSurvives DEF LInv
<1>8. l.heap = h /\ l.head = head /\ l.tail = tail
  BY <1>5
<1>9. Linked(l)
  BY <1>6, <1>8, ListFields DEF LInv, Linked
<1> QED
  BY <1>1, <1>6, <1>7, <1>8, <1>9, UnlinkAndLink

\* setValue of a new key keeps the invariant, at whatever free address.
LEMMA InsertStep ==
  ASSUME LInv, NEW t, NEW k \in CacheKeys, NEW v \in CacheValues, NEW cost \in Costs,
         InsertValue(t, k, v, cost)
  PROVE  LInv'
<1> DEFINE new == [value |-> v, cost |-> cost, key |-> k, prev |-> Nil, next |-> Nil]
<1>1. PICK a \in Addr \ DOMAIN heap :
        LET l == [List EXCEPT !.heap = [x \in DOMAIN heap \cup {a} |->
                                          IF x = a THEN new ELSE heap[x]]]
        IN  /\ values' = [x \in DOMAIN values \cup {k} |-> IF x = k THEN a ELSE values[x]]
            /\ SetList(Link(l, a))
  BY DEF InsertValue
<1> DEFINE h == [x \in DOMAIN heap \cup {a} |-> IF x = a THEN new ELSE heap[x]]
           l == [heap |-> h, head |-> head, tail |-> tail]
           m == Link(l, a)
<1>2. SetList(m)
  BY <1>1 DEF List
<1>3. /\ DOMAIN h = DOMAIN heap \cup {a} /\ h[a] = new
      /\ \A x \in DOMAIN heap : h[x] = heap[x]
  OBVIOUS
<1>4. new \in Containers /\ new.key = k /\ new.next = Nil
  BY DEF Containers, Ref
<1> HIDE DEF h, new
<1>5. IsHeap(h)
  BY <1>3, <1>4 DEF LInv, IsHeap
<1>6. l.heap = h /\ l.head = head /\ l.tail = tail
  OBVIOUS
<1> HIDE DEF l
<1>7. LinkedWithout(l, a) /\ l.heap[a].next = Nil
  BY <1>3, <1>4, <1>6, ListFields, CacheAssumption DEF LInv, IsHeap, Linked, LinkedWithout
<1>8. IsHeap(m.heap) /\ Linked(m)
  BY <1>5, <1>6, <1>7, LinkKeepsLinks
<1>9. DOMAIN m.heap = DOMAIN h /\ \A x \in DOMAIN h : m.heap[x].key = h[x].key
  <2>1. a \in DOMAIN l.heap /\ l.tail \in Ref
    BY <1>3, <1>5, <1>6, <1>7 DEF LinkedWithout, IsHeap, Ref
  <2>2. /\ DOMAIN m.heap = DOMAIN l.heap
        /\ \A x \in DOMAIN l.heap : m.heap[x].key = l.heap[x].key
    BY <1>5, <1>6, <2>1, LinkFields
  <2> HIDE DEF m
  <2> QED
    BY <1>6, <2>2
<1> HIDE DEF m
<1>10. Named(values', h)
  <2>1. k \notin DOMAIN values
    BY DEF InsertValue
  <2> QED
    BY <1>1, <1>3, <1>4, <2>1 DEF LInv, Named
<1>11. Named(values', m.heap)
  BY <1>9, <1>10, NamedSurvives
<1>12. heap' = m.heap /\ Linked(List)'
  BY <1>2, <1>8, SetListIsList DEF SetList
<1> QED
  BY <1>8, <1>11, <1>12 DEF LInv, IsHeap, Named

\* value(forKey:) keeps the invariant.
LEMMA GetStep ==
  ASSUME LInv, NEW t, NEW k \in CacheKeys, GetValue(t, k)
  PROVE  LInv'
<1> DEFINE a == values[k]
<1>1. a \in DOMAIN heap /\ values' = values /\ SetList(Link(Unlink(List, a), a))
  BY DEF GetValue, LInv, Named
<1> HIDE DEF a
<1>2. List.heap = heap
  BY ListFields
<1> QED
  BY <1>1, <1>2, UnlinkAndLink DEF LInv

\* removeValue(forKey:) keeps the invariant.
LEMMA RemoveStep ==
  ASSUME LInv, NEW t, NEW k \in CacheKeys, RemoveValue(t, k)
  PROVE  LInv'
<1> DEFINE a == values[k]
<1>1. a \in DOMAIN heap /\ heap[a].key = k /\ Forget(k) /\ SetList(Free(Unlink(List, a), a))
  BY DEF RemoveValue, LInv, Named
<1> HIDE DEF a
<1> QED
  BY <1>1, UnlinkAndFree

\* removeAllValues() establishes the invariant.
LEMMA RemoveAllStep ==
  ASSUME NEW t, RemoveAllValues(t)
  PROVE  LInv'
<1>1. values' = << >> /\ heap' = << >> /\ head' = Nil /\ tail' = Nil
  BY DEF RemoveAllValues
<1>2. DOMAIN << >> = {}
  OBVIOUS
<1> QED
  BY <1>1, <1>2 DEF LInv, IsHeap, Linked, Named, List

\* A turn of clean()'s loop keeps the invariant.
LEMMA EvictStep ==
  ASSUME LInv, NEW t, Evict(t)
  PROVE  LInv'
<1>1. /\ head \in DOMAIN heap /\ Forget(heap[head].key)
      /\ SetList(Free(Unlink(List, head), head))
  BY ListFields DEF Evict, LInv, Linked
<1> QED
  BY <1>1, UnlinkAndFree

\* Steps that leave dictionary and list alone keep the invariant.
LEMMA UnchangedStep ==
  ASSUME LInv, UNCHANGED << values, heap, head, tail >>
  PROVE  LInv'
  BY DEF LInv, IsHeap, Linked, Named, List

\* Every call and every turn of clean() keeps the invariant.
LEMMA LInvInductive ==
  /\ Init => LInv
  /\ LInv /\ [Next]_vars => LInv'
<1>1. ASSUME Init PROVE LInv
  <2>1. values = << >> /\ heap = << >> /\ head = Nil /\ tail = Nil
    BY <1>1 DEF Init
  <2>2. DOMAIN << >> = {}
    OBVIOUS
  <2> QED
    BY <2>1, <2>2 DEF LInv, IsHeap, Linked, Named, List
<1>2. ASSUME LInv, [Next]_vars PROVE LInv'
  <2>1. CASE UNCHANGED vars
    BY <1>2, <2>1, UnchangedStep DEF vars
  <2>2. ASSUME NEW t \in Threads, NEW k \in CacheKeys, NEW v \in CacheValues, NEW cost \in Costs,
               UpdateValue(t, k, v, cost) \/ InsertValue(t, k, v, cost)
        PROVE  LInv'
    BY <1>2, <2>2, UpdateStep, InsertStep
  <2>3. ASSUME NEW t \in Threads, NEW k \in CacheKeys, RemoveValue(t, k) \/ GetValue(t, k)
        PROVE  LInv'
    BY <1>2, <2>3, RemoveStep, GetStep
  <2>4. ASSUME NEW t \in Threads, RemoveAllValues(t) PROVE LInv'
    BY <2>4, RemoveAllStep
  <2>5. ASSUME NEW t \in Threads, NEW n, SetCostLimit(t, n) \/ SetCountLimit(t, n) PROVE LInv'
    BY <1>2, <2>5, UnchangedStep DEF SetCostLimit, SetCountLimit
  <2>6. ASSUME NEW t \in Threads, Clean(t) PROVE LInv'
    <3>1. CASE Evict(t)
      BY <1>2, <3>1, EvictStep
    <3>2. CASE BeginClean(t) \/ EndClean(t)
      BY <1>2, <3>2, UnchangedStep DEF BeginClean, EndClean
    <3> QED
      BY <2>6, <3>1, <3>2 DEF Clean
  <2> QED
    BY <1>2, <2>1, <2>2, <2>3, <2>4, <2>5, <2>6 DEF Next
<1> QED
  BY <1>1, <1>2

\* Memory safety: whatever calls the threads interleave, head, tail and every
\* link of a cached container point to containers the dictionary keeps alive,
\* and dictionary and list hold the same ones.
THEOREM NothingEverDangles == Spec => []NothingDangles
<1>1. LInv => NothingDangles
  BY ListFields DEF LInv, Linked, Named, NothingDangles, Live
<1> QED
  BY <1>1, LInvInductive, PTL DEF Spec

\* The counter, the limits and the lock, which need costs to be numbers only.
CallsInv ==
  /\ totalCost \in Int /\ totalCostLimit \in CostLimits /\ countLimit \in CountLimits
  /\ lock \in Threads \cup {Nil}
  /\ pc \in [Threads -> {"idle", "clean", "evict"}]

\* What a thread has still to do, and the counters, keep their types.
LEMMA CallsInductive ==
  /\ Init => CallsInv
  /\ LInv /\ CallsInv /\ [Next]_vars => CallsInv'
<1>1. Init => CallsInv
  BY DEF Init, CallsInv
<1>2. ASSUME LInv, CallsInv, [Next]_vars PROVE CallsInv'
  <2>1. Costs \subseteq Int
    BY CacheAssumption
  <2>2. \A a \in DOMAIN heap : heap[a].cost \in Int
    BY <1>2, <2>1, ListFields DEF LInv, IsHeap, Containers
  <2>3. \A k \in DOMAIN values : values[k] \in DOMAIN heap
    BY <1>2, ListFields DEF LInv, Named
  <2>4. CASE UNCHANGED vars
    BY <1>2, <2>4 DEF vars, CallsInv
  <2>5. ASSUME NEW t \in Threads, NEW k \in CacheKeys, NEW v \in CacheValues, NEW cost \in Costs,
               UpdateValue(t, k, v, cost) \/ InsertValue(t, k, v, cost)
        PROVE  CallsInv'
    <3>1. totalCost' \in Int
      BY <1>2, <2>1, <2>2, <2>3, <2>5 DEF CallsInv, UpdateValue, InsertValue
    <3>2. UNCHANGED << totalCostLimit, countLimit, lock >> /\ Goto(t, "clean")
      BY <2>5 DEF UpdateValue, InsertValue
    <3> QED
      BY <1>2, <3>1, <3>2 DEF CallsInv, Goto
  <2>6. ASSUME NEW t \in Threads, NEW k \in CacheKeys, RemoveValue(t, k) \/ GetValue(t, k)
        PROVE  CallsInv'
    <3>1. totalCost' \in Int
      BY <1>2, <2>2, <2>3, <2>6 DEF CallsInv, RemoveValue, GetValue
    <3>2. UNCHANGED << totalCostLimit, countLimit, lock, pc >>
      BY <2>6 DEF RemoveValue, GetValue
    <3> QED
      BY <1>2, <3>1, <3>2 DEF CallsInv
  <2>7. ASSUME NEW t \in Threads, RemoveAllValues(t) PROVE CallsInv'
    BY <1>2, <2>7 DEF CallsInv, RemoveAllValues
  <2>8. ASSUME NEW t \in Threads, NEW n \in CostLimits, SetCostLimit(t, n) PROVE CallsInv'
    BY <1>2, <2>8 DEF CallsInv, SetCostLimit, Goto
  <2>9. ASSUME NEW t \in Threads, NEW n \in CountLimits, SetCountLimit(t, n) PROVE CallsInv'
    BY <1>2, <2>9 DEF CallsInv, SetCountLimit, Goto
  <2>10. ASSUME NEW t \in Threads, Clean(t) PROVE CallsInv'
    <3>1. CASE BeginClean(t) \/ EndClean(t)
      BY <1>2, <3>1 DEF CallsInv, BeginClean, EndClean, Goto
    <3>2. CASE Evict(t)
      <4>1. head \in DOMAIN heap
        BY <1>2, <3>2, ListFields DEF LInv, Linked, Evict
      <4>2. totalCost' \in Int /\ UNCHANGED << totalCostLimit, countLimit, lock, pc >>
        BY <1>2, <2>2, <3>2, <4>1 DEF CallsInv, Evict
      <4> QED
        BY <1>2, <4>2 DEF CallsInv
    <3> QED
      BY <2>10, <3>1, <3>2 DEF Clean
  <2> QED
    BY <1>2, <2>4, <2>5, <2>6, <2>7, <2>8, <2>9, <2>10 DEF Next
<1> QED
  BY <1>1, <1>2

\* The dictionary, the heap of containers, the counter and the lock of LRUCache
\* have their types.
THEOREM CacheTypes == Spec => []TypeOK
<1>1. LInv /\ CallsInv => TypeOK
  BY ListFields DEF LInv, CallsInv, TypeOK, IsHeap, Linked, Named, Ref, Containers
<1> QED
  BY <1>1, LInvInductive, CallsInductive, PTL DEF Spec
-----------------------------------------------------------------------------

\* What a sequence is after one of its elements is taken out.
LEMMA RemoveAtProperties ==
  ASSUME NEW S, NEW s \in Seq(S), NEW j \in 1 .. Len(s)
  PROVE  LET r == RemoveAt(s, j) IN
         /\ r \in Seq(S) /\ Len(r) = Len(s) - 1 /\ DOMAIN r = 1 .. Len(s) - 1
         /\ \A i \in 1 .. Len(s) - 1 : r[i] = IF i < j THEN s[i] ELSE s[i + 1]
<1> DEFINE front == SubSeq(s, 1, j - 1)
           back == SubSeq(s, j + 1, Len(s))
           r == RemoveAt(s, j)
<1>1. front \in Seq(S) /\ Len(front) = j - 1 /\ \A i \in 1 .. j - 1 : front[i] = s[i]
  OBVIOUS
<1>2. /\ back \in Seq(S) /\ Len(back) = Len(s) - j
      /\ \A i \in 1 .. Len(s) - j : back[i] = s[j + i]
  OBVIOUS
<1>3. r = front \o back
  BY DEF RemoveAt
<1> HIDE DEF front, back, r
<1> DEFINE c == front \o back
<1>4. /\ c \in Seq(S) /\ Len(c) = Len(front) + Len(back)
      /\ \A i \in 1 .. Len(front) + Len(back) :
           c[i] = IF i <= Len(front) THEN front[i] ELSE back[i - Len(front)]
  BY <1>1, <1>2, ConcatProperties
<1> HIDE DEF c
<1>5. r = c
  BY <1>3 DEF c
<1>6. Len(r) = Len(s) - 1 /\ r \in Seq(S) /\ DOMAIN r = 1 .. Len(s) - 1
  <2>1. Len(s) \in Nat /\ r \in Seq(S) /\ Len(r) = Len(front) + Len(back)
    BY <1>4, <1>5
  <2>2. Len(r) = Len(s) - 1
    BY <1>1, <1>2, <2>1
  <2> QED
    BY <2>1, <2>2, LenProperties
<1>7. ASSUME NEW i \in 1 .. Len(s) - 1 PROVE r[i] = IF i < j THEN s[i] ELSE s[i + 1]
  <2>1. r[i] = IF i <= j - 1 THEN front[i] ELSE back[i - (j - 1)]
    BY <1>1, <1>2, <1>4, <1>5
  <2>2. CASE i < j
    BY <1>1, <2>1, <2>2
  <2>3. CASE ~(i < j)
    BY <1>2, <2>1, <2>3
  <2> QED
    BY <2>2, <2>3
<1> QED
  BY <1>6, <1>7 DEF r

\* What a sequence is after an element is put at its end.
LEMMA AppendElements ==
  ASSUME NEW S, NEW s \in Seq(S), NEW e \in S
  PROVE  LET r == Append(s, e) IN
         /\ r \in Seq(S) /\ Len(r) = Len(s) + 1 /\ DOMAIN r = 1 .. Len(s) + 1
         /\ \A i \in 1 .. Len(s) + 1 : r[i] = IF i <= Len(s) THEN s[i] ELSE e
  OBVIOUS

\* s is the order of the containers of D along next, from head to tail, and
\* prev runs back along it.
Path(l, s, D) ==
  /\ s \in Seq(D)
  /\ \A x \in D : \E i \in 1 .. Len(s) : s[i] = x
  /\ \A i, j \in 1 .. Len(s) : s[i] = s[j] => i = j
  /\ l.head = IF Len(s) = 0 THEN Nil ELSE s[1]
  /\ l.tail = IF Len(s) = 0 THEN Nil ELSE s[Len(s)]
  /\ \A i \in 1 .. Len(s) :
       /\ l.heap[s[i]].next = IF i < Len(s) THEN s[i + 1] ELSE Nil
       /\ l.heap[s[i]].prev = IF i = 1 THEN Nil ELSE s[i - 1]

\* The payload of the containers of D is what it was.
SamePayload(h, g, D) ==
  \A x \in D : h[x].key = g[x].key /\ h[x].value = g[x].value /\ h[x].cost = g[x].cost

\* remove(_:) takes a container out of the order and keeps that of the others.
LEMMA UnlinkPath ==
  ASSUME NEW l, IsHeap(l.heap), NEW s, Path(l, s, DOMAIN l.heap), NEW j \in 1 .. Len(s)
  PROVE  LET u == Unlink(l, s[j]) IN
         /\ Path(u, RemoveAt(s, j), DOMAIN l.heap \ {s[j]})
         /\ DOMAIN u.heap = DOMAIN l.heap /\ IsHeap(u.heap)
         /\ u.heap[s[j]].next = Nil
         /\ SamePayload(u.heap, l.heap, DOMAIN l.heap)
<1> DEFINE a == s[j]
           u == Unlink(l, a)
           r == RemoveAt(s, j)
           D == DOMAIN l.heap
           n == Len(s)
<1>1. s \in Seq(D) /\ a \in D /\ n \in Nat
  BY DEF Path
<1>2. /\ DOMAIN u.heap = D
      /\ \A x \in D :
           /\ u.heap[x].prev = IF x = l.heap[a].next THEN l.heap[a].prev ELSE l.heap[x].prev
           /\ u.heap[x].next = IF x = a THEN Nil
                               ELSE IF x = l.heap[a].prev THEN l.heap[a].next ELSE l.heap[x].next
           /\ u.heap[x].key = l.heap[x].key /\ u.heap[x].value = l.heap[x].value
           /\ u.heap[x].cost = l.heap[x].cost
           /\ u.heap[x] \in Containers
      /\ u.head = IF l.head = a THEN l.heap[a].next ELSE l.head
      /\ u.tail = IF l.tail = a THEN l.heap[a].prev ELSE l.tail
  BY <1>1, UnlinkFields
<1>3. /\ r \in Seq(D) /\ Len(r) = n - 1
      /\ \A i \in 1 .. n - 1 : r[i] = IF i < j THEN s[i] ELSE s[i + 1]
  BY <1>1, RemoveAtProperties
<1>4. /\ \A i \in 1 .. n : s[i] \in D /\ s[i] # Nil
      /\ \A x \in D : \E i \in 1 .. n : s[i] = x
      /\ l.head = IF n = 0 THEN Nil ELSE s[1]
      /\ l.tail = IF n = 0 THEN Nil ELSE s[n]
      /\ \A i \in 1 .. n :
           /\ l.heap[s[i]].next = IF i < n THEN s[i + 1] ELSE Nil
           /\ l.heap[s[i]].prev = IF i = 1 THEN Nil ELSE s[i - 1]
  <2>1. Nil \notin D
    BY CacheAssumption DEF IsHeap
  <2>2. \A i \in 1 .. n : s[i] \in D /\ s[i] # Nil
    BY <1>1, <2>1, ElementOfSeq
  <2> QED
    BY <2>2 DEF Path
<1> HIDE DEF u, r
<1>0. \A i, k \in 1 .. n : s[i] = s[k] => i = k
  BY DEF Path
<1>5. ASSUME NEW i \in 1 .. n - 1 PROVE r[i] \in D \ {a}
  <2> DEFINE p == IF i < j THEN i ELSE i + 1
  <2>1. p \in 1 .. n /\ p # j /\ r[i] = s[p]
    BY <1>1, <1>3
  <2> HIDE DEF p
  <2>2. s[p] \in D /\ s[p] # s[j]
    BY <1>0, <1>4, <2>1
  <2> QED
    BY <2>1, <2>2
<1>6. r \in Seq(D \ {a})
  <2>1. Len(r) \in Nat /\ r = [i \in 1 .. Len(r) |-> r[i]]
    BY <1>1, <1>3, LenProperties
  <2> QED
    BY <1>3, <1>5, <2>1, IsASeq
<1>7. ASSUME NEW x \in D \ {a} PROVE \E i \in 1 .. Len(r) : r[i] = x
  <2>1. PICK i \in 1 .. n : s[i] = x
    BY <1>4
  <2>2. i # j
    BY <2>1
  <2>3. CASE i < j
    BY <1>1, <1>3, <2>1, <2>3
  <2>4. CASE j < i
    <3>1. i - 1 \in 1 .. n - 1 /\ ~(i - 1 < j) /\ i - 1 + 1 = i
      BY <1>1, <2>4
    <3> QED
      BY <1>3, <2>1, <3>1
  <2> QED
    BY <2>2, <2>3, <2>4
<1>8. \A i, k \in 1 .. Len(r) : r[i] = r[k] => i = k
  <2> SUFFICES ASSUME NEW i \in 1 .. n - 1, NEW k \in 1 .. n - 1, r[i] = r[k] PROVE i = k
    BY <1>3
  <2> DEFINE p == IF i < j THEN i ELSE i + 1
             q == IF k < j THEN k ELSE k + 1
  <2>1. p \in 1 .. n /\ q \in 1 .. n /\ r[i] = s[p] /\ r[k] = s[q]
    BY <1>1, <1>3
  <2> HIDE DEF p, q
  <2>2. p = q
    BY <1>0, <2>1
  <2> QED
    BY <2>2 DEF p, q
<1>9. /\ u.head = IF Len(r) = 0 THEN Nil ELSE r[1]
      /\ u.tail = IF Len(r) = 0 THEN Nil ELSE r[Len(r)]
  <2>1. l.heap[a].next = IF j < n THEN s[j + 1] ELSE Nil
    BY <1>4
  <2>2. l.heap[a].prev = IF j = 1 THEN Nil ELSE s[j - 1]
    BY <1>4
  <2>3. u.head = IF j = 1 THEN l.heap[a].next ELSE s[1]
    <3>1. 1 \in 1 .. n /\ l.head = s[1]
      BY <1>1, <1>4
    <3>2. s[1] = a <=> j = 1
      BY <1>0, <3>1
    <3> QED
      BY <1>2, <3>1, <3>2
  <2>4. u.tail = IF j = n THEN l.heap[a].prev ELSE s[n]
    <3>1. n \in 1 .. n /\ l.tail = s[n]
      BY <1>1, <1>4
    <3>2. s[n] = a <=> j = n
      BY <1>0, <3>1
    <3> QED
      BY <1>2, <3>1, <3>2
  <2>5. u.head = IF Len(r) = 0 THEN Nil ELSE r[1]
    BY <1>1, <1>3, <2>1, <2>3
  <2>6. u.tail = IF Len(r) = 0 THEN Nil ELSE r[Len(r)]
    BY <1>1, <1>3, <2>2, <2>4
  <2> QED
    BY <2>5, <2>6
<1>10. ASSUME NEW i \in 1 .. Len(r)
       PROVE  /\ u.heap[r[i]].next = IF i < Len(r) THEN r[i + 1] ELSE Nil
              /\ u.heap[r[i]].prev = IF i = 1 THEN Nil ELSE r[i - 1]
  <2> DEFINE p == IF i < j THEN i ELSE i + 1
  <2>1. p \in 1 .. n /\ p # j /\ r[i] = s[p]
    BY <1>1, <1>3
  <2> HIDE DEF p
  <2>0. s[p] \in D /\ s[p] # a
    BY <1>0, <1>4, <2>1
  <2>2. l.heap[a].next = IF j < n THEN s[j + 1] ELSE Nil
    BY <1>4
  <2>3. l.heap[a].prev = IF j = 1 THEN Nil ELSE s[j - 1]
    BY <1>4
  <2>4. s[p] = l.heap[a].next <=> p = j + 1
    <3>1. CASE j < n
      <4>1. j + 1 \in 1 .. n
        BY <1>1, <3>1
      <4> QED
        BY <1>0, <2>1, <2>2, <3>1, <4>1
    <3>2. CASE j = n
      <4>1. s[p] # Nil /\ l.heap[a].next = Nil
        BY <1>1, <1>4, <2>1, <2>2, <3>2
      <4>2. p # j + 1
        BY <1>1, <2>1, <3>2
      <4> QED
        BY <4>1, <4>2
    <3> QED
      BY <1>1, <3>1, <3>2
  <2>5. s[p] = l.heap[a].prev <=> p = j - 1
    <3>1. CASE j > 1
      <4>1. j - 1 \in 1 .. n /\ l.heap[a].prev = s[j - 1]
        BY <1>1, <2>3, <3>1
      <4>2. s[p] = s[j - 1] <=> p = j - 1
        BY <1>0, <2>1, <4>1
      <4> QED
        BY <4>1, <4>2
    <3>2. CASE j = 1
      <4>1. s[p] # Nil /\ l.heap[a].prev = Nil
        BY <1>4, <2>1, <2>3, <3>2
      <4>2. p # j - 1
        BY <2>1, <3>2
      <4> QED
        BY <4>1, <4>2
    <3> QED
      BY <1>1, <3>1, <3>2
  <2>6. u.heap[s[p]].next = IF p = j - 1 THEN l.heap[a].next ELSE l.heap[s[p]].next
    BY <1>2, <2>0, <2>5
  <2>7. u.heap[s[p]].prev = IF p = j + 1 THEN l.heap[a].prev ELSE l.heap[s[p]].prev
    BY <1>2, <2>0, <2>4
  <2>8. u.heap[s[p]].next = IF p = j - 1 THEN IF j < n THEN s[j + 1] ELSE Nil
                            ELSE IF p < n THEN s[p + 1] ELSE Nil
    BY <1>4, <2>1, <2>2, <2>6
  <2>9. u.heap[s[p]].prev = IF p = j + 1 THEN IF j = 1 THEN Nil ELSE s[j - 1]
                            ELSE IF p = 1 THEN Nil ELSE s[p - 1]
    BY <1>4, <2>1, <2>3, <2>7
  <2>10. i < n - 1 => r[i + 1] = IF i + 1 < j THEN s[i + 1] ELSE s[i + 2]
    BY <1>1, <1>3
  <2>11. i > 1 => r[i - 1] = IF i - 1 < j THEN s[i - 1] ELSE s[i]
    BY <1>1, <1>3
  <2> USE DEF p
  <2>12. u.heap[r[i]].next = IF i < Len(r) THEN r[i + 1] ELSE Nil
    BY <1>1, <1>3, <2>1, <2>8, <2>10
  <2>13. u.heap[r[i]].prev = IF i = 1 THEN Nil ELSE r[i - 1]
    BY <1>1, <1>3, <2>1, <2>9, <2>11
  <2> QED
    BY <2>12, <2>13
<1>11. Path(u, r, D \ {a})
  BY <1>6, <1>7, <1>8, <1>9, <1>10 DEF Path
<1>12. IsHeap(u.heap) /\ u.heap[a].next = Nil /\ SamePayload(u.heap, l.heap, D)
  BY <1>1, <1>2 DEF IsHeap, SamePayload
<1> QED
  BY <1>2, <1>11, <1>12 DEF u, r

\* append(_:) puts a container that is set aside at the end of the order.
LEMMA LinkPath ==
  ASSUME NEW l, IsHeap(l.heap), NEW a \in DOMAIN l.heap, NEW s,
         Path(l, s, DOMAIN l.heap \ {a}), l.heap[a].next = Nil
  PROVE  LET k == Link(l, a) IN
         /\ Path(k, Append(s, a), DOMAIN l.heap)
         /\ DOMAIN k.heap = DOMAIN l.heap /\ IsHeap(k.heap)
         /\ SamePayload(k.heap, l.heap, DOMAIN l.heap)
<1> DEFINE k == Link(l, a)
           r == Append(s, a)
           D == DOMAIN l.heap
           n == Len(s)
<1>1. s \in Seq(D \ {a}) /\ s \in Seq(D) /\ n \in Nat
  BY DEF Path
<1>2. /\ \A i \in 1 .. n : s[i] \in D /\ s[i] # Nil /\ s[i] # a
      /\ \A x \in D \ {a} : \E i \in 1 .. n : s[i] = x
      /\ l.head = IF n = 0 THEN Nil ELSE s[1]
      /\ l.tail = IF n = 0 THEN Nil ELSE s[n]
      /\ \A i \in 1 .. n :
           /\ l.heap[s[i]].next = IF i < n THEN s[i + 1] ELSE Nil
           /\ l.heap[s[i]].prev = IF i = 1 THEN Nil ELSE s[i - 1]
  <2>1. \A i \in 1 .. n : s[i] \in D \ {a}
    BY <1>1, ElementOfSeq
  <2>2. Nil \notin D
    BY CacheAssumption DEF IsHeap
  <2>3. \A i \in 1 .. n : s[i] \in D /\ s[i] # Nil /\ s[i] # a
    BY <2>1, <2>2
  <2> QED
    BY <2>3 DEF Path
<1>3. \A i, j \in 1 .. n : s[i] = s[j] => i = j
  BY DEF Path
<1>4. l.tail \in Ref
  BY <1>1, <1>2 DEF IsHeap, Ref
<1>5. /\ DOMAIN k.heap = D
      /\ \A x \in D :
           /\ k.heap[x].prev = IF x = a THEN l.tail ELSE l.heap[x].prev
           /\ k.heap[x].next = IF x = l.tail THEN a ELSE l.heap[x].next
           /\ k.heap[x].key = l.heap[x].key /\ k.heap[x].value = l.heap[x].value
           /\ k.heap[x].cost = l.heap[x].cost
           /\ k.heap[x] \in Containers
      /\ k.head = IF l.head = Nil THEN a ELSE l.head
      /\ k.tail = a
  BY <1>4, LinkFields
<1>6. /\ r \in Seq(D) /\ Len(r) = n + 1
      /\ \A i \in 1 .. n + 1 : r[i] = IF i <= n THEN s[i] ELSE a
  BY <1>1, AppendElements
<1> HIDE DEF k, r
<1>7. \A x \in D : \E i \in 1 .. Len(r) : r[i] = x
  <2>1. \A i \in 1 .. n : i \in 1 .. Len(r) /\ r[i] = s[i]
    BY <1>1, <1>6
  <2>2. n + 1 \in 1 .. Len(r) /\ r[n + 1] = a
    BY <1>1, <1>6
  <2>3. ASSUME NEW x \in D \ {a} PROVE \E i \in 1 .. Len(r) : r[i] = x
    BY <1>2, <2>1
  <2> QED
    BY <2>2, <2>3
<1>8. \A i, j \in 1 .. Len(r) : r[i] = r[j] => i = j
  BY <1>1, <1>2, <1>3, <1>6
<1>9. /\ k.head = IF Len(r) = 0 THEN Nil ELSE r[1]
      /\ k.tail = IF Len(r) = 0 THEN Nil ELSE r[Len(r)]
  BY <1>1, <1>2, <1>5, <1>6
<1>10. ASSUME NEW i \in 1 .. Len(r)
       PROVE  /\ k.heap[r[i]].next = IF i < Len(r) THEN r[i + 1] ELSE Nil
              /\ k.heap[r[i]].prev = IF i = 1 THEN Nil ELSE r[i - 1]
  <2>1. CASE i <= n
    <3>1. r[i] = s[i] /\ s[i] \in D /\ s[i] # a /\ i \in 1 .. n
      BY <1>1, <1>2, <1>6, <2>1
    <3>2. n \in 1 .. n /\ l.tail = s[n]
      BY <1>1, <1>2, <2>1
    <3>3. s[i] = l.tail <=> i = n
      BY <1>3, <3>1, <3>2
    <3>4. k.heap[s[i]].next = IF i = n THEN a ELSE s[i + 1]
      <4>1. l.heap[s[i]].next = IF i < n THEN s[i + 1] ELSE Nil
        BY <1>2, <3>1
      <4>2. k.heap[s[i]].next = IF i = n THEN a ELSE l.heap[s[i]].next
        BY <1>5, <3>1, <3>3
      <4> QED
        BY <1>1, <3>1, <4>1, <4>2
    <3>5. k.heap[s[i]].prev = IF i = 1 THEN Nil ELSE s[i - 1]
      <4>1. l.heap[s[i]].prev = IF i = 1 THEN Nil ELSE s[i - 1]
        BY <1>2, <3>1
      <4>2. k.heap[s[i]].prev = l.heap[s[i]].prev
        BY <1>5, <3>1
      <4> QED
        BY <4>1, <4>2
    <3> QED
      BY <1>1, <1>6, <3>1, <3>4, <3>5
  <2>2. CASE i = n + 1
    <3>1. r[i] = a /\ Len(r) = i
      BY <1>1, <1>6, <2>2
    <3>2. l.tail # a
      BY <1>1, <1>2, CacheAssumption DEF IsHeap
    <3>3. k.heap[a].next = Nil /\ k.heap[a].prev = l.tail
      BY <1>5, <3>2
    <3>4. l.tail = IF i = 1 THEN Nil ELSE r[i - 1]
      BY <1>1, <1>2, <1>6, <2>2
    <3> QED
      BY <3>1, <3>3, <3>4
  <2> QED
    BY <1>1, <1>6, <2>1, <2>2
<1>11. Path(k, r, D)
  BY <1>6, <1>7, <1>8, <1>9, <1>10 DEF Path
<1>12. IsHeap(k.heap) /\ SamePayload(k.heap, l.heap, D)
  BY <1>5 DEF IsHeap, SamePayload
<1> QED
  BY <1>5, <1>11, <1>12 DEF k, r

\* Lists that agree on their ends and on the links of D have the same order.
LEMMA SamePath ==
  ASSUME NEW l, NEW m, NEW D, NEW s, Path(l, s, D), m.head = l.head, m.tail = l.tail,
         \A x \in D : m.heap[x].next = l.heap[x].next /\ m.heap[x].prev = l.heap[x].prev
  PROVE  Path(m, s, D)
<1>1. \A i \in 1 .. Len(s) : s[i] \in D
  BY DEF Path
<1> QED
  BY <1>1 DEF Path

\* remove(_:) then append(_:): the container becomes the newest.
LEMMA MoveToEnd ==
  ASSUME NEW l, IsHeap(l.heap), NEW s, Path(l, s, DOMAIN l.heap), NEW j \in 1 .. Len(s)
  PROVE  LET m == Link(Unlink(l, s[j]), s[j]) IN
         /\ Path(m, Append(RemoveAt(s, j), s[j]), DOMAIN l.heap)
         /\ DOMAIN m.heap = DOMAIN l.heap
         /\ SamePayload(m.heap, l.heap, DOMAIN l.heap)
<1> DEFINE a == s[j]
           u == Unlink(l, a)
           m == Link(u, a)
           r == RemoveAt(s, j)
<1>1. a \in DOMAIN l.heap
  BY DEF Path
<1>2. /\ Path(u, r, DOMAIN l.heap \ {a})
      /\ DOMAIN u.heap = DOMAIN l.heap /\ IsHeap(u.heap)
      /\ u.heap[a].next = Nil
      /\ SamePayload(u.heap, l.heap, DOMAIN l.heap)
  BY UnlinkPath
<1> HIDE DEF u, r
<1>3. /\ Path(m, Append(r, a), DOMAIN u.heap)
      /\ DOMAIN m.heap = DOMAIN u.heap
      /\ SamePayload(m.heap, u.heap, DOMAIN u.heap)
  BY <1>1, <1>2, LinkPath
<1> HIDE DEF m
<1>4. SamePayload(m.heap, l.heap, DOMAIN l.heap)
  BY <1>2, <1>3 DEF SamePayload
<1> QED
  BY <1>2, <1>3, <1>4 DEF m, u, r

\* remove(_:) and the dictionary's release: the container leaves the order.
LEMMA DropPath ==
  ASSUME NEW l, IsHeap(l.heap), NEW s, Path(l, s, DOMAIN l.heap), NEW j \in 1 .. Len(s)
  PROVE  LET f == Free(Unlink(l, s[j]), s[j]) IN
         /\ Path(f, RemoveAt(s, j), DOMAIN l.heap \ {s[j]})
         /\ DOMAIN f.heap = DOMAIN l.heap \ {s[j]}
         /\ SamePayload(f.heap, l.heap, DOMAIN l.heap \ {s[j]})
<1> DEFINE a == s[j]
           u == Unlink(l, a)
           r == RemoveAt(s, j)
           D == DOMAIN l.heap \ {a}
           h == u.heap
           first == u.head
           last == u.tail
           f == Free(u, a)
<1>1. /\ Path(u, r, D)
      /\ DOMAIN h = DOMAIN l.heap
      /\ SamePayload(h, l.heap, DOMAIN l.heap)
  BY UnlinkPath
<1>2. u = [heap |-> h, head |-> first, tail |-> last]
  BY ListRecords
<1> HIDE DEF u, h, first, last
<1>3. f = [heap |-> [x \in DOMAIN h \ {a} |-> h[x]], head |-> first, tail |-> last]
  BY <1>2 DEF Free
<1> DEFINE g == [x \in DOMAIN h \ {a} |-> h[x]]
<1>4. DOMAIN g = D /\ \A x \in D : g[x] = h[x]
  BY <1>1
<1> HIDE DEF f, g, r
<1>5. f.heap = g /\ f.head = first /\ f.tail = last
  BY <1>3 DEF g
<1>6. u.heap = h /\ u.head = first /\ u.tail = last
  BY <1>2
<1>7. \A x \in D : f.heap[x].next = u.heap[x].next /\ f.heap[x].prev = u.heap[x].prev
  BY <1>4, <1>5, <1>6
<1>8. Path(f, r, D)
  BY <1>1, <1>5, <1>6, <1>7, SamePath
<1>9. SamePayload(f.heap, l.heap, D)
  BY <1>1, <1>4, <1>5 DEF SamePayload
<1> QED
  BY <1>4, <1>5, <1>8, <1>9 DEF f, u, r
-----------------------------------------------------------------------------

\* A non-empty set of numbers has a least element.
LEMMA LeastNat ==
  ASSUME NEW T, T \subseteq Nat, T # {}
  PROVE  \E m \in T : \A k \in T : m <= k
<1>1. PICK m \in T : \A k \in T : ~(<< k, m >> \in OpToRel(<, Nat))
  BY NatLessThanWellFounded, WFMin
<1>2. \A k \in T : ~(k < m)
  BY <1>1 DEF OpToRel
<1> QED
  BY <1>2

\* f and g go on alike where they began alike.
GoOnAlike(f, g, first, last) ==
  \A i \in first .. last : (\A j \in first .. i - 1 : f[j] = g[j]) => f[i] = g[i]

\* Two functions that go on alike from what came before are alike.
LEMMA SameRecursion ==
  ASSUME NEW first \in Nat, NEW last \in Int, NEW f, NEW g, GoOnAlike(f, g, first, last)
  PROVE  \A i \in first .. last : f[i] = g[i]
<1> DEFINE T == {i \in first .. last : f[i] # g[i]}
<1>1. SUFFICES ASSUME T # {} PROVE FALSE
  OBVIOUS
<1>2. T \subseteq Nat
  OBVIOUS
<1>3. PICK m \in T : \A k \in T : m <= k
  BY <1>1, <1>2, LeastNat
<1>4. \A j \in first .. m - 1 : f[j] = g[j]
  BY <1>3
<1> QED
  BY <1>3, <1>4 DEF GoOnAlike

\* The length of the order is the number of containers.
LEMMA PathLength ==
  ASSUME NEW l, NEW D, NEW s, Path(l, s, D)
  PROVE  IsFiniteSet(D) /\ Cardinality(D) = Len(s) /\ Len(s) \in Nat
<1>1. Len(s) \in Nat /\ s \in [1 .. Len(s) -> D]
  BY LenProperties DEF Path
<1>2. s \in Bijection(1 .. Len(s), D)
  BY <1>1 DEF Path, Bijection, Injection, Surjection, IsInjective
<1>3. ExistsBijection(1 .. Len(s), D)
  BY <1>2 DEF ExistsBijection
<1> QED
  BY <1>1, <1>3, FS_CountingElements, FS_NatBijection

\* Walking from head along next visits the containers in their order.
LEMMA WalkIsPath ==
  ASSUME NEW l, IsHeap(l.heap), NEW s, Path(l, s, DOMAIN l.heap)
  PROVE  Walk(l.heap, l.head) = s
<1> DEFINE h == l.heap
           D == DOMAIN l.heap
           n == Len(s)
           g == [i \in 1 .. n + 1 |-> IF i <= n THEN s[i] ELSE Nil]
<1>1. n \in Nat /\ Cardinality(D) = n
  BY PathLength
<1>2. Nil \notin D /\ \A i \in 1 .. n : s[i] \in D
  <2>1. s \in Seq(D)
    BY DEF Path
  <2> QED
    BY <2>1, ElementOfSeq, CacheAssumption DEF IsHeap
<1>3. /\ l.head = IF n = 0 THEN Nil ELSE s[1]
      /\ \A i \in 1 .. n : h[s[i]].next = IF i < n THEN s[i + 1] ELSE Nil
  BY DEF Path
<1>4. g = [i \in 1 .. Cardinality(D) + 1 |->
             IF i = 1 THEN l.head ELSE IF g[i - 1] \in D THEN h[g[i - 1]].next ELSE Nil]
  <2> SUFFICES ASSUME NEW i \in 1 .. n + 1
               PROVE  g[i] = IF i = 1 THEN l.head
                             ELSE IF g[i - 1] \in D THEN h[g[i - 1]].next ELSE Nil
    BY <1>1
  <2>1. CASE i = 1
    BY <1>1, <1>3, <2>1
  <2>2. CASE i # 1
    <3>1. i - 1 \in 1 .. n /\ i - 1 + 1 = i
      BY <1>1, <2>2
    <3>2. g[i - 1] = s[i - 1] /\ g[i - 1] \in D
      BY <1>1, <1>2, <3>1
    <3>3. h[s[i - 1]].next = IF i - 1 < n THEN s[i] ELSE Nil
      BY <1>3, <3>1
    <3> QED
      BY <1>1, <2>2, <3>1, <3>2, <3>3
  <2> QED
    BY <2>1, <2>2
<1> HIDE DEF g
<1>5. \E at : /\ at = [i \in 1 .. Cardinality(D) + 1 |->
                         IF i = 1 THEN l.head
                         ELSE IF at[i - 1] \in D THEN h[at[i - 1]].next ELSE Nil]
              /\ Walk(h, l.head) = [i \in {j \in DOMAIN at : at[j] \in D} |-> at[i]]
  BY <1>4, Zenon DEF Walk
<1>6. PICK at : /\ at = [i \in 1 .. n + 1 |->
                           IF i = 1 THEN l.head
                           ELSE IF at[i - 1] \in D THEN h[at[i - 1]].next ELSE Nil]
                /\ Walk(h, l.head) = [i \in {j \in DOMAIN at : at[j] \in D} |-> at[i]]
  BY <1>1, <1>5, Zenon
<1>7. \A i \in 1 .. n + 1 : at[i] = IF i = 1 THEN l.head
                                    ELSE IF at[i - 1] \in D THEN h[at[i - 1]].next ELSE Nil
  BY <1>6, Zenon
<1>8. \A i \in 1 .. n + 1 : g[i] = IF i = 1 THEN l.head
                                   ELSE IF g[i - 1] \in D THEN h[g[i - 1]].next ELSE Nil
  BY <1>1, <1>4
<1>9. ASSUME NEW i \in 1 .. n + 1, \A j \in 1 .. i - 1 : at[j] = g[j] PROVE at[i] = g[i]
  <2>1. i # 1 => i - 1 \in 1 .. i - 1
    BY <1>1
  <2> QED
    BY <1>7, <1>8, <1>9, <2>1
<1>10. \A i \in 1 .. n + 1 : at[i] = g[i]
  <2>1. GoOnAlike(at, g, 1, n + 1)
    BY <1>9 DEF GoOnAlike
  <2> QED
    BY <1>1, <2>1, SameRecursion
<1>11. DOMAIN at = 1 .. n + 1
  BY <1>6, Zenon
<1>12. {j \in DOMAIN at : at[j] \in D} = 1 .. n /\ \A i \in 1 .. n : at[i] = s[i]
  BY <1>1, <1>2, <1>10, <1>11 DEF g
<1>13. Walk(h, l.head) = [i \in 1 .. n |-> s[i]]
  BY <1>6, <1>12
<1>14. s = [i \in 1 .. n |-> s[i]]
  BY <1>1, LenProperties DEF Path
<1> QED
  BY <1>13, <1>14

\* c[i] is the cost of the first i containers in the order s.
Sums(h, s, c) ==
  /\ c \in [0 .. Len(s) -> Nat] /\ c[0] = 0
  /\ \A i \in 1 .. Len(s) : c[i] = c[i - 1] + h[s[i]].cost
  /\ \A i, k \in 0 .. Len(s) : i <= k => c[i] <= c[k]

\* The last sum is what the entries of the order cost.
LEMMA CostIsSum ==
  ASSUME NEW D, NEW h, NEW s \in Seq(D), NEW c, Sums(h, s, c)
  PROVE  CostOf(h, s) = c[Len(s)]
<1> DEFINE n == Len(s)
<1>1. n \in Nat
  OBVIOUS
<1>2. c = [i \in 0 .. n |-> IF i = 0 THEN 0 ELSE c[i - 1] + h[s[i]].cost]
  BY <1>1 DEF Sums
<1>3. PICK sum : /\ sum = [i \in 0 .. n |-> IF i = 0 THEN 0 ELSE sum[i - 1] + h[s[i]].cost]
                 /\ CostOf(h, s) = sum[n]
  BY <1>2, Zenon DEF CostOf
<1>4. \A i \in 0 .. n : sum[i] = IF i = 0 THEN 0 ELSE sum[i - 1] + h[s[i]].cost
  BY <1>3, Zenon
<1>5. \A i \in 0 .. n : c[i] = IF i = 0 THEN 0 ELSE c[i - 1] + h[s[i]].cost
  BY <1>1 DEF Sums
<1>6. ASSUME NEW i \in 0 .. n, \A j \in 0 .. i - 1 : sum[j] = c[j] PROVE sum[i] = c[i]
  <2>1. i # 0 => i - 1 \in 0 .. i - 1
    BY <1>1
  <2> QED
    BY <1>4, <1>5, <1>6, <2>1
<1>7. \A i \in 0 .. n : sum[i] = c[i]
  <2>1. GoOnAlike(sum, c, 0, n)
    BY <1>6 DEF GoOnAlike
  <2>2. 0 \in Nat /\ n \in Int
    BY <1>1
  <2> HIDE DEF n
  <2> QED
    BY <2>1, <2>2, SameRecursion
<1> QED
  BY <1>1, <1>3, <1>7

\* Orders of containers of equal cost have the same sums.
LEMMA SameSums ==
  ASSUME NEW D, NEW h, NEW g, NEW s \in Seq(D), NEW c, Sums(h, s, c),
         \A x \in D : g[x].cost = h[x].cost
  PROVE  Sums(g, s, c)
  BY DEF Sums

\* A container that leaves the order takes its cost with it.
LEMMA SumsRemove ==
  ASSUME NEW D, NEW h, NEW s \in Seq(D), \A x \in D : h[x].cost \in Nat,
         NEW c, Sums(h, s, c), NEW j \in 1 .. Len(s)
  PROVE  \E d : Sums(h, RemoveAt(s, j), d) /\ d[Len(s) - 1] = c[Len(s)] - h[s[j]].cost
<1> DEFINE n == Len(s)
           w == h[s[j]].cost
           r == RemoveAt(s, j)
           d == [i \in 0 .. n - 1 |-> IF i < j THEN c[i] ELSE c[i + 1] - w]
<1>1. n \in Nat /\ w \in Nat /\ j \in 1 .. n
  OBVIOUS
<1>2. r \in Seq(D) /\ Len(r) = n - 1 /\ \A i \in 1 .. n - 1 : r[i] = IF i < j THEN s[i] ELSE s[i + 1]
  BY RemoveAtProperties
<1>3. /\ \A i \in 0 .. n : c[i] \in Nat
      /\ c[0] = 0
      /\ \A i \in 1 .. n : c[i] = c[i - 1] + h[s[i]].cost
      /\ \A i, k \in 0 .. n : i <= k => c[i] <= c[k]
  BY DEF Sums
<1>4. c[j] = c[j - 1] + w
  BY <1>3
<1> HIDE DEF w, r
<1>5. \A i \in 0 .. n - 1 : d[i] = IF i < j THEN c[i] ELSE c[i + 1] - w
  OBVIOUS
<1>6. \A i \in 0 .. n : /\ i >= j => c[i] - w \in Nat /\ c[j - 1] <= c[i] - w
                        /\ i < j => c[i] <= c[j - 1]
  BY <1>1, <1>3, <1>4
<1>7. d \in [0 .. n - 1 -> Nat]
  BY <1>1, <1>3, <1>6
<1> HIDE DEF d
<1>8. \A i \in 1 .. n - 1 : d[i] = d[i - 1] + h[r[i]].cost
  <2> SUFFICES ASSUME NEW i \in 1 .. n - 1 PROVE d[i] = d[i - 1] + h[r[i]].cost
    OBVIOUS
  <2>1. CASE i < j
    BY <1>1, <1>2, <1>3, <1>5, <2>1
  <2>2. CASE i >= j
    <3>1. r[i] = s[i + 1] /\ d[i] = c[i + 1] - w
      BY <1>1, <1>2, <1>5, <2>2
    <3>2. i + 1 \in 1 .. n /\ i + 1 - 1 = i
      BY <1>1
    <3>3. c[i + 1] = c[i] + h[s[i + 1]].cost
      BY <1>3, <3>2
    <3>4. h[s[i + 1]].cost \in Nat
      BY <3>2
    <3>5. d[i - 1] = c[i] - w
      <4>1. CASE i = j
        BY <1>1, <1>3, <1>4, <1>5, <4>1
      <4>2. CASE i > j
        BY <1>1, <1>5, <4>2
      <4> QED
        BY <1>1, <2>2, <4>1, <4>2
    <3>6. c[i] \in Nat /\ c[i + 1] \in Nat
      BY <1>1, <1>3
    <3> QED
      BY <1>1, <3>1, <3>3, <3>4, <3>5, <3>6
  <2> QED
    BY <1>1, <2>1, <2>2
<1>9. ASSUME NEW i \in 0 .. n - 1, NEW k \in 0 .. n - 1, i <= k PROVE d[i] <= d[k]
  <2>1. i \in 0 .. n /\ i + 1 \in 0 .. n /\ k \in 0 .. n /\ k + 1 \in 0 .. n
    BY <1>1
  <2>2. c[i] <= c[k] /\ c[i + 1] <= c[k + 1]
    BY <1>3, <1>9, <2>1
  <2>3. c[i] \in Nat /\ c[i + 1] \in Nat /\ c[k] \in Nat /\ c[k + 1] \in Nat /\ c[j - 1] \in Nat
    BY <1>1, <1>3, <2>1
  <2>4. CASE k < j
    BY <1>1, <1>5, <1>9, <2>2, <2>4
  <2>5. CASE i < j /\ k >= j
    <3>1. d[i] = c[i] /\ d[k] = c[k + 1] - w
      BY <1>1, <1>5, <2>5
    <3>2. c[j - 1] <= c[k + 1] - w /\ c[i] <= c[j - 1]
      BY <1>1, <1>6, <2>1, <2>5
    <3> QED
      BY <1>1, <2>3, <3>1, <3>2
  <2>6. CASE i >= j
    BY <1>1, <1>5, <1>9, <2>2, <2>3, <2>6
  <2> QED
    BY <1>1, <1>9, <2>4, <2>5, <2>6
<1>10. d[0] = 0 /\ d[n - 1] = c[n] - w
  BY <1>1, <1>3, <1>4, <1>5
<1>11. Sums(h, r, d)
  BY <1>2, <1>7, <1>8, <1>9, <1>10 DEF Sums
<1> QED
  BY <1>10, <1>11 DEF w, r

\* A container that comes last adds its cost.
LEMMA SumsAppend ==
  ASSUME NEW D, NEW h, NEW s \in Seq(D), NEW a \in D, \A x \in D : h[x].cost \in Nat,
         NEW c, Sums(h, s, c)
  PROVE  \E d : Sums(h, Append(s, a), d) /\ d[Len(s) + 1] = c[Len(s)] + h[a].cost
<1> DEFINE n == Len(s)
           w == h[a].cost
           r == Append(s, a)
           d == [i \in 0 .. n + 1 |-> IF i <= n THEN c[i] ELSE c[n] + w]
<1>1. n \in Nat /\ w \in Nat
  OBVIOUS
<1>2. r \in Seq(D) /\ Len(r) = n + 1 /\ \A i \in 1 .. n + 1 : r[i] = IF i <= n THEN s[i] ELSE a
  BY AppendElements
<1>3. /\ \A i \in 0 .. n : c[i] \in Nat
      /\ c[0] = 0
      /\ \A i \in 1 .. n : c[i] = c[i - 1] + h[s[i]].cost
      /\ \A i, k \in 0 .. n : i <= k => c[i] <= c[k]
  BY DEF Sums
<1> HIDE DEF w, r
<1>4. \A i \in 0 .. n + 1 : d[i] = IF i <= n THEN c[i] ELSE c[n] + w
  OBVIOUS
<1>5. d \in [0 .. n + 1 -> Nat]
  BY <1>1, <1>3
<1> HIDE DEF d
<1>6. \A i \in 1 .. n + 1 : d[i] = d[i - 1] + h[r[i]].cost
  BY <1>1, <1>2, <1>3, <1>4 DEF w
<1>7. \A i, k \in 0 .. n + 1 : i <= k => d[i] <= d[k]
  BY <1>1, <1>3, <1>4
<1>8. d[0] = 0 /\ d[n + 1] = c[n] + w
  BY <1>1, <1>3, <1>4
<1>9. Sums(h, r, d)
  BY <1>2, <1>5, <1>6, <1>7, <1>8 DEF Sums
<1> QED
  BY <1>8, <1>9 DEF w, r
-----------------------------------------------------------------------------

\* The order that s gives the cached containers, and what they cost.
Order(s, c) == Path(List, s, DOMAIN heap) /\ Sums(heap, s, c)

\* A step gave the containers the order r: a cost left the sum, another came in.
Reorders(s, c, r, out, in) ==
  \E d : Order(r, d)' /\ d[Len(r)] = c[Len(s)] - out + in

\* The counter moved with the cost of the entries.
Counted(s, c, r) == \E d : Order(r, d)' /\ totalCost' - d[Len(r)] = totalCost - c[Len(s)]

\* A step made the container s[j] the newest, with value v.
Touches(s, c, j, v) ==
  /\ DOMAIN heap' = DOMAIN heap
  /\ \A x \in DOMAIN heap : x # s[j] =>
       heap'[x].key = heap[x].key /\ heap'[x].value = heap[x].value
  /\ heap'[s[j]].key = heap[s[j]].key /\ heap'[s[j]].value = v
  /\ Counted(s, c, Append(RemoveAt(s, j), s[j]))

\* A step added a container for the new key k.
Adds(s, c, k, v) ==
  \E a \in Addr \ DOMAIN heap :
    /\ \A x \in DOMAIN heap : heap[x].key # k
    /\ DOMAIN heap' = DOMAIN heap \cup {a}
    /\ SamePayload(heap', heap, DOMAIN heap)
    /\ heap'[a].key = k /\ heap'[a].value = v
    /\ Counted(s, c, Append(s, a))

\* A step removed the container s[j].
Drops(s, c, j) ==
  /\ DOMAIN heap' = DOMAIN heap \ {s[j]}
  /\ SamePayload(heap', heap, DOMAIN heap \ {s[j]})
  /\ Counted(s, c, RemoveAt(s, j))

\* The list stored by SetList is ordered as the list that was passed.
LEMMA SetListPath ==
  ASSUME NEW l, SetList(l), NEW s, NEW D, Path(l, s, D), DOMAIN l.heap = D
  PROVE  Path(List, s, DOMAIN heap)' /\ heap' = l.heap
  BY DEF SetList, List, Path

\* What LInv and an order say of each container.
LEMMA OrderFacts ==
  ASSUME LInv, NEW s, NEW c, Order(s, c)
  PROVE  /\ s \in Seq(DOMAIN heap) /\ Len(s) \in Nat
         /\ IsHeap(List.heap) /\ Path(List, s, DOMAIN List.heap)
         /\ \A x \in DOMAIN heap : heap[x] \in Containers /\ heap[x].cost \in Nat
         /\ \A x \in DOMAIN heap : \E i \in 1 .. Len(s) : s[i] = x
         /\ \A i \in 1 .. Len(s) : s[i] \in DOMAIN heap
         /\ c[Len(s)] \in Nat
<1>1. List.heap = heap
  BY ListFields
<1>2. s \in Seq(DOMAIN heap) /\ \A x \in DOMAIN heap : \E i \in 1 .. Len(s) : s[i] = x
  BY DEF Order, Path
<1>3. Len(s) \in Nat /\ \A i \in 1 .. Len(s) : s[i] \in DOMAIN heap
  BY <1>2, ElementOfSeq, LenProperties
<1>4. \A x \in DOMAIN heap : heap[x] \in Containers /\ heap[x].cost \in Nat
  BY CacheAssumption DEF LInv, IsHeap, Containers
<1>5. c[Len(s)] \in Nat
  BY <1>3 DEF Order, Sums
<1> QED
  BY <1>1, <1>2, <1>3, <1>4, <1>5 DEF LInv, Order

\* What setValue and value(forKey:) do to a cached container: it becomes the
\* newest, and the counter follows its cost.
LEMMA TouchOrder ==
  ASSUME LInv, NEW s, NEW c, Order(s, c), NEW j \in 1 .. Len(s), NEW new \in Containers,
         new.key = heap[s[j]].key, new.prev = heap[s[j]].prev, new.next = heap[s[j]].next,
         NEW l, l.head = head, l.tail = tail, DOMAIN l.heap = DOMAIN heap,
         \A x \in DOMAIN heap : l.heap[x] = IF x = s[j] THEN new ELSE heap[x],
         SetList(Link(Unlink(l, s[j]), s[j]))
  PROVE  LET r == Append(RemoveAt(s, j), s[j]) IN
         /\ DOMAIN heap' = DOMAIN heap
         /\ \A x \in DOMAIN heap : x # s[j] =>
              heap'[x].key = heap[x].key /\ heap'[x].value = heap[x].value
         /\ heap'[s[j]].key = new.key /\ heap'[s[j]].value = new.value
         /\ Reorders(s, c, r, heap[s[j]].cost, new.cost)
<1> DEFINE a == s[j]
           D == DOMAIN heap
           h == l.heap
           m == Link(Unlink(l, a), a)
           q == RemoveAt(s, j)
           r == Append(q, a)
           w == heap[a].cost
           n == Len(s)
<1>1. /\ s \in Seq(D) /\ n \in Nat /\ a \in D
      /\ \A x \in D : heap[x] \in Containers /\ heap[x].cost \in Nat
      /\ c[n] \in Nat
  BY OrderFacts
<1>2. DOMAIN h = D /\ \A x \in D : h[x] = IF x = a THEN new ELSE heap[x]
  OBVIOUS
<1>4. new.cost \in Nat
  BY CacheAssumption DEF Containers
<1>5. l.heap = h /\ l.head = head /\ l.tail = tail
  OBVIOUS
<1> HIDE DEF a, h
<1>6. IsHeap(l.heap)
  BY <1>1, <1>2, <1>5 DEF LInv, IsHeap
<1>7. Path(l, s, D)
  <2>1. \A x \in D : l.heap[x].next = List.heap[x].next /\ l.heap[x].prev = List.heap[x].prev
    BY <1>2, <1>5, ListFields DEF a
  <2>2. Path(List, s, D)
    BY DEF Order
  <2> QED
    BY <1>5, <2>1, <2>2, ListFields, SamePath
<1>8. /\ Path(m, r, D) /\ DOMAIN m.heap = D
      /\ SamePayload(m.heap, h, D)
  <2>1. DOMAIN l.heap = D
    BY <1>2, <1>5
  <2>2. Path(l, s, DOMAIN l.heap)
    BY <1>7, <2>1
  <2>3. /\ Path(m, r, DOMAIN l.heap)
        /\ DOMAIN m.heap = DOMAIN l.heap
        /\ SamePayload(m.heap, l.heap, DOMAIN l.heap)
    BY <1>6, <2>2, MoveToEnd DEF a
  <2> HIDE DEF m, r
  <2> QED
    BY <1>5, <2>1, <2>3
<1>9. SetList(m)
  BY DEF a
<1> HIDE DEF m, w
<1>10. Path(List, r, DOMAIN heap)' /\ heap' = m.heap
  BY <1>8, <1>9, SetListPath
<1>11. /\ DOMAIN heap' = D
       /\ \A x \in D : x # a => heap'[x].key = heap[x].key /\ heap'[x].value = heap[x].value
       /\ heap'[a].key = new.key /\ heap'[a].value = new.value
       /\ \A x \in D : heap'[x].cost = h[x].cost
  BY <1>1, <1>2, <1>8, <1>10 DEF SamePayload
<1>12. PICK d : Sums(heap, q, d) /\ d[n - 1] = c[n] - w
  BY <1>1, SumsRemove DEF Order, a, w
<1>13. /\ Path(m, r, D)
       /\ q \in Seq(D) /\ Len(q) = n - 1
  BY <1>1, <1>8, RemoveAtProperties
<1>14. q \in Seq(D \ {a})
  <2>1. Path(Unlink(List, a), q, D \ {a})
    <3>1. IsHeap(List.heap) /\ Path(List, s, DOMAIN List.heap) /\ List.heap = heap
      BY OrderFacts, ListFields
    <3>2. Path(Unlink(List, a), q, DOMAIN List.heap \ {a})
      BY <3>1, UnlinkPath DEF a
    <3> QED
      BY <3>1, <3>2
  <2> QED
    BY <2>1 DEF Path
<1> HIDE DEF q
<1>15. Sums(h, q, d)
  BY <1>2, <1>12, <1>14, SameSums
<1>16. \A x \in D : h[x].cost \in Nat
  BY <1>1, <1>2, <1>4
<1>17. PICK e : Sums(h, r, e) /\ e[n] = d[n - 1] + new.cost
  <2>0. q \in Seq(D) /\ a \in D
    BY <1>1, <1>13
  <2> HIDE DEF D, r
  <2>2. \E e : Sums(h, Append(q, a), e) /\ e[Len(q) + 1] = d[Len(q)] + h[a].cost
    BY <2>0, <1>15, <1>16, SumsAppend
  <2> USE DEF r
  <2>1. \E e : Sums(h, r, e) /\ e[Len(q) + 1] = d[Len(q)] + h[a].cost
    BY <2>2
  <2> QED
    BY <1>1, <1>2, <1>13, <2>1
<1>18. r \in Seq(D) /\ Len(r) = n
  BY <1>1, <1>13, AppendElements
<1> HIDE DEF r
<1>19. Sums(heap', r, e)
  BY <1>11, <1>17, <1>18, SameSums
<1>20. Order(r, e)'
  BY <1>10, <1>19 DEF Order
<1>21. Reorders(s, c, r, w, new.cost)
  BY <1>12, <1>17, <1>18, <1>20 DEF Reorders
<1> QED
  BY <1>11, <1>21 DEF a, r, q, w

\* What removeValue and a turn of clean() do: the container leaves the order and
\* the counter gives its cost back.
LEMMA DropOrder ==
  ASSUME LInv, NEW s, NEW c, Order(s, c), NEW j \in 1 .. Len(s),
         SetList(Free(Unlink(List, s[j]), s[j]))
  PROVE  LET r == RemoveAt(s, j) IN
         /\ DOMAIN heap' = DOMAIN heap \ {s[j]}
         /\ SamePayload(heap', heap, DOMAIN heap \ {s[j]})
         /\ Reorders(s, c, r, heap[s[j]].cost, 0)
<1> DEFINE a == s[j]
           D == DOMAIN heap
           m == Free(Unlink(List, a), a)
           r == RemoveAt(s, j)
           w == heap[a].cost
           n == Len(s)
<1>1. /\ s \in Seq(D) /\ n \in Nat /\ a \in D
      /\ \A x \in D : heap[x].cost \in Nat
  BY OrderFacts
<1>2. IsHeap(List.heap) /\ Path(List, s, DOMAIN List.heap) /\ List.heap = heap
  BY OrderFacts, ListFields
<1>3. /\ Path(m, r, DOMAIN List.heap \ {a})
      /\ DOMAIN m.heap = DOMAIN List.heap \ {a}
      /\ SamePayload(m.heap, List.heap, DOMAIN List.heap \ {a})
  BY <1>2, DropPath
<1>4. SetList(m)
  OBVIOUS
<1> HIDE DEF m, a
<1>5. /\ Path(m, r, D \ {a}) /\ DOMAIN m.heap = D \ {a}
      /\ SamePayload(m.heap, heap, D \ {a})
  BY <1>2, <1>3
<1>6. Path(List, r, DOMAIN heap)' /\ heap' = m.heap
  BY <1>4, <1>5, SetListPath
<1>7. PICK d : Sums(heap, r, d) /\ d[n - 1] = c[n] - w
  BY <1>1, SumsRemove DEF Order, a
<1>8. Len(r) = n - 1
  BY <1>1, RemoveAtProperties
<1> HIDE DEF r
<1>9. r \in Seq(D \ {a})
  BY <1>5 DEF Path
<1>10. Sums(heap', r, d)
  BY <1>5, <1>6, <1>7, <1>9, SameSums DEF SamePayload
<1>11. Order(r, d)'
  BY <1>6, <1>10 DEF Order
<1>12. w \in Nat /\ c[n] \in Nat
  BY <1>1, OrderFacts
<1> HIDE DEF w
<1>13. Reorders(s, c, r, w, 0)
  BY <1>7, <1>8, <1>11, <1>12 DEF Reorders
<1> QED
  BY <1>5, <1>6, <1>13 DEF a, r, w

\* setValue of a new key: its container is the newest, and its cost is counted.
LEMMA InsertOrder ==
  ASSUME LInv, CallsInv, NEW s, NEW c, Order(s, c), NEW t, NEW k \in CacheKeys, NEW v \in CacheValues,
         NEW cost \in Costs, InsertValue(t, k, v, cost)
  PROVE  Adds(s, c, k, v)
<1> DEFINE D == DOMAIN heap
           n == Len(s)
           new == [value |-> v, cost |-> cost, key |-> k, prev |-> Nil, next |-> Nil]
<1>1. PICK a \in Addr \ D :
        LET l == [List EXCEPT !.heap = [x \in D \cup {a} |-> IF x = a THEN new ELSE heap[x]]]
        IN  SetList(Link(l, a))
  BY DEF InsertValue
<1> DEFINE h == [x \in D \cup {a} |-> IF x = a THEN new ELSE heap[x]]
           l == [heap |-> h, head |-> head, tail |-> tail]
           m == Link(l, a)
           r == Append(s, a)
<1>2. SetList(m)
  BY <1>1 DEF List
<1>3. /\ DOMAIN h = D \cup {a} /\ h[a] = new
      /\ \A x \in D : h[x] = heap[x]
  OBVIOUS
<1>4. new \in Containers /\ new.key = k /\ new.next = Nil /\ new.value = v /\ new.cost = cost
  BY DEF Containers, Ref
<1>5. /\ s \in Seq(D) /\ n \in Nat /\ a \notin D
      /\ \A x \in D : heap[x] \in Containers /\ heap[x].cost \in Nat
      /\ \A i \in 1 .. n : s[i] \in D
  BY OrderFacts
<1> HIDE DEF h, new
<1>6. l.heap = h /\ l.head = head /\ l.tail = tail
  OBVIOUS
<1> HIDE DEF l
<1>7. IsHeap(l.heap)
  BY <1>3, <1>4, <1>5, <1>6 DEF LInv, IsHeap
<1>8. Path(l, s, DOMAIN l.heap \ {a})
  <2>1. \A x \in D : l.heap[x].next = List.heap[x].next /\ l.heap[x].prev = List.heap[x].prev
    BY <1>3, <1>6, ListFields
  <2>2. Path(List, s, D)
    BY DEF Order
  <2>3. Path(l, s, D)
    BY <1>6, <2>1, <2>2, ListFields, SamePath
  <2>4. DOMAIN l.heap \ {a} = D
    BY <1>3, <1>5, <1>6
  <2> QED
    BY <2>3, <2>4
<1>9. a \in DOMAIN l.heap /\ l.heap[a].next = Nil
  BY <1>3, <1>4, <1>6
<1>10. /\ Path(m, r, D \cup {a}) /\ DOMAIN m.heap = D \cup {a}
       /\ SamePayload(m.heap, h, D \cup {a})
  <2>1. /\ Path(m, r, DOMAIN l.heap) /\ DOMAIN m.heap = DOMAIN l.heap
        /\ SamePayload(m.heap, l.heap, DOMAIN l.heap)
    BY <1>7, <1>8, <1>9, LinkPath
  <2> HIDE DEF m, r
  <2> QED
    BY <1>3, <1>6, <2>1
<1> HIDE DEF m
<1>11. Path(List, r, DOMAIN heap)' /\ heap' = m.heap
  BY <1>2, <1>10, SetListPath
<1>12. /\ DOMAIN heap' = D \cup {a}
       /\ SamePayload(heap', heap, D)
       /\ heap'[a].key = k /\ heap'[a].value = v
       /\ \A x \in D \cup {a} : heap'[x].cost = h[x].cost
  BY <1>3, <1>4, <1>10, <1>11 DEF SamePayload
<1>13. s \in Seq(D \cup {a}) /\ Sums(h, s, c)
  BY <1>3, <1>5, SameSums DEF Order
<1>14. \A x \in D \cup {a} : h[x].cost \in Nat
  BY <1>3, <1>4, <1>5, CacheAssumption
<1>15. PICK d : Sums(h, r, d) /\ d[n + 1] = c[n] + h[a].cost
  BY <1>13, <1>14, SumsAppend
<1>16. r \in Seq(D \cup {a}) /\ Len(r) = n + 1
  BY <1>13, AppendElements
<1> HIDE DEF r
<1>17. Sums(heap', r, d)
  BY <1>12, <1>15, <1>16, SameSums
<1>18. Order(r, d)'
  BY <1>11, <1>17 DEF Order
<1>19. totalCost' = totalCost + cost /\ \A x \in D : heap[x].key # k
  BY DEF LInv, Named, InsertValue
<1>20. c[n] \in Nat /\ cost \in Nat /\ totalCost \in Int
  BY OrderFacts, CacheAssumption DEF CallsInv
<1>21. totalCost' - d[Len(r)] = totalCost - c[n]
  BY <1>3, <1>4, <1>15, <1>16, <1>19, <1>20
<1> QED
  BY <1>12, <1>18, <1>19, <1>21 DEF r, Adds, Counted
-----------------------------------------------------------------------------

\* setValue of a cached key is a use of it.
LEMMA UpdateTouches ==
  ASSUME LInv, CallsInv, NEW s, NEW c, Order(s, c), NEW t, NEW k \in CacheKeys,
         NEW v \in CacheValues, NEW cost \in Costs, UpdateValue(t, k, v, cost)
  PROVE  \E j \in 1 .. Len(s) : Touches(s, c, j, v)
<1> DEFINE a == values[k]
           new == [heap[a] EXCEPT !.value = v, !.cost = cost]
           l == [List EXCEPT !.heap = [heap EXCEPT ![a] = new]]
<1>1. /\ a \in DOMAIN heap /\ totalCost' = totalCost - heap[a].cost + cost
      /\ SetList(Link(Unlink(l, a), a))
  BY DEF UpdateValue, LInv, Named
<1>2. PICK j \in 1 .. Len(s) : s[j] = a
  BY <1>1, OrderFacts
<1>3. heap[a] \in Containers
  BY <1>1, OrderFacts
<1>4. /\ new \in Containers /\ new.key = heap[a].key
      /\ new.prev = heap[a].prev /\ new.next = heap[a].next
      /\ new.value = v /\ new.cost = cost
  BY <1>3 DEF Containers
<1>5. heap[a].cost \in Nat /\ cost \in Nat /\ c[Len(s)] \in Nat /\ totalCost \in Int
  BY <1>1, OrderFacts, CacheAssumption DEF CallsInv
<1> DEFINE r == Append(RemoveAt(s, j), s[j])
<1> HIDE DEF a, new
<1>8. /\ l.head = head /\ l.tail = tail /\ DOMAIN l.heap = DOMAIN heap
      /\ \A x \in DOMAIN heap : l.heap[x] = IF x = s[j] THEN new ELSE heap[x]
  BY <1>1, <1>2 DEF List
<1> HIDE DEF l
<1>6. /\ DOMAIN heap' = DOMAIN heap
      /\ \A x \in DOMAIN heap : x # s[j] =>
           heap'[x].key = heap[x].key /\ heap'[x].value = heap[x].value
      /\ heap'[s[j]].key = new.key /\ heap'[s[j]].value = new.value
      /\ Reorders(s, c, r, heap[s[j]].cost, new.cost)
  BY <1>1, <1>2, <1>4, <1>8, TouchOrder
<1> HIDE DEF r
<1>7. Counted(s, c, r)
  <2>1. PICK d : Order(r, d)' /\ d[Len(r)] = c[Len(s)] - heap[s[j]].cost + new.cost
    BY <1>6 DEF Reorders
  <2>2. totalCost' - d[Len(r)] = totalCost - c[Len(s)]
    BY <1>1, <1>2, <1>4, <1>5, <2>1
  <2> QED
    BY <2>1, <2>2 DEF Counted
<1> QED
  BY <1>2, <1>4, <1>6, <1>7 DEF Touches, r

\* value(forKey:) is a use of the entry as it is.
LEMMA GetTouches ==
  ASSUME LInv, CallsInv, NEW s, NEW c, Order(s, c), NEW t, NEW k \in CacheKeys, GetValue(t, k)
  PROVE  \E j \in 1 .. Len(s), v \in CacheValues : Touches(s, c, j, v)
<1> DEFINE a == values[k]
           new == heap[a]
<1>1. /\ a \in DOMAIN heap /\ totalCost' = totalCost
      /\ SetList(Link(Unlink(List, a), a))
  BY DEF GetValue, LInv, Named
<1>2. PICK j \in 1 .. Len(s) : s[j] = a
  BY <1>1, OrderFacts
<1>3. new \in Containers /\ new.value \in CacheValues
  BY <1>1, OrderFacts DEF Containers
<1>4. List.heap = heap /\ List.head = head /\ List.tail = tail
  BY ListFields
<1>5. heap[a].cost \in Nat /\ c[Len(s)] \in Nat /\ totalCost \in Int
  BY <1>1, OrderFacts DEF CallsInv
<1> DEFINE r == Append(RemoveAt(s, j), s[j])
<1> HIDE DEF a
<1>6. /\ DOMAIN heap' = DOMAIN heap
      /\ \A x \in DOMAIN heap : x # s[j] =>
           heap'[x].key = heap[x].key /\ heap'[x].value = heap[x].value
      /\ heap'[s[j]].key = new.key /\ heap'[s[j]].value = new.value
      /\ Reorders(s, c, r, heap[s[j]].cost, new.cost)
  BY <1>1, <1>2, <1>3, <1>4, TouchOrder
<1> HIDE DEF r
<1>7. Counted(s, c, r)
  <2>1. PICK d : Order(r, d)' /\ d[Len(r)] = c[Len(s)] - heap[s[j]].cost + new.cost
    BY <1>6 DEF Reorders
  <2>2. totalCost' - d[Len(r)] = totalCost - c[Len(s)]
    BY <1>1, <1>2, <1>5, <2>1
  <2> QED
    BY <2>1, <2>2 DEF Counted
<1> QED
  BY <1>2, <1>3, <1>6, <1>7 DEF Touches, r

\* remove and free take an entry out.
LEMMA FreeDrops ==
  ASSUME LInv, CallsInv, NEW s, NEW c, Order(s, c), NEW j \in 1 .. Len(s),
         SetList(Free(Unlink(List, s[j]), s[j])), totalCost' = totalCost - heap[s[j]].cost
  PROVE  Drops(s, c, j)
<1> DEFINE r == RemoveAt(s, j)
           w == heap[s[j]].cost
<1>1. /\ DOMAIN heap' = DOMAIN heap \ {s[j]}
      /\ SamePayload(heap', heap, DOMAIN heap \ {s[j]})
      /\ Reorders(s, c, r, w, 0)
  BY DropOrder
<1>2. w \in Nat /\ c[Len(s)] \in Nat /\ totalCost \in Int
  BY OrderFacts DEF CallsInv
<1> HIDE DEF r, w
<1>3. PICK d : Order(r, d)' /\ d[Len(r)] = c[Len(s)] - w + 0
  BY <1>1 DEF Reorders
<1>4. totalCost' - d[Len(r)] = totalCost - c[Len(s)]
  BY <1>2, <1>3 DEF w
<1> QED
  BY <1>1, <1>3, <1>4 DEF Drops, Counted, r

\* Only the thread that holds the lock is in the loop of clean().
LockInv == \A t \in Threads : pc[t] = "evict" => lock = t

\* Entering the loop takes the lock, leaving it gives the lock back.
LEMMA LockInductive ==
  /\ Init => LockInv
  /\ CallsInv /\ LockInv /\ [Next]_vars => LockInv'
<1>1. Init => LockInv
  BY DEF Init, LockInv
<1>2. ASSUME CallsInv, LockInv, [Next]_vars PROVE LockInv'
  <2>1. CASE UNCHANGED << lock, pc >>
    BY <1>2, <2>1 DEF LockInv
  <2>2. ASSUME NEW t \in Threads, UNCHANGED lock, Goto(t, "clean") PROVE LockInv'
    BY <1>2, <2>2 DEF LockInv, CallsInv, Goto
  <2>3. ASSUME NEW t \in Threads, BeginClean(t) PROVE LockInv'
    BY <1>2, <2>3, CacheAssumption DEF LockInv, CallsInv, BeginClean, Goto
  <2>4. ASSUME NEW t \in Threads, EndClean(t) PROVE LockInv'
    BY <1>2, <2>4 DEF LockInv, CallsInv, EndClean, Goto
  <2> QED
    BY <1>2, <2>1, <2>2, <2>3, <2>4
       DEF Next, vars, UpdateValue, InsertValue, RemoveValue, GetValue, RemoveAllValues,
           SetCostLimit, SetCountLimit, Clean, Evict
<1> QED
  BY <1>1, <1>2

\* removeAllValues() leaves the empty order.
LEMMA RemoveAllOrder ==
  ASSUME NEW t, RemoveAllValues(t)
  PROVE  DOMAIN heap' = {} /\ totalCost' = totalCost /\ Order(<< >>, [i \in {0} |-> 0])'
<1>1. heap' = << >> /\ head' = Nil /\ tail' = Nil /\ totalCost' = totalCost
  BY DEF RemoveAllValues
<1>2. DOMAIN heap' = {}
  BY <1>1
<1>3. Len(<< >>) = 0 /\ << >> \in Seq({}) /\ 0 .. 0 = {0} /\ 1 .. 0 = {}
  OBVIOUS
<1> DEFINE e == << >>
           z == [i \in {0} |-> 0]
<1>4. z \in [{0} -> Nat] /\ z[0] = 0
  OBVIOUS
<1>5. Len(e) = 0 /\ e \in Seq({})
  OBVIOUS
<1> HIDE DEF e, z
<1>6. Path(List, e, DOMAIN heap)'
  BY <1>1, <1>2, <1>3, <1>5 DEF Path, List
<1>7. Sums(heap', e, z)
  BY <1>3, <1>4, <1>5 DEF Sums
<1>8. Order(e, z)'
  BY <1>6, <1>7 DEF Order
<1> QED
  BY <1>1, <1>2, <1>8 DEF e, z

\* What a step may do to the order, and who holds the lock meanwhile.
StepOrder(s, c) ==
  \/ /\ lock = Nil /\ lock' = Nil
     /\ \/ \E j \in 1 .. Len(s), v \in CacheValues : Touches(s, c, j, v)
        \/ \E k \in CacheKeys, v \in CacheValues : Adds(s, c, k, v)
        \/ \E j \in 1 .. Len(s) : Drops(s, c, j)
        \/ DOMAIN heap' = {} /\ totalCost' = totalCost /\ Order(<< >>, [i \in {0} |-> 0])'
  \/ lock # Nil /\ lock' = lock /\ Len(s) # 0 /\ Drops(s, c, 1)
  \/ UNCHANGED << heap, head, tail, totalCost >>

\* Every step of the cache is one of them: calls while the lock is free, and the
\* loop of clean(), which takes the oldest, under the lock.
LEMMA StepsOrder ==
  ASSUME LInv, CallsInv, LockInv, NEW s, NEW c, Order(s, c), [Next]_vars
  PROVE  StepOrder(s, c)
<1>1. CASE UNCHANGED vars
  BY <1>1 DEF vars, StepOrder
<1>2. ASSUME NEW t \in Threads, NEW k \in CacheKeys, NEW v \in CacheValues, NEW cost \in Costs,
             UpdateValue(t, k, v, cost)
      PROVE  StepOrder(s, c)
  <2>1. lock = Nil /\ lock' = Nil
    BY <1>2 DEF UpdateValue, Ready
  <2>2. \E j \in 1 .. Len(s) : Touches(s, c, j, v)
    BY <1>2, UpdateTouches
  <2> QED
    BY <2>1, <2>2 DEF StepOrder
<1>3. ASSUME NEW t \in Threads, NEW k \in CacheKeys, NEW v \in CacheValues, NEW cost \in Costs,
             InsertValue(t, k, v, cost)
      PROVE  StepOrder(s, c)
  <2>1. lock = Nil /\ lock' = Nil
    BY <1>3 DEF InsertValue, Ready
  <2>2. Adds(s, c, k, v)
    BY <1>3, InsertOrder
  <2> QED
    BY <2>1, <2>2 DEF StepOrder
<1>4. ASSUME NEW t \in Threads, NEW k \in CacheKeys, GetValue(t, k) PROVE StepOrder(s, c)
  <2>1. lock = Nil /\ lock' = Nil
    BY <1>4 DEF GetValue, Ready
  <2>2. \E j \in 1 .. Len(s), v \in CacheValues : Touches(s, c, j, v)
    BY <1>4, GetTouches
  <2> QED
    BY <2>1, <2>2 DEF StepOrder
<1>5. ASSUME NEW t \in Threads, NEW k \in CacheKeys, RemoveValue(t, k) PROVE StepOrder(s, c)
  <2> DEFINE a == values[k]
  <2>1. /\ lock = Nil /\ lock' = Nil /\ a \in DOMAIN heap
        /\ SetList(Free(Unlink(List, a), a)) /\ totalCost' = totalCost - heap[a].cost
    BY <1>5 DEF RemoveValue, Ready, LInv, Named
  <2> HIDE DEF a
  <2>2. PICK j \in 1 .. Len(s) : s[j] = a
    BY <2>1, OrderFacts
  <2>3. Drops(s, c, j)
    BY <2>1, <2>2, FreeDrops
  <2> QED
    BY <2>1, <2>3 DEF StepOrder
<1>6. ASSUME NEW t \in Threads, RemoveAllValues(t) PROVE StepOrder(s, c)
  <2>1. lock = Nil /\ lock' = Nil
    BY <1>6 DEF RemoveAllValues, Ready
  <2>2. DOMAIN heap' = {} /\ totalCost' = totalCost /\ Order(<< >>, [i \in {0} |-> 0])'
    BY <1>6, RemoveAllOrder
  <2> QED
    BY <2>1, <2>2 DEF StepOrder
<1>7. ASSUME NEW t \in Threads, Evict(t) PROVE StepOrder(s, c)
  <2>1. /\ lock # Nil /\ lock' = lock
        /\ SetList(Free(Unlink(List, head), head)) /\ totalCost' = totalCost - heap[head].cost
        /\ head # Nil
    BY <1>7, CacheAssumption DEF Evict, LockInv
  <2>2. head = IF Len(s) = 0 THEN Nil ELSE s[1]
    BY ListFields DEF Order, Path
  <2>3. Len(s) # 0 /\ 1 \in 1 .. Len(s) /\ s[1] = head
    BY <2>1, <2>2, OrderFacts
  <2>4. Drops(s, c, 1)
    BY <2>1, <2>3, FreeDrops
  <2> QED
    BY <2>1, <2>3, <2>4 DEF StepOrder
<1>8. ASSUME NEW t \in Threads, NEW n,
             \/ SetCostLimit(t, n) \/ SetCountLimit(t, n) \/ BeginClean(t) \/ EndClean(t)
      PROVE  StepOrder(s, c)
  BY <1>8 DEF StepOrder, SetCostLimit, SetCountLimit, BeginClean, EndClean
<1> QED
  BY <1>1, <1>2, <1>3, <1>4, <1>5, <1>6, <1>7, <1>8 DEF Next, Clean

\* The cached containers have an order, and totalCost covers what they cost.
Ordered == \E s, c : Order(s, c) /\ c[Len(s)] <= totalCost

\* Every step keeps an order whose cost totalCost covers.
LEMMA OrderedInductive ==
  /\ Init => Ordered
  /\ LInv /\ CallsInv /\ LockInv /\ LInv' /\ CallsInv' /\ Ordered /\ [Next]_vars => Ordered'
<1>1. ASSUME Init PROVE Ordered
  <2>1. heap = << >> /\ head = Nil /\ tail = Nil /\ totalCost = 0
    BY <1>1 DEF Init
  <2>2. DOMAIN heap = {} /\ 0 .. 0 = {0} /\ 1 .. 0 = {}
    BY <2>1
  <2> DEFINE e == << >>
             z == [i \in {0} |-> 0]
  <2>3. z \in [{0} -> Nat] /\ z[0] = 0 /\ Len(e) = 0 /\ e \in Seq({})
    OBVIOUS
  <2> HIDE DEF e, z
  <2>4. Path(List, e, DOMAIN heap)
    BY <2>1, <2>2, <2>3 DEF Path, List
  <2>5. Sums(heap, e, z)
    BY <2>2, <2>3 DEF Sums
  <2>6. z[Len(e)] <= totalCost
    BY <2>1, <2>3
  <2> QED
    BY <2>4, <2>5, <2>6 DEF Ordered, Order
<1>2. ASSUME LInv, CallsInv, LockInv, LInv', CallsInv', Ordered, [Next]_vars PROVE Ordered'
  <2>1. PICK s, c : Order(s, c) /\ c[Len(s)] <= totalCost
    BY <1>2 DEF Ordered
  <2>2. StepOrder(s, c)
    BY <1>2, <2>1, StepsOrder
  <2>3. c[Len(s)] \in Nat /\ totalCost \in Int /\ totalCost' \in Int
    BY <1>2, <2>1, OrderFacts DEF CallsInv
  <2>4. ASSUME NEW r, Counted(s, c, r) PROVE Ordered'
    <3>1. PICK d : Order(r, d)' /\ totalCost' - d[Len(r)] = totalCost - c[Len(s)]
      BY <2>4 DEF Counted
    <3>2. d[Len(r)] \in Nat
      <4>1. Path(List, r, DOMAIN heap)' /\ Sums(heap', r, d)
        BY <3>1 DEF Order
      <4>2. Len(r) \in Nat
        <5>1. r \in Seq(DOMAIN heap')
          BY <4>1 DEF Path
        <5> QED
          BY <5>1, LenProperties
      <4> QED
        BY <4>1, <4>2 DEF Sums
    <3>3. d[Len(r)] <= totalCost'
      BY <2>1, <2>3, <3>1, <3>2
    <3> QED
      BY <3>1, <3>3 DEF Ordered
  <2>5. CASE DOMAIN heap' = {} /\ totalCost' = totalCost /\ Order(<< >>, [i \in {0} |-> 0])'
    <3> DEFINE e == << >>
               z == [i \in {0} |-> 0]
    <3>1. z[Len(e)] = 0
      OBVIOUS
    <3> HIDE DEF e, z
    <3>2. Order(e, z)' /\ z[Len(e)] <= totalCost'
      BY <2>1, <2>3, <2>5, <3>1 DEF e, z
    <3> QED
      BY <3>2 DEF Ordered
  <2>6. CASE UNCHANGED << heap, head, tail, totalCost >>
    BY <2>1, <2>6 DEF Ordered, Order, List
  <2> QED
    BY <2>2, <2>4, <2>5, <2>6 DEF StepOrder, Touches, Adds, Drops
<1> QED
  BY <1>1, <1>2

\* The invariant of the cache: links, types, the lock and the order.
CacheInv == LInv /\ CallsInv /\ LockInv /\ Ordered

\* Every reachable state satisfies it.
LEMMA CacheInvariance == Spec => []CacheInv
<1>1. Init => CacheInv
  BY LInvInductive, CallsInductive, LockInductive, OrderedInductive DEF CacheInv
<1>2. CacheInv /\ [Next]_vars => CacheInv'
  <2> SUFFICES ASSUME CacheInv, [Next]_vars PROVE CacheInv'
    OBVIOUS
  <2>1. LInv' /\ CallsInv' /\ LockInv'
    BY LInvInductive, CallsInductive, LockInductive DEF CacheInv
  <2>2. Ordered'
    BY <2>1, OrderedInductive DEF CacheInv
  <2> QED
    BY <2>1, <2>2 DEF CacheInv
<1> QED
  BY <1>1, <1>2, PTL DEF Spec
-----------------------------------------------------------------------------

\* In an ordered list the walk of allValues is the order, and HeldCost its sum.
LEMMA OrderIsWalk ==
  ASSUME LInv, NEW s, NEW c, Order(s, c)
  PROVE  Walk(heap, head) = s /\ HeldCost = c[Len(s)]
<1>1. List.heap = heap /\ List.head = head
  BY ListFields
<1>2. IsHeap(List.heap) /\ Path(List, s, DOMAIN List.heap) /\ s \in Seq(DOMAIN heap)
  BY OrderFacts
<1>3. Walk(heap, head) = s
  <2>1. Walk(List.heap, List.head) = s
    BY <1>2, WalkIsPath
  <2> QED
    BY <1>1, <2>1
<1>4. CostOf(heap, s) = c[Len(s)]
  BY <1>2, CostIsSum DEF Order
<1> QED
  BY <1>3, <1>4 DEF HeldCost

\* The dictionary has as many keys as there are containers in the order.
LEMMA CountOfKeys ==
  ASSUME LInv, NEW s, NEW c, Order(s, c)
  PROVE  IsFiniteSet(DOMAIN values) /\ Cardinality(DOMAIN values) = Len(s)
<1> DEFINE D == DOMAIN heap
           f == [a \in D |-> heap[a].key]
<1>1. IsFiniteSet(D) /\ Cardinality(D) = Len(s)
  BY PathLength DEF Order
<1>2. \A k \in DOMAIN values : values[k] \in D /\ heap[values[k]].key = k
  BY DEF LInv, Named
<1>3. \A a \in D : heap[a].key \in DOMAIN values /\ values[heap[a].key] = a
  BY DEF LInv, Named
<1>4. f \in Bijection(D, DOMAIN values)
  BY <1>2, <1>3 DEF Bijection, Injection, Surjection, IsInjective
<1>5. ExistsBijection(D, DOMAIN values)
  BY <1>4 DEF ExistsBijection
<1> QED
  BY <1>1, <1>5, FS_Bijection

\* No container is out of reach of clean(): whatever calls the threads interleave,
\* walking from head along next visits every cached container once, ends at tail,
\* and prev runs back along the same way.
THEOREM ListIsComplete == Spec => []ListComplete
<1>1. ASSUME CacheInv PROVE ListComplete
  <2>1. PICK s, c : Order(s, c)
    BY <1>1 DEF CacheInv, Ordered
  <2>2. Walk(heap, head) = s /\ Len(s) = Cardinality(DOMAIN values)
    BY <1>1, <2>1, OrderIsWalk, CountOfKeys DEF CacheInv
  <2>3. /\ s \in Seq(DOMAIN heap) /\ Len(s) \in Nat /\ DOMAIN s = 1 .. Len(s)
        /\ \A x \in DOMAIN heap : \E i \in 1 .. Len(s) : s[i] = x
        /\ \A i \in 1 .. Len(s) : s[i] \in DOMAIN heap
    BY <1>1, <2>1, OrderFacts, LenProperties DEF CacheInv
  <2>4. ToSet(s) = DOMAIN heap
    BY <2>3 DEF ToSet
  <2>5. /\ tail = IF Len(s) = 0 THEN Nil ELSE s[Len(s)]
        /\ \A i \in 1 .. Len(s) : heap[s[i]].prev = IF i = 1 THEN Nil ELSE s[i - 1]
    BY <2>1, ListFields DEF Order, Path
  <2>6. tail = IF s = << >> THEN Nil ELSE Last(s)
    BY <2>3, <2>5, EmptySeq DEF Last
  <2> QED
    BY <2>2, <2>3, <2>4, <2>5, <2>6 DEF ListComplete
<1> QED
  BY <1>1, CacheInvariance, PTL

\* The counter that clean() compares with the limit never falls below the cost of
\* the entries the cache holds.
THEOREM CostIsCovered == Spec => []CostCovered
<1>1. ASSUME CacheInv PROVE CostCovered
  <2>1. PICK s, c : Order(s, c) /\ c[Len(s)] <= totalCost
    BY <1>1 DEF CacheInv, Ordered
  <2>2. HeldCost = c[Len(s)]
    BY <1>1, <2>1, OrderIsWalk DEF CacheInv
  <2>3. c[Len(s)] \in Nat /\ totalCost \in Int
    BY <1>1, <2>1, OrderFacts DEF CacheInv, CallsInv
  <2> QED
    BY <2>1, <2>2, <2>3 DEF CostCovered
<1> QED
  BY <1>1, CacheInvariance, PTL

\* When no thread owes a clean(), the counters are within the limits or nothing is
\* cached.
RestInv == (\A t \in Threads : pc[t] = "idle") => ~OverLimit \/ DOMAIN values = {}

\* A call that may exceed a limit leaves its thread in debt of a clean(), and
\* clean() pays it before the thread is idle.
LEMMA RestInductive ==
  /\ Init => RestInv
  /\ CacheInv /\ RestInv /\ [Next]_vars => RestInv'
<1>1. Init => RestInv
  BY DEF Init, RestInv
<1>2. ASSUME CacheInv, RestInv, [Next]_vars PROVE RestInv'
  <2>1. PICK s, c : Order(s, c)
    BY <1>2 DEF CacheInv, Ordered
  <2>2. /\ IsFiniteSet(DOMAIN values) /\ totalCost \in Int /\ pc \in [Threads -> {"idle", "clean", "evict"}]
        /\ totalCostLimit \in Nat /\ countLimit \in Nat
    BY <1>2, <2>1, CountOfKeys, CacheAssumption DEF CacheInv, CallsInv
  <2>3. ASSUME NEW t \in Threads, Goto(t, "clean") \/ Goto(t, "evict") PROVE RestInv'
    BY <2>2, <2>3 DEF RestInv, Goto
  <2>4. ASSUME UNCHANGED << values, totalCost, totalCostLimit, countLimit, pc >> PROVE RestInv'
    BY <1>2, <2>4 DEF RestInv, OverLimit
  <2>5. ASSUME NEW t \in Threads, NEW k \in CacheKeys, RemoveValue(t, k) PROVE RestInv'
    <3>1. /\ DOMAIN values' = DOMAIN values \ {k} /\ values[k] \in DOMAIN heap
          /\ totalCost' = totalCost - heap[values[k]].cost
          /\ UNCHANGED << totalCostLimit, countLimit, pc >>
      BY <1>2, <2>5 DEF RemoveValue, Forget, CacheInv, LInv, Named
    <3>2. heap[values[k]].cost \in Nat
      BY <1>2, <2>1, <3>1, OrderFacts DEF CacheInv
    <3>3. Cardinality(DOMAIN values') <= Cardinality(DOMAIN values)
      BY <2>2, <3>1, FS_Subset
    <3>4. Cardinality(DOMAIN values') \in Nat /\ Cardinality(DOMAIN values) \in Nat
      BY <2>2, <3>1, FS_Subset, FS_CardinalityType
    <3>5. ~OverLimit => ~OverLimit'
      BY <2>2, <3>1, <3>2, <3>3, <3>4 DEF OverLimit
    <3>6. DOMAIN values = {} => DOMAIN values' = {}
      BY <3>1
    <3> QED
      BY <1>2, <3>1, <3>5, <3>6 DEF RestInv
  <2>6. ASSUME NEW t \in Threads, RemoveAllValues(t) PROVE RestInv'
    BY <2>6 DEF RemoveAllValues, RestInv
  <2>7. ASSUME NEW t \in Threads, Evict(t) PROVE RestInv'
    BY <2>7 DEF Evict, RestInv
  <2>8. ASSUME NEW t \in Threads, EndClean(t) PROVE RestInv'
    <3>1. UNCHANGED << values, totalCost, totalCostLimit, countLimit >> /\ ~(OverLimit /\ head # Nil)
      BY <2>8 DEF EndClean
    <3>2. CASE ~OverLimit
      BY <3>1, <3>2 DEF RestInv, OverLimit
    <3>3. CASE head = Nil
      <4>1. head = IF Len(s) = 0 THEN Nil ELSE s[1]
        BY <2>1, ListFields DEF Order, Path
      <4>2. Len(s) = 0
        BY <1>2, <2>1, <3>3, <4>1, OrderFacts, CacheAssumption DEF CacheInv, LInv, IsHeap
      <4>3. DOMAIN heap = {}
        BY <1>2, <2>1, <4>2, OrderFacts DEF CacheInv
      <4>4. DOMAIN values = {}
        BY <1>2, <4>3 DEF CacheInv, LInv, Named
      <4> QED
        BY <3>1, <4>4 DEF RestInv
    <3> QED
      BY <3>1, <3>2, <3>3
  <2> QED
    BY <1>2, <2>3, <2>4, <2>5, <2>6, <2>7, <2>8
       DEF Next, vars, UpdateValue, InsertValue, GetValue, SetCostLimit, SetCountLimit,
           Clean, BeginClean
<1> QED
  BY <1>1, <1>2

\* Although setValue and the setters release the lock before clean() takes it, the
\* cache exceeds a limit only while some thread still owes a clean().
THEOREM LimitsHoldAtRest == Spec => []OverLimitIsTransient
<1>1. ASSUME CacheInv, RestInv PROVE OverLimitIsTransient
  <2>1. PICK s, c : Order(s, c) /\ c[Len(s)] <= totalCost
    BY <1>1 DEF CacheInv, Ordered
  <2>2. HeldCost = c[Len(s)] /\ IsFiniteSet(DOMAIN values)
    BY <1>1, <2>1, OrderIsWalk, CountOfKeys DEF CacheInv
  <2>3. /\ c[Len(s)] \in Nat /\ totalCost \in Int /\ totalCostLimit \in Nat /\ countLimit \in Nat
        /\ Cardinality(DOMAIN values) \in Nat
    BY <1>1, <2>1, <2>2, OrderFacts, CacheAssumption, FS_CardinalityType DEF CacheInv, CallsInv
  <2> QED
    BY <1>1, <2>1, <2>2, <2>3 DEF OverLimitIsTransient, RestInv, OverLimit
<1> QED
  BY <1>1, CacheInvariance, RestInductive, PTL DEF Spec
-----------------------------------------------------------------------------

\* The entries of the containers of s.
View(h, s) == [i \in DOMAIN s |-> [key |-> h[s[i]].key, value |-> h[s[i]].value]]

Entries == [key : CacheKeys, value : CacheValues]

\* The containers of D hold keys and values.
Typed(h, D) == \A x \in D : h[x].key \in CacheKeys /\ h[x].value \in CacheValues

\* A view is a sequence of entries.
LEMMA ViewProperties ==
  ASSUME NEW D, NEW h, Typed(h, D), NEW s \in Seq(D)
  PROVE  /\ View(h, s) \in Seq(Entries) /\ Len(View(h, s)) = Len(s)
         /\ DOMAIN View(h, s) = 1 .. Len(s)
         /\ \A i \in 1 .. Len(s) :
              View(h, s)[i] = [key |-> h[s[i]].key, value |-> h[s[i]].value]
<1> DEFINE e(i) == [key |-> h[s[i]].key, value |-> h[s[i]].value]
<1>1. Len(s) \in Nat /\ DOMAIN s = 1 .. Len(s) /\ \A i \in 1 .. Len(s) : s[i] \in D
  BY ElementOfSeq, LenProperties
<1>2. \A i \in 1 .. Len(s) : e(i) \in Entries
  BY <1>1 DEF Typed, Entries
<1>3. View(h, s) = [i \in 1 .. Len(s) |-> e(i)]
  BY <1>1 DEF View
<1>4. View(h, s) \in Seq(Entries)
  BY <1>1, <1>2, <1>3, IsASeq
<1> QED
  BY <1>1, <1>3, <1>4, LenProperties

\* Taking a container out of the order takes its entry out of the view.
LEMMA ViewRemove ==
  ASSUME NEW D, NEW h, NEW g, NEW s \in Seq(D), Typed(h, D), NEW j \in 1 .. Len(s),
         \A i, k \in 1 .. Len(s) : s[i] = s[k] => i = k,
         \A x \in D : x # s[j] => g[x].key = h[x].key /\ g[x].value = h[x].value
  PROVE  View(g, RemoveAt(s, j)) = RemoveAt(View(h, s), j)
<1> DEFINE r == RemoveAt(s, j)
           v == View(h, s)
           w == View(g, r)
           u == RemoveAt(v, j)
           E == D \ {s[j]}
           n == Len(s)
<1>1. /\ r \in Seq(D) /\ Len(r) = n - 1
      /\ \A i \in 1 .. n - 1 : r[i] = IF i < j THEN s[i] ELSE s[i + 1]
  BY RemoveAtProperties
<1>2. /\ v \in Seq(Entries) /\ Len(v) = n
      /\ \A i \in 1 .. n : v[i] = [key |-> h[s[i]].key, value |-> h[s[i]].value]
  BY ViewProperties
<1>3. n \in Nat /\ \A i \in 1 .. n : s[i] \in D
  BY ElementOfSeq, LenProperties
<1> HIDE DEF r, v
<1>4. \A i \in 1 .. n - 1 : r[i] \in E
  BY <1>1, <1>3
<1>5. r \in Seq(E)
  <2>1. Len(r) \in Nat /\ r = [i \in 1 .. Len(r) |-> r[i]]
    BY <1>1, <1>3, LenProperties
  <2> QED
    BY <1>1, <1>4, <2>1, IsASeq
<1>6. Typed(g, E)
  BY DEF Typed
<1>7. /\ w \in Seq(Entries) /\ Len(w) = n - 1
      /\ \A i \in 1 .. n - 1 : w[i] = [key |-> g[r[i]].key, value |-> g[r[i]].value]
  BY <1>1, <1>5, <1>6, ViewProperties
<1>8. /\ u \in Seq(Entries) /\ Len(u) = n - 1
      /\ \A i \in 1 .. n - 1 : u[i] = IF i < j THEN v[i] ELSE v[i + 1]
  BY <1>2, RemoveAtProperties
<1> HIDE DEF w, u
<1>9. ASSUME NEW i \in 1 .. n - 1 PROVE w[i] = u[i]
  <2> DEFINE p == IF i < j THEN i ELSE i + 1
  <2>1. p \in 1 .. n /\ p # j /\ r[i] = s[p] /\ u[i] = v[p]
    BY <1>1, <1>3, <1>8
  <2> HIDE DEF p
  <2>2. s[p] # s[j] /\ s[p] \in D
    BY <1>3, <2>1
  <2>3. g[s[p]].key = h[s[p]].key /\ g[s[p]].value = h[s[p]].value
    BY <2>2
  <2>4. w[i] = [key |-> g[s[p]].key, value |-> g[s[p]].value]
    BY <1>7, <2>1
  <2>5. u[i] = [key |-> h[s[p]].key, value |-> h[s[p]].value]
    BY <1>2, <2>1
  <2> QED
    BY <2>3, <2>4, <2>5
<1>10. w = u
  BY <1>7, <1>8, <1>9, SeqEqual
<1> QED
  BY <1>10 DEF w, u, r, v

\* A container that comes last shows its entry last.
LEMMA ViewAppend ==
  ASSUME NEW D, NEW h, Typed(h, D), NEW s \in Seq(D), NEW a \in D
  PROVE  View(h, Append(s, a)) = Append(View(h, s), [key |-> h[a].key, value |-> h[a].value])
<1> DEFINE r == Append(s, a)
           v == View(h, s)
           w == View(h, r)
           e == [key |-> h[a].key, value |-> h[a].value]
           u == Append(v, e)
           n == Len(s)
<1>1. n \in Nat /\ e \in Entries
  BY DEF Typed, Entries
<1>2. /\ r \in Seq(D) /\ Len(r) = n + 1
      /\ \A i \in 1 .. n + 1 : r[i] = IF i <= n THEN s[i] ELSE a
  BY AppendElements
<1>3. /\ v \in Seq(Entries) /\ Len(v) = n
      /\ \A i \in 1 .. n : v[i] = [key |-> h[s[i]].key, value |-> h[s[i]].value]
  BY ViewProperties
<1> HIDE DEF r, v
<1>4. /\ w \in Seq(Entries) /\ Len(w) = n + 1
      /\ \A i \in 1 .. n + 1 : w[i] = [key |-> h[r[i]].key, value |-> h[r[i]].value]
  BY <1>2, ViewProperties
<1> DEFINE f == e
<1> HIDE DEF f
<1>5. f \in Entries
  BY <1>1 DEF f
<1>6. /\ Append(v, f) \in Seq(Entries) /\ Len(Append(v, f)) = n + 1
      /\ \A i \in 1 .. n + 1 : Append(v, f)[i] = IF i <= n THEN v[i] ELSE f
  BY <1>3, <1>5, AppendElements
<1> DEFINE q == Append(v, f)
<1> HIDE DEF w, q
<1>7. ASSUME NEW i \in 1 .. n + 1 PROVE w[i] = q[i]
  <2>1. CASE i <= n
    BY <1>1, <1>2, <1>3, <1>4, <1>6, <2>1 DEF q
  <2>2. CASE ~(i <= n)
    BY <1>1, <1>2, <1>4, <1>6, <2>2 DEF q, f
  <2> QED
    BY <2>1, <2>2
<1>8. w = q
  BY <1>4, <1>6, <1>7, SeqEqual DEF q
<1> QED
  BY <1>8 DEF w, q, r, v, f

\* Recency is the view of the order.
LEMMA RecencyIsView ==
  ASSUME LInv, NEW s, NEW c, Order(s, c)
  PROVE  /\ Recency = View(heap, s)
         /\ Typed(heap, DOMAIN heap) /\ s \in Seq(DOMAIN heap)
         /\ \A i, k \in 1 .. Len(s) : s[i] = s[k] => i = k
<1>1. Walk(heap, head) = s
  BY OrderIsWalk
<1>2. Typed(heap, DOMAIN heap)
  BY OrderFacts DEF Typed, Containers
<1>3. s \in Seq(DOMAIN heap) /\ \A i, k \in 1 .. Len(s) : s[i] = s[k] => i = k
  BY DEF Order, Path
<1> QED
  BY <1>1, <1>2, <1>3 DEF Recency, View

\* The same after a step.
LEMMA RecencyIsViewNext ==
  ASSUME LInv', NEW r, NEW d, Order(r, d)'
  PROVE  Recency' = View(heap', r) /\ r \in Seq(DOMAIN heap')
<1>1. List' = [heap |-> heap', head |-> head', tail |-> tail']
  BY DEF List
<1> DEFINE l == List'
<1>2. l.heap = heap' /\ l.head = head'
  BY <1>1
<1>3. Path(l, r, DOMAIN heap')
  BY DEF Order
<1>4. IsHeap(heap')
  BY DEF LInv
<1> HIDE DEF l
<1>5. Walk(l.heap, l.head) = r
  BY <1>2, <1>3, <1>4, WalkIsPath
<1>6. Walk(heap, head)' = r
  BY <1>2, <1>5
<1>7. r \in Seq(DOMAIN heap')
  BY <1>3 DEF Path
<1> QED
  BY <1>6, <1>7 DEF Recency, View

\* A use of a cached key moves its entry to the end of the queue.
LEMMA TouchIsUse ==
  ASSUME LInv, LInv', NEW s, NEW c, Order(s, c), NEW j \in 1 .. Len(s), NEW v \in CacheValues,
         Touches(s, c, j, v)
  PROVE  Queue!Use
<1> DEFINE q == RemoveAt(s, j)
           r == Append(q, s[j])
           e == [key |-> heap[s[j]].key, value |-> v]
           D == DOMAIN heap
<1>1. /\ Recency = View(heap, s) /\ Typed(heap, D) /\ s \in Seq(D) /\ s[j] \in D
      /\ \A i, k \in 1 .. Len(s) : s[i] = s[k] => i = k
  BY RecencyIsView, OrderFacts
<1>2. PICK d : Order(r, d)'
  BY DEF Touches, Counted
<1>3. Recency' = View(heap', r) /\ DOMAIN heap' = D
  BY <1>2, RecencyIsViewNext DEF Touches
<1>4. /\ \A x \in D : x # s[j] => heap'[x].key = heap[x].key /\ heap'[x].value = heap[x].value
      /\ heap'[s[j]].key = heap[s[j]].key /\ heap'[s[j]].value = v
  BY DEF Touches
<1>5. Typed(heap', D)
  BY <1>1, <1>4 DEF Typed
<1>6. q \in Seq(D)
  BY <1>1, RemoveAtProperties
<1>7. View(heap', q) = RemoveAt(View(heap, s), j)
  BY <1>1, <1>4, ViewRemove
<1>8. View(heap', r) = Append(View(heap', q), [key |-> heap'[s[j]].key, value |-> heap'[s[j]].value])
  BY <1>1, <1>5, <1>6, ViewAppend
<1> HIDE DEF q, r
<1>9. Recency' = Append(RemoveAt(Recency, j), e)
  BY <1>1, <1>3, <1>4, <1>7, <1>8
<1>10. e \in [key : CacheKeys, value : CacheValues] /\ e.key = heap[s[j]].key
  BY <1>1 DEF Typed
<1>11. DOMAIN View(heap, s) = 1 .. Len(s) /\ View(heap, s)[j] = [key |-> heap[s[j]].key, value |-> heap[s[j]].value]
  BY <1>1, ViewProperties
<1>12. j \in DOMAIN Recency /\ Recency[j].key = e.key
  BY <1>1, <1>10, <1>11
<1> HIDE DEF e
<1> QED
  BY <1>9, <1>10, <1>12 DEF Queue!Use, Queue!RemoveAt, RemoveAt

\* A new key adds its entry at the end of the queue.
LEMMA AddIsUse ==
  ASSUME LInv, LInv', NEW s, NEW c, Order(s, c), NEW k \in CacheKeys, NEW v \in CacheValues,
         Adds(s, c, k, v)
  PROVE  Queue!Use
<1> DEFINE e == [key |-> k, value |-> v]
           D == DOMAIN heap
<1>1. Recency = View(heap, s) /\ Typed(heap, D) /\ s \in Seq(D)
  BY RecencyIsView
<1>2. PICK a \in Addr \ D :
        /\ \A x \in D : heap[x].key # k
        /\ DOMAIN heap' = D \cup {a}
        /\ SamePayload(heap', heap, D)
        /\ heap'[a].key = k /\ heap'[a].value = v
        /\ Counted(s, c, Append(s, a))
  BY DEF Adds
<1> DEFINE r == Append(s, a)
<1>3. PICK d : Order(r, d)'
  BY <1>2 DEF Counted
<1>4. Recency' = View(heap', r)
  BY <1>3, RecencyIsViewNext
<1>5. Typed(heap', D \cup {a})
  BY <1>1, <1>2 DEF Typed, SamePayload
<1>6. s \in Seq(D \cup {a}) /\ Len(s) \in Nat /\ \A i \in 1 .. Len(s) : s[i] \in D
  BY <1>1, ElementOfSeq, LenProperties
<1>7. View(heap', r) = Append(View(heap', s), [key |-> heap'[a].key, value |-> heap'[a].value])
  BY <1>5, <1>6, ViewAppend
<1>8. View(heap', s) = View(heap, s)
  BY <1>1, <1>2, <1>6, LenProperties DEF View, SamePayload
<1> HIDE DEF r
<1>9. Recency' = Append(Recency, e)
  BY <1>1, <1>2, <1>4, <1>7, <1>8
<1>10. e \in [key : CacheKeys, value : CacheValues] /\ e.key = k
  OBVIOUS
<1>11. DOMAIN View(heap, s) = 1 .. Len(s)
  BY <1>1, ViewProperties
<1>12. ASSUME NEW i \in DOMAIN Recency PROVE Recency[i].key # e.key
  <2>1. i \in 1 .. Len(s)
    BY <1>1, <1>11
  <2>2. View(heap, s)[i] = [key |-> heap[s[i]].key, value |-> heap[s[i]].value]
    BY <1>1, <2>1, LenProperties DEF View
  <2> QED
    BY <1>1, <1>2, <1>6, <2>1, <2>2
<1> HIDE DEF e
<1> QED
  BY <1>9, <1>10, <1>12 DEF Queue!Use

\* A container that leaves the order takes its entry out of the queue.
LEMMA DropIsRemoval ==
  ASSUME LInv, LInv', NEW s, NEW c, Order(s, c), NEW j \in 1 .. Len(s), Drops(s, c, j)
  PROVE  /\ j \in DOMAIN Recency /\ Recency' = RemoveAt(Recency, j)
         /\ Recency \in Seq(Entries) /\ Len(Recency) = Len(s)
<1> DEFINE r == RemoveAt(s, j)
           D == DOMAIN heap
<1>1. /\ Recency = View(heap, s) /\ Typed(heap, D) /\ s \in Seq(D)
      /\ \A i, k \in 1 .. Len(s) : s[i] = s[k] => i = k
  BY RecencyIsView
<1>2. PICK d : Order(r, d)'
  BY DEF Drops, Counted
<1>3. Recency' = View(heap', r)
  BY <1>2, RecencyIsViewNext
<1>4. \A x \in D : x # s[j] => heap'[x].key = heap[x].key /\ heap'[x].value = heap[x].value
  BY DEF Drops, SamePayload
<1>5. View(heap', r) = RemoveAt(View(heap, s), j)
  BY <1>1, <1>4, ViewRemove
<1>6. DOMAIN View(heap, s) = 1 .. Len(s) /\ View(heap, s) \in Seq(Entries) /\ Len(View(heap, s)) = Len(s)
  BY <1>1, ViewProperties
<1> HIDE DEF r
<1> QED
  BY <1>1, <1>3, <1>5, <1>6

\* Removing the first element leaves the tail.
LEMMA RemoveFirstIsTail ==
  ASSUME NEW S, NEW q \in Seq(S), Len(q) # 0
  PROVE  RemoveAt(q, 1) = Tail(q) /\ q # << >>
<1> DEFINE r == RemoveAt(q, 1)
           u == Tail(q)
<1>1. q # << >> /\ Len(q) \in Nat /\ 1 \in 1 .. Len(q)
  BY LenProperties
<1>2. /\ r \in Seq(S) /\ Len(r) = Len(q) - 1
      /\ \A i \in 1 .. Len(q) - 1 : r[i] = IF i < 1 THEN q[i] ELSE q[i + 1]
  BY <1>1, RemoveAtProperties
<1>3. u \in Seq(S) /\ Len(u) = Len(q) - 1 /\ \A i \in 1 .. Len(u) : u[i] = q[i + 1]
  BY <1>1, HeadTailProperties
<1> HIDE DEF r, u
<1>4. \A i \in 1 .. Len(r) : r[i] = u[i]
  BY <1>1, <1>2, <1>3
<1>5. r = u
  BY <1>2, <1>3, <1>4, SeqEqual
<1> QED
  BY <1>1, <1>5 DEF r, u

\* Every step of the cache is a step of the queue or changes nothing of it.
LEMMA QueueSteps ==
  ASSUME CacheInv, CacheInv', [Next]_vars
  PROVE  [Queue!QueueNext]_Queue!queueVars
<1>1. PICK s, c : Order(s, c)
  BY DEF CacheInv, Ordered
<1>2. LInv /\ LInv' /\ CallsInv /\ LockInv
  BY DEF CacheInv
<1>3. StepOrder(s, c)
  BY <1>1, <1>2, StepsOrder
<1>4. ASSUME lock = Nil, lock' = Nil, Queue!Use \/ Queue!Discard \/ Queue!DiscardAll
      PROVE  Queue!QueueNext
  BY <1>4 DEF Queue!QueueNext, Queue!Call
<1>5. ASSUME NEW j \in 1 .. Len(s), NEW v \in CacheValues, Touches(s, c, j, v) PROVE Queue!Use
  BY <1>1, <1>2, <1>5, TouchIsUse
<1>6. ASSUME NEW k \in CacheKeys, NEW v \in CacheValues, Adds(s, c, k, v) PROVE Queue!Use
  BY <1>1, <1>2, <1>6, AddIsUse
<1>7. ASSUME NEW j \in 1 .. Len(s), Drops(s, c, j) PROVE Queue!Discard
  <2>1. j \in DOMAIN Recency /\ Recency' = RemoveAt(Recency, j)
    BY <1>1, <1>2, <1>7, DropIsRemoval
  <2> QED
    BY <2>1 DEF Queue!Discard, Queue!RemoveAt, RemoveAt
<1>8. ASSUME Order(<< >>, [i \in {0} |-> 0])' PROVE Queue!DiscardAll
  <2> DEFINE e == << >>
             z == [i \in {0} |-> 0]
  <2>1. View(heap', e) = << >>
    BY DEF View
  <2> HIDE DEF e, z
  <2>2. Recency' = View(heap', e)
    BY <1>2, <1>8, RecencyIsViewNext DEF e, z
  <2> QED
    BY <2>1, <2>2 DEF Queue!DiscardAll
<1>9. ASSUME lock # Nil, lock' = lock, Len(s) # 0, Drops(s, c, 1) PROVE Queue!QueueNext
  <2>1. 1 \in 1 .. Len(s)
    BY <1>1, <1>2, <1>9, OrderFacts
  <2>2. Recency' = RemoveAt(Recency, 1) /\ Recency \in Seq(Entries) /\ Len(Recency) # 0
    BY <1>1, <1>2, <1>9, <2>1, DropIsRemoval
  <2>3. Recency # << >> /\ Recency' = Tail(Recency)
    BY <2>2, RemoveFirstIsTail
  <2> QED
    BY <1>9, <2>3 DEF Queue!QueueNext, Queue!Shed
<1>10. ASSUME UNCHANGED << heap, head, tail, totalCost >>
       PROVE  [Queue!QueueNext]_Queue!queueVars
  <2>1. Recency' = Recency
    <3>1. Order(s, c)'
      BY <1>1, <1>10 DEF Order, List
    <3>2. Recency' = View(heap', s) /\ Recency = View(heap, s)
      BY <1>1, <1>2, <3>1, RecencyIsView, RecencyIsViewNext
    <3> QED
      BY <1>10, <3>2
  <2>2. CASE (lock # Nil) <=> (lock' # Nil)
    BY <2>1, <2>2 DEF Queue!queueVars
  <2>3. CASE ~((lock # Nil) <=> (lock' # Nil))
    BY <2>1, <2>3 DEF Queue!QueueNext, Queue!Switch
  <2> QED
    BY <2>2, <2>3
<1> QED
  BY <1>3, <1>4, <1>5, <1>6, <1>7, <1>8, <1>9, <1>10 DEF StepOrder

\* A new cache is an empty queue that sheds nothing.
LEMMA QueueStart == Init => Queue!QueueInit
<1> SUFFICES ASSUME Init PROVE Queue!QueueInit
  OBVIOUS
<1>1. LInv /\ Ordered
  BY LInvInductive, OrderedInductive
<1>2. PICK s, c : Order(s, c)
  BY <1>1 DEF Ordered
<1>3. Recency = View(heap, s) /\ s \in Seq(DOMAIN heap) /\ DOMAIN heap = {}
  BY <1>1, <1>2, RecencyIsView DEF Init
<1>4. DOMAIN s = {}
  BY <1>3, LenProperties, ElementOfSeq
<1>5. Recency = << >>
  BY <1>3, <1>4 DEF View
<1> QED
  BY <1>5 DEF Queue!QueueInit, Init

\* The cache is a queue of entries in the order of their last use: whatever the
\* threads interleave, calls act on it only while the cache sheds nothing, and what
\* clean() drops is the entry used longest ago.
THEOREM CacheIsQueue == Spec => ImplementsQueue
<1>1. Init => Queue!QueueInit
  BY QueueStart
<1>2. CacheInv /\ CacheInv' /\ [Next]_vars => [Queue!QueueNext]_Queue!queueVars
  BY QueueSteps
<1> QED
  BY <1>1, <1>2, CacheInvariance, PTL DEF Spec, ImplementsQueue, Queue!QueueSpec
=============================================================================
