------------------------------ MODULE LRUCache ------------------------------
(***************************************************************************)
(* class LRUCache of LRUCache.swift, on the heap: a dictionary of          *)
(* containers linked, oldest first, by unowned(unsafe) references, which   *)
(* do not keep a container alive. The dictionary alone does. A public call *)
(* is one critical section of the lock; setValue and the setters of the    *)
(* two limits call clean() after it, which takes the lock again, so calls  *)
(* of other threads come in between.                                       *)
(***************************************************************************)
EXTENDS Integers, FiniteSets, SequencesExt

CONSTANTS
  Threads, CacheKeys, CacheValues,
  Addr,          \* addresses of containers; a freed one is used again
  Nil,           \* a nil reference, a free lock
  Costs, CostLimits, CountLimits,
  MaxLost        \* bound: cost that removeAllValues leaves in totalCost

ASSUME CacheAssumption ==
  /\ Nil \notin Addr /\ Nil \notin Threads
  /\ Costs \subseteq Nat /\ CostLimits \subseteq Nat /\ CountLimits \subseteq Nat
  /\ MaxLost \in Nat

VARIABLES
  values,        \* [Key: Container], keys to addresses
  heap,          \* the live containers
  head, tail,
  totalCost, totalCostLimit, countLimit,
  lock,          \* the thread inside clean()'s critical section, or Nil
  pc             \* what each thread does: "idle", "clean" (owes a call of
                 \* clean(), outside the lock) or "evict" (in its loop)

vars == << values, heap, head, tail, totalCost, totalCostLimit, countLimit, lock, pc >>

Ref == Addr \cup {Nil}
Containers == [value : CacheValues, cost : Costs, key : CacheKeys, prev : Ref, next : Ref]

Init ==
  /\ values = << >> /\ heap = << >>
  /\ head = Nil /\ tail = Nil
  /\ totalCost = 0
  /\ totalCostLimit \in CostLimits /\ countLimit \in CountLimits
  /\ lock = Nil
  /\ pc = [t \in Threads |-> "idle"]

-----------------------------------------------------------------------------

\* The linked list: [heap, head, tail].
List == [heap |-> heap, head |-> head, tail |-> tail]

SetList(l) == heap' = l.heap /\ head' = l.head /\ tail' = l.tail

\* Seeded fault: remove(_:) of the first container leaves head on it.
UnlinkButHead(l, a) ==
  LET c == l.heap[a]
  IN  [heap |-> [x \in DOMAIN l.heap |->
                   [l.heap[x] EXCEPT
                      !.prev = IF x = c.next THEN c.prev ELSE @,
                      !.next = IF x = a THEN Nil ELSE IF x = c.prev THEN c.next ELSE @]],
       head |-> l.head,
       tail |-> IF l.tail = a THEN c.prev ELSE l.tail]

\* remove(_ container): its own prev is left as it is.
Unlink(l, a) ==
  LET c == l.heap[a]
  IN  [heap |-> [x \in DOMAIN l.heap |->
                   [l.heap[x] EXCEPT
                      !.prev = IF x = c.next THEN c.prev ELSE @,
                      !.next = IF x = a THEN Nil ELSE IF x = c.prev THEN c.next ELSE @]],
       head |-> IF l.head = a THEN c.next ELSE l.head,
       tail |-> IF l.tail = a THEN c.prev ELSE l.tail]

\* Seeded fault: append(_:) links backwards only.
LinkBackwards(l, a) ==
  [heap |-> [l.heap EXCEPT ![a].prev = l.tail],
   head |-> IF l.head = Nil THEN a ELSE l.head,
   tail |-> a]

\* append(_ container)
Link(l, a) ==
  [heap |-> [x \in DOMAIN l.heap |->
               [l.heap[x] EXCEPT
                  !.prev = IF x = a THEN l.tail ELSE @,
                  !.next = IF x = l.tail THEN a ELSE @]],
   head |-> IF l.head = Nil THEN a ELSE l.head,
   tail |-> a]

\* A container is freed when the dictionary lets go of it.
Free(l, a) == [l EXCEPT !.heap = [x \in DOMAIN l.heap \ {a} |-> l.heap[x]]]

Ready(t) == pc[t] = "idle" /\ lock = Nil

Goto(t, label) == pc' = [pc EXCEPT ![t] = label]

\* Seeded fault: the cost of the new value is not added.
UpdateValueFree(t, k, v, cost) ==
  /\ Ready(t) /\ k \in DOMAIN values
  /\ LET a == values[k]
         c == [heap[a] EXCEPT !.value = v, !.cost = cost]
         l == [List EXCEPT !.heap = [heap EXCEPT ![a] = c]]
     IN  /\ totalCost' = totalCost - heap[a].cost
         /\ SetList(Link(Unlink(l, a), a))
  /\ Goto(t, "clean")
  /\ UNCHANGED << values, totalCostLimit, countLimit, lock >>

\* setValue of a key that is cached
UpdateValue(t, k, v, cost) ==
  /\ Ready(t) /\ k \in DOMAIN values
  /\ LET a == values[k]
         c == [heap[a] EXCEPT !.value = v, !.cost = cost]
         l == [List EXCEPT !.heap = [heap EXCEPT ![a] = c]]
     IN  /\ totalCost' = totalCost - heap[a].cost + cost
         /\ SetList(Link(Unlink(l, a), a))
  /\ Goto(t, "clean")
  /\ UNCHANGED << values, totalCostLimit, countLimit, lock >>

\* setValue of a new key
InsertValue(t, k, v, cost) ==
  /\ Ready(t) /\ k \notin DOMAIN values
  /\ \E a \in Addr \ DOMAIN heap :
       LET new == [value |-> v, cost |-> cost, key |-> k, prev |-> Nil, next |-> Nil]
           l   == [List EXCEPT !.heap = [x \in DOMAIN heap \cup {a} |->
                                           IF x = a THEN new ELSE heap[x]]]
       IN  /\ values' = [x \in DOMAIN values \cup {k} |-> IF x = k THEN a ELSE values[x]]
           /\ SetList(Link(l, a))
  /\ totalCost' = totalCost + cost
  /\ Goto(t, "clean")
  /\ UNCHANGED << totalCostLimit, countLimit, lock >>

\* Seeded fault: the key stays, with no container.
ForgetValue(k) == values' = [values EXCEPT ![k] = Nil]

Forget(k) == values' = [x \in DOMAIN values \ {k} |-> values[x]]

\* removeValue(forKey:), also what setValue(nil, forKey:) does
RemoveValue(t, k) ==
  /\ Ready(t) /\ k \in DOMAIN values
  /\ LET a == values[k]
     IN  /\ Forget(k)
         /\ SetList(Free(Unlink(List, a), a))
         /\ totalCost' = totalCost - heap[a].cost
  /\ UNCHANGED << totalCostLimit, countLimit, lock, pc >>

\* value(forKey:) of a key that is cached
GetValue(t, k) ==
  /\ Ready(t) /\ k \in DOMAIN values
  /\ SetList(Link(Unlink(List, values[k]), values[k]))
  /\ UNCHANGED << values, totalCost, totalCostLimit, countLimit, lock, pc >>

\* removeAllValues(), called by a client or by the memory warning's observer
RemoveAllValues(t) ==
  /\ Ready(t)
  /\ totalCost <= MaxLost
  /\ values' = << >> /\ heap' = << >>
  /\ head' = Nil /\ tail' = Nil
  /\ UNCHANGED << totalCost, totalCostLimit, countLimit, lock, pc >>

\* The setters write outside the lock, then didSet calls clean().
SetCostLimit(t, n) ==
  /\ pc[t] = "idle"
  /\ totalCostLimit' = n
  /\ Goto(t, "clean")
  /\ UNCHANGED << values, heap, head, tail, totalCost, countLimit, lock >>

\* Seeded fault: a setter without didSet.
SetCountLimitOnly(t, n) ==
  /\ pc[t] = "idle"
  /\ countLimit' = n
  /\ UNCHANGED << values, heap, head, tail, totalCost, totalCostLimit, lock, pc >>

SetCountLimit(t, n) ==
  /\ pc[t] = "idle"
  /\ countLimit' = n
  /\ Goto(t, "clean")
  /\ UNCHANGED << values, heap, head, tail, totalCost, totalCostLimit, lock >>

\* clean(): lock.lock()
BeginClean(t) ==
  /\ pc[t] = "clean" /\ lock = Nil
  /\ lock' = t
  /\ Goto(t, "evict")
  /\ UNCHANGED << values, heap, head, tail, totalCost, totalCostLimit, countLimit >>

OverLimit == totalCost > totalCostLimit \/ Cardinality(DOMAIN values) > countLimit

\* Seeded fault: the newest entry is evicted.
EvictTail(t) ==
  /\ pc[t] = "evict"
  /\ OverLimit /\ tail # Nil
  /\ SetList(Free(Unlink(List, tail), tail))
  /\ Forget(heap[tail].key)
  /\ totalCost' = totalCost - heap[tail].cost
  /\ UNCHANGED << totalCostLimit, countLimit, lock, pc >>

\* A turn of its loop
Evict(t) ==
  /\ pc[t] = "evict"
  /\ OverLimit /\ head # Nil
  /\ SetList(Free(Unlink(List, head), head))
  /\ Forget(heap[head].key)
  /\ totalCost' = totalCost - heap[head].cost
  /\ UNCHANGED << totalCostLimit, countLimit, lock, pc >>

\* Seeded fault: the loop does not end with the list.
EndCleanInLimits(t) ==
  /\ pc[t] = "evict"
  /\ ~OverLimit
  /\ lock' = Nil
  /\ Goto(t, "idle")
  /\ UNCHANGED << values, heap, head, tail, totalCost, totalCostLimit, countLimit >>

\* The loop's exit, and lock.unlock()
EndClean(t) ==
  /\ pc[t] = "evict"
  /\ ~(OverLimit /\ head # Nil)
  /\ lock' = Nil
  /\ Goto(t, "idle")
  /\ UNCHANGED << values, heap, head, tail, totalCost, totalCostLimit, countLimit >>

Clean(t) == BeginClean(t) \/ Evict(t) \/ EndClean(t)

Next ==
  \E t \in Threads :
    \/ \E k \in CacheKeys :
         \/ \E v \in CacheValues, cost \in Costs :
              UpdateValue(t, k, v, cost) \/ InsertValue(t, k, v, cost)
         \/ RemoveValue(t, k) \/ GetValue(t, k)
    \/ RemoveAllValues(t)
    \/ \E n \in CostLimits : SetCostLimit(t, n)
    \/ \E n \in CountLimits : SetCountLimit(t, n)
    \/ Clean(t)

Spec == Init /\ [][Next]_vars

\* A thread in clean() or on its way to it goes on; NSLock may starve one that
\* waits, so fairness is asked of the thread that holds the lock only.
Fairness == \A t \in Threads : WF_vars(Evict(t) \/ EndClean(t))

FairSpec == Spec /\ Fairness

-----------------------------------------------------------------------------

TypeOK ==
  /\ DOMAIN values \subseteq CacheKeys /\ \A k \in DOMAIN values : values[k] \in Addr
  /\ DOMAIN heap \subseteq Addr /\ \A a \in DOMAIN heap : heap[a] \in Containers
  /\ head \in Ref /\ tail \in Ref
  /\ totalCost \in Int /\ totalCostLimit \in CostLimits /\ countLimit \in CountLimits
  /\ lock \in Threads \cup {Nil}
  /\ pc \in [Threads -> {"idle", "clean", "evict"}]

\* The dictionary holds exactly the live containers, each under its own key, and
\* no unowned(unsafe) reference of the list points to one that was freed.
Live == DOMAIN heap \cup {Nil}

NothingDangles ==
  /\ \A k \in DOMAIN values : values[k] \in DOMAIN heap /\ heap[values[k]].key = k
  /\ \A a \in DOMAIN heap : heap[a].key \in DOMAIN values /\ values[heap[a].key] = a
  /\ head \in Live /\ tail \in Live
  /\ \A a \in DOMAIN heap : heap[a].next \in Live /\ heap[a].prev \in Live

\* What allValues walks: the addresses from head along next, as far as they are
\* alive (bound: one more than there are containers, so that a cycle shows).
Walk(h, first) ==
  LET at[i \in 1 .. Cardinality(DOMAIN h) + 1] ==
        IF i = 1 THEN first
        ELSE IF at[i - 1] \in DOMAIN h THEN h[at[i - 1]].next ELSE Nil
  IN  [i \in {j \in DOMAIN at : at[j] \in DOMAIN h} |-> at[i]]

\* From head along next the list runs through every cached container once, ends
\* at tail, and prev runs back: nothing cached is out of clean()'s reach.
ListComplete ==
  LET s == Walk(heap, head)
  IN  /\ Len(s) = Cardinality(DOMAIN values)
      /\ ToSet(s) = DOMAIN heap
      /\ tail = IF s = << >> THEN Nil ELSE Last(s)
      /\ \A i \in DOMAIN s : heap[s[i]].prev = IF i = 1 THEN Nil ELSE s[i - 1]

\* The cost of the entries the cache holds.
CostOf(h, s) ==
  LET sum[i \in 0 .. Len(s)] == IF i = 0 THEN 0 ELSE sum[i - 1] + h[s[i]].cost
  IN  sum[Len(s)]

HeldCost == CostOf(heap, Walk(heap, head))

\* totalCost never falls below the cost of what is held, so that the limit
\* holds of the entries whatever the counter has drifted to.
CostCovered == totalCost >= HeldCost

\* The cache exceeds a limit only while some thread still owes a clean(): the
\* gap between the critical sections never leaves it over the limits for good.
OverLimitIsTransient ==
  (\A t \in Threads : pc[t] = "idle") /\ DOMAIN values # {} =>
      HeldCost <= totalCostLimit /\ Cardinality(DOMAIN values) <= countLimit

\* The loop of clean() ends, also when totalCost stays over the limit.
CleanEnds == \A t \in Threads : pc[t] = "evict" ~> pc[t] = "idle"

\* The comment on totalCost: "The current total cost of values in the cache".
TotalCostIsCurrent == totalCost = HeldCost

Recency ==
  LET s == Walk(heap, head)
  IN  [i \in DOMAIN s |-> [key |-> heap[s[i]].key, value |-> heap[s[i]].value]]

Queue == INSTANCE RecencyQueue WITH
  Entry <- [key : CacheKeys, value : CacheValues],
  recency <- Recency, shedding <- lock # Nil

\* Whatever threads do, allValues is the entries by last use, calls act on them
\* as on a queue and eviction takes the oldest.
ImplementsQueue == Queue!QueueSpec
=============================================================================
