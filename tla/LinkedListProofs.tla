-------------------------- MODULE LinkedListProofs --------------------------
(***************************************************************************)
(* The lists that Map keeps its piles in, for any lists, elements and      *)
(* addresses: each is a chain of nodes of its own, from headNode along     *)
(* next to tailNode, so that used this way lists are values.               *)
(***************************************************************************)
EXTENDS LinkedList, FiniteSetTheorems, SequenceTheorems, WellFoundedInduction, TLAPS

\* A non-empty set of numbers has a least element.
LEMMA LeastNat ==
  ASSUME NEW T, T \subseteq Nat, T # {}
  PROVE  \E m \in T : \A k \in T : m <= k
<1>1. PICK m \in T : \A k \in T : ~(<< k, m >> \in OpToRel(<, Nat))
  BY NatLessThanWellFounded, WFMin
<1>2. \A k \in T : ~(k < m)
  BY <1>1 DEF OpToRel
<1> QED
  BY <1>2

\* f and g go on alike where they began alike.
GoOnAlike(f, g, first, last) ==
  \A i \in first .. last : (\A j \in first .. i - 1 : f[j] = g[j]) => f[i] = g[i]

\* Two functions that go on alike from what came before are alike.
LEMMA SameRecursion ==
  ASSUME NEW first \in Nat, NEW last \in Int, NEW f, NEW g, GoOnAlike(f, g, first, last)
  PROVE  \A i \in first .. last : f[i] = g[i]
<1> DEFINE T == {i \in first .. last : f[i] # g[i]}
<1>1. SUFFICES ASSUME T # {} PROVE FALSE
  OBVIOUS
<1>2. T \subseteq Nat
  OBVIOUS
<1>3. PICK m \in T : \A k \in T : m <= k
  BY <1>1, <1>2, LeastNat
<1>4. \A j \in first .. m - 1 : f[j] = g[j]
  BY <1>3
<1> QED
  BY <1>3, <1>4 DEF GoOnAlike

\* r is s with the element e put in after the first i ones.
IsPutIn(r, s, i, e) ==
  /\ Len(r) = Len(s) + 1 /\ DOMAIN r = 1 .. Len(s) + 1
  /\ \A k \in 1 .. Len(s) + 1 :
       r[k] = IF k <= i THEN s[k] ELSE IF k = i + 1 THEN e ELSE s[k - 1]

\* What InsertAt does to a sequence.
LEMMA InsertAtProperties ==
  ASSUME NEW S, NEW s \in Seq(S), NEW e \in S, NEW i \in 0 .. Len(s)
  PROVE  InsertAt(s, i + 1, e) \in Seq(S) /\ IsPutIn(InsertAt(s, i + 1, e), s, i, e)
<1> DEFINE n == Len(s)
           front == SubSeq(s, 1, i)
           back == SubSeq(s, i + 1, n)
           mid == Append(front, e)
           c == mid \o back
           r == InsertAt(s, i + 1, e)
<1>1. n \in Nat /\ i \in 0 .. n
  BY LenProperties
<1>2. front \in Seq(S) /\ Len(front) = i /\ \A k \in 1 .. i : front[k] = s[k]
  BY <1>1
<1>3. back \in Seq(S) /\ Len(back) = n - i /\ \A k \in 1 .. n - i : back[k] = s[i + k]
  BY <1>1
<1>4. r = (front \o << e >>) \o back
  <2>1. PICK k : k = i + 1
    OBVIOUS
  <2>2. k - 1 = i
    BY <1>1, <2>1
  <2>3. \A m : k - 1 = m => InsertAt(s, k, e) = (SubSeq(s, 1, m) \o << e >>) \o SubSeq(s, k, Len(s))
    BY DEF InsertAt
  <2>4. InsertAt(s, k, e) = (front \o << e >>) \o SubSeq(s, k, Len(s))
    BY <2>2, <2>3
  <2> QED
    BY <2>1, <2>4
<1> HIDE DEF front, back, r
<1>5. front \o << e >> = mid
  BY <1>2
<1>6. /\ mid \in Seq(S) /\ Len(mid) = i + 1
      /\ \A k \in 1 .. i + 1 : mid[k] = IF k <= i THEN s[k] ELSE e
  BY <1>1, <1>2
<1> HIDE DEF mid
<1>7. /\ c \in Seq(S) /\ Len(c) = Len(mid) + Len(back)
      /\ \A k \in 1 .. Len(mid) + Len(back) :
           c[k] = IF k <= Len(mid) THEN mid[k] ELSE back[k - Len(mid)]
  BY <1>3, <1>6, ConcatProperties
<1> HIDE DEF c
<1>8. r = c
  BY <1>4, <1>5 DEF c
<1>9. r \in Seq(S) /\ Len(r) = n + 1
  BY <1>1, <1>3, <1>6, <1>7, <1>8
<1>10. DOMAIN r = 1 .. n + 1
  BY <1>9, LenProperties
<1>11. ASSUME NEW k \in 1 .. n + 1
       PROVE  r[k] = IF k <= i THEN s[k] ELSE IF k = i + 1 THEN e ELSE s[k - 1]
  <2>1. r[k] = IF k <= i + 1 THEN mid[k] ELSE back[k - (i + 1)]
    BY <1>1, <1>3, <1>6, <1>7, <1>8
  <2>2. CASE k <= i + 1
    BY <1>1, <1>6, <2>1, <2>2
  <2>3. CASE ~(k <= i + 1)
    <3>1. k - (i + 1) \in 1 .. n - i /\ i + (k - (i + 1)) = k - 1
      BY <1>1, <2>3
    <3>2. back[k - (i + 1)] = s[k - 1]
      BY <1>3, <3>1
    <3> QED
      BY <1>1, <2>1, <2>3, <3>2
  <2> QED
    BY <2>2, <2>3
<1> QED
  BY <1>9, <1>10, <1>11 DEF IsPutIn, r
-----------------------------------------------------------------------------

\* list is made of the nodes of s, in this order.
ChainOf(h, list, s) ==
  /\ s \in Seq(DOMAIN h) /\ Len(s) # 0 /\ list.count = Len(s)
  /\ \A i, j \in 1 .. Len(s) : s[i] = s[j] => i = j
  /\ list.headNode = s[1] /\ list.tailNode = s[Len(s)]
  /\ \A i \in 1 .. Len(s) :
       /\ h[s[i]].next = IF i < Len(s) THEN s[i + 1] ELSE Nil
       /\ h[s[i]].previous = IF i = 1 THEN Nil ELSE s[i - 1]

\* Types of the nodes.
IsHeap(h) == DOMAIN h \subseteq Addr /\ h \in [DOMAIN h -> Node]

\* The nodes of a chain are alive, and never nil.
LEMMA ChainNodes ==
  ASSUME NEW h, IsHeap(h), NEW list, NEW s, ChainOf(h, list, s)
  PROVE  /\ s \in Seq(DOMAIN h) /\ Len(s) \in Nat /\ Len(s) >= 1 /\ DOMAIN s = 1 .. Len(s)
         /\ \A i \in 1 .. Len(s) : s[i] \in DOMAIN h /\ s[i] \in Addr /\ s[i] # Nil
         /\ 1 \in 1 .. Len(s) /\ Len(s) \in 1 .. Len(s)
<1>1. s \in Seq(DOMAIN h) /\ Len(s) # 0
  BY DEF ChainOf
<1>2. Len(s) \in Nat /\ DOMAIN s = 1 .. Len(s) /\ \A i \in 1 .. Len(s) : s[i] \in DOMAIN h
  BY <1>1, ElementOfSeq, LenProperties
<1>3. \A a \in DOMAIN h : a \in Addr /\ a # Nil
  BY ListAssumption DEF IsHeap
<1> QED
  BY <1>1, <1>2, <1>3

\* The Iterator visits the nodes of the chain, in their order.
LEMMA NodesOfChain ==
  ASSUME NEW h, IsHeap(h), NEW list, NEW s, ChainOf(h, list, s)
  PROVE  NodesOf(h, list) = s
<1> DEFINE n == Len(s)
           N == Cardinality(Addr) + 1
           g == [i \in 1 .. N |-> IF i <= n THEN s[i] ELSE Nil]
<1>1. /\ s \in Seq(DOMAIN h) /\ n \in Nat /\ n >= 1 /\ DOMAIN s = 1 .. n
      /\ \A i \in 1 .. n : s[i] \in Addr /\ s[i] # Nil
  BY ChainNodes
<1>2. N \in Nat /\ n <= N
  <2>1. s \in [1 .. n -> Addr]
    BY <1>1, LenProperties DEF IsHeap
  <2>2. s \in Injection(1 .. n, Addr)
    BY <1>1, <2>1 DEF ChainOf, Injection, IsInjective
  <2>3. IsFiniteSet(Addr)
    BY ListAssumption
  <2>4. Cardinality(1 .. n) <= Cardinality(Addr)
    BY <2>2, <2>3, FS_Injection
  <2>5. Cardinality(1 .. n) = n
    BY <1>1, FS_Interval
  <2> QED
    BY <2>3, <2>4, <2>5, FS_CardinalityType
<1>3. /\ list.headNode = s[1]
      /\ \A i \in 1 .. n : h[s[i]].next = IF i < n THEN s[i + 1] ELSE Nil
  BY DEF ChainOf
<1> HIDE DEF N
<1>4. ASSUME NEW i \in 1 .. N
      PROVE  g[i] = IF i = 1 THEN list.headNode
                    ELSE IF g[i - 1] = Nil THEN Nil ELSE h[g[i - 1]].next
  <2>1. CASE i = 1
    BY <1>1, <1>2, <1>3, <2>1
  <2>2. CASE i # 1 /\ i - 1 <= n
    <3>1. i - 1 \in 1 .. n /\ i - 1 \in 1 .. N /\ i - 1 + 1 = i
      BY <1>1, <1>2, <2>2
    <3>2. g[i - 1] = s[i - 1] /\ g[i - 1] # Nil
      BY <1>1, <3>1
    <3>3. h[s[i - 1]].next = IF i - 1 < n THEN s[i] ELSE Nil
      BY <1>3, <3>1
    <3> QED
      BY <1>1, <2>2, <3>1, <3>2, <3>3
  <2>3. CASE i # 1 /\ ~(i - 1 <= n)
    BY <1>1, <1>2, <2>3
  <2> QED
    BY <2>1, <2>2, <2>3
<1>5. g = [i \in 1 .. N |-> IF i = 1 THEN list.headNode
                            ELSE IF g[i - 1] = Nil THEN Nil ELSE h[g[i - 1]].next]
  BY <1>4
<1> HIDE DEF g
<1>6. PICK at : /\ at = [i \in 1 .. N |-> IF i = 1 THEN list.headNode
                                          ELSE IF at[i - 1] = Nil THEN Nil ELSE h[at[i - 1]].next]
                /\ NodesOf(h, list) = [i \in {j \in DOMAIN at : at[j] # Nil} |-> at[i]]
  BY <1>5, Zenon DEF NodesOf, N
<1>7. \A i \in 1 .. N : at[i] = IF i = 1 THEN list.headNode
                                ELSE IF at[i - 1] = Nil THEN Nil ELSE h[at[i - 1]].next
  BY <1>6, Zenon
<1>8. ASSUME NEW i \in 1 .. N, \A j \in 1 .. i - 1 : at[j] = g[j] PROVE at[i] = g[i]
  <2>1. i # 1 => i - 1 \in 1 .. i - 1
    BY <1>2
  <2> QED
    BY <1>4, <1>7, <1>8, <2>1
<1>9. \A i \in 1 .. N : at[i] = g[i]
  <2>1. GoOnAlike(at, g, 1, N)
    BY <1>8 DEF GoOnAlike
  <2>2. 1 \in Nat /\ N \in Int
    BY <1>2
  <2> QED
    BY <2>1, <2>2, SameRecursion
<1>10. DOMAIN at = 1 .. N
  BY <1>6, Zenon
<1>11. {j \in DOMAIN at : at[j] # Nil} = 1 .. n /\ \A i \in 1 .. n : at[i] = s[i]
  BY <1>1, <1>2, <1>9, <1>10 DEF g
<1>12. NodesOf(h, list) = [i \in 1 .. n |-> s[i]]
  BY <1>6, <1>11
<1>13. s = [i \in 1 .. n |-> s[i]]
  BY <1>1, LenProperties
<1> QED
  BY <1>12, <1>13

\* Nodes that are kept as they are keep their chain.
LEMMA SameChain ==
  ASSUME NEW h, NEW g, NEW list, NEW s, ChainOf(h, list, s),
         \A i \in 1 .. Len(s) : s[i] \in DOMAIN g
                                /\ g[s[i]].next = h[s[i]].next /\ g[s[i]].previous = h[s[i]].previous
  PROVE  ChainOf(g, list, s)
<1>1. Len(s) \in Nat /\ s = [i \in 1 .. Len(s) |-> s[i]]
  BY LenProperties DEF ChainOf
<1>2. s \in Seq(DOMAIN g)
  BY <1>1, IsASeq
<1> QED
  BY <1>2 DEF ChainOf

\* What holds a chain by headNode or by next holds all its nodes.
LEMMA ChainIsHeld ==
  ASSUME NEW h, IsHeap(h), NEW list, NEW s, ChainOf(h, list, s), NEW C,
         list.headNode \in C \cup {Nil}, \A a \in C : h[a].next \in C \cup {Nil}
  PROVE  \A i \in 1 .. Len(s) : s[i] \in C
<1> DEFINE T == {i \in 1 .. Len(s) : s[i] \notin C}
<1>1. SUFFICES ASSUME T # {} PROVE FALSE
  OBVIOUS
<1>2. T \subseteq Nat
  OBVIOUS
<1>3. PICK m \in T : \A k \in T : m <= k
  BY <1>1, <1>2, LeastNat
<1>4. /\ Len(s) \in Nat
      /\ \A i \in 1 .. Len(s) : s[i] # Nil
      /\ list.headNode = s[1]
      /\ \A i \in 1 .. Len(s) : h[s[i]].next = IF i < Len(s) THEN s[i + 1] ELSE Nil
  BY ChainNodes DEF ChainOf
<1>5. CASE m = 1
  BY <1>3, <1>4, <1>5
<1>6. CASE m # 1
  <2>1. m - 1 \in 1 .. Len(s) /\ m - 1 < Len(s) /\ m - 1 + 1 = m
    BY <1>3, <1>4, <1>6
  <2>2. s[m - 1] \in C
    BY <1>3, <2>1
  <2>3. h[s[m - 1]].next = s[m]
    BY <1>4, <2>1
  <2> QED
    BY <1>3, <1>4, <2>2, <2>3
<1> QED
  BY <1>5, <1>6
-----------------------------------------------------------------------------

\* The lists ls are the chains p: no node is in two of them, and none in no list.
Piles(h, ls, p) ==
  /\ \A l \in DOMAIN ls : ChainOf(h, ls[l], p[l])
  /\ \A l, m \in DOMAIN ls : l # m =>
       \A i \in 1 .. Len(p[l]), j \in 1 .. Len(p[m]) : p[l][i] # p[m][j]
  /\ \A a \in DOMAIN h : \E l \in DOMAIN ls : \E i \in 1 .. Len(p[l]) : p[l][i] = a

\* All nodes of the chains are held, so that storing the lists lets none go.
LEMMA StoreKeeps ==
  ASSUME NEW h, IsHeap(h), NEW ls, NEW p, Piles(h, ls, p), Store(h, ls)
  PROVE  lists' = ls /\ heap' = h
<1> DEFINE alive == {a \in DOMAIN h : \A C \in SUBSET DOMAIN h : Held(h, ls, C) => a \in C}
<1>1. lists' = ls /\ heap' = [a \in alive |-> [h[a] EXCEPT !.previous = IF @ \in alive THEN @ ELSE Nil]]
  BY DEF Store
<1>2. ASSUME NEW a \in DOMAIN h, NEW C \in SUBSET DOMAIN h, Held(h, ls, C) PROVE a \in C
  <2>1. PICK l \in DOMAIN ls : \E i \in 1 .. Len(p[l]) : p[l][i] = a
    BY DEF Piles
  <2>2. ChainOf(h, ls[l], p[l])
    BY DEF Piles
  <2>3. ls[l].headNode \in C \cup {Nil} /\ \A b \in C : h[b].next \in C \cup {Nil}
    BY <1>2 DEF Held
  <2>4. \A j \in 1 .. Len(p[l]) : p[l][j] \in C
    BY <2>2, <2>3, ChainIsHeld
  <2> QED
    BY <2>1, <2>4
<1>3. alive = DOMAIN h
  BY <1>2
<1> HIDE DEF alive
<1>4. ASSUME NEW a \in DOMAIN h PROVE h[a].previous \in DOMAIN h \cup {Nil}
  <2>1. PICK l \in DOMAIN ls : \E i \in 1 .. Len(p[l]) : p[l][i] = a
    BY DEF Piles
  <2>2. ChainOf(h, ls[l], p[l])
    BY DEF Piles
  <2> PICK i \in 1 .. Len(p[l]) : p[l][i] = a
    BY <2>1
  <2>3. h[a].previous = IF i = 1 THEN Nil ELSE p[l][i - 1]
    BY <2>2 DEF ChainOf
  <2>4. i # 1 => i - 1 \in 1 .. Len(p[l])
    BY <2>2, ChainNodes
  <2>5. \A j \in 1 .. Len(p[l]) : p[l][j] \in DOMAIN h
    BY <2>2, ChainNodes
  <2> QED
    BY <2>3, <2>4, <2>5
<1>5. ASSUME NEW a \in DOMAIN h
      PROVE  [h[a] EXCEPT !.previous = IF @ \in DOMAIN h THEN @ ELSE Nil] = h[a]
  <2>1. h[a] \in Node
    BY DEF IsHeap
  <2> QED
    BY <1>4, <2>1 DEF Node
<1>6. heap' = [a \in DOMAIN h |-> h[a]]
  BY <1>1, <1>3, <1>5
<1>7. h = [a \in DOMAIN h |-> h[a]]
  BY DEF IsHeap
<1> QED
  BY <1>1, <1>6, <1>7

\* f with one value more, or another one, at l
Put(f, ls, l, x) == [m \in DOMAIN ls \cup {l} |-> IF m = l THEN x ELSE f[m]]

\* t has the node a and those of the chain of l, if there is one.
Extends(t, p, ls, l, a) ==
  /\ \A i \in 1 .. Len(t) : t[i] = a \/ (l \in DOMAIN ls /\ \E j \in 1 .. Len(p[l]) : t[i] = p[l][j])
  /\ \E i \in 1 .. Len(t) : t[i] = a
  /\ l \in DOMAIN ls => \A j \in 1 .. Len(p[l]) : \E i \in 1 .. Len(t) : t[i] = p[l][j]

\* The nodes of the other chains are in g what they are in h.
KeepsOthers(h, g, ls, p, l) ==
  \A m \in DOMAIN ls \ {l} : \A j \in 1 .. Len(p[m]) :
    g[p[m][j]].next = h[p[m][j]].next /\ g[p[m][j]].previous = h[p[m][j]].previous

\* One node more in one list, or in a list of its own; the rest is as it was.
LEMMA OneMore ==
  ASSUME NEW h, NEW g, NEW ls, NEW p, Piles(h, ls, p), IsHeap(h), IsHeap(g),
         NEW a, a \notin DOMAIN h, DOMAIN g = DOMAIN h \cup {a},
         NEW l, NEW list, NEW t, ChainOf(g, list, t),
         Extends(t, p, ls, l, a), KeepsOthers(h, g, ls, p, l)
  PROVE  Piles(g, Put(ls, ls, l, list), Put(p, ls, l, t))
<1> DEFINE ls2 == Put(ls, ls, l, list)
           p2 == Put(p, ls, l, t)
<1>1. /\ DOMAIN ls2 = DOMAIN ls \cup {l}
      /\ ls2[l] = list /\ p2[l] = t
      /\ \A m \in DOMAIN ls \ {l} : ls2[m] = ls[m] /\ p2[m] = p[m]
  BY DEF Put
<1> HIDE DEF ls2, p2
<1>2. \A m \in DOMAIN ls : \A j \in 1 .. Len(p[m]) : p[m][j] \in DOMAIN h
  BY ChainNodes DEF Piles
<1>3. ASSUME NEW m \in DOMAIN ls \ {l} PROVE ChainOf(g, ls2[m], p2[m])
  <2>1. ChainOf(h, ls[m], p[m])
    BY DEF Piles
  <2>2. \A j \in 1 .. Len(p[m]) : p[m][j] \in DOMAIN g
    BY <1>2
  <2>3. ChainOf(g, ls[m], p[m])
    BY <2>1, <2>2, SameChain DEF KeepsOthers
  <2> QED
    BY <1>1, <2>3
<1>4. \A m \in DOMAIN ls2 : ChainOf(g, ls2[m], p2[m])
  BY <1>1, <1>3
<1>apart. \A k, m \in DOMAIN ls : k # m =>
        \A i \in 1 .. Len(p[k]), j \in 1 .. Len(p[m]) : p[k][i] # p[m][j]
  BY DEF Piles
<1>5. ASSUME NEW m \in DOMAIN ls \ {l}, NEW j \in 1 .. Len(p[m]), NEW i \in 1 .. Len(t) PROVE t[i] # p[m][j]
  <2>1. p[m][j] # a
    BY <1>2
  <2>2. ASSUME l \in DOMAIN ls, NEW k \in 1 .. Len(p[l]) PROVE p[l][k] # p[m][j]
    <3>1. l \in DOMAIN ls /\ m \in DOMAIN ls /\ l # m
      BY <2>2
    <3>2. \A i1 \in 1 .. Len(p[l]), j1 \in 1 .. Len(p[m]) : p[l][i1] # p[m][j1]
      BY <1>apart, <3>1, Zenon
    <3> QED
      BY <3>2
  <2> QED
    BY <2>1, <2>2 DEF Extends
<1>6. ASSUME NEW k \in DOMAIN ls2, NEW m \in DOMAIN ls2, k # m,
             NEW i \in 1 .. Len(p2[k]), NEW j \in 1 .. Len(p2[m])
      PROVE  p2[k][i] # p2[m][j]
  <2>1. CASE k = l
    BY <1>1, <1>5, <1>6, <2>1
  <2>2. CASE m = l
    BY <1>1, <1>5, <1>6, <2>2
  <2>3. CASE k # l /\ m # l
    BY <1>1, <1>6, <2>3 DEF Piles
  <2> QED
    BY <2>1, <2>2, <2>3
<1>7. ASSUME NEW b \in DOMAIN g PROVE \E m \in DOMAIN ls2 : \E i \in 1 .. Len(p2[m]) : p2[m][i] = b
  <2>1. CASE b = a
    BY <1>1, <2>1 DEF Extends
  <2>2. CASE b # a
    <3>1. PICK m \in DOMAIN ls : \E j \in 1 .. Len(p[m]) : p[m][j] = b
      BY <2>2 DEF Piles
    <3>2. CASE m = l
      <4>1. \E i \in 1 .. Len(t) : t[i] = b
        BY <3>1, <3>2 DEF Extends
      <4> QED
        BY <1>1, <4>1
    <3>3. CASE m # l
      <4>1. m \in DOMAIN ls2 /\ p2[m] = p[m]
        BY <1>1, <3>3
      <4> QED
        BY <3>1, <4>1
    <3> QED
      BY <3>2, <3>3
  <2> QED
    BY <2>1, <2>2
<1>8. Piles(g, ls2, p2)
  BY <1>4, <1>6, <1>7 DEF Piles
<1> QED
  BY <1>8 DEF ls2, p2
-----------------------------------------------------------------------------

\* Where there is room, a new node gets an address that no node has.
LEMMA FreshNode ==
  ASSUME IsHeap(heap), Room(1)
  PROVE  /\ Fresh(1) = << Fresh(1)[1] >> /\ Fresh(1)[1] \in Addr
         /\ Fresh(1)[1] \notin DOMAIN heap /\ Fresh(1)[1] # Nil
<1> DEFINE free == Addr \ DOMAIN heap
<1>1. IsFiniteSet(Addr) /\ Nil \notin Addr
  BY ListAssumption
<1>2. IsFiniteSet(free) /\ Cardinality(free) >= 1
  BY <1>1, FS_Difference DEF Room
<1>3. free # {}
  BY <1>2, FS_EmptySet
<1>4. PICK a \in free : TRUE
  BY <1>3
<1>5. << a >> \in Injection(1 .. 1, free)
  BY <1>4 DEF Injection, IsInjective
<1>6. Fresh(1) \in Injection(1 .. 1, free)
  BY <1>5 DEF Fresh
<1>7. Fresh(1) \in [1 .. 1 -> free]
  BY <1>6 DEF Injection
<1> HIDE DEF free
<1>8. Fresh(1)[1] \in free
  BY <1>7
<1>9. Fresh(1) = << Fresh(1)[1] >>
  BY <1>7
<1> QED
  BY <1>1, <1>8, <1>9 DEF free

\* The heap with one node more.
LEMMA OneNode ==
  ASSUME IsHeap(heap), NEW a \in Addr, a \notin DOMAIN heap, NEW r \in Node
  PROVE  LET g == With([b \in {a} |-> r]) IN
         /\ IsHeap(g) /\ DOMAIN g = DOMAIN heap \cup {a} /\ g[a] = r
         /\ \A b \in DOMAIN heap : g[b] = heap[b]
<1> DEFINE g == With([b \in {a} |-> r])
<1>1. g = [b \in DOMAIN heap \cup {a} |-> IF b \in DOMAIN heap THEN heap[b] ELSE r]
  BY DEF With
<1> HIDE DEF g
<1>2. /\ DOMAIN g = DOMAIN heap \cup {a} /\ g[a] = r
      /\ \A b \in DOMAIN heap : g[b] = heap[b]
  BY <1>1
<1>3. IsHeap(g)
  BY <1>1, <1>2 DEF IsHeap
<1> QED
  BY <1>2, <1>3 DEF g

\* The references a list has to the node of an index and to the one before it.
Before(s, i) == IF i = 0 THEN Nil ELSE s[i]
After(s, i) == IF i = Len(s) THEN Nil ELSE s[i + 1]

\* g is h with the node a between those two.
IsSpliced(g, h, s, i, a) ==
  /\ DOMAIN g = DOMAIN h \cup {a}
  /\ g[a].next = After(s, i) /\ g[a].previous = Before(s, i)
  /\ \A b \in DOMAIN h : /\ g[b].value = h[b].value
                         /\ g[b].next = IF b = Before(s, i) THEN a ELSE h[b].next
                         /\ g[b].previous = IF b = After(s, i) THEN a ELSE h[b].previous

\* insert(_:at:) puts the new node between those two.
LEMMA SplicedNodes ==
  ASSUME IsHeap(heap), Room(1), NEW l, NEW s, ChainOf(heap, lists[l], s),
         NEW e \in Elements, NEW i \in 0 .. lists[l].count
  PROVE  /\ IsHeap(Spliced(l, e, i)) /\ Spliced(l, e, i)[Fresh(1)[1]].value = e
         /\ IsSpliced(Spliced(l, e, i), heap, s, i, Fresh(1)[1])
<1> DEFINE a == Fresh(1)[1]
           n == Len(s)
           nxt == After(s, i)
           prv == Before(s, i)
           r == [value |-> e, next |-> nxt, previous |-> prv]
           h == With([b \in {a} |-> r])
           h1 == SetNext(h, prv, a)
           g == SetPrevious(h1, nxt, a)
<1>1. /\ n \in Nat /\ n >= 1 /\ lists[l].count = n /\ i \in 0 .. n
      /\ \A j \in 1 .. n : s[j] \in DOMAIN heap /\ s[j] \in Addr /\ s[j] # Nil
  BY ChainNodes DEF ChainOf
<1>2. a \in Addr /\ a \notin DOMAIN heap /\ a # Nil
  BY FreshNode
<1>3. /\ prv \in Ref /\ nxt \in Ref
      /\ prv # Nil => prv \in DOMAIN heap
      /\ nxt # Nil => nxt \in DOMAIN heap
  BY <1>1 DEF Before, After, Ref
<1>4. Spliced(l, e, i) = g
  <2>1. Walk(l) = s
    BY NodesOfChain DEF Walk
  <2>2. NodeAt(l, i) = IF i < n THEN s[i + 1] ELSE Nil
    BY <2>1 DEF NodeAt
  <2>3. (IF i = lists[l].count THEN Nil ELSE NodeAt(l, i)) = nxt
    BY <1>1, <2>2 DEF After
  <2>4. /\ lists[l].tailNode = s[n]
        /\ \A j \in 1 .. n : heap[s[j]].previous = IF j = 1 THEN Nil ELSE s[j - 1]
    BY DEF ChainOf
  <2>5. (IF i = lists[l].count THEN lists[l].tailNode ELSE IF nxt = Nil THEN Nil ELSE heap[nxt].previous) = prv
    <3>1. CASE i = n
      BY <1>1, <2>4, <3>1 DEF Before
    <3>2. CASE i # n
      <4>1. i + 1 \in 1 .. n /\ i + 1 - 1 = i /\ nxt = s[i + 1]
        BY <1>1, <3>2 DEF After
      <4>2. heap[s[i + 1]].previous = IF i = 0 THEN Nil ELSE s[i]
        BY <1>1, <2>4, <4>1
      <4> QED
        BY <1>1, <3>2, <4>1, <4>2 DEF Before
    <3> QED
      BY <3>1, <3>2
  <2> HIDE DEF nxt, prv, a
  <2> QED
    BY <2>3, <2>5 DEF Spliced, a
<1> HIDE DEF nxt, prv, a
<1>5. r \in Node
  BY <1>3 DEF Node
<1>6. /\ IsHeap(h) /\ DOMAIN h = DOMAIN heap \cup {a} /\ h[a] = r
      /\ \A b \in DOMAIN heap : h[b] = heap[b]
  BY <1>2, <1>5, OneNode
<1> HIDE DEF r, h
<1>7. h \in [DOMAIN h -> Node] /\ \A b \in DOMAIN h : h[b] \in Node
  BY <1>6 DEF IsHeap
<1>8. a \in Ref
  BY <1>2 DEF Ref
<1>9. /\ DOMAIN h1 = DOMAIN h /\ h1 \in [DOMAIN h -> Node]
      /\ \A b \in DOMAIN h : /\ h1[b] \in Node /\ h1[b].value = h[b].value
                             /\ h1[b].next = IF b = prv THEN a ELSE h[b].next
                             /\ h1[b].previous = h[b].previous
  <2>1. CASE prv = Nil
    <3>1. \A b \in DOMAIN h : b # Nil
      BY <1>1, <1>2, <1>6, ListAssumption DEF IsHeap
    <3> QED
      BY <1>7, <2>1, <3>1 DEF SetNext
  <2>2. CASE prv # Nil
    <3>1. prv \in DOMAIN h
      BY <1>3, <1>6, <2>2
    <3>2. h1 = [h EXCEPT ![prv].next = a]
      BY <2>2 DEF SetNext
    <3> QED
      BY <1>7, <1>8, <3>1, <3>2 DEF Node
  <2> QED
    BY <2>1, <2>2
<1> HIDE DEF h1
<1>10. /\ DOMAIN g = DOMAIN h /\ g \in [DOMAIN h -> Node]
       /\ \A b \in DOMAIN h : /\ g[b] \in Node /\ g[b].value = h[b].value
                              /\ g[b].next = IF b = prv THEN a ELSE h[b].next
                              /\ g[b].previous = IF b = nxt THEN a ELSE h[b].previous
  <2>1. CASE nxt = Nil
    <3>1. \A b \in DOMAIN h : b # Nil
      BY <1>1, <1>2, <1>6, ListAssumption DEF IsHeap
    <3> QED
      BY <1>9, <2>1, <3>1 DEF SetPrevious
  <2>2. CASE nxt # Nil
    <3>1. nxt \in DOMAIN h1
      BY <1>3, <1>6, <1>9, <2>2
    <3>2. g = [h1 EXCEPT ![nxt].previous = a]
      BY <2>2 DEF SetPrevious
    <3> QED
      BY <1>8, <1>9, <3>1, <3>2 DEF Node
  <2> QED
    BY <2>1, <2>2
<1> HIDE DEF g
<1>11. IsHeap(g)
  BY <1>6, <1>10 DEF IsHeap
<1>12. g[a] = r
  <2>1. a # prv /\ a # nxt
    BY <1>2, <1>3
  <2>2. a \in DOMAIN h /\ g[a] \in Node /\ h[a] \in Node
    BY <1>6, <1>7, <1>10
  <2>3. g[a].value = h[a].value /\ g[a].next = h[a].next /\ g[a].previous = h[a].previous
    BY <1>10, <2>1, <2>2
  <2>4. g[a] = h[a]
    BY <2>2, <2>3 DEF Node
  <2> QED
    BY <1>6, <2>4
<1>13. \A b \in DOMAIN heap : /\ g[b].value = heap[b].value
                              /\ g[b].next = IF b = prv THEN a ELSE heap[b].next
                              /\ g[b].previous = IF b = nxt THEN a ELSE heap[b].previous
  BY <1>6, <1>10
<1>14. DOMAIN g = DOMAIN heap \cup {a}
  BY <1>6, <1>10
<1>15. g[a].value = e /\ g[a].next = nxt /\ g[a].previous = prv
  BY <1>12 DEF r
<1>16. IsSpliced(g, heap, s, i, a)
  BY <1>13, <1>14, <1>15 DEF IsSpliced, nxt, prv
<1> QED
  BY <1>4, <1>11, <1>15, <1>16 DEF a

\* The list after the insertion, to one of the chain s.
Longer(new, list, s, i, a) ==
  /\ new.headNode = IF i = 0 THEN a ELSE list.headNode
  /\ new.tailNode = IF i = Len(s) THEN a ELSE list.tailNode
  /\ new.count = Len(s) + 1

\* The chain s with a new node a put in after its first i nodes.
LEMMA SplicedChain ==
  ASSUME NEW h, IsHeap(h), NEW g, NEW list, NEW s, ChainOf(h, list, s),
         NEW a, a \notin DOMAIN h, NEW i \in 0 .. Len(s), IsSpliced(g, h, s, i, a),
         NEW new, Longer(new, list, s, i, a)
  PROVE  ChainOf(g, new, InsertAt(s, i + 1, a))
<1> DEFINE n == Len(s)
           t == InsertAt(s, i + 1, a)
<1>1. /\ s \in Seq(DOMAIN h) /\ n \in Nat /\ n >= 1 /\ i \in 0 .. n
      /\ \A j \in 1 .. n : s[j] \in DOMAIN h /\ s[j] # Nil /\ s[j] # a
  BY ChainNodes
<1>2. /\ \A j, k \in 1 .. n : s[j] = s[k] => j = k
      /\ list.headNode = s[1] /\ list.tailNode = s[n]
      /\ \A j \in 1 .. n : /\ h[s[j]].next = IF j < n THEN s[j + 1] ELSE Nil
                           /\ h[s[j]].previous = IF j = 1 THEN Nil ELSE s[j - 1]
  BY DEF ChainOf
<1>3. /\ t \in Seq(DOMAIN g) /\ Len(t) = n + 1 /\ DOMAIN t = 1 .. n + 1
      /\ \A k \in 1 .. n + 1 : t[k] = IF k <= i THEN s[k] ELSE IF k = i + 1 THEN a ELSE s[k - 1]
  <2> PICK D : D = DOMAIN g
    OBVIOUS
  <2>1. s \in Seq(D) /\ a \in D /\ i \in 0 .. Len(s)
    BY <1>1 DEF IsSpliced
  <2>2. t \in Seq(D) /\ IsPutIn(t, s, i, a)
    BY <2>1, InsertAtProperties
  <2> HIDE DEF t
  <2> QED
    BY <2>2 DEF IsPutIn
<1>4. /\ Before(s, i) = IF i = 0 THEN Nil ELSE s[i]
      /\ After(s, i) = IF i = n THEN Nil ELSE s[i + 1]
  BY DEF Before, After
<1> HIDE DEF n, t
<1>5. ASSUME NEW j \in 1 .. n
      PROVE  /\ (s[j] = Before(s, i)) <=> (j = i)
             /\ (s[j] = After(s, i)) <=> (j = i + 1)
  <2>1. i # 0 => i \in 1 .. n
    BY <1>1
  <2>2. i # n => i + 1 \in 1 .. n
    BY <1>1
  <2>3. \A k \in 1 .. n : s[j] = s[k] => j = k
    BY <1>2
  <2>4. s[j] # Nil
    BY <1>1
  <2> QED
    BY <1>1, <1>4, <2>1, <2>2, <2>3, <2>4
<1>6. ASSUME NEW j \in 1 .. n
      PROVE  /\ g[s[j]].next = IF j = i THEN a ELSE IF j < n THEN s[j + 1] ELSE Nil
             /\ g[s[j]].previous = IF j = i + 1 THEN a ELSE IF j = 1 THEN Nil ELSE s[j - 1]
  BY <1>1, <1>2, <1>5 DEF IsSpliced
<1>7. ASSUME NEW k \in 1 .. n + 1, NEW m \in 1 .. n + 1, t[k] = t[m] PROVE k = m
  <2> DEFINE Old(x) == IF x <= i THEN x ELSE x - 1
  <2>1. ASSUME NEW x \in 1 .. n + 1, x # i + 1
        PROVE  Old(x) \in 1 .. n /\ t[x] = s[Old(x)] /\ t[x] # a
    BY <1>1, <1>3, <2>1
  <2>2. t[i + 1] = a /\ i + 1 \in 1 .. n + 1
    BY <1>1, <1>3
  <2>3. CASE k = i + 1 \/ m = i + 1
    BY <1>7, <2>1, <2>2, <2>3
  <2>4. CASE k # i + 1 /\ m # i + 1
    <3>1. Old(k) \in 1 .. n /\ Old(m) \in 1 .. n /\ s[Old(k)] = s[Old(m)]
      BY <1>7, <2>1, <2>4
    <3> HIDE DEF Old
    <3>2. Old(k) = Old(m)
      BY <1>2, <3>1
    <3> QED
      BY <1>1, <2>4, <3>2 DEF Old
  <2> QED
    BY <2>3, <2>4
<1>8. new.headNode = t[1] /\ new.tailNode = t[n + 1] /\ new.count = n + 1
  BY <1>1, <1>2, <1>3 DEF n, Longer
<1>9. ASSUME NEW k \in 1 .. n + 1
      PROVE  /\ g[t[k]].next = IF k < n + 1 THEN t[k + 1] ELSE Nil
             /\ g[t[k]].previous = IF k = 1 THEN Nil ELSE t[k - 1]
  <2>1. CASE k <= i
    <3>1. k \in 1 .. n /\ t[k] = s[k]
      BY <1>1, <1>3, <2>1
    <3>2. t[k + 1] = IF k = i THEN a ELSE s[k + 1]
      BY <1>1, <1>3, <2>1
    <3>3. k # 1 => t[k - 1] = s[k - 1]
      BY <1>1, <1>3, <2>1
    <3> QED
      BY <1>1, <1>6, <2>1, <3>1, <3>2, <3>3
  <2>2. CASE k = i + 1
    <3>1. t[k] = a /\ g[a].next = After(s, i) /\ g[a].previous = Before(s, i)
      BY <1>3, <2>2 DEF IsSpliced
    <3>2. k < n + 1 => t[k + 1] = s[i + 1]
      BY <1>1, <1>3, <2>2
    <3>3. k # 1 => t[k - 1] = s[i]
      BY <1>1, <1>3, <2>2
    <3> QED
      BY <1>1, <1>4, <2>2, <3>1, <3>2, <3>3
  <2>3. CASE k > i + 1
    <3> PICK j \in 1 .. n : j = k - 1
      BY <1>1, <2>3
    <3>1. t[k] = s[j] /\ j > i /\ k = j + 1
      BY <1>1, <1>3, <2>3
    <3>2. k < n + 1 => j < n /\ t[k + 1] = s[j + 1]
      BY <1>1, <1>3, <2>3
    <3>3. k # 1 /\ t[k - 1] = IF j = i + 1 THEN a ELSE s[j - 1]
      BY <1>1, <1>3, <2>3
    <3>4. /\ g[s[j]].next = IF j < n THEN s[j + 1] ELSE Nil
          /\ g[s[j]].previous = IF j = i + 1 THEN a ELSE IF j = 1 THEN Nil ELSE s[j - 1]
      BY <1>1, <1>6, <3>1
    <3> QED
      BY <1>1, <3>1, <3>2, <3>3, <3>4
  <2> QED
    BY <1>1, <2>1, <2>2, <2>3
<1>10. ChainOf(g, new, t)
  <2>1. Len(t) # 0
    BY <1>1, <1>3
  <2> QED
    BY <1>3, <1>7, <1>8, <1>9, <2>1 DEF ChainOf
<1> QED
  BY <1>10 DEF t
-----------------------------------------------------------------------------

\* Types of the lists.
AreLists(ls) ==
  DOMAIN ls \subseteq Lists /\ \A l \in DOMAIN ls : ls[l] \in [headNode : Ref, tailNode : Ref, count : Nat]

\* The inductive invariant: the lists there are chains of nodes of their own.
ListInv == IsHeap(heap) /\ AreLists(lists) /\ \E p : Piles(heap, lists, p)

\* What a step that puts one node into l leaves: l is the chain t, which holds the
\* new node a of the value e; the other chains and all values are as they were.
Placed(p, l, t, a, e) ==
  /\ IsHeap(heap') /\ AreLists(lists') /\ DOMAIN lists' = DOMAIN lists \cup {l}
  /\ Piles(heap', lists', Put(p, lists, l, t))
  /\ a \notin DOMAIN heap /\ heap'[a].value = e
  /\ \A b \in DOMAIN heap : heap'[b].value = heap[b].value

\* A list of one element is a chain of one new node.
LEMMA LiteralStep ==
  ASSUME IsHeap(heap), AreLists(lists), NEW p, Piles(heap, lists, p),
         NEW l \in Lists, l \notin DOMAIN lists, NEW e \in Elements, Literal(l, << e >>)
  PROVE  \E a : Placed(p, l, << a >>, a, e)
<1> DEFINE a == Fresh(1)[1]
           t == << a >>
           r == [value |-> e, next |-> Nil, previous |-> Nil]
           g == With([b \in {a} |-> r])
           list == [headNode |-> a, tailNode |-> a, count |-> 1]
<1>1. Len(<< e >>) = 1
  OBVIOUS
<1>2. Room(1) /\ Store(With(Chain(<< e >>, Fresh(1))),
                       [m \in DOMAIN lists \cup {l} |-> IF m = l THEN ListOf(Fresh(1)) ELSE lists[m]])
  BY <1>1 DEF Literal
<1>3. Fresh(1) = t /\ a \in Addr /\ a \notin DOMAIN heap /\ a # Nil
  BY <1>2, FreshNode
<1> HIDE DEF a
<1>4. /\ t \in Seq({a}) /\ Len(t) = 1 /\ DOMAIN t = 1 .. 1 /\ t[1] = a
      /\ ToSet(t) = {a} /\ Head(t) = a /\ Last(t) = a /\ t # << >>
  BY DEF ToSet, Last
<1>5. Chain(<< e >>, t) = [b \in {a} |-> r]
  <2>1. ASSUME NEW b \in {a} PROVE (CHOOSE j \in DOMAIN t : t[j] = b) = 1
    BY <1>4
  <2>2. Chain(<< e >>, t) =
          [b \in {a} |->
             LET i == CHOOSE j \in DOMAIN t : t[j] = b
             IN  [value    |-> << e >>[i],
                  next     |-> IF i = Len(t) THEN Nil ELSE t[i + 1],
                  previous |-> IF i = 1 THEN Nil ELSE t[i - 1]]]
    BY <1>4, Zenon DEF Chain
  <2> HIDE DEF t
  <2> QED
    BY <1>4, <2>1, <2>2
<1>6. ListOf(t) = list
  BY <1>4 DEF ListOf
<1>7. Store(g, Put(lists, lists, l, list))
  BY <1>2, <1>3, <1>5, <1>6 DEF Put
<1> HIDE DEF list, r, t
<1>8. Nil \in Ref /\ a \in Ref
  BY <1>3 DEF Ref
<1>9. r \in Node
  BY <1>8 DEF Node, r
<1>10. /\ IsHeap(g) /\ DOMAIN g = DOMAIN heap \cup {a} /\ g[a] = r
       /\ \A b \in DOMAIN heap : g[b] = heap[b]
  BY <1>3, <1>9, OneNode
<1> HIDE DEF g
<1>11. ChainOf(g, list, t)
  <2>1. /\ t \in Seq(DOMAIN g)
        /\ Len(t) # 0 /\ 1 .. Len(t) = {1} /\ t[1] = a /\ Len(t) = 1
    BY <1>4, <1>10 DEF t
  <2>2. g[a].next = Nil /\ g[a].previous = Nil
    BY <1>10 DEF r
  <2>3. list.headNode = a /\ list.tailNode = a /\ list.count = 1
    BY DEF list
  <2> QED
    BY <2>1, <2>2, <2>3 DEF ChainOf
<1>12. Piles(g, Put(lists, lists, l, list), Put(p, lists, l, t))
  <2>1. /\ \A i \in 1 .. Len(t) : t[i] = a
        /\ \E i \in 1 .. Len(t) : t[i] = a
    BY <1>4
  <2>2. \A m \in DOMAIN lists : \A j \in 1 .. Len(p[m]) : p[m][j] \in DOMAIN heap
    BY ChainNodes DEF Piles
  <2>3. \A m \in DOMAIN lists \ {l} : \A j \in 1 .. Len(p[m]) :
          g[p[m][j]].next = heap[p[m][j]].next /\ g[p[m][j]].previous = heap[p[m][j]].previous
    BY <1>10, <2>2
  <2>4. Extends(t, p, lists, l, a)
    BY <2>1, Zenon DEF Extends
  <2>5. KeepsOthers(heap, g, lists, p, l)
    BY <2>3 DEF KeepsOthers
  <2> QED
    BY <1>3, <1>10, <1>11, <2>4, <2>5, OneMore
<1>13. lists' = Put(lists, lists, l, list) /\ heap' = g
  BY <1>7, <1>10, <1>12, StoreKeeps
<1>14. AreLists(lists') /\ DOMAIN lists' = DOMAIN lists \cup {l}
  <2>1. list \in [headNode : Ref, tailNode : Ref, count : Nat]
    BY <1>8 DEF list
  <2> QED
    BY <1>13, <2>1 DEF AreLists, Put
<1>15. Placed(p, l, t, a, e)
  BY <1>3, <1>10, <1>12, <1>13, <1>14 DEF Placed, r
<1> QED
  BY <1>15 DEF t

\* An insertion puts one new node into the chain of its list.
LEMMA InsertStep ==
  ASSUME IsHeap(heap), AreLists(lists), NEW p, Piles(heap, lists, p),
         NEW l \in DOMAIN lists, NEW e \in Elements, NEW i \in 0 .. lists[l].count,
         InsertElement(l, e, i)
  PROVE  /\ i \in 0 .. Len(p[l])
         /\ \E a : Placed(p, l, InsertAt(p[l], i + 1, a), a, e)
<1> DEFINE a == Fresh(1)[1]
           s == p[l]
           n == Len(s)
           t == InsertAt(s, i + 1, a)
           g == Spliced(l, e, i)
           list == [headNode |-> IF i = 0 THEN a ELSE lists[l].headNode,
                    tailNode |-> IF i = n THEN a ELSE lists[l].tailNode,
                    count    |-> n + 1]
<1>1. ChainOf(heap, lists[l], s)
  BY DEF Piles
<1>2. /\ n \in Nat /\ n >= 1 /\ lists[l].count = n /\ i \in 0 .. n
      /\ s \in Seq(DOMAIN heap) /\ \A j \in 1 .. n : s[j] \in DOMAIN heap
  BY <1>1, ChainNodes DEF ChainOf
<1>3. Room(1) /\ Store(g, [lists EXCEPT ![l] = list])
  <2>1. list = [headNode |-> IF i = 0 /\ lists[l].count # 0 THEN a ELSE lists[l].headNode,
                tailNode |-> IF i = lists[l].count THEN a ELSE lists[l].tailNode,
                count    |-> lists[l].count + 1]
    BY <1>2
  <2> HIDE DEF list, g, a
  <2> QED
    BY <2>1, Zenon DEF InsertElement, g, a
<1>4. a \in Addr /\ a \notin DOMAIN heap /\ a # Nil
  BY <1>3, FreshNode
<1>5. IsHeap(g) /\ g[a].value = e /\ IsSpliced(g, heap, s, i, a)
  BY <1>1, <1>3, SplicedNodes
<1> HIDE DEF a, s, g
<1>6. Longer(list, lists[l], s, i, a)
  BY DEF Longer
<1> HIDE DEF list
<1>7. /\ DOMAIN g = DOMAIN heap \cup {a}
      /\ \A b \in DOMAIN heap :
           /\ g[b].value = heap[b].value
           /\ g[b].next = IF b = Before(s, i) THEN a ELSE heap[b].next
           /\ g[b].previous = IF b = After(s, i) THEN a ELSE heap[b].previous
  BY <1>5 DEF IsSpliced
<1>8. ChainOf(g, list, t)
  BY <1>1, <1>2, <1>4, <1>5, <1>6, SplicedChain
<1>9. Len(t) = n + 1 /\ \A k \in 1 .. n + 1 : t[k] = IF k <= i THEN s[k] ELSE IF k = i + 1 THEN a ELSE s[k - 1]
  <2> PICK D : D = DOMAIN heap \cup {a}
    OBVIOUS
  <2>1. s \in Seq(D) /\ a \in D /\ i \in 0 .. Len(s)
    BY <1>2
  <2>2. IsPutIn(t, s, i, a)
    BY <2>1, InsertAtProperties
  <2> HIDE DEF t
  <2> QED
    BY <2>2 DEF IsPutIn
<1> HIDE DEF t, n
<1>10. \A k \in 1 .. Len(t) : t[k] = a \/ \E j \in 1 .. n : t[k] = s[j]
  BY <1>2, <1>9
<1>11. \E k \in 1 .. Len(t) : t[k] = a
  <2>1. i + 1 \in 1 .. Len(t) /\ t[i + 1] = a
    BY <1>2, <1>9
  <2> QED
    BY <2>1
<1>12. ASSUME NEW j \in 1 .. n PROVE \E k \in 1 .. Len(t) : t[k] = s[j]
  <2>1. CASE j <= i
    <3>1. j \in 1 .. Len(t) /\ t[j] = s[j]
      BY <1>2, <1>9, <2>1
    <3> QED
      BY <3>1
  <2>2. CASE ~(j <= i)
    <3>1. j + 1 \in 1 .. Len(t) /\ t[j + 1] = s[j]
      BY <1>2, <1>9, <2>2
    <3> QED
      BY <3>1
  <2> QED
    BY <2>1, <2>2
<1>13. ASSUME NEW m \in DOMAIN lists \ {l}, NEW j \in 1 .. Len(p[m])
       PROVE  g[p[m][j]].next = heap[p[m][j]].next /\ g[p[m][j]].previous = heap[p[m][j]].previous
  <2>1. ChainOf(heap, lists[m], p[m])
    BY DEF Piles
  <2>2. p[m][j] \in DOMAIN heap /\ p[m][j] # Nil
    BY <2>1, ChainNodes
  <2>3. \A k \in 1 .. n : s[k] # p[m][j]
    BY DEF Piles, s, n
  <2>4. Before(s, i) # p[m][j] /\ After(s, i) # p[m][j]
    BY <1>2, <2>2, <2>3 DEF Before, After, n
  <2> QED
    BY <1>7, <2>2, <2>4
<1>14. Piles(g, Put(lists, lists, l, list), Put(p, lists, l, t))
  <2>1. Extends(t, p, lists, l, a)
    <3>1. \A k \in 1 .. Len(t) :
            t[k] = a \/ (l \in DOMAIN lists /\ \E j \in 1 .. Len(p[l]) : t[k] = p[l][j])
      BY <1>10 DEF s, n
    <3>2. \A j \in 1 .. Len(p[l]) : \E k \in 1 .. Len(t) : t[k] = p[l][j]
      BY <1>12 DEF s, n
    <3> QED
      BY <1>11, <3>1, <3>2, Zenon DEF Extends
  <2>2. KeepsOthers(heap, g, lists, p, l)
    BY <1>13 DEF KeepsOthers
  <2> QED
    BY <1>4, <1>5, <1>7, <1>8, <2>1, <2>2, OneMore
<1>15. [lists EXCEPT ![l] = list] = Put(lists, lists, l, list)
  BY DEF Put
<1>16. lists' = Put(lists, lists, l, list) /\ heap' = g
  BY <1>3, <1>5, <1>14, <1>15, StoreKeeps
<1>17. AreLists(lists') /\ DOMAIN lists' = DOMAIN lists \cup {l}
  <2>1. list \in [headNode : Ref, tailNode : Ref, count : Nat]
    BY <1>2, <1>4 DEF AreLists, Ref, list
  <2> QED
    BY <1>16, <2>1 DEF AreLists, Put
<1>18. Placed(p, l, t, a, e)
  BY <1>4, <1>5, <1>7, <1>14, <1>16, <1>17 DEF Placed
<1> QED
  BY <1>2, <1>18 DEF t, s, n

\* Releasing the owner of the lists leaves no list and no node.
LEMMA ReleaseStep ==
  ASSUME Release
  PROVE  lists' = << >> /\ heap' = << >>
<1> DEFINE alive == {a \in DOMAIN heap : \A C \in SUBSET DOMAIN heap : Held(heap, << >>, C) => a \in C}
<1>1. /\ lists' = << >>
      /\ heap' = [a \in alive |-> [heap[a] EXCEPT !.previous = IF @ \in alive THEN @ ELSE Nil]]
  BY DEF Release, Store
<1>2. Held(heap, << >>, {})
  BY DEF Held
<1>3. alive = {}
  BY <1>2
<1> HIDE DEF alive
<1> QED
  BY <1>1, <1>3

\* The lists stay chains, whatever Map does with them.
LEMMA ListInvInductive ==
  /\ Init => ListInv
  /\ ListInv /\ [MapNext]_vars => ListInv'
<1>1. ASSUME heap = << >>, lists = << >> PROVE ListInv
  <2>1. DOMAIN heap = {} /\ DOMAIN lists = {}
    BY <1>1
  <2>2. IsHeap(heap)
    BY <1>1, <2>1 DEF IsHeap
  <2>3. AreLists(lists)
    BY <2>1 DEF AreLists
  <2>4. Piles(heap, lists, << >>)
    BY <2>1 DEF Piles
  <2> QED
    BY <2>2, <2>3, <2>4 DEF ListInv
<1>2. Init => ListInv
  BY <1>1 DEF Init
<1>3. ASSUME ListInv, [MapNext]_vars PROVE ListInv'
  <2>1. PICK p : Piles(heap, lists, p)
    BY <1>3 DEF ListInv
  <2>2. IsHeap(heap) /\ AreLists(lists)
    BY <1>3 DEF ListInv
  <2>3. ASSUME NEW l, NEW t, NEW a, NEW e, Placed(p, l, t, a, e) PROVE ListInv'
    BY <2>3 DEF Placed, ListInv
  <2>4. ASSUME NEW l \in Lists, NEW e \in Elements, l \notin DOMAIN lists, Literal(l, << e >>)
        PROVE  ListInv'
    BY <2>1, <2>2, <2>3, <2>4, LiteralStep
  <2>5. ASSUME NEW l \in DOMAIN lists, NEW e \in Elements, NEW i \in 0 .. lists[l].count,
               InsertElement(l, e, i)
        PROVE  ListInv'
    BY <2>1, <2>2, <2>3, <2>5, InsertStep
  <2>6. ASSUME Release PROVE ListInv'
    <3>1. heap' = << >> /\ lists' = << >>
      BY <2>6, ReleaseStep
    <3>2. DOMAIN heap' = {} /\ DOMAIN lists' = {}
      BY <3>1
    <3>3. IsHeap(heap') /\ AreLists(lists') /\ Piles(heap', lists', << >>)
      BY <3>1, <3>2 DEF IsHeap, AreLists, Piles
    <3> QED
      BY <3>3 DEF ListInv
  <2>7. CASE UNCHANGED vars
    BY <1>3, <2>7 DEF vars, ListInv
  <2> QED
    BY <1>3, <2>4, <2>5, <2>6, <2>7 DEF MapNext
<1> QED
  BY <1>2, <1>3

\* Chains are intact lists.
LEMMA ChainsAreIntact == ListInv => Intact
<1> SUFFICES ASSUME ListInv PROVE Intact
  OBVIOUS
<1>1. PICK p : Piles(heap, lists, p)
  BY DEF ListInv
<1>2. IsHeap(heap) /\ AreLists(lists)
  BY DEF ListInv
<1>3. TypeOK
  BY <1>2 DEF TypeOK, IsHeap, AreLists
<1>4. ASSUME NEW l \in DOMAIN lists
      PROVE  /\ Walk(l) = p[l]
             /\ Len(Walk(l)) = lists[l].count
             /\ lists[l].tailNode = Last(Walk(l))
             /\ \A i \in DOMAIN Walk(l) :
                  heap[Walk(l)[i]].previous = IF i = 1 THEN Nil ELSE Walk(l)[i - 1]
  <2>1. ChainOf(heap, lists[l], p[l])
    BY <1>1 DEF Piles
  <2>2. Walk(l) = p[l]
    BY <1>2, <2>1, NodesOfChain DEF Walk
  <2>3. DOMAIN p[l] = 1 .. Len(p[l])
    BY <1>2, <2>1, ChainNodes
  <2> QED
    BY <2>1, <2>2, <2>3 DEF ChainOf, Last
<1>5. ASSUME NEW l \in DOMAIN lists, NEW m \in DOMAIN lists, l # m
      PROVE  ToSet(Walk(l)) \cap ToSet(Walk(m)) = {}
  <2>1. ChainOf(heap, lists[l], p[l]) /\ ChainOf(heap, lists[m], p[m])
    BY <1>1 DEF Piles
  <2>2. DOMAIN p[l] = 1 .. Len(p[l]) /\ DOMAIN p[m] = 1 .. Len(p[m])
    BY <1>2, <2>1, ChainNodes
  <2>3. \A k1, k2 \in DOMAIN lists : k1 # k2 =>
          \A i \in 1 .. Len(p[k1]), j \in 1 .. Len(p[k2]) : p[k1][i] # p[k2][j]
    BY <1>1 DEF Piles
  <2>4. \A i \in 1 .. Len(p[l]), j \in 1 .. Len(p[m]) : p[l][i] # p[m][j]
    BY <1>5, <2>3, Zenon
  <2> QED
    <3>1. Walk(l) = p[l] /\ Walk(m) = p[m]
      BY <1>4
    <3>2. ASSUME NEW x \in ToSet(p[l]), x \in ToSet(p[m]) PROVE FALSE
      <4>1. PICK i \in 1 .. Len(p[l]) : p[l][i] = x
        BY <2>2 DEF ToSet
      <4>2. PICK j \in 1 .. Len(p[m]) : p[m][j] = x
        BY <2>2, <3>2 DEF ToSet
      <4> QED
        BY <2>4, <4>1, <4>2
    <3> QED
      BY <3>1, <3>2
<1> QED
  BY <1>3, <1>4, <1>5 DEF Intact

\* Whatever Map does with its lists they stay well formed: count nodes along next
\* that end in tailNode and lead back along previous, no node in two lists.
THEOREM ListsAreIntact == MapSpec => []Intact
<1>1. Init => ListInv
  BY ListInvInductive
<1>2. ListInv /\ [MapNext]_vars => ListInv'
  BY ListInvInductive
<1>3. ListInv => Intact
  BY ChainsAreIntact
<1> QED
  BY <1>1, <1>2, <1>3, PTL DEF MapSpec
-----------------------------------------------------------------------------

\* The values of the nodes of a chain
Content(h, s) == [i \in 1 .. Len(s) |-> h[s[i]].value]

\* The value of a list is that of its chain, in the state and after a step.
LEMMA ValuesOfChains ==
  ASSUME NEW h, IsHeap(h), NEW ls, NEW p, Piles(h, ls, p), NEW l \in DOMAIN ls
  PROVE  LET s == NodesOf(h, ls[l]) IN [i \in DOMAIN s |-> h[s[i]].value] = Content(h, p[l])
<1>1. ChainOf(h, ls[l], p[l])
  BY DEF Piles
<1>2. NodesOf(h, ls[l]) = p[l] /\ DOMAIN p[l] = 1 .. Len(p[l])
  BY <1>1, ChainNodes, NodesOfChain
<1> QED
  BY <1>2 DEF Content

\* The value of a chain is a sequence of elements.
LEMMA ContentType ==
  ASSUME NEW h, IsHeap(h), NEW list, NEW s, ChainOf(h, list, s)
  PROVE  Content(h, s) \in Seq(Elements) /\ Len(Content(h, s)) = Len(s)
<1>1. Len(s) \in Nat /\ \A i \in 1 .. Len(s) : s[i] \in DOMAIN h
  BY ChainNodes
<1>2. \A i \in 1 .. Len(s) : h[s[i]].value \in Elements
  BY <1>1 DEF IsHeap, Node
<1>3. Content(h, s) \in Seq(Elements)
  BY <1>1, <1>2, IsASeq DEF Content
<1> QED
  BY <1>1, <1>3, LenProperties DEF Content

\* A step that puts a node into l changes the value of l alone.
LEMMA PlacedValues ==
  ASSUME IsHeap(heap), NEW p, Piles(heap, lists, p),
         NEW l, NEW t, NEW a, NEW e, Placed(p, l, t, a, e)
  PROVE  /\ DOMAIN lists' = DOMAIN lists \cup {l}
         /\ Value(l)' = Content(heap', t)
         /\ \A m \in DOMAIN lists \ {l} : Value(m)' = Value(m)
         /\ \A m \in DOMAIN lists : Value(m) = Content(heap, p[m])
<1> DEFINE q == Put(p, lists, l, t)
<1>1. /\ IsHeap(heap') /\ DOMAIN lists' = DOMAIN lists \cup {l} /\ Piles(heap', lists', q)
      /\ \A b \in DOMAIN heap : heap'[b].value = heap[b].value
  BY DEF Placed
<1>2. q[l] = t /\ \A m \in DOMAIN lists \ {l} : q[m] = p[m]
  BY DEF Put
<1> HIDE DEF q
<1>3. \A m \in DOMAIN lists' : Value(m)' = Content(heap', q[m])
  BY <1>1, ValuesOfChains DEF Value, Walk
<1>4. \A m \in DOMAIN lists : Value(m) = Content(heap, p[m])
  BY ValuesOfChains DEF Value, Walk
<1>5. ASSUME NEW m \in DOMAIN lists \ {l} PROVE Value(m)' = Value(m)
  <2>1. ChainOf(heap, lists[m], p[m])
    BY DEF Piles
  <2>2. \A i \in 1 .. Len(p[m]) : p[m][i] \in DOMAIN heap
    BY <2>1, ChainNodes
  <2>3. Content(heap', p[m]) = Content(heap, p[m])
    BY <1>1, <2>2 DEF Content
  <2>4. Value(m)' = Content(heap', p[m])
    BY <1>1, <1>2, <1>3
  <2> QED
    BY <1>4, <2>3, <2>4
<1> QED
  BY <1>1, <1>2, <1>3, <1>4, <1>5

\* A literal of one element is a new value.
LEMMA LiteralIsNewValue ==
  ASSUME IsHeap(heap), NEW p, Piles(heap, lists, p), NEW l \in Lists, l \notin DOMAIN lists,
         NEW e \in Elements, NEW a, Placed(p, l, << a >>, a, e)
  PROVE  Values!NewValue(l, e)
<1>1. /\ DOMAIN lists' = DOMAIN lists \cup {l}
      /\ Value(l)' = Content(heap', << a >>)
      /\ \A m \in DOMAIN lists \ {l} : Value(m)' = Value(m)
  BY PlacedValues
<1>2. Content(heap', << a >>) = << e >>
  <2>1. heap'[a].value = e
    BY DEF Placed
  <2> QED
    BY <2>1 DEF Content
<1> QED
  BY <1>1, <1>2 DEF Values!NewValue

\* An insertion puts its element at the same place of the value.
LEMMA InsertIsInsertValue ==
  ASSUME IsHeap(heap), NEW p, Piles(heap, lists, p), NEW l \in DOMAIN lists,
         NEW e \in Elements, NEW i \in 0 .. Len(p[l]), NEW a,
         Placed(p, l, InsertAt(p[l], i + 1, a), a, e)
  PROVE  /\ i + 1 \in 1 .. Len(Value(l)) + 1
         /\ Values!InsertValue(l, e, i + 1)
<1> DEFINE s == p[l]
           n == Len(s)
           t == InsertAt(s, i + 1, a)
           v == Content(heap, s)
           w == Content(heap', t)
           u == InsertAt(v, i + 1, e)
<1>1. /\ DOMAIN lists' = DOMAIN lists \cup {l}
      /\ Value(l)' = w
      /\ \A m \in DOMAIN lists \ {l} : Value(m)' = Value(m)
      /\ Value(l) = v
  BY PlacedValues
<1>2. ChainOf(heap, lists[l], s)
  BY DEF Piles
<1>3. /\ n \in Nat /\ i \in 0 .. n /\ \A j \in 1 .. n : s[j] \in DOMAIN heap
      /\ s \in Seq(DOMAIN heap)
  BY <1>2, ChainNodes
<1>4. v \in Seq(Elements) /\ Len(v) = n /\ \A j \in 1 .. n : v[j] = heap[s[j]].value
  BY <1>2, ContentType DEF Content
<1>5. IsPutIn(t, s, i, a)
  <2> PICK D : D = DOMAIN heap \cup {a}
    OBVIOUS
  <2>1. s \in Seq(D) /\ a \in D /\ i \in 0 .. Len(s)
    BY <1>3
  <2> QED
    BY <2>1, InsertAtProperties
<1>6. u \in Seq(Elements) /\ IsPutIn(u, v, i, e)
  <2>1. i \in 0 .. Len(v)
    BY <1>3, <1>4
  <2> HIDE DEF v
  <2> QED
    BY <1>4, <2>1, InsertAtProperties
<1>7. heap'[a].value = e /\ \A b \in DOMAIN heap : heap'[b].value = heap[b].value
  BY DEF Placed
<1> HIDE DEF s, n, t, v, u
<1>8. Len(t) = n + 1 /\ \A k \in 1 .. n + 1 :
        t[k] = IF k <= i THEN s[k] ELSE IF k = i + 1 THEN a ELSE s[k - 1]
  BY <1>5 DEF IsPutIn, n
<1>9. DOMAIN u = 1 .. n + 1 /\ \A k \in 1 .. n + 1 :
        u[k] = IF k <= i THEN v[k] ELSE IF k = i + 1 THEN e ELSE v[k - 1]
  BY <1>4, <1>6 DEF IsPutIn
<1>10. ASSUME NEW k \in 1 .. n + 1 PROVE heap'[t[k]].value = u[k]
  <2>1. CASE k <= i
    <3>1. k \in 1 .. n
      BY <1>3, <2>1
    <3> QED
      BY <1>3, <1>4, <1>7, <1>8, <1>9, <2>1, <3>1
  <2>2. CASE k = i + 1
    BY <1>3, <1>7, <1>8, <1>9, <2>2
  <2>3. CASE ~(k <= i) /\ k # i + 1
    <3>1. k - 1 \in 1 .. n
      BY <1>3, <2>3
    <3> QED
      BY <1>3, <1>4, <1>7, <1>8, <1>9, <2>3, <3>1
  <2> QED
    BY <2>1, <2>2, <2>3
<1>11. w = u
  <2>1. w = [k \in 1 .. n + 1 |-> heap'[t[k]].value]
    BY <1>8 DEF Content
  <2>2. u = [k \in 1 .. n + 1 |-> u[k]]
    BY <1>6, <1>9, LenProperties
  <2> HIDE DEF w
  <2> QED
    BY <1>10, <2>1, <2>2
<1> HIDE DEF w
<1>12. i + 1 \in 1 .. Len(Value(l)) + 1
  BY <1>1, <1>3, <1>4
<1>13. Value(l)' = InsertAt(Value(l), i + 1, e)
  BY <1>1, <1>11 DEF u
<1>14. [m \in DOMAIN lists' |-> Value(m)'] =
         [[m \in DOMAIN lists |-> Value(m)] EXCEPT ![l] = InsertAt(@, i + 1, e)]
  BY <1>1, <1>13
<1>15. Values!InsertValue(l, e, i + 1)
  BY <1>14 DEF Values!InsertValue, Values!InsertAt, InsertAt
<1> QED
  BY <1>12, <1>15

\* Every step of Map on its lists is one on values, or changes none.
LEMMA ValueSteps ==
  ASSUME ListInv, [MapNext]_vars
  PROVE  [Values!ValuesNext]_[l \in DOMAIN lists |-> Value(l)]
<1> DEFINE view == [l \in DOMAIN lists |-> Value(l)]
<1>1. PICK p : Piles(heap, lists, p)
  BY DEF ListInv
<1>2. IsHeap(heap) /\ AreLists(lists)
  BY DEF ListInv
<1>3. ASSUME NEW l \in Lists, NEW e \in Elements, l \notin DOMAIN lists, Literal(l, << e >>)
      PROVE  Values!ValuesNext
  <2>1. PICK a : Placed(p, l, << a >>, a, e)
    BY <1>1, <1>2, <1>3, LiteralStep
  <2>2. Values!NewValue(l, e)
    BY <1>1, <1>2, <1>3, <2>1, LiteralIsNewValue
  <2> QED
    BY <2>2 DEF Values!ValuesNext
<1>4. ASSUME NEW l \in Lists, l \in DOMAIN lists, NEW e \in Elements, NEW i \in 0 .. lists[l].count,
             InsertElement(l, e, i)
      PROVE  Values!ValuesNext
  <2>1. i \in 0 .. Len(p[l])
    BY <1>1, <1>2, <1>4, InsertStep
  <2>2. PICK a : Placed(p, l, InsertAt(p[l], i + 1, a), a, e)
    BY <1>1, <1>2, <1>4, InsertStep
  <2>3. i + 1 \in 1 .. Len(Value(l)) + 1 /\ Values!InsertValue(l, e, i + 1)
    BY <1>1, <1>2, <1>4, <2>1, <2>2, InsertIsInsertValue
  <2>4. view[l] = Value(l) /\ l \in DOMAIN view
    BY <1>4
  <2> QED
    BY <2>3, <2>4 DEF Values!ValuesNext
<1>5. ASSUME Release PROVE Values!ValuesNext
  <2>1. lists' = << >>
    BY <1>5, ReleaseStep
  <2>2. view' = << >>
    BY <2>1
  <2> QED
    BY <2>2 DEF Values!ValuesNext, Values!NoValues
<1>6. ASSUME UNCHANGED vars PROVE UNCHANGED view
  BY <1>6 DEF vars, Value, Walk
<1>7. MapNext => Values!ValuesNext
  BY <1>3, <1>4, <1>5 DEF MapNext
<1> HIDE DEF view
<1>8. [Values!ValuesNext]_view
  BY <1>6, <1>7
<1> QED
  BY <1>8 DEF view

\* Used as Map uses them, linked lists are values: what is put into one pile is in
\* that pile, at its place, and in no other.
THEOREM ListsAreValues == MapSpec => ImplementsValues
<1>1. Init => Values!ValuesInit
  BY DEF Init, Values!ValuesInit
<1>2. Init => ListInv
  BY ListInvInductive
<1>3. ListInv /\ [MapNext]_vars => ListInv'
  BY ListInvInductive
<1>4. ListInv /\ [MapNext]_vars => [Values!ValuesNext]_[l \in DOMAIN lists |-> Value(l)]
  BY ValueSteps
<1> QED
  BY <1>1, <1>2, <1>3, <1>4, PTL DEF MapSpec, ImplementsValues, Values!ValuesSpec
=============================================================================
