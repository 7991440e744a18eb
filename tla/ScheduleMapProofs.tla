------------------------- MODULE ScheduleMapProofs ---------------------------
(***************************************************************************)
(* Map for all courses, keys and owners: its dictionaries keep their types *)
(* and stay in step, its piles stay sorted, and it implements CellBoard.   *)
(***************************************************************************)
EXTENDS ScheduleMap, TLAPS, SequenceTheorems, FiniteSetTheorems

\* What list.insert(_:at:) returns: one element more, at its place.
LEMMA InsertAtProperties ==
  ASSUME NEW S, NEW s \in Seq(S), NEW i \in 1 .. Len(s) + 1, NEW e \in S
  PROVE  /\ InsertAt(s, i, e) \in Seq(S)
         /\ Len(InsertAt(s, i, e)) = Len(s) + 1
         /\ \A j \in 1 .. Len(s) + 1 :
              InsertAt(s, i, e)[j] = IF j < i THEN s[j] ELSE IF j = i THEN e ELSE s[j - 1]
<1> DEFINE front == SubSeq(s, 1, i - 1)
           back  == SubSeq(s, i, Len(s))
           mid   == << e >>
<1>1. /\ front \in Seq(S) /\ Len(front) = i - 1
      /\ \A j \in 1 .. i - 1 : front[j] = s[j]
  <2>1. \A j \in 1 .. i - 1 : s[j] \in S
    BY ElementOfSeq
  <2> QED
    BY <2>1, SubSeqProperties
<1>2. /\ back \in Seq(S) /\ Len(back) = Len(s) - i + 1
      /\ \A j \in 1 .. Len(s) - i + 1 : back[j] = s[i + j - 1]
  <2>1. \A j \in i .. Len(s) : s[j] \in S
    BY ElementOfSeq
  <2> QED
    BY <2>1, SubSeqProperties
<1>3. mid \in Seq(S) /\ Len(mid) = 1 /\ mid[1] = e
  OBVIOUS
<1> HIDE DEF front, back, mid
<1>4. /\ front \o mid \in Seq(S) /\ Len(front \o mid) = i
      /\ \A j \in 1 .. i : (front \o mid)[j] = IF j < i THEN s[j] ELSE e
  <2>1. /\ front \o mid \in Seq(S)
        /\ Len(front \o mid) = Len(front) + Len(mid)
        /\ \A j \in 1 .. Len(front) + Len(mid) :
             (front \o mid)[j] = IF j <= Len(front) THEN front[j] ELSE mid[j - Len(front)]
    BY <1>1, <1>3, ConcatProperties
  <2> QED
    BY <2>1, <1>1, <1>3
<1>5. InsertAt(s, i, e) = (front \o mid) \o back
  BY DEF InsertAt, front, mid, back
<1> DEFINE most == front \o mid
<1>6. /\ most \o back \in Seq(S)
      /\ Len(most \o back) = Len(most) + Len(back)
      /\ \A j \in 1 .. Len(most) + Len(back) :
           (most \o back)[j] = IF j <= Len(most) THEN most[j] ELSE back[j - Len(most)]
  <2> HIDE DEF most
  <2>1. most \in Seq(S)
    BY <1>4 DEF most
  <2> QED
    BY <1>2, <2>1, ConcatProperties
<1> QED
  BY <1>2, <1>4, <1>5, <1>6

\* The head of the list after an insertion is the new element or the old head.
LEMMA InsertAtHead ==
  ASSUME NEW S, NEW s \in Seq(S), NEW i \in 1 .. Len(s) + 1, NEW e \in S
  PROVE  /\ InsertAt(s, i, e) # << >>
         /\ Head(InsertAt(s, i, e)) = IF i = 1 THEN e ELSE Head(s)
         /\ i # 1 => s # << >>
<1> DEFINE t == InsertAt(s, i, e)
<1>1. t \in Seq(S) /\ Len(t) = Len(s) + 1 /\ t[1] = IF 1 < i THEN s[1] ELSE e
  BY InsertAtProperties
<1> HIDE DEF t
<1>2. t # << >> /\ Head(t) = t[1]
  BY <1>1
<1> QED
  BY <1>1, <1>2 DEF t

\* Course.locates lists positions of the grid, for every course.
LEMMA LocatesAreCells ==
  ASSUME NEW course \in Courses
  PROVE  /\ Locates(course) \subseteq Cells
         /\ \A c \in Locates(course) : c.week = course.inDay
<1>1. /\ course.inDay \in 1 .. 7 /\ course.inSections \subseteq Nat
      /\ course.inPeriod.lower \in 1 .. 13 /\ course.inPeriod.upper \in 1 .. 13
      /\ course.inSpecial \subseteq {5, 10}
  BY DataAssumption DEF CourseAssumption, Specials
<1>2. \A p \in Periods(course) : Row(p) \in Locations
  BY <1>1 DEF Periods, Row, Locations
<1>3. {Row(p) : p \in Periods(course)} \cup course.inSpecial \subseteq Locations
  BY <1>1, <1>2 DEF Locations
<1> QED
  BY <1>1, <1>3 DEF Locates, Cells

\* Course.periodCount is a natural number, so that lengths can be compared.
LEMMA PeriodCountIsNat ==
  ASSUME NEW course \in Courses
  PROVE  PeriodCount(course) \in Nat
<1>1. /\ course.inPeriod.lower \in Nat /\ course.inPeriod.upper \in Nat
      /\ course.inPeriod.lower <= course.inPeriod.upper
      /\ course.inSpecial \subseteq {5, 10}
  BY DataAssumption DEF CourseAssumption, Specials
<1>2. IsFiniteSet({5, 10})
  <2>1. IsFiniteSet({} \cup {5}) 
    BY FS_EmptySet, FS_AddElement
  <2>2. IsFiniteSet(({} \cup {5}) \cup {10})
    BY <2>1, FS_AddElement
  <2> QED
    BY <2>2
<1>3. Cardinality(course.inSpecial) \in Nat
  BY <1>1, <1>2, FS_Subset, FS_CardinalityType
<1> QED
  BY <1>1, <1>3 DEF PeriodCount

\* The identity of a node is one of the keys nodeMap may have.
LEMMA NodeIDType ==
  ASSUME NEW n \in Nodes
  PROVE  NodeID(n) \in NodeIDs /\ NodeID(n).course.inDay = n.value.inDay
  BY DEF Nodes, NodeID, NodeIDs, CourseID

\* Removing a position from the index sets of the head of a list.
LEMMA UncoverProperties ==
  ASSUME NEW entries, IsMapOf(entries, NodeIDs, Entries), NEW list, NEW c \in Cells
  PROVE  LET U == Uncover(entries, list, c) IN
         /\ DOMAIN U = DOMAIN entries
         /\ \A k \in DOMAIN entries :
              /\ U[k] \in Entries
              /\ U[k].model = entries[k].model /\ U[k].count = entries[k].count
              /\ U[k].cover = IF list # << >> /\ k = NodeID(Head(list))
                              THEN entries[k].cover \ {At(c)} ELSE entries[k].cover
<1> DEFINE U == Uncover(entries, list, c)
           id == NodeID(Head(list))
<1>1. CASE ~(list # << >> /\ id \in DOMAIN entries)
  BY <1>1 DEF Uncover, IsMapOf, Entries
<1>2. CASE list # << >> /\ id \in DOMAIN entries
  <2>1. U = [entries EXCEPT ![id].cover = @ \ {At(c)}]
    BY <1>2 DEF Uncover
  <2> HIDE DEF U, id
  <2>2. \A k \in DOMAIN entries : entries[k] \in Entries
    BY DEF IsMapOf
  <2>3. DOMAIN U = DOMAIN entries
    BY <2>1
  <2>4. \A k \in DOMAIN entries : k # id => U[k] = entries[k]
    BY <2>1
  <2>5. U[id] = [entries[id] EXCEPT !.cover = @ \ {At(c)}]
    BY <1>2, <2>1
  <2>6. entries[id] \in Entries
    BY <1>2, <2>2
  <2>7. /\ U[id] \in Entries
        /\ U[id].model = entries[id].model /\ U[id].count = entries[id].count
        /\ U[id].cover = entries[id].cover \ {At(c)}
    BY <2>5, <2>6 DEF Entries
  <2> QED
    BY <1>2, <2>2, <2>3, <2>4, <2>7 DEF U, id
<1> QED
  BY <1>1, <1>2

\* The two statements of insert(node:in:) that touch nodeMap, together.
LEMMA NodeMapStep ==
  ASSUME NEW entries, IsMapOf(entries, NodeIDs, Entries), NEW list, NEW c \in Cells,
         NEW h \in Nodes
  PROVE  LET new == Cover(Uncover(entries, list, c), h, c)
             id  == NodeID(h) IN
         /\ IsMapOf(new, NodeIDs, Entries)
         /\ DOMAIN new = DOMAIN entries \cup {id}
         /\ \A k \in DOMAIN entries :
              /\ new[k].model = entries[k].model /\ new[k].count >= entries[k].count
              /\ new[k].cover =
                   (IF list # << >> /\ k = NodeID(Head(list))
                    THEN entries[k].cover \ {At(c)} ELSE entries[k].cover)
                   \cup (IF k = id THEN {At(c)} ELSE {})
         /\ id \notin DOMAIN entries => new[id].model = h /\ new[id].cover = {At(c)}
         /\ new[id].count > c.section
<1> DEFINE U   == Uncover(entries, list, c)
           id  == NodeID(h)
           new == Cover(U, h, c)
           old == IF id \in DOMAIN U THEN U[id] ELSE [model |-> h, count |-> 0, cover |-> {}]
           grown == IF old.count <= c.section THEN c.section + 1 ELSE old.count
           entry == [model |-> old.model, count |-> grown, cover |-> old.cover \cup {At(c)}]
<1>1. /\ DOMAIN U = DOMAIN entries
      /\ \A k \in DOMAIN entries :
           /\ U[k] \in Entries
           /\ U[k].model = entries[k].model /\ U[k].count = entries[k].count
           /\ U[k].cover = IF list # << >> /\ k = NodeID(Head(list))
                           THEN entries[k].cover \ {At(c)} ELSE entries[k].cover
  BY UncoverProperties
<1>2. id \in NodeIDs
  BY NodeIDType
<1>3. new = [k \in DOMAIN U \cup {id} |-> IF k = id THEN entry ELSE U[k]]
  BY DEF Cover
<1>4. \A k \in DOMAIN entries : k \in NodeIDs /\ entries[k] \in Entries
  BY DEF IsMapOf
<1>5. c.section \in Nat /\ At(c) \in Nat \X Locations
  BY DEF Cells, At
<1> HIDE DEF U, id, new
<1>6. old \in Entries
  BY <1>1 DEF Entries
<1>7. /\ entry \in Entries /\ entry.model = old.model
      /\ entry.cover = old.cover \cup {At(c)}
      /\ entry.count > c.section /\ entry.count >= old.count
  <2> HIDE DEF old
  <2>1. old.model \in Nodes /\ old.count \in Nat /\ old.cover \subseteq Nat \X Locations
    BY <1>6 DEF Entries
  <2> QED
    BY <2>1, <1>5 DEF Entries
<1>8. DOMAIN new = DOMAIN entries \cup {id}
  BY <1>1, <1>3
<1>9. new[id] = entry /\ \A k \in DOMAIN entries : k # id => new[k] = U[k]
  BY <1>1, <1>3
<1>10. IsMapOf(new, NodeIDs, Entries)
  <2> HIDE DEF entry
  <2> QED
    BY <1>1, <1>2, <1>4, <1>7, <1>8, <1>9 DEF IsMapOf
<1>11. ASSUME NEW k \in DOMAIN entries
       PROVE  /\ new[k].model = entries[k].model /\ new[k].count >= entries[k].count
              /\ new[k].cover =
                   (IF list # << >> /\ k = NodeID(Head(list))
                    THEN entries[k].cover \ {At(c)} ELSE entries[k].cover)
                   \cup (IF k = id THEN {At(c)} ELSE {})
  <2>1. CASE k = id
    <3>1. old = U[id]
      BY <1>1, <2>1
    <3> HIDE DEF old, entry
    <3> QED
      BY <1>1, <1>7, <1>9, <2>1, <3>1
  <2>2. CASE k # id
    <3>1. new[k] = U[k] /\ entries[k].count \in Nat
      BY <1>4, <1>9, <2>2 DEF Entries
    <3>2. new[k].model = entries[k].model /\ new[k].count = entries[k].count
      BY <1>1, <3>1
    <3>3. new[k].cover = IF list # << >> /\ k = NodeID(Head(list))
                         THEN entries[k].cover \ {At(c)} ELSE entries[k].cover
      BY <1>1, <3>1
    <3> HIDE DEF old, entry
    <3> QED
      BY <2>2, <3>1, <3>2, <3>3
  <2> QED
    BY <2>1, <2>2
<1>12. id \notin DOMAIN entries => new[id].model = h /\ new[id].cover = {At(c)}
  <2> SUFFICES ASSUME id \notin DOMAIN entries
               PROVE  new[id].model = h /\ new[id].cover = {At(c)}
    OBVIOUS
  <2>1. old = [model |-> h, count |-> 0, cover |-> {}]
    BY <1>1
  <2> HIDE DEF old, entry
  <2> QED
    BY <1>7, <1>9, <2>1
<1> HIDE DEF entry
<1> QED
  BY <1>7, <1>8, <1>9, <1>10, <1>11, <1>12 DEF U, id, new
-----------------------------------------------------------------------------

\* A node is only ever filed under its own week day, which is what makes a
\* <<section, location>> pair of nodeMap name one position.
DaysAgree ==
  /\ \A c \in DOMAIN pointMap : \A i \in DOMAIN pointMap[c] :
       pointMap[c][i].value.inDay = c.week
  /\ \A p \in pending : p[1].value.inDay = p[2].week

\* While sno is settled every stored kind is the one Kind computes now.
KindsFrozen ==
  /\ \A id \in DOMAIN nodeMap : NodeID(nodeMap[id].model) = id
  /\ DOMAIN pointMap = {} => DOMAIN nodeMap = {}
  /\ settled =>
       /\ \A p \in pending : p[1].kind = Kind(p[1].key)
       /\ \A c \in DOMAIN pointMap : \A i \in DOMAIN pointMap[c] :
            pointMap[c][i].kind = Kind(pointMap[c][i].key)
       /\ \A id \in DOMAIN nodeMap :
            nodeMap[id].model.kind = Kind(nodeMap[id].model.key)

\* The inductive invariant.
IInv ==
  /\ TypeOK
  /\ DaysAgree
  /\ HeadsCovered
  /\ CoverOwned
  /\ ListsRanked
  /\ KindsFrozen

\* What insert(node:in:) does to the two dictionaries, with the place i of the
\* new node made explicit.
Inserted(n, c, i) ==
  /\ ListAt(c) \in Seq(Nodes)
  /\ IsPlace(ListAt(c), n, i)
  /\ DOMAIN pointMap' = DOMAIN pointMap \cup {c}
  /\ \A d \in DOMAIN pointMap : d # c => pointMap'[d] = pointMap[d]
  /\ pointMap'[c] \in Seq(Nodes) \ {<< >>}
  /\ Len(pointMap'[c]) = Len(ListAt(c)) + 1
  /\ \A j \in 1 .. Len(ListAt(c)) + 1 :
       pointMap'[c][j] = IF j < i THEN ListAt(c)[j] ELSE IF j = i THEN n ELSE ListAt(c)[j - 1]
  /\ Head(pointMap'[c]) = IF i = 1 THEN n ELSE Head(ListAt(c))
  /\ i # 1 => ListAt(c) # << >>
  /\ Head(pointMap'[c]) \in Nodes
  /\ nodeMap' = Cover(Uncover(nodeMap, ListAt(c), c), Head(pointMap'[c]), c)

\* insert(node:in:) finds a place for its node, the end of the pile if no other.
LEMMA InsertNodeStep ==
  ASSUME TypeOK, NEW n \in Nodes, NEW c \in Cells, InsertNode(n, c)
  PROVE  \E i \in 1 .. Len(ListAt(c)) + 1 : Inserted(n, c, i)
<1>1. ListAt(c) \in Seq(Nodes)
  BY DEF TypeOK, IsMapOf, ListAt
<1>2. PICK i \in 1 .. Len(ListAt(c)) + 1 :
        /\ IsPlace(ListAt(c), n, i)
        /\ LET list == InsertAt(ListAt(c), i, n)
           IN  /\ pointMap' = [d \in DOMAIN pointMap \cup {c} |->
                                 IF d = c THEN list ELSE pointMap[d]]
               /\ nodeMap' = Cover(Uncover(nodeMap, ListAt(c), c), Head(list), c)
  BY DEF InsertNode
<1> DEFINE list == InsertAt(ListAt(c), i, n)
<1>3. /\ pointMap'[c] = list
      /\ DOMAIN pointMap' = DOMAIN pointMap \cup {c}
      /\ \A d \in DOMAIN pointMap : d # c => pointMap'[d] = pointMap[d]
  BY <1>2
<1>4. /\ list \in Seq(Nodes) /\ Len(list) = Len(ListAt(c)) + 1
      /\ \A j \in 1 .. Len(ListAt(c)) + 1 :
           list[j] = IF j < i THEN ListAt(c)[j] ELSE IF j = i THEN n ELSE ListAt(c)[j - 1]
  BY <1>1, InsertAtProperties
<1>5. /\ list # << >>
      /\ Head(list) = IF i = 1 THEN n ELSE Head(ListAt(c))
      /\ i # 1 => ListAt(c) # << >>
  BY <1>1, InsertAtHead
<1>6. nodeMap' = Cover(Uncover(nodeMap, ListAt(c), c), Head(list), c)
  BY <1>2
<1> HIDE DEF list
<1>7. Head(list) \in Nodes
  BY <1>4, <1>5
<1> QED
  BY <1>1, <1>2, <1>3, <1>4, <1>5, <1>6, <1>7 DEF Inserted

\* What that means for the covers.
LEMMA InsertNodeCovers ==
  ASSUME TypeOK, NEW n \in Nodes, NEW c \in Cells, NEW i \in 1 .. Len(ListAt(c)) + 1,
         Inserted(n, c, i)
  PROVE  LET id == NodeID(Head(pointMap'[c])) IN
         /\ IsMapOf(nodeMap', NodeIDs, Entries)
         /\ DOMAIN nodeMap' = DOMAIN nodeMap \cup {id}
         /\ \A k \in DOMAIN nodeMap :
              /\ nodeMap'[k].model = nodeMap[k].model /\ nodeMap'[k].count >= nodeMap[k].count
              /\ nodeMap'[k].cover =
                   (IF ListAt(c) # << >> /\ k = NodeID(Head(ListAt(c)))
                    THEN nodeMap[k].cover \ {At(c)} ELSE nodeMap[k].cover)
                   \cup (IF k = id THEN {At(c)} ELSE {})
         /\ id \notin DOMAIN nodeMap =>
              nodeMap'[id].model = Head(pointMap'[c]) /\ nodeMap'[id].cover = {At(c)}
         /\ nodeMap'[id].count > c.section
<1>1. IsMapOf(nodeMap, NodeIDs, Entries)
  BY DEF TypeOK
<1>2. /\ Head(pointMap'[c]) \in Nodes
      /\ nodeMap' = Cover(Uncover(nodeMap, ListAt(c), c), Head(pointMap'[c]), c)
  BY DEF Inserted
<1> DEFINE list == ListAt(c)
           h    == Head(pointMap'[c])
           new  == Cover(Uncover(nodeMap, list, c), h, c)
<1> HIDE DEF list, h
<1>3. /\ IsMapOf(new, NodeIDs, Entries)
      /\ DOMAIN new = DOMAIN nodeMap \cup {NodeID(h)}
      /\ \A k \in DOMAIN nodeMap :
           /\ new[k].model = nodeMap[k].model /\ new[k].count >= nodeMap[k].count
           /\ new[k].cover =
                (IF list # << >> /\ k = NodeID(Head(list))
                 THEN nodeMap[k].cover \ {At(c)} ELSE nodeMap[k].cover)
                \cup (IF k = NodeID(h) THEN {At(c)} ELSE {})
      /\ NodeID(h) \notin DOMAIN nodeMap =>
           new[NodeID(h)].model = h /\ new[NodeID(h)].cover = {At(c)}
      /\ new[NodeID(h)].count > c.section
  <2>1. h \in Nodes
    BY <1>2 DEF h
  <2> QED
    BY <1>1, <2>1, NodeMapStep
<1>4. nodeMap' = new
  BY <1>2 DEF list, h
<1> HIDE DEF new
<1> QED
  BY <1>3, <1>4 DEF list, h

\* insert(node:in:) keeps the types of the two dictionaries.
LEMMA InsertKeepsTypes ==
  ASSUME TypeOK, NEW n \in Nodes, NEW c \in Cells, InsertNode(n, c)
  PROVE  /\ IsMapOf(pointMap', Cells, Seq(Nodes) \ {<< >>})
         /\ IsMapOf(nodeMap', NodeIDs, Entries)
<1>1. PICK i \in 1 .. Len(ListAt(c)) + 1 : Inserted(n, c, i)
  BY InsertNodeStep
<1>2. IsMapOf(pointMap, Cells, Seq(Nodes) \ {<< >>})
  BY DEF TypeOK
<1>3. IsMapOf(pointMap', Cells, Seq(Nodes) \ {<< >>})
  BY <1>1, <1>2 DEF Inserted, IsMapOf
<1> QED
  BY <1>1, <1>3, InsertNodeCovers

\* insert(node:in:) files a node under its own week day.
LEMMA InsertKeepsDays ==
  ASSUME TypeOK, DaysAgree, NEW n \in Nodes, NEW c \in Cells, InsertNode(n, c),
         n.value.inDay = c.week
  PROVE  \A d \in DOMAIN pointMap' : \A j \in DOMAIN pointMap'[d] :
           pointMap'[d][j].value.inDay = d.week
<1>1. PICK i \in 1 .. Len(ListAt(c)) + 1 : Inserted(n, c, i)
  BY InsertNodeStep
<1>2. \A j \in 1 .. Len(ListAt(c)) : ListAt(c)[j].value.inDay = c.week
  BY DEF DaysAgree, ListAt, TypeOK, IsMapOf
<1>3. \A j \in DOMAIN pointMap'[c] : pointMap'[c][j].value.inDay = c.week
  <2> DEFINE old == ListAt(c)
             new == pointMap'[c]
  <2>1. /\ DOMAIN new = 1 .. Len(old) + 1 /\ Len(old) \in Nat
        /\ \A j \in 1 .. Len(old) + 1 :
             new[j] = IF j < i THEN old[j] ELSE IF j = i THEN n ELSE old[j - 1]
    BY <1>1 DEF Inserted
  <2> HIDE DEF old, new
  <2>2. ASSUME NEW j \in 1 .. Len(old) + 1
        PROVE  new[j].value.inDay = c.week
    <3>1. i \in 1 .. Len(old) + 1
      BY DEF old
    <3>2. CASE j < i
      BY <1>2, <2>1, <3>1, <3>2 DEF old
    <3>3. CASE j = i
      BY <2>1, <3>3
    <3>4. CASE j > i
      <4>1. new[j] = old[j - 1] /\ j - 1 \in 1 .. Len(old)
        BY <2>1, <3>1, <3>4
      <4> QED
        BY <1>2, <4>1 DEF old
    <3> QED
      BY <2>1, <3>1, <3>2, <3>3, <3>4
  <2> QED
    BY <2>1, <2>2 DEF new
<1>4. ASSUME NEW d \in DOMAIN pointMap', d # c
      PROVE  d \in DOMAIN pointMap /\ pointMap'[d] = pointMap[d]
  BY <1>1, <1>4 DEF Inserted
<1> QED
  BY <1>3, <1>4 DEF DaysAgree

\* insert(node:in:) keeps a pile sorted: the place firstIndex finds is the one
\* after all better nodes and before all others.
LEMMA InsertKeepsRanks ==
  ASSUME TypeOK, ListsRanked, NEW n \in Nodes, NEW c \in Cells, InsertNode(n, c)
  PROVE  ListsRanked'
<1>1. PICK i \in 1 .. Len(ListAt(c)) + 1 : Inserted(n, c, i)
  BY InsertNodeStep
<1> DEFINE old == ListAt(c)
           new == pointMap'[c]
<1>2. \A j, k \in 1 .. Len(old) : j < k => Beats(old[j], old[k])
  BY DEF ListsRanked, ListAt, TypeOK, IsMapOf
<1>3. /\ old \in Seq(Nodes) /\ DOMAIN new = 1 .. Len(old) + 1 /\ Len(old) \in Nat
      /\ \A j \in 1 .. Len(old) + 1 :
           new[j] = IF j < i THEN old[j] ELSE IF j = i THEN n ELSE old[j - 1]
  BY <1>1 DEF Inserted
<1>4. /\ \A j \in 1 .. i - 1 : ~Beats(n, old[j])
      /\ i <= Len(old) => Beats(n, old[i])
  BY <1>1 DEF Inserted, IsPlace
<1>5. \A a, b \in Nodes : Beats(a, b) \/ Beats(b, a)
  <2>1. \A a \in Nodes : a.kind \in 0 .. 2 /\ PeriodCount(a.value) \in Nat
    BY PeriodCountIsNat DEF Nodes, Kinds, Mine, Custom, Others
  <2> QED
    BY <2>1 DEF Beats
<1>6. \A a, b, d \in Nodes : Beats(a, b) /\ Beats(b, d) => Beats(a, d)
  <2>1. \A a \in Nodes : a.kind \in 0 .. 2 /\ PeriodCount(a.value) \in Nat
    BY PeriodCountIsNat DEF Nodes, Kinds, Mine, Custom, Others
  <2> QED
    BY <2>1 DEF Beats
<1>7. \A j \in 1 .. Len(old) : old[j] \in Nodes
  BY <1>3
<1> HIDE DEF old, new
<1>8. \A j \in 1 .. i - 1 : Beats(old[j], n)
  BY <1>3, <1>4, <1>5, <1>7 DEF old
<1>9. \A j \in i .. Len(old) : Beats(n, old[j])
  <2> TAKE j \in i .. Len(old)
  <2>1. i \in 1 .. Len(old) /\ j \in 1 .. Len(old)
    BY <1>3 DEF old
  <2>2. CASE j = i
    BY <1>3, <1>4, <2>2
  <2>3. CASE j # i
    BY <1>2, <1>3, <1>4, <1>6, <1>7, <2>1, <2>3
  <2> QED
    BY <2>2, <2>3
<1>10. ASSUME NEW j \in DOMAIN new, NEW k \in DOMAIN new, j < k
       PROVE  Beats(new[j], new[k])
  <2>0. i \in 1 .. Len(old) + 1
    BY DEF old
  <2>1. j \in 1 .. Len(old) + 1 /\ k \in 1 .. Len(old) + 1
    BY <1>3
  <2>2. CASE k < i
    <3>1. new[j] = old[j] /\ new[k] = old[k] /\ j \in 1 .. Len(old) /\ k \in 1 .. Len(old)
      BY <1>3, <1>10, <2>0, <2>1, <2>2
    <3> QED
      BY <1>2, <1>10, <3>1
  <2>3. CASE k = i
    BY <1>3, <1>8, <1>10, <2>1, <2>3
  <2>4. CASE k > i /\ j < i
    <3>1. new[j] = old[j] /\ new[k] = old[k - 1] /\ j < k - 1 /\ k - 1 \in 1 .. Len(old)
      BY <1>3, <1>10, <2>1, <2>4
    <3> QED
      BY <1>2, <1>3, <2>1, <2>4, <3>1
  <2>5. CASE k > i /\ j = i
    <3>1. new[j] = n /\ new[k] = old[k - 1] /\ k - 1 \in i .. Len(old)
      BY <1>3, <2>0, <2>1, <2>5
    <3> QED
      BY <1>9, <3>1
  <2>6. CASE k > i /\ j > i
    <3>1. /\ new[j] = old[j - 1] /\ new[k] = old[k - 1] /\ j - 1 < k - 1
          /\ j - 1 \in 1 .. Len(old) /\ k - 1 \in 1 .. Len(old)
      BY <1>3, <1>10, <2>1, <2>6
    <3> QED
      BY <1>2, <3>1
  <2> QED
    BY <1>3, <2>1, <2>2, <2>3, <2>4, <2>5, <2>6
<1>11. ASSUME NEW d \in DOMAIN pointMap', d # c
       PROVE  d \in DOMAIN pointMap /\ pointMap'[d] = pointMap[d]
  BY <1>1, <1>11 DEF Inserted
<1>12. ASSUME NEW d \in DOMAIN pointMap', NEW j \in DOMAIN pointMap'[d],
              NEW k \in DOMAIN pointMap'[d], j < k
       PROVE  Beats(pointMap'[d][j], pointMap'[d][k])
  <2>1. CASE d = c
    BY <1>10, <1>12, <2>1 DEF new
  <2>2. CASE d # c
    BY <1>11, <1>12, <2>2 DEF ListsRanked
  <2> QED
    BY <2>1, <2>2
<1> QED
  BY <1>12 DEF ListsRanked, Beats

\* The nodes at a position after an insertion are those before it and the new.
LEMMA InsertElements ==
  ASSUME TypeOK, NEW n \in Nodes, NEW c \in Cells, InsertNode(n, c),
         NEW d \in DOMAIN pointMap', NEW j \in DOMAIN pointMap'[d]
  PROVE  \/ pointMap'[d][j] = n
         \/ d \in DOMAIN pointMap /\ \E k \in DOMAIN pointMap[d] : pointMap'[d][j] = pointMap[d][k]
<1>1. PICK i \in 1 .. Len(ListAt(c)) + 1 : Inserted(n, c, i)
  BY InsertNodeStep
<1>2. CASE d # c
  BY <1>1, <1>2 DEF Inserted
<1>3. CASE d = c
  <2> DEFINE old == ListAt(c)
             new == pointMap'[c]
  <2>1. /\ DOMAIN new = 1 .. Len(old) + 1 /\ Len(old) \in Nat /\ DOMAIN old = 1 .. Len(old)
        /\ \A k \in 1 .. Len(old) + 1 :
             new[k] = IF k < i THEN old[k] ELSE IF k = i THEN n ELSE old[k - 1]
        /\ i \in 1 .. Len(old) + 1
    BY <1>1 DEF Inserted
  <2>2. \A k \in DOMAIN old : c \in DOMAIN pointMap /\ old = pointMap[c]
    BY DEF ListAt
  <2>3. j \in DOMAIN new
    BY <1>3
  <2> HIDE DEF old, new
  <2>4. new[j] = n \/ \E k \in DOMAIN old : new[j] = old[k]
    <3>1. CASE j < i
      BY <2>1, <2>3, <3>1
    <3>2. CASE j = i
      BY <2>1, <2>3, <3>2
    <3>3. CASE j > i
      <4>1. new[j] = old[j - 1] /\ j - 1 \in DOMAIN old
        BY <2>1, <2>3, <3>3
      <4> QED
        BY <4>1
    <3> QED
      BY <2>1, <2>3, <3>1, <3>2, <3>3
  <2> QED
    BY <1>3, <2>2, <2>4 DEF new
<1> QED
  BY <1>2, <1>3

\* insert(node:in:) keeps nodeMap in step with the heads: the old head gives the
\* position up exactly when the new node takes it.
LEMMA InsertKeepsCovers ==
  ASSUME TypeOK, DaysAgree, HeadsCovered, CoverOwned,
         NEW n \in Nodes, NEW c \in Cells, InsertNode(n, c), n.value.inDay = c.week
  PROVE  HeadsCovered' /\ CoverOwned'
<1>1. PICK i \in 1 .. Len(ListAt(c)) + 1 : Inserted(n, c, i)
  BY InsertNodeStep
<1> DEFINE h    == Head(pointMap'[c])
           hid  == NodeID(h)
           list == ListAt(c)
<1>2. /\ DOMAIN nodeMap' = DOMAIN nodeMap \cup {hid}
      /\ \A k \in DOMAIN nodeMap :
           /\ nodeMap'[k].count >= nodeMap[k].count
           /\ nodeMap'[k].cover =
                (IF list # << >> /\ k = NodeID(Head(list))
                 THEN nodeMap[k].cover \ {At(c)} ELSE nodeMap[k].cover)
                \cup (IF k = hid THEN {At(c)} ELSE {})
      /\ hid \notin DOMAIN nodeMap => nodeMap'[hid].cover = {At(c)}
      /\ nodeMap'[hid].count > c.section
      /\ IsMapOf(nodeMap', NodeIDs, Entries)
  BY <1>1, InsertNodeCovers
<1>3. /\ DOMAIN pointMap' = DOMAIN pointMap \cup {c}
      /\ \A d \in DOMAIN pointMap : d # c => pointMap'[d] = pointMap[d]
  BY <1>1 DEF Inserted
<1>4. \A d \in DOMAIN pointMap :
        /\ d \in Cells
        /\ Head(pointMap[d]) \in Nodes
        /\ Head(pointMap[d]).value.inDay = d.week
        /\ NodeID(Head(pointMap[d])).course.inDay = d.week
  <2> TAKE d \in DOMAIN pointMap
  <2>1. d \in Cells /\ pointMap[d] \in Seq(Nodes) /\ pointMap[d] # << >>
    BY DEF TypeOK, IsMapOf
  <2>2. Head(pointMap[d]) \in Nodes /\ Head(pointMap[d]) = pointMap[d][1] /\ 1 \in DOMAIN pointMap[d]
    BY <2>1
  <2>3. Head(pointMap[d]).value.inDay = d.week
    BY <2>2 DEF DaysAgree
  <2> QED
    BY <2>1, <2>2, <2>3, NodeIDType
<1>5. h \in Nodes /\ hid.course.inDay = c.week
  <2>1. h \in Nodes
    BY <1>1 DEF Inserted
  <2>2. h.value.inDay = c.week
    <3>1. CASE i = 1
      BY <1>1, <3>1 DEF Inserted
    <3>2. CASE i # 1
      <4>1. c \in DOMAIN pointMap /\ h = Head(pointMap[c])
        BY <1>1, <3>2 DEF Inserted, ListAt
      <4> QED
        BY <1>4, <4>1
    <3> QED
      BY <3>1, <3>2
  <2> QED
    BY <2>1, <2>2, NodeIDType
<1>6. \A k \in DOMAIN nodeMap : k \in NodeIDs /\ nodeMap[k] \in Entries
  BY DEF TypeOK, IsMapOf
<1>7. c \in DOMAIN pointMap => list = pointMap[c] /\ list # << >>
  BY DEF ListAt, TypeOK, IsMapOf
<1>8. c \notin DOMAIN pointMap => list = << >>
  BY DEF ListAt
<1>9. hid \in DOMAIN nodeMap' /\ At(c) \in nodeMap'[hid].cover
  BY <1>2
<1>10. pointMap'[c] = pointMap'[c] /\ NodeID(Head(pointMap'[c])) = hid
  OBVIOUS
<1> HIDE DEF hid, list
<1>11. ASSUME NEW d \in DOMAIN pointMap, d # c
       PROVE  LET id == NodeID(Head(pointMap[d]))
              IN  /\ id \in DOMAIN nodeMap'
                  /\ At(d) \in nodeMap'[id].cover
                  /\ d.section < nodeMap'[id].count
  <2> DEFINE id == NodeID(Head(pointMap[d]))
  <2>1. id \in DOMAIN nodeMap /\ At(d) \in nodeMap[id].cover /\ d.section < nodeMap[id].count
    BY DEF HeadsCovered
  <2>2. d \in Cells /\ id.course.inDay = d.week
    BY <1>4
  <2> HIDE DEF id
  <2>3. ~(list # << >> /\ id = NodeID(Head(list)) /\ At(d) = At(c))
    <3> SUFFICES ASSUME list # << >>, id = NodeID(Head(list)), At(d) = At(c)
                 PROVE  FALSE
      OBVIOUS
    <3>1. id.course.inDay = c.week
      BY <1>4, <1>7, <1>8
    <3>2. d.section = c.section /\ d.location = c.location /\ d.week = c.week
      BY <2>2, <3>1 DEF At
    <3>3. d = c
      BY <2>2, <3>2 DEF Cells
    <3> QED
      BY <1>11, <3>3
  <2>4. At(d) \in nodeMap'[id].cover
    BY <1>2, <2>1, <2>3
  <2>5. d.section \in Nat /\ nodeMap[id].count \in Nat /\ nodeMap'[id].count \in Nat
    BY <1>2, <1>6, <2>1, <2>2 DEF Cells, Entries, IsMapOf
  <2>6. d.section < nodeMap'[id].count
    BY <1>2, <2>1, <2>5
  <2> QED
    BY <1>2, <2>1, <2>4, <2>6 DEF id
<1>12. HeadsCovered'
  <2> SUFFICES ASSUME NEW d \in DOMAIN pointMap'
               PROVE  LET id == NodeID(Head(pointMap'[d]))
                      IN  /\ id \in DOMAIN nodeMap'
                          /\ At(d) \in nodeMap'[id].cover
                          /\ d.section < nodeMap'[id].count
    BY DEF HeadsCovered, NodeID, CourseID, At
  <2>1. CASE d = c
    <3>1. c.section \in Nat /\ nodeMap'[hid].count \in Nat
      BY <1>2, <1>9 DEF Cells, Entries, IsMapOf
    <3>2. c.section < nodeMap'[hid].count
      BY <1>2, <3>1
    <3> QED
      BY <1>9, <1>10, <2>1, <3>2
  <2>2. CASE d # c
    <3>1. d \in DOMAIN pointMap /\ pointMap'[d] = pointMap[d]
      BY <1>3, <2>2
    <3> QED
      BY <1>11, <2>2, <3>1
  <2> QED
    BY <2>1, <2>2
<1>13. CoverOwned'
  <2> SUFFICES ASSUME NEW id \in DOMAIN nodeMap', NEW at \in nodeMap'[id].cover
               PROVE  LET e == [section |-> at[1], week |-> id.course.inDay, location |-> at[2]]
                      IN  e \in DOMAIN pointMap' /\ NodeID(Head(pointMap'[e])) = id
    BY DEF CoverOwned, NodeID, CourseID
  <2> DEFINE e == [section |-> at[1], week |-> id.course.inDay, location |-> at[2]]
  <2>1. CASE id = hid /\ at = At(c)
    <3>1. e = c
      BY <1>5, <2>1 DEF At, Cells
    <3> QED
      BY <1>3, <1>10, <2>1, <3>1
  <2>2. CASE ~(id = hid /\ at = At(c))
    <3>1. id \in DOMAIN nodeMap /\ at \in nodeMap[id].cover
      BY <1>2, <2>2
    <3>2. e \in DOMAIN pointMap /\ NodeID(Head(pointMap[e])) = id
      BY <3>1 DEF CoverOwned
    <3>3. e # c
      <4> SUFFICES ASSUME e = c PROVE FALSE
        OBVIOUS
      <4>1. at = At(c)
        <5>1. at \in Nat \X Locations
          BY <1>6, <3>1 DEF Entries
        <5>2. at = << at[1], at[2] >> /\ e.section = at[1] /\ e.location = at[2]
          BY <5>1
        <5> QED
          BY <5>2 DEF At
      <4>2. list # << >> /\ id = NodeID(Head(list))
        BY <1>7, <3>2
      <4>3. at \notin nodeMap'[id].cover
        BY <1>2, <2>2, <3>1, <4>1, <4>2
      <4> QED
        BY <4>3
    <3> QED
      BY <1>3, <3>2, <3>3
  <2> QED
    BY <2>1, <2>2
<1> QED
  BY <1>12, <1>13

\* insert(node:in:) stores no kind but that of the node it inserts.
LEMMA InsertKeepsModels ==
  ASSUME TypeOK, KindsFrozen, NEW n \in Nodes, NEW c \in Cells, InsertNode(n, c)
  PROVE  /\ \A id \in DOMAIN nodeMap' : NodeID(nodeMap'[id].model) = id
         /\ DOMAIN pointMap' # {}
         /\ \A id \in DOMAIN nodeMap' :
              \/ id \in DOMAIN nodeMap /\ nodeMap'[id].model = nodeMap[id].model
              \/ \E j \in DOMAIN pointMap'[c] : nodeMap'[id].model = pointMap'[c][j]
<1>1. PICK i \in 1 .. Len(ListAt(c)) + 1 : Inserted(n, c, i)
  BY InsertNodeStep
<1> DEFINE h == Head(pointMap'[c])
<1>2. /\ DOMAIN nodeMap' = DOMAIN nodeMap \cup {NodeID(h)}
      /\ \A k \in DOMAIN nodeMap : nodeMap'[k].model = nodeMap[k].model
      /\ NodeID(h) \notin DOMAIN nodeMap => nodeMap'[NodeID(h)].model = h
  BY <1>1, InsertNodeCovers
<1>3. c \in DOMAIN pointMap' /\ \E j \in DOMAIN pointMap'[c] : h = pointMap'[c][j]
  <2>1. pointMap'[c] \in Seq(Nodes) \ {<< >>} /\ c \in DOMAIN pointMap'
    BY <1>1 DEF Inserted
  <2>2. 1 \in DOMAIN pointMap'[c] /\ h = pointMap'[c][1]
    BY <2>1
  <2> QED
    BY <2>1, <2>2
<1> HIDE DEF h
<1>4. \A id \in DOMAIN nodeMap : NodeID(nodeMap[id].model) = id
  BY DEF KindsFrozen
<1> QED
  BY <1>2, <1>3, <1>4

-----------------------------------------------------------------------------

\* An empty map satisfies the invariant.
LEMMA InitIInv == Init => IInv
<1> SUFFICES ASSUME Init PROVE IInv
  OBVIOUS
<1>1. pointMap = << >> /\ nodeMap = << >> /\ pending = {} /\ settled = TRUE /\ sno = NoSno
  BY DEF Init
<1>2. DOMAIN << >> = {}
  OBVIOUS
<1> QED
  BY <1>1, <1>2 DEF IInv, TypeOK, Owners, IsMapOf, DaysAgree, HeadsCovered, CoverOwned, ListsRanked,
         KindsFrozen

\* kind(of:with:) returns one of the three kinds.
LEMMA KindType ==
  ASSUME NEW key \in Keys
  PROVE  Kind(key) \in Kinds
  BY DEF Kind, Kinds, Mine, Custom, Others

\* The computation of the node and of its positions keeps the invariant.
LEMMA InsertCourseIInv ==
  ASSUME IInv, NEW course \in Courses, NEW key \in Keys, InsertCourse(course, key)
  PROVE  IInv'
<1> DEFINE node == [key |-> key, value |-> course, kind |-> Kind(key)]
<1>1. node \in Nodes /\ node.kind = Kind(node.key) /\ node.value = course
  BY KindType DEF Nodes
<1>2. /\ pending' = {node} \X Locates(course)
      /\ UNCHANGED << sno, pointMap, nodeMap, settled >>
  BY DEF InsertCourse
<1>3. Locates(course) \subseteq Cells /\ \A c \in Locates(course) : c.week = course.inDay
  BY LocatesAreCells
<1> HIDE DEF node
<1>4. \A p \in pending' : p[1] = node /\ p[2] \in Locates(course) /\ p \in Nodes \X Cells
  BY <1>1, <1>2, <1>3
<1>5. TypeOK'
  BY <1>2, <1>4 DEF IInv, TypeOK, IsMapOf
<1>6. DaysAgree'
  BY <1>1, <1>2, <1>3, <1>4 DEF IInv, DaysAgree
<1>7. HeadsCovered' /\ CoverOwned' /\ ListsRanked'
  BY <1>2 DEF IInv, HeadsCovered, CoverOwned, ListsRanked
<1>8. KindsFrozen'
  BY <1>1, <1>2, <1>4 DEF IInv, KindsFrozen, Kind
<1> QED
  BY <1>5, <1>6, <1>7, <1>8 DEF IInv

\* A turn of the loop over the positions keeps the invariant.
LEMMA InsertNextIInv ==
  ASSUME IInv, InsertNext
  PROVE  IInv'
<1>1. PICK p \in pending :
        InsertNode(p[1], p[2]) /\ pending' = pending \ {p} /\ UNCHANGED << sno, settled >>
  BY DEF InsertNext
<1> DEFINE n == p[1]
           c == p[2]
<1>2. n \in Nodes /\ c \in Cells /\ n.value.inDay = c.week
  BY DEF IInv, TypeOK, DaysAgree
<1>3. InsertNode(n, c)
  BY <1>1
<1> USE DEF IInv
<1>4. TypeOK'
  BY <1>1, <1>2, <1>3, InsertKeepsTypes DEF TypeOK, IsMapOf
<1>5. DaysAgree'
  BY <1>1, <1>2, <1>3, InsertKeepsDays DEF DaysAgree
<1>6. HeadsCovered' /\ CoverOwned'
  BY <1>2, <1>3, InsertKeepsCovers
<1>7. ListsRanked'
  BY <1>2, <1>3, InsertKeepsRanks
<1>8. KindsFrozen'
  <2>1. \A key : Kind(key)' = Kind(key)
    BY <1>1 DEF Kind
  <2>2. settled => /\ n.kind = Kind(n.key)
                   /\ \A q \in pending' : q[1].kind = Kind(q[1].key)
    BY <1>1 DEF KindsFrozen
  <2>3. settled => \A d \in DOMAIN pointMap' : \A j \in DOMAIN pointMap'[d] :
                     pointMap'[d][j].kind = Kind(pointMap'[d][j].key)
    <3> SUFFICES ASSUME settled, NEW d \in DOMAIN pointMap', NEW j \in DOMAIN pointMap'[d]
                 PROVE  pointMap'[d][j].kind = Kind(pointMap'[d][j].key)
      OBVIOUS
    <3>1. \/ pointMap'[d][j] = n
          \/ d \in DOMAIN pointMap /\ \E k \in DOMAIN pointMap[d] : pointMap'[d][j] = pointMap[d][k]
      BY <1>2, <1>3, InsertElements
    <3> QED
      BY <2>2, <3>1 DEF KindsFrozen
  <2>4. /\ \A id \in DOMAIN nodeMap' : NodeID(nodeMap'[id].model) = id
        /\ DOMAIN pointMap' # {}
        /\ \A id \in DOMAIN nodeMap' :
             \/ id \in DOMAIN nodeMap /\ nodeMap'[id].model = nodeMap[id].model
             \/ \E j \in DOMAIN pointMap'[c] : nodeMap'[id].model = pointMap'[c][j]
    BY <1>2, <1>3, InsertKeepsModels
  <2>5. c \in DOMAIN pointMap'
    BY <1>3 DEF InsertNode
  <2>6. settled => \A id \in DOMAIN nodeMap' :
                     nodeMap'[id].model.kind = Kind(nodeMap'[id].model.key)
    BY <2>3, <2>4, <2>5 DEF KindsFrozen
  <2> QED
    BY <1>1, <2>1, <2>2, <2>3, <2>4, <2>6 DEF KindsFrozen, Kind, NodeID, CourseID
<1> QED
  BY <1>4, <1>5, <1>6, <1>7, <1>8

\* An assignment to sno keeps the invariant; it may end "settled".
LEMMA SetSnoIInv ==
  ASSUME IInv, NEW s \in Owners, SetSno(s)
  PROVE  IInv'
<1>1. /\ pending = {} /\ sno' = s
      /\ settled' = (settled /\ (s = sno \/ DOMAIN pointMap = {}))
      /\ UNCHANGED << pointMap, nodeMap, pending >>
  BY DEF SetSno, Idle
<1>2. TypeOK'
  BY <1>1 DEF IInv, TypeOK, IsMapOf
<1>3. DaysAgree' /\ HeadsCovered' /\ CoverOwned' /\ ListsRanked'
  BY <1>1 DEF IInv, DaysAgree, HeadsCovered, CoverOwned, ListsRanked
<1>4. KindsFrozen'
  <2>1. CASE DOMAIN pointMap = {}
    BY <1>1, <2>1 DEF IInv, KindsFrozen
  <2>2. CASE s = sno
    <3>1. sno' = sno
      BY <1>1, <2>2
    <3>2. settled' => settled
      BY <1>1
    <3> QED
      BY <1>1, <3>1, <3>2 DEF IInv, KindsFrozen, Kind
  <2>3. CASE DOMAIN pointMap # {} /\ s # sno
    <3>1. ~settled'
      BY <1>1, <2>3
    <3> QED
      BY <1>1, <3>1 DEF IInv, KindsFrozen
  <2> QED
    BY <2>1, <2>2, <2>3
<1> QED
  BY <1>2, <1>3, <1>4 DEF IInv

\* Every step keeps the invariant.
LEMMA NextIInv == IInv /\ [Next]_vars => IInv'
<1> SUFFICES ASSUME IInv, [Next]_vars PROVE IInv'
  OBVIOUS
<1>1. ASSUME NEW course \in Courses, NEW key \in Keys, InsertCourse(course, key) PROVE IInv'
  BY <1>1, InsertCourseIInv
<1>2. CASE InsertNext
  BY <1>2, InsertNextIInv
<1>3. ASSUME NEW s \in Owners, SetSno(s) PROVE IInv'
  BY <1>3, SetSnoIInv
<1>4. CASE UNCHANGED vars
  BY <1>4 DEF vars, IInv, TypeOK, IsMapOf, DaysAgree, HeadsCovered, CoverOwned, ListsRanked,
              KindsFrozen, Kind
<1> QED
  BY <1>1, <1>2, <1>3, <1>4 DEF Next

\* Two nodes with the same key have the same kind while sno is settled.
LEMMA KindsFollow == IInv => KindsAgree
<1> SUFFICES ASSUME IInv, settled, NEW c \in DOMAIN pointMap,
                    NodeID(Head(pointMap[c])) \in DOMAIN nodeMap
             PROVE  nodeMap[NodeID(Head(pointMap[c]))].model.kind = Head(pointMap[c]).kind
  BY DEF KindsAgree
<1> DEFINE h == Head(pointMap[c])
           m == nodeMap[NodeID(h)].model
<1>1. pointMap[c] \in Seq(Nodes) /\ pointMap[c] # << >>
  BY DEF IInv, TypeOK, IsMapOf
<1>2. h = pointMap[c][1] /\ 1 \in DOMAIN pointMap[c]
  BY <1>1
<1>3. h.kind = Kind(h.key)
  BY <1>2 DEF IInv, KindsFrozen
<1>4. NodeID(m) = NodeID(h) /\ m.kind = Kind(m.key)
  BY DEF IInv, KindsFrozen
<1>5. m.key = h.key
  BY <1>4 DEF NodeID
<1> QED
  BY <1>3, <1>4, <1>5

\* The invariant behind the theorems below: it adds to the properties of
\* ScheduleMap that nodes are filed under their own day and that stored kinds
\* are current while sno is settled.
THEOREM Invariance == Spec => []IInv
  BY InitIInv, NextIInv, PTL DEF Spec

\* pointMap, nodeMap and the loop's positions have their types, for any courses
\* and keys.
THEOREM TypeCorrectness == Spec => []TypeOK
<1>1. IInv => TypeOK
  BY DEF IInv
<1> QED
  BY <1>1, Invariance, PTL

\* insert(node:in:) never indexes nodeMap's array of index sets out of range,
\* and the node on top of every pile is recorded as the one to draw there.
THEOREM TopsAreCovered == Spec => []HeadsCovered
<1>1. IInv => HeadsCovered
  BY DEF IInv
<1> QED
  BY <1>1, Invariance, PTL

\* No node is recorded at a position where another one is on top.
THEOREM CoversAreTops == Spec => []CoverOwned
<1>1. IInv => CoverOwned
  BY DEF IInv
<1> QED
  BY <1>1, Invariance, PTL

\* Every pile stays sorted by owner and length.
THEOREM PilesAreRanked == Spec => []ListsRanked
<1>1. IInv => ListsRanked
  BY DEF IInv
<1> QED
  BY <1>1, Invariance, PTL

\* The kind drawn is the kind ranked, as long as sno is not reassigned.
THEOREM KindsAreCurrent == Spec => []KindsAgree
  BY KindsFollow, Invariance, PTL

-----------------------------------------------------------------------------

\* What a cell shows, read from the piles alone.
Top(c) == [id |-> NodeID(Head(pointMap[c])), kind |-> Head(pointMap[c]).kind]
Tops == [c \in DOMAIN pointMap |-> Top(c)]

\* nodeMap and pointMap agree on the holder of every cell.
LEMMA ShownAreTops == IInv => Shown = Tops
<1> SUFFICES ASSUME IInv PROVE Shown = Tops
  OBVIOUS
<1>1. ASSUME NEW c \in DOMAIN pointMap
      PROVE  Holder[c] = NodeID(Head(pointMap[c]))
  <2> DEFINE id == NodeID(Head(pointMap[c]))
             Holds(k) == k.course.inDay = c.week /\ At(c) \in nodeMap[k].cover
  <2>1. c \in Cells /\ pointMap[c] \in Seq(Nodes) /\ pointMap[c] # << >>
    BY DEF IInv, TypeOK, IsMapOf
  <2>2. Head(pointMap[c]) \in Nodes /\ Head(pointMap[c]).value.inDay = c.week
    BY <2>1 DEF IInv, DaysAgree
  <2>3. id \in DOMAIN nodeMap /\ Holds(id)
    BY <2>2, NodeIDType DEF IInv, HeadsCovered
  <2>4. ASSUME NEW k \in DOMAIN nodeMap, Holds(k)
        PROVE  k = id
    <3> DEFINE e == [section |-> At(c)[1], week |-> k.course.inDay, location |-> At(c)[2]]
    <3>1. NodeID(Head(pointMap[e])) = k
      BY <2>4 DEF IInv, CoverOwned
    <3>2. e = c
      BY <2>1, <2>4 DEF At, Cells
    <3> QED
      BY <3>1, <3>2
  <2> QED
    BY <2>3, <2>4 DEF Holder
<1> QED
  BY <1>1 DEF Shown, Tops, Top

\* What a cell shows is an offer: a known identity with a kind.
LEMMA OfferType ==
  ASSUME IInv, NEW c \in DOMAIN pointMap
  PROVE  c \in Cells /\ Head(pointMap[c]) \in Nodes /\ Top(c) \in [id : NodeIDs, kind : Kinds]
<1>1. c \in Cells /\ pointMap[c] \in Seq(Nodes) /\ pointMap[c] # << >>
  BY DEF IInv, TypeOK, IsMapOf
<1>2. Head(pointMap[c]) \in Nodes
  BY <1>1
<1>3. Head(pointMap[c]).kind \in Kinds
  BY <1>2 DEF Nodes
<1> QED
  BY <1>1, <1>2, <1>3, NodeIDType DEF Top

\* A turn of the loop offers one node to one cell.
LEMMA InsertOffers ==
  ASSUME IInv, NEW n \in Nodes, NEW c \in Cells, InsertNode(n, c)
  PROVE  \/ Tops' = Tops
         \/ /\ c \notin DOMAIN Tops \/ OfferOutranks([id |-> NodeID(n), kind |-> n.kind], Tops[c])
            /\ Tops' = [d \in DOMAIN Tops \cup {c} |->
                         IF d = c THEN [id |-> NodeID(n), kind |-> n.kind] ELSE Tops[d]]
<1>1. PICK i \in 1 .. Len(ListAt(c)) + 1 : Inserted(n, c, i)
  BY InsertNodeStep DEF IInv
<1> DEFINE offer == [id |-> NodeID(n), kind |-> n.kind]
<1>2. /\ DOMAIN pointMap' = DOMAIN pointMap \cup {c}
      /\ \A d \in DOMAIN pointMap : d # c => pointMap'[d] = pointMap[d]
      /\ Head(pointMap'[c]) = IF i = 1 THEN n ELSE Head(ListAt(c))
      /\ i # 1 => ListAt(c) # << >>
  BY <1>1 DEF Inserted
<1>3. Tops' = [d \in DOMAIN pointMap' |->
                 [id |-> NodeID(Head(pointMap'[d])), kind |-> Head(pointMap'[d]).kind]]
  BY DEF Tops, Top, NodeID, CourseID
<1>4. DOMAIN Tops = DOMAIN pointMap
  BY DEF Tops
<1>5. \A d \in DOMAIN pointMap :
        Tops[d] = [id |-> NodeID(Head(pointMap[d])), kind |-> Head(pointMap[d]).kind]
  BY DEF Tops, Top
<1>6. CASE i # 1
  <2>1. c \in DOMAIN pointMap /\ Head(pointMap'[c]) = Head(pointMap[c])
    BY <1>2, <1>6 DEF ListAt
  <2>2. DOMAIN pointMap' = DOMAIN pointMap
    BY <1>2, <2>1
  <2>3. Tops' = Tops
    BY <1>2, <1>3, <2>1, <2>2 DEF Tops, Top
  <2> QED
    BY <2>3
<1>7. CASE i = 1
  <2>1. Tops' = [d \in DOMAIN Tops \cup {c} |-> IF d = c THEN offer ELSE Tops[d]]
    BY <1>2, <1>3, <1>4, <1>5, <1>7
  <2>2. c \in DOMAIN Tops => OfferOutranks(offer, Tops[c])
    <3> SUFFICES ASSUME c \in DOMAIN pointMap PROVE OfferOutranks(offer, Tops[c])
      BY <1>4
    <3> DEFINE m == Head(pointMap[c])
    <3>1. pointMap[c] \in Seq(Nodes) /\ pointMap[c] # << >> /\ ListAt(c) = pointMap[c]
      BY DEF IInv, TypeOK, IsMapOf, ListAt
    <3>2. 1 <= Len(pointMap[c]) /\ m = pointMap[c][1]
      BY <3>1
    <3>3. Beats(n, m)
      BY <1>1, <1>7, <3>1, <3>2 DEF Inserted, IsPlace
    <3>4. \A a \in Nodes : PeriodCount(NodeID(a).course) = PeriodCount(a.value)
      BY DEF NodeID, CourseID, PeriodCount
    <3>5. m \in Nodes /\ Tops[c] = [id |-> NodeID(m), kind |-> m.kind]
      BY <1>5, OfferType
    <3> HIDE DEF m
    <3> QED
      BY <3>3, <3>4, <3>5 DEF Beats, OfferOutranks
  <2> QED
    BY <2>1, <2>2
<1> QED
  BY <1>6, <1>7

\* Every step of Map is a step of the board or leaves it alone.
LEMMA BoardStep ==
  ASSUME IInv, IInv', Shown = Tops, Shown' = Tops', [Next]_vars
  PROVE  [Board!BoardNext]_Shown
<1>1. CASE InsertNext
  <2>1. PICK p \in pending : InsertNode(p[1], p[2])
    BY <1>1 DEF InsertNext
  <2> DEFINE n == p[1]
             c == p[2]
             offer == [id |-> NodeID(n), kind |-> n.kind]
  <2>2. n \in Nodes /\ c \in Cells
    BY DEF IInv, TypeOK
  <2>3. InsertNode(n, c)
    BY <2>1
  <2> HIDE DEF n, c
  <2>4. offer \in [id : NodeIDs, kind : Kinds]
    BY <2>2, NodeIDType DEF Nodes
  <2>5. CASE Tops' = Tops
    BY <2>5
  <2>6. CASE /\ c \notin DOMAIN Tops \/ OfferOutranks(offer, Tops[c])
             /\ Tops' = [d \in DOMAIN Tops \cup {c} |-> IF d = c THEN offer ELSE Tops[d]]
    <3> HIDE DEF offer
    <3>1. c \in DOMAIN Shown' /\ Shown'[c] = offer
      BY <2>6
    <3>2. Board!Take(c, offer)
      BY <2>6 DEF Board!Take, Board!Free
    <3>3. Board!BoardNext
      BY <2>2, <2>4, <3>1, <3>2 DEF Board!BoardNext
    <3> QED
      BY <3>3
  <2> QED
    BY <2>2, <2>3, <2>5, <2>6, InsertOffers
<1>2. CASE pointMap' = pointMap
  <2>1. Tops' = Tops
    BY <1>2 DEF Tops, Top, NodeID, CourseID
  <2> QED
    BY <2>1
<1>3. CASE \E course \in Courses, key \in Keys : InsertCourse(course, key)
  BY <1>2, <1>3 DEF InsertCourse
<1>4. CASE \E s \in Owners : SetSno(s)
  BY <1>2, <1>4 DEF SetSno
<1>5. CASE UNCHANGED vars
  BY <1>2, <1>5 DEF vars
<1> QED
  BY <1>1, <1>3, <1>4, <1>5 DEF Next

\* An empty map shows an empty board.
LEMMA BoardStart == Init => Board!BoardInit
<1> SUFFICES ASSUME Init PROVE Board!BoardInit
  OBVIOUS
<1>1. pointMap = << >>
  BY DEF Init
<1>2. DOMAIN pointMap = {}
  BY <1>1
<1>3. Shown = << >>
  BY <1>2 DEF Shown
<1> QED
  BY <1>3 DEF Board!BoardInit

\* Map implements CellBoard: seen through nodeMap, every insertion hands a cell
\* to the new node when it outranks the holder and changes nothing otherwise.
THEOREM Refinement == Spec => ImplementsBoard
<1>1. Init => Board!BoardInit
  BY BoardStart
<1>2. IInv /\ IInv' /\ (Shown = Tops) /\ (Shown = Tops)' /\ [Next]_vars => [Board!BoardNext]_Shown
  BY BoardStep
<1>3. IInv => Shown = Tops
  BY ShownAreTops
<1> QED
  BY <1>1, <1>2, <1>3, Invariance, PTL DEF Spec, ImplementsBoard, Board!BoardSpec
=============================================================================
