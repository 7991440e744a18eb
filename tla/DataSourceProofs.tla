-------------------------- MODULE DataSourceProofs --------------------------
(***************************************************************************)
(* What the collection view is given: every occupied position in one item, *)
(* beside the labels of its periods.                                       *)
(***************************************************************************)
EXTENDS DataSource, FinalMapProofs, WellFoundedInduction

\* A non-empty set of numbers has a least element.
LEMMA LeastNat ==
  ASSUME NEW T, T \subseteq Nat, T # {}
  PROVE  \E m \in T : \A k \in T : m <= k
<1>1. PICK m \in T : \A k \in T : ~(<< k, m >> \in OpToRel(<, Nat))
  BY NatLessThanWellFounded, WFMin
<1>2. \A k \in T : ~(k < m)
  BY <1>1 DEF OpToRel
<1> QED
  BY <1>2

\* IndexSet.rangeView: each member of a set of locations is in one run, and runs
\* hold nothing else.
LEMMA RunsPartition ==
  ASSUME NEW S, S \subseteq Locations
  PROVE  /\ \A x \in S : \E r \in Runs(S) : x \in r.lower .. r.upper - 1
         /\ \A r, q \in Runs(S), x \in S :
              x \in r.lower .. r.upper - 1 /\ x \in q.lower .. q.upper - 1 => r = q
         /\ \A r \in Runs(S) :
              /\ r.lower .. r.upper - 1 \subseteq S
              /\ r \in [lower : Locations, upper : Locations \cup {15}] /\ r.lower < r.upper
<1>1. \A r \in Runs(S) :
        /\ r.lower .. r.upper - 1 \subseteq S
        /\ r \in [lower : Locations, upper : Locations \cup {15}] /\ r.lower < r.upper
        /\ r.lower - 1 \notin S /\ r.upper \notin S
  <2> SUFFICES ASSUME NEW r \in Runs(S)
               PROVE  /\ r.lower .. r.upper - 1 \subseteq S
                      /\ r \in [lower : Locations, upper : Locations \cup {15}] /\ r.lower < r.upper
                      /\ r.lower - 1 \notin S /\ r.upper \notin S
    OBVIOUS
  <2>1. /\ r \in [lower : S, upper : {x + 1 : x \in S}]
        /\ r.lower < r.upper /\ r.lower .. (r.upper - 1) \subseteq S
        /\ r.lower - 1 \notin S /\ r.upper \notin S
    BY DEF Runs
  <2>2. {x + 1 : x \in S} \subseteq Locations \cup {15}
    BY DEF Locations
  <2> QED
    BY <2>1, <2>2
<1>2. ASSUME NEW x \in S
      PROVE  \E r \in Runs(S) : x \in r.lower .. r.upper - 1
  <2>1. x \in 1 .. 14 /\ \A y \in S : y \in 1 .. 14
    BY DEF Locations
  <2>2. PICK l \in {k \in 1 .. x : k .. x \subseteq S} : \A k \in {k \in 1 .. x : k .. x \subseteq S} : l <= k
    <3>1. x \in {k \in 1 .. x : k .. x \subseteq S}
      BY <2>1
    <3>2. {k \in 1 .. x : k .. x \subseteq S} \subseteq Nat
      BY <2>1
    <3> QED
      BY <3>1, <3>2, LeastNat
  <2>3. l - 1 \notin S
    BY <2>1, <2>2
  <2>4. PICK u \in {k \in x + 1 .. 15 : k \notin S} : \A k \in {k \in x + 1 .. 15 : k \notin S} : u <= k
    <3>1. 15 \in {k \in x + 1 .. 15 : k \notin S}
      BY <2>1
    <3>2. {k \in x + 1 .. 15 : k \notin S} \subseteq Nat
      BY <2>1
    <3> QED
      BY <3>1, <3>2, LeastNat
  <2>5. x .. u - 1 \subseteq S
    BY <2>1, <2>4
  <2>6. l \in S /\ u - 1 \in S /\ l .. u - 1 \subseteq S /\ l < u
    BY <2>1, <2>2, <2>4, <2>5
  <2>7. u = (u - 1) + 1
    BY <2>4
  <2>8. [lower |-> l, upper |-> u] \in Runs(S)
    BY <2>3, <2>4, <2>6, <2>7 DEF Runs
  <2> QED
    BY <2>1, <2>2, <2>4, <2>8
<1>3. ASSUME NEW r \in Runs(S), NEW q \in Runs(S), NEW x \in S,
             x \in r.lower .. r.upper - 1, x \in q.lower .. q.upper - 1
      PROVE  r = q
  <2>1. /\ r.lower \in Int /\ r.upper \in Int /\ q.lower \in Int /\ q.upper \in Int /\ x \in Int
        /\ r = [lower |-> r.lower, upper |-> r.upper] /\ q = [lower |-> q.lower, upper |-> q.upper]
    BY <1>1, <1>3 DEF Locations
  <2>2. r.lower = q.lower
    BY <1>1, <1>3, <2>1
  <2>3. r.upper = q.upper
    BY <1>1, <1>3, <2>1
  <2> QED
    BY <2>1, <2>2, <2>3
<1> QED
  BY <1>1, <1>2, <1>3

-----------------------------------------------------------------------------

\* The index sets of an entry hold locations of the grid.
LEMMA RowsAreLocations ==
  ASSUME TypeOK, NEW id \in DOMAIN nodeMap, NEW s
  PROVE  /\ Rows(id, s) \subseteq Locations
         /\ \A l \in Rows(id, s) : << s, l >> \in nodeMap[id].cover
<1>1. nodeMap[id].cover \subseteq Nat \X Locations
  BY DEF TypeOK, IsMapOf, Entries
<1> QED
  BY <1>1 DEF Rows

\* An item of the model a rebuild gives.
LEMMA ValueOfEntry ==
  ASSUME TypeOK, NEW s, NEW v \in Values(s)
  PROVE  \E id \in DOMAIN nodeMap :
           /\ v.model = nodeMap[id].model /\ v.model \in Nodes
           /\ v.locates \in Runs(Rows(id, s))
           /\ v = [model |-> nodeMap[id].model, locates |-> v.locates]
           /\ v.locates.lower .. v.locates.upper - 1 \subseteq Rows(id, s)
           /\ v.locates \in [lower : Locations, upper : Locations \cup {15}]
           /\ v.locates.lower < v.locates.upper
<1>0. PICK id \in DOMAIN nodeMap :
        v \in {[model |-> nodeMap[id].model, locates |-> r] : r \in Runs(Rows(id, s))}
  BY DEF Values
<1>1. PICK r \in Runs(Rows(id, s)) : v = [model |-> nodeMap[id].model, locates |-> r]
  BY <1>0
<1>2. Rows(id, s) \subseteq Locations
  BY RowsAreLocations
<1>3. /\ r.lower .. r.upper - 1 \subseteq Rows(id, s)
      /\ r \in [lower : Locations, upper : Locations \cup {15}] /\ r.lower < r.upper
  BY <1>2, RunsPartition
<1>4. nodeMap[id].model \in Nodes
  BY DEF TypeOK, IsMapOf, Entries
<1> QED
  BY <1>1, <1>3, <1>4

\* The types that SectionsInvariance does not cover.
TermInv ==
  /\ IsMapOf(keys, IF KeyFetal = "double" THEN Kinds ELSE Keys, Items)
  /\ startDate \in Int \cup {NoDate} /\ useImmediate \in BOOLEAN /\ bare \in BOOLEAN
  /\ \A i \in DOMAIN finalRange : finalRange[i].startDate \in Int \cup {NoDate}

DrawnInv ==
  \A i \in DOMAIN finalRange : \A v \in finalRange[i].values :
    v.model \in Nodes /\ v.locates \in [lower : Locations, upper : Locations \cup {15}]

\* The types of the remaining variables and of what is drawn are inductive: what
\* ReadFinal draws consists of runs of the locations covered.
LEMMA TermInductive ==
  /\ FinalInit => TermInv /\ DrawnInv
  /\ IInv /\ Loop /\ SectionsInv /\ SectionsInv' /\ TermInv /\ DrawnInv /\ [FinalNext]_allVars
       => TermInv' /\ DrawnInv'
<1>1. ASSUME FinalInit PROVE TermInv /\ DrawnInv
  <2>1. DOMAIN keys = {} /\ startDate = NoDate /\ useImmediate = FALSE /\ bare = FALSE
    <3>1. keys = << >> /\ DOMAIN << >> = {}
      BY <1>1 DEF FinalInit
    <3> QED
      BY <1>1, <3>1 DEF FinalInit
  <2>2. \A i \in DOMAIN finalRange : finalRange[i].startDate = NoDate /\ finalRange[i].values = {}
    <3>1. finalRange = << SectionModel >>
      BY <1>1 DEF FinalInit
    <3>2. \A i \in DOMAIN finalRange : finalRange[i] = SectionModel
      BY <3>1
    <3> QED
      BY <3>2 DEF SectionModel
  <2>3. TermInv
    BY <2>1, <2>2 DEF TermInv, IsMapOf
  <2>4. DrawnInv
    BY <2>2 DEF DrawnInv
  <2> QED
    BY <2>3, <2>4
<1>2. ASSUME IInv, Loop, SectionsInv, SectionsInv', TermInv, DrawnInv, [FinalNext]_allVars
      PROVE  TermInv' /\ DrawnInv'
  <2>1. CASE UNCHANGED << keys, startDate, useImmediate, bare, finalRange >>
    BY <1>2, <2>1 DEF TermInv, DrawnInv
  <2>2. ASSUME NEW it \in Items, BeginInsert(it) PROVE TermInv' /\ DrawnInv'
    <3> DEFINE slot == IF KeyFetal = "double" THEN Kind(it.key) ELSE it.key
               D == IF KeyFetal = "double" THEN Kinds ELSE Keys
    <3>1. slot \in D
      BY ItemCourses, KindType
    <3>2. keys' = [k \in DOMAIN keys \cup {slot} |-> IF k = slot THEN it ELSE keys[k]]
      BY <2>2 DEF BeginInsert
    <3> HIDE DEF slot, D
    <3>3. IsMapOf(keys, D, Items)
      BY <1>2 DEF TermInv, D
    <3>4. IsMapOf(keys', D, Items)
      BY <3>1, <3>2, <3>3 DEF IsMapOf
    <3>5. UNCHANGED << startDate, useImmediate, bare, finalRange >>
      BY <2>2 DEF BeginInsert
    <3> QED
      BY <1>2, <3>4, <3>5 DEF TermInv, DrawnInv, D
  <2>3. CASE InsertPosition
    BY <1>2, <2>3 DEF InsertPosition, TermInv, DrawnInv
  <2>4. CASE EndInsert
    <3>1. startDate' \in Int \cup {NoDate}
      BY <1>2, <2>4, WeekIsInt DEF SectionsInv, TermInv
    <3>2. UNCHANGED << keys, useImmediate, finalRange >> /\ bare' \in BOOLEAN
      BY <2>4 DEF EndInsert
    <3> QED
      BY <1>2, <3>1, <3>2 DEF TermInv, DrawnInv
  <2>5. CASE ReadFinal
    <3> DEFINE n == IF nodeMap = << >> THEN 0 ELSE SectionCount + 1
    <3>1. /\ UNCHANGED << keys, startDate >> /\ useImmediate' = TRUE /\ bare' = FALSE
          /\ finalRange' = [i \in 1 .. n |-> [startDate |-> DateOf(i - 1), values |-> Values(i - 1)]]
      BY <2>5 DEF ReadFinal
    <3> HIDE DEF n
    <3>2. DOMAIN finalRange' \subseteq Int
      BY <1>2 DEF SectionsInv
    <3>3. \A i \in DOMAIN finalRange' :
            finalRange'[i].startDate = DateOf(i - 1) /\ finalRange'[i].values = Values(i - 1)
      BY <3>1
    <3>4. \A i \in Int : DateOf(i - 1) \in Int \cup {NoDate}
      BY <1>2 DEF DateOf, SectionDate, TermInv
    <3>5. DrawnInv'
      BY <1>2, <3>3, ValueOfEntry DEF DrawnInv, IInv
    <3>6. TermInv'
      BY <1>2, <3>1, <3>2, <3>3, <3>4 DEF TermInv
    <3> QED
      BY <3>5, <3>6
  <2>6. CASE BeginCourse
    BY <2>1, <2>6 DEF BeginCourse
  <2>7. CASE \E s \in Owners : SetOwner(s)
    BY <2>1, <2>7 DEF SetOwner, finalVars
  <2>8. CASE UNCHANGED allVars
    BY <2>1, <2>8 DEF allVars, finalVars
  <2> QED
    BY <1>2, <2>2, <2>3, <2>4, <2>5, <2>6, <2>7, <2>8 DEF FinalNext
<1> QED
  BY <1>1, <1>2

\* The variables of FinalMap have their types whatever is inserted and read.
THEOREM FinalTypes == FinalSpec => []FinalTypeOK
<1>1. IInv /\ Loop /\ SectionsInv /\ TermInv /\ DrawnInv => FinalTypeOK
  <2> SUFFICES ASSUME IInv, Loop, SectionsInv, TermInv, DrawnInv PROVE FinalTypeOK
    OBVIOUS
  <2>1. TypeOK
    BY DEF IInv
  <2>2. IsMapOf(keys, IF KeyFetal = "double" THEN Kinds ELSE Keys, Items)
    BY DEF TermInv
  <2>3. sections \in Nat /\ nowWeek \in Int /\ startDate \in Int \cup {NoDate}
    BY DEF SectionsInv, TermInv
  <2>4. useImmediate \in BOOLEAN /\ bare \in BOOLEAN
    BY DEF TermInv
  <2>5. item \in Items \cup {NoItem} /\ left \in Seq(Courses)
    BY DEF Loop
  <2>6. \A i \in DOMAIN finalRange :
          /\ finalRange[i].startDate \in Int \cup {NoDate}
          /\ \A v \in finalRange[i].values :
               v.model \in Nodes /\ v.locates \in [lower : Locations, upper : Locations \cup {15}]
    BY DEF TermInv, DrawnInv
  <2> QED
    BY <2>1, <2>2, <2>3, <2>4, <2>5, <2>6 DEF FinalTypeOK
<1> QED
  BY <1>1, SectionsInvariance, TermInductive, PTL DEF FinalSpec

-----------------------------------------------------------------------------

\* An up-to-date model draws each occupied position once: its first node covers
\* it, in one run, and any other entry that covers it would be first there too.
LEMMA CoherentDraws == IInv /\ CountsLongest /\ CacheCoherent => DrawnOnce
<1> SUFFICES ASSUME IInv, CountsLongest, CacheCoherent, useImmediate
             PROVE  /\ \A c \in DOMAIN pointMap :
                         /\ c.section + 1 \in DOMAIN finalRange
                         /\ \E v \in ItemsAt(c) :
                              ItemsAt(c) = {v} /\ NodeID(v.model) = NodeID(Head(pointMap[c]))
                    /\ \A i \in DOMAIN finalRange : \A v \in finalRange[i].values :
                         \A l \in v.locates.lower .. v.locates.upper - 1 :
                           [section |-> i - 1, week |-> v.model.value.inDay, location |-> l]
                             \in DOMAIN pointMap
  BY DEF DrawnOnce
<1>1. /\ TypeOK /\ HeadsCovered /\ CoverOwned
      /\ \A id \in DOMAIN nodeMap : NodeID(nodeMap[id].model) = id
  BY DEF IInv, KindsFrozen
<1>2. /\ DOMAIN finalRange = 1 .. (IF nodeMap = << >> THEN 0 ELSE SectionCount + 1)
      /\ \A i \in DOMAIN finalRange : finalRange[i].values = Values(i - 1)
  BY DEF CacheCoherent
<1>3. \A id \in DOMAIN nodeMap :
        /\ nodeMap[id].model \in Nodes /\ nodeMap[id].count \in Nat
        /\ nodeMap[id].model.value.inDay = id.course.inDay
  BY <1>1, NodeIDType DEF TypeOK, IsMapOf, Entries
<1>4. ASSUME NEW c \in DOMAIN pointMap
      PROVE  /\ c.section + 1 \in DOMAIN finalRange
             /\ \E v \in ItemsAt(c) :
                  ItemsAt(c) = {v} /\ NodeID(v.model) = NodeID(Head(pointMap[c]))
  <2> DEFINE id == NodeID(Head(pointMap[c]))
             s == c.section
             x == c.location
  <2>1. /\ c \in Cells /\ s \in Nat /\ x \in Locations /\ x \in Int
        /\ c = [section |-> s, week |-> c.week, location |-> x]
    BY <1>1 DEF TypeOK, IsMapOf, Cells, Locations
  <2>2. id \in DOMAIN nodeMap /\ << s, x >> \in nodeMap[id].cover /\ s < nodeMap[id].count
    BY <1>1 DEF HeadsCovered, At
  <2>3. id.course.inDay = c.week
    <3>1. pointMap[c] \in Seq(Nodes) \ {<< >>}
      BY <1>1 DEF TypeOK, IsMapOf
    <3>2. Head(pointMap[c]) \in Nodes /\ 1 \in DOMAIN pointMap[c] /\ Head(pointMap[c]) = pointMap[c][1]
      BY <3>1
    <3>3. Head(pointMap[c]).value.inDay = c.week
      BY <3>2 DEF IInv, DaysAgree
    <3> QED
      BY <3>2, <3>3, NodeIDType
  <2> HIDE DEF id, s, x
  <2>4. s + 1 \in DOMAIN finalRange /\ finalRange[s + 1].values = Values(s)
    <3>1. nodeMap[id].count <= SectionCount /\ SectionCount \in Nat
      BY <2>2 DEF CountsLongest
    <3>2. nodeMap # << >>
      <4>1. DOMAIN << >> = {}
        OBVIOUS
      <4> QED
        BY <2>2, <4>1
    <3>3. s + 1 \in 1 .. SectionCount + 1
      BY <1>3, <2>1, <2>2, <3>1
    <3>4. s + 1 \in DOMAIN finalRange /\ (s + 1) - 1 = s
      BY <1>2, <2>1, <3>2, <3>3
    <3> QED
      BY <1>2, <3>4
  <2>5. x \in Rows(id, s) /\ Rows(id, s) \subseteq Locations
    <3>1. << s, x >>[1] = s /\ << s, x >>[2] = x
      OBVIOUS
    <3> QED
      BY <1>1, <2>2, <3>1, RowsAreLocations DEF Rows
  <2>6. PICK r \in Runs(Rows(id, s)) : x \in r.lower .. r.upper - 1
    <3> DEFINE S == Rows(id, s)
    <3>1. x \in S /\ S \subseteq Locations
      BY <2>5
    <3> HIDE DEF S
    <3>2. \A y \in S : \E r \in Runs(S) : y \in r.lower .. r.upper - 1
      BY <3>1, RunsPartition
    <3> QED
      BY <3>1, <3>2 DEF S
  <2> DEFINE v == [model |-> nodeMap[id].model, locates |-> r]
  <2>7. v \in Values(s)
    BY <2>2 DEF Values
  <2>8. v \in ItemsAt(c)
    BY <1>3, <2>2, <2>3, <2>4, <2>6, <2>7 DEF ItemsAt, s, x
  <2>9. ASSUME NEW w \in ItemsAt(c) PROVE w = v
    <3>1. w \in Values(s) /\ w.model.value.inDay = c.week /\ x \in w.locates.lower .. w.locates.upper - 1
      BY <2>4 DEF ItemsAt, s, x
    <3>2. PICK k \in DOMAIN nodeMap :
            /\ w.model = nodeMap[k].model /\ w.locates \in Runs(Rows(k, s))
            /\ w = [model |-> nodeMap[k].model, locates |-> w.locates]
            /\ w.locates.lower .. w.locates.upper - 1 \subseteq Rows(k, s)
      BY <1>1, <3>1, ValueOfEntry
    <3>3. << s, x >> \in nodeMap[k].cover
      BY <1>1, <3>1, <3>2, RowsAreLocations
    <3>4. k.course.inDay = c.week
      BY <1>3, <3>1, <3>2
    <3>5. k = id
      <4>1. NodeID(Head(pointMap[[section |-> s, week |-> c.week, location |-> x]])) = k
        <5>1. << s, x >>[1] = s /\ << s, x >>[2] = x
          OBVIOUS
        <5> QED
          BY <1>1, <3>3, <3>4, <5>1 DEF CoverOwned
      <4> QED
        BY <2>1, <4>1 DEF id
    <3>6. w.locates = r
      BY <2>5, <2>6, <3>1, <3>2, <3>5, RunsPartition
    <3> QED
      BY <3>2, <3>5, <3>6
  <2>10. NodeID(v.model) = id
    BY <1>1, <2>2
  <2> HIDE DEF v
  <2> QED
    BY <2>4, <2>8, <2>9, <2>10 DEF id, s
<1>5. ASSUME NEW i \in DOMAIN finalRange, NEW v \in finalRange[i].values,
             NEW l \in v.locates.lower .. v.locates.upper - 1
      PROVE  [section |-> i - 1, week |-> v.model.value.inDay, location |-> l] \in DOMAIN pointMap
  <2> DEFINE s == i - 1
  <2>1. v \in Values(s)
    BY <1>2
  <2> HIDE DEF s
  <2>2. PICK k \in DOMAIN nodeMap :
          /\ v.model = nodeMap[k].model
          /\ v.locates.lower .. v.locates.upper - 1 \subseteq Rows(k, s)
    BY <1>1, <2>1, ValueOfEntry
  <2>3. << s, l >> \in nodeMap[k].cover
    BY <1>1, <2>2, RowsAreLocations
  <2>4. << s, l >>[1] = s /\ << s, l >>[2] = l
    OBVIOUS
  <2>5. [section |-> s, week |-> k.course.inDay, location |-> l] \in DOMAIN pointMap
    BY <1>1, <2>3, <2>4 DEF CoverOwned
  <2> QED
    BY <1>3, <2>2, <2>5 DEF s
<1> QED
  BY <1>4, <1>5

\* The collection view gets a partition of the timetable, for any items,
\* owners and order of insertions and reads.
THEOREM TimetableIsPartitioned == FinalSpec => []DrawnOnce
  BY CoherentDraws, SectionsInvariance, CacheIsCoherent, PTL

\* Without rows for noon and night, which no code asks for, the labels beside
\* an item are those of its periods.
LEMMA LabelsAgree ==
  ASSUME NEW s, NEW v, v.locates \in [lower : Locations, upper : Locations \cup {15}],
         v.locates.lower < v.locates.upper,
         (v.locates.lower .. v.locates.upper - 1) \cap Specials = {}, v.locates.lower # 9
  PROVE  LabelsBeside(s, v) = LabelsOf(v)
<1> DEFINE l == v.locates.lower
           u == v.locates.upper
           first == LocationForItem(s, v)
           last == first + LenthLocate(s, v) - 1
<1>1. /\ l \in 1 .. 14 /\ u \in 1 .. 15 /\ l < u /\ l # 9
      /\ 5 \notin l .. u - 1 /\ 10 \notin l .. u - 1
  BY DEF Locations, Specials
<1>2. /\ first = IF l >= 9 THEN l - 2 ELSE IF l >= 5 THEN l - 1 ELSE l
      /\ last = first + (u - l) - 1
  BY <1>1 DEF LocationForItem, LenthLocate, SpecialTime
<1>3. Layouts(SpecialTime(s)) = [i \in 1 .. 12 |-> [normal |-> i]]
  BY DEF Layouts, SpecialTime, Periods12
<1> HIDE DEF first, last
<1>4. first .. last \subseteq 1 .. 12
  BY <1>1, <1>2
<1>5. \A p \in 1 .. 12 : Row(p) \in l .. u - 1 <=> p \in first .. last
  <2>1. \/ l \in 1 .. 4 /\ u <= 5
        \/ l \in 6 .. 8 /\ u <= 10
        \/ l \in 11 .. 14
    BY <1>1
  <2>2. CASE l \in 1 .. 4 /\ u <= 5
    BY <1>1, <1>2, <2>2 DEF Row
  <2>3. CASE l \in 6 .. 8 /\ u <= 10
    BY <1>1, <1>2, <2>3 DEF Row
  <2>4. CASE l \in 11 .. 14
    BY <1>1, <1>2, <2>4 DEF Row
  <2> QED
    BY <2>1, <2>2, <2>3, <2>4
<1>6. LabelsBeside(s, v) = {[normal |-> p] : p \in first .. last}
  <2> DEFINE lab == Layouts(SpecialTime(s))
  <2>1. \A row \in first .. last : lab[row] = [normal |-> row]
    BY <1>3, <1>4
  <2>2. LabelsBeside(s, v) = {lab[row] : row \in first .. last}
    BY DEF LabelsBeside, first, last
  <2> HIDE DEF lab
  <2> DEFINE rows == first .. last
             label(p) == [normal |-> p]
  <2>3. \A row \in rows : lab[row] = label(row)
    BY <2>1
  <2> HIDE DEF rows, label
  <2>4. {lab[row] : row \in rows} = {label(row) : row \in rows}
    BY <2>3
  <2>5. {lab[row] : row \in first .. last} = {[normal |-> p] : p \in first .. last}
    BY <2>4 DEF rows, label
  <2> QED
    BY <2>2, <2>5
<1>7. LabelsOf(v) = {[normal |-> p] : p \in first .. last}
  BY <1>4, <1>5 DEF LabelsOf
<1> QED
  BY <1>6, <1>7

\* DataSourceService puts every item of FinalMap beside the labels of its
\* periods, unless it begins with the eighth period or is for noon or night.
THEOREM RowsAgreeWithLabels == FinalSpec => []RowsAgree
<1>1. IInv /\ CacheCoherent => RowsAgree
  <2> SUFFICES ASSUME IInv, CacheCoherent, useImmediate,
                      NEW i \in DOMAIN finalRange, NEW v \in finalRange[i].values,
                      (v.locates.lower .. v.locates.upper - 1) \cap Specials = {}, v.locates.lower # 9
               PROVE  LabelsBeside(i - 1, v) = LabelsOf(v)
    BY DEF RowsAgree
  <2>1. v \in Values(i - 1)
    BY DEF CacheCoherent
  <2>2. /\ v.locates \in [lower : Locations, upper : Locations \cup {15}]
        /\ v.locates.lower < v.locates.upper
    BY <2>1, ValueOfEntry DEF IInv
  <2> QED
    BY <2>2, LabelsAgree
<1> QED
  BY <1>1, SubclassInvariant, CacheIsCoherent, PTL
=============================================================================
