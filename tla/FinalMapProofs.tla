--------------------------- MODULE FinalMapProofs ---------------------------
(***************************************************************************)
(* FinalMap is a Map, and its cache of "final" is never stale.             *)
(***************************************************************************)
EXTENDS FinalMap, ScheduleMapProofs

\* A course of an item may be inserted under the key of the item.
LEMMA ItemCourses ==
  ASSUME NEW it \in Items
  PROVE  it.key \in Keys /\ it.values \in Seq(Courses)
  BY FinalMapAssumption DEF ItemAssumption

\* The item that insert(item:) is at and the courses it has still to insert.
Loop ==
  /\ item \in Items \cup {NoItem}
  /\ left \in Seq(Courses)

\* The loop of insert(item:) only meets courses of the items.
LEMMA LoopInductive ==
  /\ FinalInit => Loop
  /\ Loop /\ [FinalNext]_allVars => Loop'
<1>1. FinalInit => Loop
  BY DEF FinalInit, Loop
<1>2. ASSUME Loop, [FinalNext]_allVars PROVE Loop'
  <2>1. ASSUME NEW it \in Items, BeginInsert(it) PROVE Loop'
    BY <2>1, ItemCourses DEF BeginInsert, Loop
  <2>2. CASE BeginCourse
    BY <1>2, <2>2 DEF BeginCourse, Loop
  <2>3. CASE InsertPosition
    BY <1>2, <2>3 DEF InsertPosition, Loop
  <2>4. CASE EndInsert
    BY <1>2, <2>4 DEF EndInsert, Loop
  <2>5. ASSUME NEW s \in Owners, SetOwner(s) PROVE Loop'
    BY <1>2, <2>5 DEF SetOwner, finalVars, Loop
  <2>6. CASE ReadFinal
    BY <1>2, <2>6 DEF ReadFinal, Loop
  <2>7. CASE UNCHANGED allVars
    BY <1>2, <2>7 DEF allVars, finalVars, Loop
  <2> QED
    BY <1>2, <2>1, <2>2, <2>3, <2>4, <2>5, <2>6, <2>7 DEF FinalNext
<1> QED
  BY <1>1, <1>2

\* Every step of FinalMap is a step of Map or leaves the variables of Map alone.
LEMMA StepIsMapStep == Loop /\ [FinalNext]_allVars => [Next]_vars
<1> SUFFICES ASSUME Loop, [FinalNext]_allVars PROVE [Next]_vars
  OBVIOUS
<1>1. ASSUME NEW it \in Items, BeginInsert(it) PROVE UNCHANGED vars
  BY <1>1 DEF BeginInsert
<1>2. CASE BeginCourse
  <2>1. item \in Items /\ Head(left) \in Courses /\ item.key \in Keys
    BY <1>2, ItemCourses DEF BeginCourse, Loop
  <2> QED
    BY <1>2, <2>1 DEF BeginCourse, Next
<1>3. CASE InsertPosition
  BY <1>3 DEF InsertPosition, Next
<1>4. CASE EndInsert
  BY <1>4 DEF EndInsert
<1>5. ASSUME NEW s \in Owners, SetOwner(s) PROVE Next
  BY <1>5 DEF SetOwner, Next
<1>6. CASE ReadFinal
  BY <1>6 DEF ReadFinal
<1>7. CASE UNCHANGED allVars
  BY <1>7 DEF allVars
<1> QED
  BY <1>1, <1>2, <1>3, <1>4, <1>5, <1>6, <1>7 DEF FinalNext

\* The subclass behaves as its superclass: its override of insert(node:in:) and
\* insert(item:) only make the calls that Map allows, so every theorem about
\* Map holds of FinalMap.
THEOREM SubclassIsMap == FinalSpec => Spec
<1>1. FinalInit => Init
  BY DEF FinalInit
<1> QED
  BY <1>1, LoopInductive, StepIsMapStep, PTL DEF FinalSpec, Spec

\* In particular no insertion an item makes traps on nodeMap's arrays.
THEOREM SubclassInvariant == FinalSpec => []IInv
  BY SubclassIsMap, Invariance, PTL

\* What a rebuild depends on: nodeMap alone for the items.
LEMMA ValuesDependOnNodeMap ==
  ASSUME nodeMap' = nodeMap
  PROVE  SectionCount' = SectionCount /\ \A s : Values(s)' = Values(s)
  BY DEF SectionCount, Values, Rows, Runs

\* CacheCoherent is inductive by itself: all who write nodeMap reset useImmediate.
LEMMA CoherentInductive ==
  /\ FinalInit => CacheCoherent
  /\ CacheCoherent /\ [FinalNext]_allVars => CacheCoherent'
<1>1. FinalInit => CacheCoherent
  BY DEF FinalInit, CacheCoherent
<1>2. ASSUME CacheCoherent, [FinalNext]_allVars PROVE CacheCoherent'
  <2>1. CASE UNCHANGED << nodeMap, sections, finalRange, useImmediate >>
    BY <1>2, <2>1, ValuesDependOnNodeMap DEF CacheCoherent
  <2>2. CASE InsertPosition
    BY <2>2 DEF InsertPosition, CacheCoherent
  <2>3. CASE ReadFinal
    <3>1. /\ UNCHANGED nodeMap
          /\ sections' = SectionCount
          /\ finalRange' = [i \in 1 .. (IF nodeMap = << >> THEN 0 ELSE SectionCount + 1) |->
                              [startDate |-> DateOf(i - 1), values |-> Values(i - 1)]]
      BY <2>3 DEF ReadFinal, vars
    <3>2. SectionCount' = SectionCount /\ \A s : Values(s)' = Values(s)
      BY <3>1, ValuesDependOnNodeMap
    <3>3. DOMAIN finalRange' = 1 .. (IF nodeMap' = << >> THEN 0 ELSE sections' + 1)
      BY <3>1
    <3>4. \A i \in DOMAIN finalRange' : finalRange'[i].values = Values(i - 1)
      BY <3>1
    <3> QED
      BY <3>1, <3>2, <3>3, <3>4 DEF CacheCoherent
  <2>4. CASE \E it \in Items : BeginInsert(it)
    BY <2>1, <2>4 DEF BeginInsert, vars
  <2>5. CASE BeginCourse
    BY <2>1, <2>5 DEF BeginCourse, InsertCourse
  <2>6. CASE EndInsert
    BY <2>1, <2>6 DEF EndInsert, vars
  <2>7. CASE \E s \in Owners : SetOwner(s)
    BY <2>1, <2>7 DEF SetOwner, SetSno, finalVars
  <2>8. CASE UNCHANGED allVars
    BY <2>1, <2>8 DEF allVars, vars, finalVars
  <2> QED
    BY <1>2, <2>2, <2>3, <2>4, <2>5, <2>6, <2>7, <2>8 DEF FinalNext
<1> QED
  BY <1>1, <1>2

\* Whatever items are inserted and whenever the view reads, a cached "final" has
\* the sections and the items that a rebuild would give.
THEOREM CacheIsCoherent == FinalSpec => []CacheCoherent
  BY CoherentInductive, PTL DEF FinalSpec

\* DatesFresh is inductive by itself.
LEMMA DatesInductive ==
  /\ FinalInit => DatesFresh
  /\ DatesFresh /\ [FinalNext]_allVars => DatesFresh'
<1>1. FinalInit => DatesFresh
  BY DEF FinalInit, DatesFresh
<1>2. ASSUME DatesFresh, [FinalNext]_allVars PROVE DatesFresh'
  <2>1. CASE UNCHANGED << startDate, finalRange, useImmediate, bare >>
    BY <1>2, <2>1 DEF DatesFresh, DateOf
  <2>2. CASE InsertPosition
    BY <2>2 DEF InsertPosition, DatesFresh
  <2>3. CASE ReadFinal
    <3>1. /\ UNCHANGED startDate
          /\ finalRange' = [i \in 1 .. (IF nodeMap = << >> THEN 0 ELSE SectionCount + 1) |->
                              [startDate |-> DateOf(i - 1), values |-> Values(i - 1)]]
      BY <2>3 DEF ReadFinal
    <3>2. \A i \in DOMAIN finalRange' : finalRange'[i].startDate = DateOf(i - 1)
      BY <3>1
    <3> QED
      BY <3>1, <3>2 DEF DatesFresh, DateOf
  <2>4. CASE EndInsert
    <3>1. bare' = (bare \/ useImmediate) /\ useImmediate' = useImmediate
      BY <2>4 DEF EndInsert
    <3> QED
      BY <3>1 DEF DatesFresh
  <2>5. CASE \E it \in Items : BeginInsert(it)
    BY <2>1, <2>5 DEF BeginInsert
  <2>6. CASE BeginCourse
    BY <2>1, <2>6 DEF BeginCourse
  <2>7. CASE \E s \in Owners : SetOwner(s)
    BY <2>1, <2>7 DEF SetOwner, finalVars
  <2>8. CASE UNCHANGED allVars
    BY <2>1, <2>8 DEF allVars, finalVars
  <2> QED
    BY <1>2, <2>2, <2>3, <2>4, <2>5, <2>6, <2>7, <2>8 DEF FinalNext
<1> QED
  BY <1>1, <1>2

\* Stale dates have one cause only, an item that brings no position.
THEOREM DatesAreFresh == FinalSpec => []DatesFresh
  BY DatesInductive, PTL DEF FinalSpec

-----------------------------------------------------------------------------

\* Max, which the getter takes of the lengths in nodeMap, is one of them that
\* none exceeds; that there is one is kept by each insertion, which only grows
\* the length of one entry.
Longest(id) == id \in DOMAIN nodeMap /\ \A k \in DOMAIN nodeMap : nodeMap[k].count <= nodeMap[id].count

LengthsInv ==
  /\ nodeMap = << >> <=> DOMAIN nodeMap = {}
  /\ DOMAIN nodeMap # {} => \E id \in DOMAIN nodeMap : Longest(id)
  /\ \A id \in DOMAIN nodeMap : nodeMap[id].count > 0

\* What the getter and showWeek keep of them.
SectionsInv ==
  /\ sections \in Nat /\ nowWeek \in Int
  /\ \E n \in Nat : DOMAIN finalRange = 1 .. n /\ Len(finalRange) = n /\ n \in {0, sections + 1}
  /\ finalRange # << >> => DOMAIN finalRange = 1 .. sections + 1

\* sections is the length of the longest entry of nodeMap.
CountsLongest ==
  /\ SectionCount \in Nat
  /\ \A id \in DOMAIN nodeMap : nodeMap[id].count <= SectionCount
  /\ SectionCount = 0 <=> nodeMap = << >>
  /\ nodeMap # << >> => \E id \in DOMAIN nodeMap : SectionCount = nodeMap[id].count

\* The maximum the getter computes exists and is the length of the longest entry.
LEMMA SectionCountIsLongest ==
  ASSUME TypeOK, LengthsInv
  PROVE  CountsLongest
<1> DEFINE S == {nodeMap[id].count : id \in DOMAIN nodeMap}
<1>1. \A id \in DOMAIN nodeMap : nodeMap[id].count \in Nat \ {0}
  BY DEF TypeOK, IsMapOf, Entries, LengthsInv
<1>2. CASE nodeMap = << >>
  BY <1>2 DEF SectionCount, LengthsInv, CountsLongest
<1>3. CASE nodeMap # << >>
  <2>1. PICK id \in DOMAIN nodeMap : Longest(id)
    BY <1>3 DEF LengthsInv
  <2>2. nodeMap[id].count \in S /\ \A y \in S : nodeMap[id].count >= y
    BY <1>1, <2>1 DEF Longest
  <2>3. Max(S) \in S /\ \A y \in S : Max(S) >= y
    BY <2>2 DEF Max
  <2>4. SectionCount = Max(S)
    BY <1>3 DEF SectionCount
  <2> QED
    BY <1>1, <1>3, <2>3, <2>4 DEF CountsLongest
<1> QED
  BY <1>2, <1>3

\* insert(node:in:) grows one length, if any.
LEMMA InsertKeepsLengths ==
  ASSUME IInv, LengthsInv, InsertNext
  PROVE  /\ LengthsInv' /\ DOMAIN nodeMap \subseteq DOMAIN nodeMap' /\ DOMAIN nodeMap' # {}
         /\ \A k \in DOMAIN nodeMap : nodeMap'[k].count >= nodeMap[k].count
<1>1. PICK p \in pending : InsertNode(p[1], p[2])
  BY DEF InsertNext
<1> DEFINE n == p[1]
           c == p[2]
<1>2. n \in Nodes /\ c \in Cells /\ TypeOK
  BY DEF IInv, TypeOK
<1>3. PICK i \in 1 .. Len(ListAt(c)) + 1 : Inserted(n, c, i)
  BY <1>1, <1>2, InsertNodeStep
<1> DEFINE h  == Head(pointMap'[c])
           id == NodeID(h)
           U  == Uncover(nodeMap, ListAt(c), c)
<1>4. nodeMap' = Cover(U, h, c)
  BY <1>3 DEF Inserted
<1>5. /\ DOMAIN U = DOMAIN nodeMap
      /\ \A k \in DOMAIN nodeMap : U[k].count = nodeMap[k].count
  BY <1>2, UncoverProperties DEF TypeOK
<1>6. \A k \in DOMAIN nodeMap : nodeMap[k].count \in Nat \ {0}
  BY <1>2 DEF TypeOK, IsMapOf, Entries, LengthsInv
<1>7. c.section \in Nat
  BY <1>2 DEF Cells
<1> HIDE DEF n, c, h, U
<1>8. /\ DOMAIN nodeMap' = DOMAIN nodeMap \cup {id}
      /\ \A k \in DOMAIN nodeMap : k # id => nodeMap'[k].count = nodeMap[k].count
      /\ nodeMap'[id].count > 0 /\ nodeMap'[id].count \in Nat
      /\ id \in DOMAIN nodeMap => nodeMap'[id].count >= nodeMap[id].count
  BY <1>4, <1>5, <1>6, <1>7 DEF Cover
<1> HIDE DEF id
<1>9. nodeMap' # << >>
  <2>1. DOMAIN << >> = {}
    OBVIOUS
  <2> QED
    BY <1>8, <2>1
<1>10. \E k \in DOMAIN nodeMap' : Longest(k)'
  <2>1. CASE \A k \in DOMAIN nodeMap' : nodeMap'[k].count <= nodeMap'[id].count
    BY <1>8, <2>1 DEF Longest
  <2>2. CASE ~\A k \in DOMAIN nodeMap' : nodeMap'[k].count <= nodeMap'[id].count
    <3>1. PICK k \in DOMAIN nodeMap' : ~(nodeMap'[k].count <= nodeMap'[id].count)
      BY <2>2
    <3>2. k \in DOMAIN nodeMap /\ k # id
      BY <1>6, <1>8, <3>1
    <3>3. PICK l \in DOMAIN nodeMap : Longest(l)
      BY <3>2 DEF LengthsInv
    <3>4. l # id \/ nodeMap'[l].count >= nodeMap[l].count
      BY <1>8, <3>3
    <3>5. \A m \in DOMAIN nodeMap' : nodeMap'[m].count <= nodeMap'[l].count
      <4>1. nodeMap[k].count <= nodeMap[l].count /\ nodeMap'[k].count = nodeMap[k].count
        BY <1>8, <3>2, <3>3 DEF Longest
      <4>2. nodeMap'[l].count \in Nat /\ nodeMap'[l].count >= nodeMap[l].count /\ nodeMap[l].count \in Nat
        BY <1>6, <1>8, <3>3
      <4>3. nodeMap'[id].count <= nodeMap'[l].count
        BY <1>6, <1>8, <3>1, <3>2, <4>1, <4>2
      <4>4. \A m \in DOMAIN nodeMap : m # id => nodeMap'[m].count <= nodeMap'[l].count
        BY <1>6, <1>8, <3>3, <4>2 DEF Longest
      <4> QED
        BY <1>8, <4>3, <4>4
    <3> QED
      BY <1>8, <3>3, <3>5 DEF Longest
  <2> QED
    BY <2>1, <2>2
<1>11. \A k \in DOMAIN nodeMap' : nodeMap'[k].count > 0
  BY <1>6, <1>8
<1> QED
  BY <1>6, <1>8, <1>9, <1>10, <1>11 DEF LengthsInv

\* Every other step of FinalMap leaves nodeMap alone.
LEMMA OnlyInsertionsWrite ==
  ASSUME [FinalNext]_allVars, ~InsertPosition
  PROVE  nodeMap' = nodeMap
BY DEF FinalNext, BeginInsert, BeginCourse, InsertCourse, EndInsert, SetOwner, SetSno, ReadFinal,
       allVars, vars

\* Some entry is the longest, and none is empty: Cover grows the array of a
\* node past the section of the position it gains.
LEMMA LengthsInductive ==
  /\ FinalInit => LengthsInv
  /\ IInv /\ LengthsInv /\ [FinalNext]_allVars => LengthsInv'
<1>1. ASSUME FinalInit PROVE LengthsInv
  <2>1. nodeMap = << >> /\ DOMAIN << >> = {}
    BY <1>1 DEF FinalInit, Init
  <2> QED
    BY <2>1 DEF LengthsInv
<1>2. ASSUME IInv, LengthsInv, [FinalNext]_allVars PROVE LengthsInv'
  <2>1. CASE InsertPosition
    BY <1>2, <2>1, InsertKeepsLengths DEF InsertPosition
  <2>2. CASE ~InsertPosition
    BY <1>2, <2>2, OnlyInsertionsWrite DEF LengthsInv, Longest
  <2> QED
    BY <2>1, <2>2
<1> QED
  BY <1>1, <1>2

\* What insert(item:) leaves in startDate and nowWeek are dates and numbers.
LEMMA WeekIsInt ==
  ASSUME Loop, EndInsert, nowWeek \in Int
  PROVE  nowWeek' \in Int /\ (startDate \in Int \cup {NoDate} => startDate' \in Int \cup {NoDate})
<1>1. item \in Items /\ Today \in Int /\ item.start \in Int \cup {NoDate}
  BY FinalMapAssumption DEF EndInsert, Loop, ItemAssumption
<1>2. \A from \in Int : NowWeek(from, Today) \in Int
  BY <1>1 DEF NowWeek, WeeksBetween
<1>3. (IF item.start = NoDate THEN Today ELSE item.start) \in Int
  BY <1>1
<1> QED
  BY <1>1, <1>2, <1>3 DEF EndInsert

\* sections and finalRange keep in step: only the getter writes them, both at once.
LEMMA SectionsInductive ==
  /\ FinalInit => SectionsInv
  /\ SectionsInv /\ Loop /\ TypeOK /\ LengthsInv /\ [FinalNext]_allVars => SectionsInv'
<1>1. ASSUME FinalInit PROVE SectionsInv
  <2>1. sections = 0 /\ nowWeek = 0 /\ finalRange = << SectionModel >>
    BY <1>1 DEF FinalInit
  <2>2. DOMAIN finalRange = 1 .. 1 /\ Len(finalRange) = 1
    BY <2>1
  <2> QED
    BY <2>1, <2>2 DEF SectionsInv
<1>2. ASSUME SectionsInv, Loop, TypeOK, LengthsInv, [FinalNext]_allVars PROVE SectionsInv'
  <2>1. CASE UNCHANGED << sections, nowWeek, finalRange >>
    BY <1>2, <2>1 DEF SectionsInv
  <2>2. CASE EndInsert
    <3>1. sections' = sections /\ finalRange' = finalRange
      BY <2>2 DEF EndInsert
    <3> QED
      BY <1>2, <2>2, <3>1, WeekIsInt DEF SectionsInv
  <2>3. CASE ReadFinal
    <3> DEFINE n == IF nodeMap = << >> THEN 0 ELSE SectionCount + 1
               model == [i \in 1 .. n |-> [startDate |-> DateOf(i - 1), values |-> Values(i - 1)]]
    <3>1. SectionCount \in Nat /\ n \in Nat
      BY <1>2, SectionCountIsLongest DEF CountsLongest
    <3>2. sections' = SectionCount /\ nowWeek' = nowWeek /\ finalRange' = model
      BY <2>3 DEF ReadFinal
    <3>3. DOMAIN model = 1 .. n /\ Len(model) = n
      BY <3>1
    <3>4. n = 0 => model = << >>
      <4> SUFFICES ASSUME n = 0 PROVE model = << >>
        OBVIOUS
      <4>1. model \in Seq({[startDate |-> DateOf(i - 1), values |-> Values(i - 1)] : i \in 1 .. n})
        BY <3>1
      <4> HIDE DEF model
      <4> QED
        BY <3>3, <4>1, EmptySeq
    <3>5. n = 0 \/ n = sections' + 1
      BY <3>2
    <3> HIDE DEF n, model
    <3> QED
      BY <1>2, <3>1, <3>2, <3>3, <3>4, <3>5 DEF SectionsInv
  <2>4. CASE \E it \in Items : BeginInsert(it)
    BY <2>1, <2>4 DEF BeginInsert
  <2>5. CASE BeginCourse
    BY <2>1, <2>5 DEF BeginCourse
  <2>6. CASE InsertPosition
    BY <2>1, <2>6 DEF InsertPosition
  <2>7. CASE \E s \in Owners : SetOwner(s)
    BY <2>1, <2>7 DEF SetOwner, finalVars
  <2>8. CASE UNCHANGED allVars
    BY <2>1, <2>8 DEF allVars, finalVars
  <2> QED
    BY <1>2, <2>2, <2>3, <2>4, <2>5, <2>6, <2>7, <2>8 DEF FinalNext
<1> QED
  BY <1>1, <1>2

\* At any time, between an insertion and the next read of final as well, sections is
\* the last index of finalRange, and the number of sections the timetable needs is the
\* length of the longest array of nodeMap.
THEOREM SectionsInvariance == FinalSpec => [](IInv /\ Loop /\ LengthsInv /\ CountsLongest /\ SectionsInv)
<1>1. IInv => TypeOK
  BY DEF IInv
<1>2. TypeOK /\ LengthsInv => CountsLongest
  BY SectionCountIsLongest
<1> QED
  BY <1>1, <1>2, SubclassInvariant, LoopInductive, LengthsInductive, SectionsInductive, PTL DEF FinalSpec

\* showWeek never leaves the model the view was last given, insertions and
\* dates notwithstanding.
THEOREM ShowWeekIsDrawn == FinalSpec => []ShowWeekDrawn
<1>1. SectionsInv => ShowWeekDrawn
  BY DEF SectionsInv, ShowWeekDrawn, ShowWeek
<1> QED
  BY <1>1, SectionsInvariance, PTL

\* As far as the number of sections goes, the getter of final with its cache and
\* the insertions that reset it implement MapSections.
THEOREM SectionsRefinement == FinalSpec => ImplementsSections
<1>1. FinalInit => Sections!SectionsInit
  BY DEF FinalInit, Init, Sections!SectionsInit, SectionCount
<1>2. ASSUME IInv, LengthsInv, CountsLongest, CountsLongest', IInv', SectionsInv', [FinalNext]_allVars
      PROVE  [Sections!SectionsNext]_(Sections!sectionVars)
  <2>1. CASE UNCHANGED << nodeMap, sections, finalRange, useImmediate >>
    <3>1. SectionCount' = SectionCount
      BY <2>1, ValuesDependOnNodeMap
    <3>2. Len(finalRange)' = Len(finalRange)
      BY <2>1
    <3> QED
      BY <2>1, <3>1, <3>2 DEF Sections!sectionVars
  <2>2. CASE InsertPosition
    <3>1. TypeOK
      BY <1>2 DEF IInv
    <3>2. UNCHANGED << sections, finalRange >> /\ useImmediate' = FALSE /\ InsertNext
      BY <2>2 DEF InsertPosition
    <3>3. /\ SectionCount' \in Nat /\ nodeMap' # << >>
          /\ \A id \in DOMAIN nodeMap' : nodeMap'[id].count <= SectionCount'
          /\ SectionCount' = 0 <=> nodeMap' = << >>
      <4>1. DOMAIN nodeMap' # {} /\ DOMAIN << >> = {}
        BY <1>2, <3>2, InsertKeepsLengths
      <4>2. nodeMap' # << >>
        BY <4>1
      <4> QED
        BY <1>2, <4>2 DEF CountsLongest
    <3>4. SectionCount' >= SectionCount
      <4>1. CASE nodeMap = << >>
        BY <1>2, <3>3, <4>1 DEF CountsLongest
      <4>2. CASE nodeMap # << >>
        <5>1. PICK id \in DOMAIN nodeMap : SectionCount = nodeMap[id].count
          BY <1>2, <4>2 DEF CountsLongest
        <5>2. id \in DOMAIN nodeMap' /\ nodeMap'[id].count >= nodeMap[id].count
          BY <1>2, <3>2, InsertKeepsLengths
        <5>3. nodeMap[id].count \in Nat /\ nodeMap'[id].count <= SectionCount'
          BY <3>1, <3>3, <5>2 DEF TypeOK, IsMapOf, Entries
        <5>4. nodeMap'[id].count \in Nat
          BY <1>2, <5>2 DEF IInv, TypeOK, IsMapOf, Entries
        <5> QED
          BY <3>3, <5>1, <5>2, <5>3, <5>4
      <4> QED
        BY <4>1, <4>2
    <3>5. Sections!Grow
      BY <3>2, <3>3, <3>4 DEF Sections!Grow
    <3> QED
      BY <3>5 DEF Sections!SectionsNext
  <2>3. CASE ReadFinal
    <3>1. nodeMap' = nodeMap /\ sections' = SectionCount /\ ~useImmediate /\ useImmediate' = TRUE
      BY <2>3 DEF ReadFinal, vars
    <3>2. SectionCount' = SectionCount
      BY <3>1, ValuesDependOnNodeMap
    <3>3. DOMAIN finalRange' = 1 .. (IF nodeMap = << >> THEN 0 ELSE SectionCount + 1)
      BY <2>3 DEF ReadFinal
    <3>4. SectionCount \in Nat /\ (SectionCount = 0 <=> nodeMap = << >>)
      BY <1>2 DEF CountsLongest
    <3>5. Len(finalRange') = IF SectionCount = 0 THEN 0 ELSE SectionCount + 1
      <4>1. PICK n \in Nat : DOMAIN finalRange' = 1 .. n /\ Len(finalRange') = n
        BY <1>2 DEF SectionsInv
      <4> DEFINE m == IF SectionCount = 0 THEN 0 ELSE SectionCount + 1
      <4>2. m \in Nat /\ 1 .. n = 1 .. m
        BY <3>3, <3>4, <4>1
      <4> HIDE DEF m
      <4>3. n = m
        BY <4>2
      <4> QED
        BY <4>1, <4>3 DEF m
    <3>6. Sections!Read
      BY <3>1, <3>2, <3>5 DEF Sections!Read, Sections!Count
    <3> QED
      BY <3>6 DEF Sections!SectionsNext
  <2>4. CASE \E it \in Items : BeginInsert(it)
    BY <2>1, <2>4 DEF BeginInsert, vars
  <2>5. CASE BeginCourse
    BY <2>1, <2>5 DEF BeginCourse, InsertCourse
  <2>6. CASE EndInsert
    BY <2>1, <2>6 DEF EndInsert, vars
  <2>7. CASE \E s \in Owners : SetOwner(s)
    BY <2>1, <2>7 DEF SetOwner, SetSno, finalVars
  <2>8. CASE UNCHANGED allVars
    BY <2>1, <2>8 DEF allVars, vars, finalVars
  <2> QED
    BY <1>2, <2>2, <2>3, <2>4, <2>5, <2>6, <2>7, <2>8 DEF FinalNext
<1> QED
  BY <1>1, <1>2, SectionsInvariance, PTL DEF FinalSpec, ImplementsSections, Sections!SectionsSpec
=============================================================================
