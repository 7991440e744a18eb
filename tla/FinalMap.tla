------------------------------ MODULE FinalMap ------------------------------
(***************************************************************************)
(* class FinalMap of FinalMap.swift: Map with the items it was filled from *)
(* and "final", the per-section model the collection view draws, rebuilt   *)
(* from nodeMap on the first read after an insertion and cached in         *)
(* finalRange until the next.                                              *)
(***************************************************************************)
EXTENDS ScheduleMap, TermCalendar

CONSTANTS
  Items,       \* CombineItem: [key, start, values], start in days
  NoItem,
  NoDate,      \* a nil Date
  Today,       \* the day it is
  KeyFetal     \* "double" or "group"

ItemAssumption ==
  /\ \A it \in Items :
       it.key \in Keys /\ it.start \in Int \cup {NoDate} /\ it.values \in Seq(Courses)
  /\ NoItem \notin Items
  /\ NoDate \notin Int
  /\ Today \in Int
  /\ KeyFetal \in {"double", "group"}

ASSUME FinalMapAssumption == ItemAssumption

VARIABLES
  keys,          \* [AnyHashable: CombineItem], by kind or by key
  sections, nowWeek, startDate,
  useImmediate,  \* finalRange is up to date
  finalRange,    \* [SectionModel]; section i is finalRange[i + 1]
  item, left,    \* the item insert(item:) is at, and its courses still to come
  bare           \* history: since the last rebuild an item without positions arrived

finalVars == << keys, sections, nowWeek, startDate, useImmediate, finalRange, item, left, bare >>
allVars == << vars, finalVars >>

SectionModel == [startDate |-> NoDate, values |-> {}]

FinalInit ==
  /\ Init
  /\ keys = << >>
  /\ sections = 0 /\ nowWeek = 0 /\ startDate = NoDate
  /\ useImmediate = FALSE
  /\ finalRange = << SectionModel >>
  /\ item = NoItem /\ left = << >>
  /\ bare = FALSE

-----------------------------------------------------------------------------

NoInsertion == item = NoItem /\ Idle

\* Bound: the item's courses fit under MaxPile.
Fits(it) ==
  \A c \in UNION {Locates(it.values[i]) : i \in DOMAIN it.values} :
    Len(ListAt(c)) + Cardinality({i \in DOMAIN it.values : c \in Locates(it.values[i])}) <= MaxPile

\* insert(item:), up to the loop over the courses
BeginInsert(it) ==
  /\ NoInsertion
  /\ Fits(it)
  /\ LET slot == IF KeyFetal = "double" THEN Kind(it.key) ELSE it.key
     IN  keys' = [k \in DOMAIN keys \cup {slot} |-> IF k = slot THEN it ELSE keys[k]]
  /\ item' = it
  /\ left' = it.values
  /\ UNCHANGED << vars, sections, nowWeek, startDate, useImmediate, finalRange, bare >>

\* insert(course: value, with: item.key)
BeginCourse ==
  /\ item # NoItem /\ left # << >>
  /\ InsertCourse(Head(left), item.key)
  /\ left' = Tail(left)
  /\ UNCHANGED << keys, sections, nowWeek, startDate, useImmediate, finalRange, item, bare >>

\* Seeded fault: the override does not reset useImmediate.
InsertPositionKept == InsertNext /\ UNCHANGED finalVars

\* The override of insert(node:in:)
InsertPosition ==
  /\ InsertNext
  /\ useImmediate' = FALSE
  /\ UNCHANGED << keys, sections, nowWeek, startDate, finalRange, item, left, bare >>

\* The end of insert(item:): a custom item keeps the date of the other one.
EndInsert ==
  /\ item # NoItem /\ Idle /\ left = << >>
  /\ IF item.key.type = "custom"
     THEN UNCHANGED << startDate, nowWeek >>
     ELSE /\ startDate' = item.start
          /\ nowWeek' = NowWeek(IF item.start = NoDate THEN Today ELSE item.start, Today)
  /\ item' = NoItem
  /\ bare' = (bare \/ useImmediate)
  /\ UNCHANGED << vars, keys, sections, useImmediate, finalRange, left >>

SetOwner(s) == item = NoItem /\ SetSno(s) /\ UNCHANGED finalVars

\* Seeded fault: runs that begin inside a longer one.
RunsToTheEnd(S) ==
  {r \in [lower : S, upper : {x + 1 : x \in S}] :
     /\ r.lower < r.upper
     /\ r.lower .. (r.upper - 1) \subseteq S
     /\ r.upper \notin S}

\* IndexSet.rangeView: the maximal runs of a set of locations
Runs(S) ==
  {r \in [lower : S, upper : {x + 1 : x \in S}] :
     /\ r.lower < r.upper
     /\ r.lower .. (r.upper - 1) \subseteq S
     /\ r.lower - 1 \notin S /\ r.upper \notin S}

\* The index set nodeMap[id][s]
Rows(id, s) == {at[2] : at \in {p \in nodeMap[id].cover : p[1] = s}}

\* Seeded fault: sections is the last index instead of the number.
SectionCountFromZero ==
  IF nodeMap = << >> THEN 0 - 1 ELSE Max({nodeMap[id].count : id \in DOMAIN nodeMap}) - 1

\* The getter "final": a rebuild when an insertion made it necessary.
SectionCount == IF nodeMap = << >> THEN 0 ELSE Max({nodeMap[id].count : id \in DOMAIN nodeMap})

Values(s) ==
  UNION {{[model |-> nodeMap[id].model, locates |-> r] : r \in Runs(Rows(id, s))} :
           id \in {k \in DOMAIN nodeMap : s < nodeMap[k].count}}

DateOf(s) == IF s = 0 \/ startDate = NoDate THEN NoDate ELSE SectionDate(startDate, s)

\* Seeded fault: the dates start one week late.
ReadFinalLate ==
  /\ NoInsertion
  /\ ~useImmediate
  /\ useImmediate' = TRUE
  /\ sections' = SectionCount
  /\ finalRange' = [i \in 1 .. (IF nodeMap = << >> THEN 0 ELSE SectionCount + 1) |->
                      [startDate |-> DateOf(i), values |-> Values(i - 1)]]
  /\ bare' = FALSE
  /\ UNCHANGED << vars, keys, nowWeek, startDate, item, left >>

\* Seeded fault: finalRange.count < sections.
ReadFinalShort ==
  /\ NoInsertion
  /\ ~useImmediate
  /\ useImmediate' = TRUE
  /\ sections' = SectionCount
  /\ finalRange' = [i \in 1 .. SectionCount |->
                      [startDate |-> DateOf(i - 1), values |-> Values(i - 1)]]
  /\ bare' = FALSE
  /\ UNCHANGED << vars, keys, nowWeek, startDate, item, left >>

ReadFinal ==
  /\ NoInsertion
  /\ ~useImmediate
  /\ useImmediate' = TRUE
  /\ sections' = SectionCount
  /\ finalRange' = [i \in 1 .. (IF nodeMap = << >> THEN 0 ELSE SectionCount + 1) |->
                      [startDate |-> DateOf(i - 1), values |-> Values(i - 1)]]
  /\ bare' = FALSE
  /\ UNCHANGED << vars, keys, nowWeek, startDate, item, left >>

FinalNext ==
  \/ \E it \in Items : BeginInsert(it)
  \/ BeginCourse
  \/ InsertPosition
  \/ EndInsert
  \/ \E s \in Owners : SetOwner(s)
  \/ ReadFinal

FinalSpec == FinalInit /\ [][FinalNext]_allVars

\* Seeded fault: the week is not cut down to the sections there are.
ShowWeekUncut == IF nowWeek < 0 THEN 0 ELSE nowWeek

ShowWeek == IF nowWeek < 0 THEN 0 ELSE IF nowWeek < sections THEN nowWeek ELSE sections

-----------------------------------------------------------------------------

\* Types of FinalMap's own variables.
FinalTypeOK ==
  /\ TypeOK
  /\ IsMapOf(keys, IF KeyFetal = "double" THEN Kinds ELSE Keys, Items)
  /\ sections \in Nat /\ nowWeek \in Int /\ startDate \in Int \cup {NoDate}
  /\ useImmediate \in BOOLEAN /\ bare \in BOOLEAN
  /\ item \in Items \cup {NoItem} /\ left \in Seq(Courses)
  /\ \A i \in DOMAIN finalRange :
       /\ finalRange[i].startDate \in Int \cup {NoDate}
       /\ \A v \in finalRange[i].values :
            v.model \in Nodes /\ v.locates \in [lower : Locations, upper : Locations \cup {15}]

\* Whenever the cached model is declared up to date it is what a rebuild would
\* give: no insertion, however it interleaves with reads, leaves it stale.
CacheCoherent ==
  useImmediate =>
    /\ sections = SectionCount
    /\ DOMAIN finalRange = 1 .. (IF nodeMap = << >> THEN 0 ELSE sections + 1)
    /\ \A i \in DOMAIN finalRange : finalRange[i].values = Values(i - 1)

\* What the collection view is given is a partition of the timetable: every
\* occupied position is drawn by exactly one item, that of the node that is
\* first there, and an item draws nothing else.
ItemsAt(c) ==
  {v \in finalRange[c.section + 1].values :
     v.model.value.inDay = c.week /\ c.location \in v.locates.lower .. v.locates.upper - 1}

DrawnOnce ==
  useImmediate =>
    /\ \A c \in DOMAIN pointMap :
         /\ c.section + 1 \in DOMAIN finalRange
         /\ \E v \in ItemsAt(c) :
              ItemsAt(c) = {v} /\ NodeID(v.model) = NodeID(Head(pointMap[c]))
    /\ \A i \in DOMAIN finalRange : \A v \in finalRange[i].values :
         \A l \in v.locates.lower .. v.locates.upper - 1 :
           [section |-> i - 1, week |-> v.model.value.inDay, location |-> l] \in DOMAIN pointMap

\* The dates of the cached model are those of the current start date, one week
\* apart, unless an item without positions changed the start date after the
\* rebuild: only insert(node:in:) resets useImmediate.
DatesFresh ==
  useImmediate /\ ~bare =>
    \A i \in DOMAIN finalRange : finalRange[i].startDate = DateOf(i - 1)

\* showWeek is a section of the model the view was last given, also between an
\* insertion and the rebuild, when sections still counts the old one.
ShowWeekDrawn == finalRange # << >> => ShowWeek + 1 \in DOMAIN finalRange

\* As far as sections go the view may take FinalMap for MapSections.
Sections == INSTANCE MapSections WITH grown <- SectionCount, count <- Len(finalRange)

ImplementsSections == Sections!SectionsSpec
=============================================================================
