---------------------------- MODULE ScheduleData ----------------------------
(***************************************************************************)
(* The values a schedule is made of: courses (Course.swift), the keys of   *)
(* their owners (Key.swift), grid positions (Locate.swift) and the nodes   *)
(* that Map.swift files under those positions.                             *)
(***************************************************************************)
EXTENDS Naturals, FiniteSets

CONSTANTS
  Snos,      \* student, teacher and custom numbers
  NoSno,     \* Map.sno == nil
  Courses,   \* the courses that may be inserted
  Keys       \* the keys under which they are inserted

Mine   == 0
Custom == 1
Others == 2
Kinds  == {Mine, Custom, Others}

Specials == {5, 10}          \* SpecialTime.noon and SpecialTime.night

\* Course: "title" stands for courseID, course and classRoom together, the
\* strings that Course.== compares; inPeriod is the half-open Range<Int>.
CourseAssumption ==
  \A c \in Courses :
    /\ DOMAIN c = {"title", "inDay", "inSections", "inPeriod", "inSpecial"}
    /\ c.inDay \in 1 .. 7
    /\ c.inSections \subseteq Nat \ {0}
    /\ c.inPeriod \in [lower : 1 .. 13, upper : 1 .. 13]
    /\ c.inPeriod.lower <= c.inPeriod.upper
    /\ c.inSpecial \subseteq Specials

KeyAssumption ==
  /\ Keys \subseteq [sno : Snos, type : {"student", "teacher", "custom"}]
  /\ NoSno \notin Snos

ASSUME DataAssumption == CourseAssumption /\ KeyAssumption

-----------------------------------------------------------------------------

\* Course.periodCount
PeriodCount(c) == (c.inPeriod.upper - c.inPeriod.lower) + Cardinality(c.inSpecial)

\* What Course.== compares: the sections of a course are not part of it.
CourseID(c) ==
  [title |-> c.title, inDay |-> c.inDay,
   inPeriod |-> c.inPeriod, inSpecial |-> c.inSpecial]

Locations == 1 .. 14
Cells == [section : Nat, week : 1 .. 7, location : Locations]

\* The row of a period: one row below the fourth period and one below the
\* eighth are kept for noon and night.
Row(period) == IF period >= 9 THEN period + 2 ELSE IF period >= 5 THEN period + 1 ELSE period

Periods(c) == c.inPeriod.lower .. (c.inPeriod.upper - 1)

\* Course.locates: every row in each of its sections and in section 0, the
\* section that shows the whole term.
Locates(c) ==
  [section : c.inSections \cup {0}, week : {c.inDay},
   location : {Row(p) : p \in Periods(c)} \cup c.inSpecial]

\* The order in which Course.locates lists positions: periods before specials,
\* section 0 after the others. A Set lists the specials in any order.
Before(a, b) ==
  \/ a.location \notin Specials /\ b.location \in Specials
  \/ a.location \notin Specials /\ b.location \notin Specials /\ a.location < b.location
  \/ a.location = b.location /\ a.section # 0 /\ (b.section = 0 \/ a.section < b.section)

\* Seeded faults: the == that the compiler would synthesise, and one that
\* compares the courses only.
NodeIDOfAllFields(n) == [key |-> n.key, course |-> CourseID(n.value), kind |-> n.kind]
NodeIDOfCourse(n) == [key |-> CHOOSE k \in Keys : TRUE, course |-> CourseID(n.value)]

\* Map.Node and what its == compares: kind is not part of it.
Nodes == [key : Keys, value : Courses, kind : Kinds]
NodeID(n) == [key |-> n.key, course |-> CourseID(n.value)]
NodeIDs == [key : Keys, course : {CourseID(c) : c \in Courses}]
=============================================================================
