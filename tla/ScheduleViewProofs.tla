------------------------ MODULE ScheduleViewProofs --------------------------
(***************************************************************************)
(* The calendar arithmetic, for every day and every term that opens on a   *)
(* Monday; then the invariants of ScheduleView, for any schedules, any     *)
(* number of padded sections and any days: they follow from one inductive  *)
(* invariant, in three parts that different actions disturb.               *)
(***************************************************************************)
EXTENDS ScheduleView, TLAPS

\* The Monday on or before a day.
LEMMA Weeks ==
  ASSUME NEW day \in Int
  PROVE  /\ MondayOf(day) \in Int /\ IsMonday(MondayOf(day))
         /\ MondayOf(day) <= day /\ day < MondayOf(day) + 7
BY DEF MondayOf, IsMonday

\* But for Sundays, the two kinds of week begin a day apart.
LEMMA SundayWeeks ==
  ASSUME NEW day \in Int, ~IsSunday(day)
  PROVE  SundayOf(day) + 1 = MondayOf(day)
BY DEF MondayOf, SundayOf, IsSunday

\* From Monday to Monday there are whole weeks.
LEMMA WholeWeeks ==
  ASSUME NEW a \in Int, NEW b \in Int, IsMonday(a), IsMonday(b)
  PROVE  7 * ((a - b) \div 7) = a - b
BY DEF IsMonday

\* From the week that the server gives on one day, setEXP on another finds the
\* opening of the term too late by as much as the Monday of its gregorian week comes
\* after that of the server's week.
THEOREM SetEXPOfAnswer ==
  ASSUME NEW opening \in Int, IsMonday(opening), NEW served \in Int, NEW day \in Int
  PROVE  SetEXP(day, ServerWeek(opening, served)) = opening + (SundayOf(day) + 1 - MondayOf(served))
<1> DEFINE q == (MondayOf(served) - opening) \div 7
<1>1. MondayOf(served) \in Int /\ IsMonday(MondayOf(served))
  BY Weeks
<1>2. 7 * q = MondayOf(served) - opening /\ q \in Int
  BY <1>1, WholeWeeks DEF IsMonday
<1>3. SundayOf(day) \in Int
  BY DEF SundayOf
<1>4. SetEXP(day, q + 1) = SundayOf(day) - 7 * q + 1
  BY <1>2, <1>3 DEF SetEXP
<1>5. ServerWeek(opening, served) = q + 1
  BY DEF ServerWeek
<1> HIDE DEF q
<1> QED
  BY <1>1, <1>2, <1>3, <1>4, <1>5

\* On all days but Sundays, setEXP finds the opening of the term from a week number
\* that the server gave in the same week.
THEOREM SetEXPFindsOpening ==
  ASSUME NEW opening \in Int, IsMonday(opening), NEW served \in Int, NEW day \in Int,
         MondayOf(served) = MondayOf(day), ~IsSunday(day)
  PROVE  SetEXP(day, ServerWeek(opening, served)) = opening
<1>1. SundayOf(day) + 1 = MondayOf(served)
  BY SundayWeeks
<1>2. MondayOf(served) \in Int /\ SundayOf(day) \in Int
  BY Weeks DEF SundayOf
<1>3. SetEXP(day, ServerWeek(opening, served)) = opening + (SundayOf(day) + 1 - MondayOf(served))
  BY SetEXPOfAnswer
<1> QED
  BY <1>1, <1>2, <1>3

\* On Sundays, the first day of a week of the gregorian calendar and the last of a
\* week of the term, it finds a day one week late.
THEOREM SetEXPOnSundays ==
  ASSUME NEW opening \in Int, IsMonday(opening), NEW served \in Int, NEW day \in Int,
         MondayOf(served) = MondayOf(day), IsSunday(day)
  PROVE  SetEXP(day, ServerWeek(opening, served)) = opening + 7
<1>1. SundayOf(day) = MondayOf(day) + 6
  BY DEF SundayOf, IsSunday, MondayOf
<1>2. MondayOf(day) \in Int
  BY Weeks
<1> QED
  BY <1>1, <1>2, SetEXPOfAnswer

\* An answer that the server made on a Sunday and that is handled on the Monday
\* after it dates the term one week late as well.
THEOREM SetEXPAfterMidnight ==
  ASSUME NEW opening \in Int, IsMonday(opening), NEW served \in Int, IsSunday(served)
  PROVE  SetEXP(served + 1, ServerWeek(opening, served)) = opening + 7
<1>1. SundayOf(served + 1) = MondayOf(served) + 6
  BY DEF SundayOf, IsSunday, MondayOf
<1>2. MondayOf(served) \in Int
  BY Weeks
<1>3. served + 1 \in Int
  OBVIOUS
<1>4. SetEXP(served + 1, ServerWeek(opening, served))
        = opening + (SundayOf(served + 1) + 1 - MondayOf(served))
  BY <1>3, SetEXPOfAnswer
<1> QED
  BY <1>1, <1>2, <1>4

\* With the right start, the week that insert(item:) computes is the server's.
LEMMA NowWeekIsServerWeek ==
  ASSUME NEW opening \in Int, IsMonday(opening), NEW day \in Int, day >= opening
  PROVE  NowWeek(opening, day) = ServerWeek(opening, day)
<1>1. (day - opening) \div 7 = (MondayOf(day) - opening) \div 7
  BY DEF MondayOf, IsMonday
<1> QED
  BY <1>1, Weeks DEF NowWeek, WeeksBetween, ServerWeek

\* From any Monday, reset(_:value:) finds the same weekday of that week.
LEMMA SameWeekday ==
  ASSUME NEW monday \in Int, IsMonday(monday), NEW day \in Int
  PROVE  NextOnWeekdayOf(monday, day) = day + (monday - MondayOf(day))
BY DEF NextOnWeekdayOf, IsMonday, MondayOf
-----------------------------------------------------------------------------

\* The map and the layout: what was read is the timetable until it grows, and
\* the layout has the sections of the last read, padded.
SectionsInv ==
  /\ sections <= grown
  /\ useImmediate => sections = grown
  /\ ~reload => useImmediate /\ layoutSections # 0
  /\ layoutSections = 0 => sections = 0 /\ ~useImmediate
  /\ layoutSections # 0 =>
       /\ count = IF sections = 0 THEN 0 ELSE sections + 1
       /\ layoutSections >= count /\ layoutSections >= MinSections
       /\ layoutSections = count \/ layoutSections = MinSections
  /\ ~alive => count < layoutSections

\* The dates: every start comes from setEXP on the day its answer was handled.
FromAnswer(a) == a # NoAnswer => a.start = SetEXP(a.day, a.week)

DatesInv ==
  /\ FromAnswer(last) /\ FromAnswer(decisive) /\ FromAnswer(drawn)
  /\ decisive # NoAnswer => inserted \in Days /\ nowWeek = NowWeek(start, inserted)

\* The offset: the lock for vertical drags holds x where the drag began; without
\* one the height is that of its beginning; what moves the offset leads to a page
\* near the one where the drag began, or to where scroll(to:) should lead.
Near(p) == p \in pageCalculation - 1 .. pageCalculation + 1

ScrollInv ==
  /\ layoutSections = 0 => x = 0 /\ startX = 0 /\ target = 0 /\ phase \in {"rest", "animate"}
  /\ layoutSections # 0 => startX <= 2 * (layoutSections - 1) /\ target <= layoutSections - 1
  /\ direction = 1 => x = startX
  /\ gesture # 1 => direction # 1 /\ y = startY
  /\ phase \in {"drag", "glide"} => aim = NoAim
  /\ phase = "glide" => Near(target)
  /\ phase = "animate" => aim # NoAim /\ (aim.read => target = aim.section)

RestInv ==
  phase = "rest" =>
    /\ x % 2 = 0 \/ x = startX
    /\ aim = NoAim => x = startX \/ (x % 2 = 0 /\ Near(x \div 2))
    /\ aim # NoAim /\ aim.read /\ gesture # 1 => x = 2 * aim.section

ViewInv == ViewTypeOK /\ SectionsInv /\ DatesInv /\ ScrollInv /\ RestInv

-----------------------------------------------------------------------------

\* max(_:_:)
LEMMA MaxOfTwo ==
  ASSUME NEW a \in Int, NEW b \in Int
  PROVE  Max({a, b}) = IF a >= b THEN a ELSE b
BY DEF Max

\* min(_:_:)
LEMMA MinOfTwo ==
  ASSUME NEW a \in Int, NEW b \in Int
  PROVE  Min({a, b}) = IF a <= b THEN a ELSE b
BY DEF Min

\* The view before its first layout.
LEMMA InitView == ViewInit => ViewInv
<1> SUFFICES ASSUME ViewInit PROVE ViewInv
  OBVIOUS
<1> USE ViewAssumption DEF ViewInit, SectionsInit, NoAnswer
<1>1. ViewTypeOK
  <2>1. MapTypeOK
    BY DEF MapTypeOK
  <2>2. DatesTypeOK
    <3>1. today \in Days
      BY DEF Days
    <3>2. last = NoAnswer /\ decisive = NoAnswer /\ drawn = NoAnswer /\ start = decisive.start
      OBVIOUS
    <3>3. longest = 0 /\ nowWeek \in Int /\ asked \in Days /\ asked <= today
      BY DEF Days
    <3>4. batch \in BOOLEAN
      OBVIOUS
    <3>5. pending \subseteq Attributes
      OBVIOUS
    <3>6. inserted \in Days \cup {NoDate}
      OBVIOUS
    <3> QED
      BY <3>1, <3>2, <3>3, <3>4, <3>5, <3>6 DEF DatesTypeOK
  <2>3. ScrollTypeOK
    BY DEF ScrollTypeOK
  <2> QED
    BY <2>1, <2>2, <2>3 DEF ViewTypeOK
<1>2. SectionsInv /\ DatesInv
  BY DEF SectionsInv, DatesInv, FromAnswer
<1>3. ScrollInv /\ RestInv
  BY DEF ScrollInv, RestInv
<1> QED
  BY <1>1, <1>2, <1>3 DEF ViewInv
-----------------------------------------------------------------------------

\* The offset is not touched by what happens to the map and to the dates.
LEMMA ScrollFrame ==
  ASSUME ScrollTypeOK, ScrollInv, RestInv, UNCHANGED << scrollVars, layoutSections >>
  PROVE  ScrollTypeOK' /\ ScrollInv' /\ RestInv'
<1>1. ScrollTypeOK'
  BY DEF ScrollTypeOK, scrollVars
<1>2. ScrollInv' /\ RestInv'
  BY DEF ScrollInv, RestInv, Near, scrollVars
<1> QED
  BY <1>1, <1>2

\* Midnight changes nothing but the day.
LEMMA NextDayKeeps == ViewInv /\ NextDay => ViewInv'
<1> SUFFICES ASSUME ViewInv, NextDay PROVE ViewInv'
  OBVIOUS
<1> USE DEF ViewInv, ViewTypeOK
<1>1. MapTypeOK' /\ SectionsInv'
  BY DEF NextDay, sectionVars, MapTypeOK, SectionsInv
<1>2. today' \in Days
  BY ViewAssumption DEF NextDay, DatesTypeOK, Days
<1>3. DatesTypeOK'
  BY <1>2 DEF NextDay, DatesTypeOK, NoAnswer
<1>4. DatesInv'
  BY DEF NextDay, DatesInv, FromAnswer, NoAnswer
<1>5. ScrollTypeOK' /\ ScrollInv' /\ RestInv'
  BY ScrollFrame DEF NextDay
<1> QED
  BY <1>1, <1>3, <1>4, <1>5

\* A request that begins forgets the answers of the one before.
LEMMA BeginRequestKeeps == ViewInv /\ BeginRequest => ViewInv'
<1> SUFFICES ASSUME ViewInv, BeginRequest PROVE ViewInv'
  OBVIOUS
<1> USE DEF ViewInv, ViewTypeOK
<1>1. MapTypeOK' /\ SectionsInv'
  BY DEF BeginRequest, sectionVars, MapTypeOK, SectionsInv
<1>2. DatesTypeOK'
  BY ViewAssumption DEF BeginRequest, DatesTypeOK, NoAnswer, Days
<1>3. DatesInv'
  BY DEF BeginRequest, DatesInv, FromAnswer, NoAnswer
<1>4. ScrollTypeOK' /\ ScrollInv' /\ RestInv'
  BY ScrollFrame DEF BeginRequest
<1> QED
  BY <1>1, <1>2, <1>3, <1>4

\* A failure brings nothing.
LEMMA AnswerFailureKeeps ==
  ASSUME NEW a \in Attributes, ViewInv, AnswerFailure(a)
  PROVE  ViewInv'
<1> USE DEF ViewInv, ViewTypeOK
<1>1. MapTypeOK' /\ SectionsInv'
  BY DEF AnswerFailure, sectionVars, MapTypeOK, SectionsInv
<1>2. DatesTypeOK'
  BY DEF AnswerFailure, DatesTypeOK, NoAnswer
<1>3. DatesInv'
  BY DEF AnswerFailure, DatesInv, FromAnswer, NoAnswer
<1>4. ScrollTypeOK' /\ ScrollInv' /\ RestInv'
  BY ScrollFrame DEF AnswerFailure
<1> QED
  BY <1>1, <1>2, <1>3, <1>4

\* An answer brings a start that setEXP found on the day it was handled, from what
\* the server said since the request was sent.
LEMMA AnswerKeeps ==
  ASSUME NEW a \in Attributes, NEW served \in asked .. today, NEW length \in LengthsSaid(a),
         NEW week \in WeeksSaid(served), ViewInv, Answer(a, served, week, length)
  PROVE  ViewInv'
<1> USE DEF ViewInv, ViewTypeOK
<1>1. MapTypeOK' /\ SectionsInv'
  BY DEF Answer, sectionVars, MapTypeOK, SectionsInv
<1>2. today \in Int /\ asked \in Int /\ served \in Days /\ served <= today
  BY ViewAssumption DEF DatesTypeOK, Days
<1>3. week \in Int
  BY <1>2, ViewAssumption DEF WeeksSaid, ServerWeek, MondayOf, Days
<1>4. SetEXP(today, week) \in Int
  BY <1>2, <1>3 DEF SetEXP, SundayOf
<1>5. length \in Nat
  BY ViewAssumption DEF LengthsSaid
<1>6. longest' \in Nat
  BY <1>5, MaxOfTwo DEF Answer, DatesTypeOK
<1>7. /\ last' \in [start : Int, week : Int, served : Days, day : Days]
      /\ last'.served <= last'.day /\ last' # NoAnswer
  BY <1>2, <1>3, <1>4, ViewAssumption DEF Answer, DatesTypeOK, NoAnswer, Days
<1>8. DatesTypeOK'
  BY <1>6, <1>7 DEF Answer, DatesTypeOK, NoAnswer
<1>9. DatesInv'
  BY DEF Answer, DatesInv, FromAnswer, NoAnswer
<1> QED
  BY <1>1, <1>8, <1>9, ScrollFrame DEF Answer

\* The insertions take the start of the last answer and the week of the day they
\* are made on.
LEMMA RespondKeeps == ViewInv /\ Respond => ViewInv'
<1> SUFFICES ASSUME ViewInv, Respond PROVE ViewInv'
  OBVIOUS
<1> USE DEF ViewInv, ViewTypeOK
<1>1. /\ grown' \in Nat /\ grown' >= grown /\ (useImmediate' => useImmediate /\ grown' = grown)
      /\ useImmediate' \in BOOLEAN
  BY MaxOfTwo DEF Respond, MapTypeOK, DatesTypeOK
<1>2. MapTypeOK' /\ SectionsInv'
  BY <1>1 DEF Respond, MapTypeOK, SectionsInv
<1>3. CASE last = NoAnswer
  <2>1. DatesTypeOK'
    BY <1>3 DEF Respond, DatesTypeOK, NoAnswer
  <2>2. DatesInv'
    BY <1>3 DEF Respond, DatesInv, FromAnswer, NoAnswer
  <2> QED
    BY <2>1, <2>2, <1>2, ScrollFrame DEF Respond
<1>4. CASE last # NoAnswer
  <2>1. last.start \in Int /\ today \in Int
    BY <1>4, ViewAssumption DEF DatesTypeOK, Days, NoAnswer
  <2>2. NowWeek(last.start, today) \in Int
    BY <2>1 DEF NowWeek, WeeksBetween
  <2>3. DatesTypeOK'
    BY <1>4, <2>1, <2>2 DEF Respond, DatesTypeOK, NoAnswer
  <2>4. DatesInv'
    BY <1>4 DEF Respond, DatesInv, FromAnswer, NoAnswer, DatesTypeOK
  <2> QED
    BY <2>3, <2>4, <1>2, ScrollFrame DEF Respond
<1> QED
  BY <1>3, <1>4

\* The layout gets the sections of the map as it is now, never fewer than before.
LEMMA ReloadKeeps == ViewInv /\ Reload => ViewInv'
<1> SUFFICES ASSUME ViewInv, Reload PROVE ViewInv'
  OBVIOUS
<1> USE DEF ViewInv, ViewTypeOK
<1>1. /\ grown' = grown /\ sections' = grown /\ useImmediate' = TRUE
      /\ count' = IF grown = 0 THEN 0 ELSE grown + 1
  BY DEF Reload, Read, Count, sectionVars, MapTypeOK, SectionsInv
<1>2. count' \in Nat
  BY <1>1 DEF MapTypeOK
<1>3. layoutSections' = IF count' >= MinSections THEN count' ELSE MinSections
  BY <1>2, MaxOfTwo, ViewAssumption DEF Reload
<1>4. MapTypeOK' /\ SectionsInv'
  <2>1. layoutSections' \in Nat
    BY <1>2, <1>3, ViewAssumption
  <2>2. MapTypeOK'
    BY <1>1, <1>2, <2>1 DEF Reload, MapTypeOK
  <2>3. SectionsInv'
    BY <1>1, <1>2, <1>3, <2>1, ViewAssumption DEF Reload, MapTypeOK, SectionsInv
  <2> QED
    BY <2>2, <2>3
<1>5. layoutSections' >= layoutSections /\ layoutSections' # 0
  BY <1>1, <1>2, <1>3, ViewAssumption DEF MapTypeOK, SectionsInv
<1>6. ScrollTypeOK'
  BY <1>4, <1>5 DEF Reload, scrollVars, ScrollTypeOK, ScrollInv, MapTypeOK
<1>7. ScrollInv' /\ RestInv'
  BY <1>4, <1>5 DEF Reload, scrollVars, ScrollTypeOK, ScrollInv, RestInv, Near, MapTypeOK
<1>8. DatesTypeOK'
  BY DEF Reload, dateVars, DatesTypeOK, NoAnswer
<1>9. DatesInv'
  BY DEF Reload, dateVars, DatesInv, FromAnswer, NoAnswer
<1> QED
  BY <1>4, <1>6, <1>7, <1>8, <1>9

-----------------------------------------------------------------------------

\* What scrolls leaves the map and the dates alone.
LEMMA MapFrame ==
  ASSUME ViewInv, Still
  PROVE  MapTypeOK' /\ DatesTypeOK' /\ SectionsInv' /\ DatesInv'
<1>1. MapTypeOK' /\ SectionsInv'
  BY DEF ViewInv, ViewTypeOK, Still, sectionVars, MapTypeOK, SectionsInv
<1>2. DatesTypeOK'
  BY DEF ViewInv, ViewTypeOK, Still, dateVars, DatesTypeOK, NoAnswer
<1>3. DatesInv'
  BY DEF ViewInv, Still, dateVars, DatesInv, FromAnswer, NoAnswer
<1> QED
  BY <1>1, <1>2, <1>3

\* A drag records where it begins.
LEMMA BeginDragKeeps == ViewInv /\ BeginDrag => ViewInv'
<1> SUFFICES ASSUME ViewInv, BeginDrag PROVE ViewInv'
  OBVIOUS
<1> USE DEF ViewInv, ViewTypeOK
<1>1. layoutSections' = layoutSections /\ layoutSections # 0 /\ layoutSections \in Nat
  BY DEF BeginDrag, Still, SectionsInv, MapTypeOK
<1>2. ScrollTypeOK'
  BY <1>1 DEF BeginDrag, ScrollTypeOK
<1>3. ScrollInv' /\ RestInv'
  BY <1>1 DEF BeginDrag, ScrollTypeOK, ScrollInv, RestInv
<1> QED
  BY <1>2, <1>3, MapFrame DEF BeginDrag

\* A finger stays within a page of where it began.
LEMMA DragKeeps == ViewInv /\ Drag => ViewInv'
<1> SUFFICES ASSUME ViewInv, Drag PROVE ViewInv'
  OBVIOUS
<1> USE DEF ViewInv, ViewTypeOK
<1>1. layoutSections' = layoutSections /\ layoutSections # 0 /\ layoutSections \in Nat
  BY DEF Drag, Still, SectionsInv, MapTypeOK
<1>2. PICK newX \in {x - 1, x, x + 1}, newY \in {0, 1} :
        /\ 0 <= newX /\ newX <= 2 * (layoutSections - 1)
        /\ \E d \in Locks(newX, newY) : DidScroll(newX, newY, d) /\ gesture' = d
  BY DEF Drag
<1>3. PICK d \in Locks(newX, newY) : DidScroll(newX, newY, d) /\ gesture' = d
  BY <1>2
<1>4. d \in {1, 2}
  BY <1>3 DEF Locks, ScrollTypeOK
<1>5. newX \in Nat
  BY <1>2 DEF ScrollTypeOK
<1>6. ScrollTypeOK'
  BY <1>1, <1>2, <1>3, <1>4, <1>5 DEF Drag, DidScroll, ScrollTypeOK, ScrollInv
<1>7. ScrollInv' /\ RestInv'
  BY <1>1, <1>3, <1>4 DEF Drag, DidScroll, ScrollTypeOK, ScrollInv, RestInv
<1> QED
  BY <1>6, <1>7, MapFrame DEF Drag

\* A drag is let go towards a page next to the one it began on.
LEMMA EndDragKeeps == ViewInv /\ EndDrag => ViewInv'
<1> SUFFICES ASSUME ViewInv, EndDrag PROVE ViewInv'
  OBVIOUS
<1> USE DEF ViewInv, ViewTypeOK
<1>1. layoutSections' = layoutSections /\ layoutSections # 0 /\ layoutSections \in Nat
  BY DEF EndDrag, Still, SectionsInv, MapTypeOK
<1>2. PICK t \in Targets :
        \/ phase' = "glide" /\ target' = t /\ direction' = 0
        \/ x = 2 * t /\ phase' = "rest" /\ UNCHANGED << target, direction >>
  BY DEF EndDrag
<1>3. t \in Nat /\ t <= layoutSections - 1 /\ Near(t)
  BY <1>1 DEF Targets, Pages, Near, ScrollTypeOK
<1>4. ScrollTypeOK'
  BY <1>1, <1>2, <1>3 DEF EndDrag, ScrollTypeOK
<1>5. ScrollInv'
  BY <1>1, <1>2, <1>3 DEF EndDrag, ScrollTypeOK, ScrollInv, Near
<1>6. RestInv'
  BY <1>1, <1>2, <1>3 DEF EndDrag, ScrollTypeOK, ScrollInv, RestInv, Near
<1> QED
  BY <1>4, <1>5, <1>6, MapFrame DEF EndDrag

\* A step towards a page within the content stays within it.
LEMMA TowardsWithin ==
  ASSUME ScrollTypeOK, ScrollInv, layoutSections \in Nat \ {0}
  PROVE  Towards(target) \in Nat /\ Towards(target) <= 2 * (layoutSections - 1)
BY DEF Towards, ScrollTypeOK, ScrollInv

\* A movement stays between where it is and its page, unless it is locked.
LEMMA GlideKeeps == ViewInv /\ Glide => ViewInv'
<1> SUFFICES ASSUME ViewInv, Glide PROVE ViewInv'
  OBVIOUS
<1> USE DEF ViewInv, ViewTypeOK
<1>1. layoutSections' = layoutSections /\ layoutSections \in Nat \ {0}
  BY DEF Glide, Still, SectionsInv, MapTypeOK
<1>2. PICK newX \in {x, Towards(target)}, newY \in IF phase = "glide" THEN {0, 1} ELSE {y} :
        \E d \in Locks(newX, newY) :
          DidScroll(newX, newY, d) /\ gesture' = IF phase = "glide" THEN d ELSE gesture
  BY DEF Glide
<1>3. PICK d \in Locks(newX, newY) :
        DidScroll(newX, newY, d) /\ gesture' = IF phase = "glide" THEN d ELSE gesture
  BY <1>2
<1>4. d \in {1, 2}
  BY <1>3 DEF Locks, ScrollTypeOK
<1>5. newX \in Nat /\ newX <= 2 * (layoutSections - 1) /\ newY \in {0, 1}
  BY <1>1, <1>2, TowardsWithin DEF ScrollTypeOK
<1>6. ScrollTypeOK'
  BY <1>1, <1>3, <1>4, <1>5 DEF Glide, DidScroll, ScrollTypeOK, ScrollInv
<1>7. (gesture # 1 => direction # 1 /\ y = startY)'
  <2>1. CASE phase = "glide"
    BY <2>1, <1>3, <1>4 DEF Glide, DidScroll
  <2>2. CASE phase = "animate" /\ gesture # 1
    BY <2>2, <1>2, <1>3 DEF Glide, DidScroll, Locks, ScrollInv
  <2> QED
    BY <2>1, <2>2, <1>3 DEF Glide
<1>8. ScrollInv'
  BY <1>1, <1>3, <1>4, <1>7 DEF Glide, DidScroll, ScrollTypeOK, ScrollInv, Near
<1>9. RestInv'
  BY DEF Glide, RestInv
<1> QED
  BY <1>6, <1>8, <1>9, MapFrame DEF Glide

\* A movement ends on its page, or where the lock holds it.
LEMMA EndGlideKeeps == ViewInv /\ EndGlide => ViewInv'
<1> SUFFICES ASSUME ViewInv, EndGlide PROVE ViewInv'
  OBVIOUS
<1> USE DEF ViewInv, ViewTypeOK
<1>1. layoutSections' = layoutSections
  BY DEF EndGlide, Still
<1>2. ScrollTypeOK'
  BY <1>1 DEF EndGlide, ScrollTypeOK
<1>3. ScrollInv'
  BY <1>1 DEF EndGlide, ScrollTypeOK, ScrollInv
<1>4. x = startX \/ (x = 2 * target /\ x % 2 = 0 /\ x \div 2 = target)
  BY DEF EndGlide, ScrollTypeOK, ScrollInv
<1>5. RestInv'
  BY <1>4 DEF EndGlide, ScrollTypeOK, ScrollInv, RestInv, Near
<1> QED
  BY <1>2, <1>3, <1>5, MapFrame DEF EndGlide

\* scroll(to:) aims at a section of the map, or goes there at once.
LEMMA ScrollToKeeps ==
  ASSUME NEW s \in Nat, NEW animated \in BOOLEAN, ViewInv, ScrollTo(s, animated)
  PROVE  ViewInv'
<1> USE DEF ViewInv, ViewTypeOK
<1> DEFINE section == Min({s, sections})
<1>1. section = IF s <= sections THEN s ELSE sections
  BY MinOfTwo DEF MapTypeOK
<1>2. aim' = [section |-> IF s <= grown THEN s ELSE grown, read |-> useImmediate]
  BY MinOfTwo DEF ScrollTo, MapTypeOK
<1>3. /\ layoutSections' = layoutSections /\ layoutSections \in Nat
      /\ section \in Nat
      /\ layoutSections = 0 => section = 0
      /\ layoutSections # 0 => section <= layoutSections - 1
  BY <1>1, ViewAssumption DEF ScrollTo, Still, MapTypeOK, SectionsInv
<1>4. aim' \in [section : Nat, read : BOOLEAN] /\ aim' # NoAim
      /\ (aim'.read => aim'.section = section)
  BY <1>1, <1>2, ViewAssumption DEF MapTypeOK, SectionsInv
<1>5. CASE animated
  <2>1. phase' = "animate" /\ target' = section /\ UNCHANGED << x, y, direction >>
    BY <1>5 DEF ScrollTo
  <2> HIDE DEF section
  <2>2. ScrollTypeOK'
    BY <2>1, <1>3, <1>4 DEF ScrollTo, ScrollTypeOK
  <2>3. ScrollInv' /\ RestInv'
    BY <2>1, <1>3, <1>4 DEF ScrollTo, ScrollTypeOK, ScrollInv, RestInv
  <2> QED
    BY <2>2, <2>3, MapFrame DEF ScrollTo
<1>6. CASE ~animated
  <2>1. PICK d \in Locks(2 * section, y) : DidScroll(2 * section, y, d)
    BY <1>6 DEF ScrollTo
  <2>2. phase' = "rest" /\ target' = target
    BY <1>6 DEF ScrollTo
  <2>3. d \in {1, 2} /\ (gesture # 1 => d = 2)
    BY <2>1 DEF Locks, ScrollTypeOK, ScrollInv
  <2> HIDE DEF section
  <2>4. /\ direction' = d
        /\ x' = IF d = 1 THEN startX ELSE 2 * section
        /\ y' = IF d = 2 THEN startY ELSE y
    BY <2>1 DEF DidScroll
  <2>5. UNCHANGED << startX, startY, pageCalculation, gesture >>
    BY DEF ScrollTo
  <2>6. ScrollTypeOK'
    BY <2>2, <2>3, <2>4, <2>5, <1>3, <1>4 DEF ScrollTypeOK, ScrollInv
  <2>7. ScrollInv'
    BY <2>2, <2>3, <2>4, <2>5, <1>3, <1>4 DEF ScrollTypeOK, ScrollInv
  <2>8. RestInv'
    BY <2>2, <2>3, <2>4, <2>5, <1>3, <1>4 DEF ScrollTypeOK, RestInv
  <2> QED
    BY <2>6, <2>7, <2>8, MapFrame DEF ScrollTo
<1> QED
  BY <1>5, <1>6

\* A page on the screen is one of the layout: an index is out of range only if
\* the layout has more of them than final.
LEMMA TrapKeeps == ViewInv /\ Trap => ViewInv'
<1> SUFFICES ASSUME ViewInv, Trap PROVE ViewInv'
  OBVIOUS
<1> USE DEF ViewInv, ViewTypeOK
<1>1. PICK s \in Visible : s >= count
  BY DEF Trap, OutOfRange
<1>2. layoutSections \in Nat \ {0} /\ x <= 2 * (layoutSections - 1) /\ x \in Nat
  BY DEF Trap, SectionsInv, ScrollTypeOK, MapTypeOK
<1>3. s <= layoutSections - 1 /\ s \in Nat
  BY <1>1, <1>2 DEF Visible
<1>4. count < layoutSections
  BY <1>1, <1>2, <1>3 DEF MapTypeOK
<1>5. MapTypeOK' /\ SectionsInv'
  BY <1>4 DEF Trap, sectionVars, MapTypeOK, SectionsInv
<1>6. DatesTypeOK' /\ DatesInv'
  BY DEF Trap, dateVars, DatesTypeOK, DatesInv, FromAnswer, NoAnswer
<1>7. ScrollTypeOK' /\ ScrollInv' /\ RestInv'
  BY ScrollFrame DEF Trap
<1> QED
  BY <1>5, <1>6, <1>7

\* Every step preserves the invariant.
LEMMA NextKeepsView == ViewInv /\ [ViewNext]_viewVars => ViewInv'
<1> SUFFICES ASSUME ViewInv, [ViewNext]_viewVars PROVE ViewInv'
  OBVIOUS
<1>1. CASE NextDay \/ BeginRequest \/ Respond \/ Reload
  BY <1>1, NextDayKeeps, BeginRequestKeeps, RespondKeeps, ReloadKeeps
<1>2. CASE \E a \in Attributes :
             \/ AnswerFailure(a)
             \/ \E served \in asked .. today, length \in LengthsSaid(a) :
                  \E week \in WeeksSaid(served) : Answer(a, served, week, length)
  BY <1>2, AnswerFailureKeeps, AnswerKeeps
<1>3. CASE BeginDrag \/ Drag \/ EndDrag \/ Glide \/ EndGlide
  BY <1>3, BeginDragKeeps, DragKeeps, EndDragKeeps, GlideKeeps, EndGlideKeeps
<1>4. CASE \E s \in 0 .. AskedSections, animated \in BOOLEAN : ScrollTo(s, animated)
  <2>1. PICK s \in 0 .. AskedSections, animated \in BOOLEAN : ScrollTo(s, animated)
    BY <1>4
  <2>2. s \in Nat
    BY ViewAssumption DEF AskedSections
  <2> QED
    BY <2>1, <2>2, ScrollToKeeps
<1>5. CASE Trap
  BY <1>5, TrapKeeps
<1>6. CASE UNCHANGED viewVars
  <2>1. Still /\ UNCHANGED scrollVars /\ UNCHANGED layoutSections
    BY <1>6 DEF viewVars, Still
  <2> QED
    BY <2>1, MapFrame, ScrollFrame DEF ViewInv, ViewTypeOK
<1> QED
  BY <1>1, <1>2, <1>3, <1>4, <1>5, <1>6 DEF ViewNext

\* The inductive invariant, of which the properties below are consequences.
THEOREM ViewInvariance == ViewSpec => []ViewInv
BY InitView, NextKeepsView, PTL DEF ViewSpec

\* All variables have their types, the offset stays within the content and
\* pageCalculation follows the beginning of the drag.
THEOREM ViewTypes == ViewSpec => []ViewTypeOK
<1>1. ViewInv => ViewTypeOK
  BY DEF ViewInv
<1> QED
  BY <1>1, ViewInvariance, PTL

\* Only the sections that pad the view lead past the end of final, for any number
\* of them.
THEOREM OnlyPaddingTraps == ViewSpec => []TrapsInPadding
<1>1. ViewInv => TrapsInPadding
  BY DEF ViewInv, SectionsInv, TrapsInPadding
<1> QED
  BY <1>1, ViewInvariance, PTL

\* targetContentOffset keeps the page at rest among those that are laid out.
THEOREM RestsLaidOut == ViewSpec => []RestIsLaidOut
<1>1. ASSUME ViewInv PROVE RestIsLaidOut
  <2> USE <1>1 DEF ViewInv, ViewTypeOK
  <2> SUFFICES ASSUME phase = "rest", aim = NoAim, NEW s \in Visible PROVE s \in Window
    BY DEF RestIsLaidOut
  <2>1. Window = (IF pageCalculation - 1 >= 0 THEN pageCalculation - 1 ELSE 0) ..
                 (IF pageCalculation + 1 <= layoutSections THEN pageCalculation + 1 ELSE layoutSections)
    BY MaxOfTwo, MinOfTwo DEF Window, ScrollTypeOK, MapTypeOK
  <2>2. x = startX \/ (x % 2 = 0 /\ Near(x \div 2))
    BY DEF RestInv
  <2>3. s \in pageCalculation - 1 .. pageCalculation + 1 /\ s \in Nat
    BY <2>2 DEF Visible, Near, ScrollTypeOK
  <2>4. s <= layoutSections
    BY DEF Visible, ScrollTypeOK, ScrollInv, MapTypeOK
  <2> QED
    BY <2>1, <2>3, <2>4 DEF ScrollTypeOK, MapTypeOK
<1> QED
  BY <1>1, ViewInvariance, PTL

\* Nothing that answers, reloads or scrolls leaves the view between two pages.
THEOREM RestsOnPages == ViewSpec => []RestsOnPage
<1>1. ViewInv => RestsOnPage
  BY DEF ViewInv, RestInv, RestsOnPage
<1> QED
  BY <1>1, ViewInvariance, PTL

\* scroll(to:) leads where it should, but for a map that was not read and a drag
\* that was taken for a vertical one.
THEOREM ScrollsArrive == ViewSpec => []ScrollArrives
<1>1. ViewInv => ScrollArrives
  BY DEF ViewInv, RestInv, ScrollArrives
<1> QED
  BY <1>1, ViewInvariance, PTL

\* What an answer that said the week dates is late by whole weeks.
LEMMA StartIsLate ==
  ASSUME NEW a, Dated(a), FromAnswer(a), a.served \in Int, a.day \in Int
  PROVE  /\ Late(a) \in Int /\ 7 * (Late(a) \div 7) = Late(a)
         /\ a.start = Opening + Late(a)
<1>1. IsMonday(SundayOf(a.day) + 1) /\ SundayOf(a.day) \in Int
  BY DEF IsMonday, SundayOf
<1>2. IsMonday(MondayOf(a.served)) /\ MondayOf(a.served) \in Int
  BY Weeks
<1>3. PICK p \in Int, q \in Int : p = SundayOf(a.day) + 1 /\ q = MondayOf(a.served)
  BY <1>1, <1>2
<1>4. Late(a) = p - q /\ 7 * ((p - q) \div 7) = p - q
  BY <1>1, <1>2, <1>3, WholeWeeks DEF Late
<1>5. a.start = SetEXP(a.day, ServerWeek(Opening, a.served))
  BY DEF Dated, FromAnswer
<1>6. a.start = Opening + Late(a)
  BY <1>5, SetEXPOfAnswer, ViewAssumption DEF Late
<1> QED
  BY <1>3, <1>4, <1>6

\* The marked day is today but for the week of the insertion, answers handled late and
\* dates not drawn again, for every term that opens on a Monday and any answers.
THEOREM MarksToday == ViewSpec => []MarkedIsToday
<1>1. ASSUME ViewInv PROVE MarkedIsToday
  <2> USE <1>1 DEF ViewInv, ViewTypeOK
  <2> DEFINE d == Late(decisive) \div 7
             week == ServerWeek(Opening, inserted) - d
             M == MondayOf(inserted)
  <2> SUFFICES ASSUME Dated(decisive), Dated(drawn), start <= inserted, week <= sections
               PROVE  /\ ShowWeekOfView = week
                      /\ MarkedDay = today + (M - MondayOf(today)) + (Late(drawn) - Late(decisive))
    BY DEF MarkedIsToday
  <2>1. decisive # NoAnswer /\ drawn # NoAnswer
    BY DEF Dated
  <2>2. /\ decisive.served \in Int /\ decisive.day \in Int
        /\ drawn.served \in Int /\ drawn.day \in Int
    BY <2>1, ViewAssumption DEF DatesTypeOK, Days
  <2>3. today \in Int /\ inserted \in Int /\ Opening \in Int /\ IsMonday(Opening) /\ sections \in Int
    BY <2>1, ViewAssumption DEF DatesTypeOK, DatesInv, Days, MapTypeOK
  <2>4. /\ Late(decisive) \in Int /\ 7 * d = Late(decisive) /\ d \in Int
        /\ start = Opening + 7 * d
    BY <2>2, StartIsLate DEF DatesInv, DatesTypeOK
  <2>5. Late(drawn) \in Int /\ 7 * (Late(drawn) \div 7) = Late(drawn) /\ drawn.start = Opening + Late(drawn)
    BY <2>2, StartIsLate DEF DatesInv
  <2>6. M \in Int /\ IsMonday(M) /\ M <= inserted /\ inserted < M + 7
    BY <2>3, Weeks
  <2>7. 7 * ((M - Opening) \div 7) = M - Opening
    BY <2>3, <2>6, WholeWeeks
  <2>8. PICK k \in Int : k = (M - Opening) \div 7
    BY <2>3, <2>6
  <2>9. week = k + 1 - d
    BY <2>8, <2>3, <2>4 DEF ServerWeek
  <2> HIDE DEF d, week, M
  <2>10. M - Opening = 7 * k
    BY <2>7, <2>8
  <2>11. nowWeek = k - d + 1
    <3>1. nowWeek = 1 + (inserted - start) \div 7
      BY <2>1, <2>3, <2>4 DEF DatesInv, NowWeek, WeeksBetween
    <3>2. PICK r \in 0 .. 6 : inserted = M + r
      BY <2>3, <2>6
    <3>3. inserted - start = 7 * (k - d) + r
      BY <3>2, <2>4, <2>6, <2>8, <2>10, <2>3
    <3>4. (inserted - start) \div 7 = k - d
      BY <3>3, <2>4, <2>8
    <3> QED
      BY <3>1, <3>4, <2>8, <2>4
  <2>12. k - d >= 0
    BY <2>3, <2>4, <2>6, <2>8, <2>10
  <2>13. ShowWeekOfView = week
    BY <2>3, <2>4, <2>8, <2>9, <2>11, <2>12, MinOfTwo DEF ShowWeekOfView
  <2>14. SectionDate(drawn.start, week) = M + (Late(drawn) - Late(decisive))
    BY <2>3, <2>4, <2>5, <2>6, <2>8, <2>9, <2>10 DEF SectionDate
  <2>15. PICK e \in Int : M + (Late(drawn) - Late(decisive)) = Opening + 7 * e
    <3>1. Late(drawn) \div 7 \in Int
      BY <2>5
    <3>2. M + (Late(drawn) - Late(decisive)) = Opening + 7 * (k + Late(drawn) \div 7 - d)
      BY <3>1, <2>3, <2>4, <2>5, <2>6, <2>8, <2>10
    <3> QED
      BY <3>1, <3>2, <2>8, <2>4
  <2>16. PICK monday \in Int : monday = Opening + 7 * e /\ IsMonday(monday)
    BY <2>15, <2>3 DEF IsMonday
  <2>17. SectionDate(drawn.start, ShowWeekOfView) = monday
    BY <2>13, <2>14, <2>15, <2>16
  <2>18. MarkedDay = NextOnWeekdayOf(monday, today)
    BY <2>17 DEF MarkedDay
  <2>19. NextOnWeekdayOf(monday, today) = today + (monday - MondayOf(today))
    BY <2>16, <2>3, SameWeekday
  <2>20. MondayOf(today) \in Int
    BY <2>3, Weeks
  <2>21. monday = M + (Late(drawn) - Late(decisive))
    BY <2>15, <2>16
  <2>22. MarkedDay = today + (monday - MondayOf(today))
    BY <2>18, <2>19
  <2> QED
    BY <2>13, <2>20, <2>21, <2>22, <2>3, <2>4, <2>5, <2>6
<1> QED
  BY <1>1, ViewInvariance, PTL
=============================================================================
