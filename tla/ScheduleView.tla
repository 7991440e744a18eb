---------------------------- MODULE ScheduleView ----------------------------
(***************************************************************************)
(* The timetable on the screen: DataSourceService with the request that    *)
(* fills its map, InteractiveService.scroll(to:) and CollectionViewLayout, *)
(* a user who drags, and the calendar. One page is one section. UIKit is   *)
(* modelled as the code uses it: it moves the offset by half pages within  *)
(* the content (bound: no bouncing), calls the delegate, and makes views   *)
(* for what is visible and has layout attributes. FinalMap is MapSections. *)
(***************************************************************************)
EXTENDS MapSections, TermCalendar, FiniteSetsExt

CONSTANTS
  Attributes,   \* the requests of a batch
  Reach,        \* sections of the timetable of each: 1 + its last week
  MinSections,  \* numberOfSections is at least this: 24 in the code
  Opening,      \* the Monday of the first week of the term
  FirstDay,     \* the days during which the application runs
  LastDay,
  NoDate,
  NoAim

ASSUME ViewAssumption ==
  /\ Reach \in [Attributes -> Nat \ {0}]
  /\ MinSections \in Nat \ {0}
  /\ Opening \in Int /\ IsMonday(Opening)
  /\ FirstDay \in Int /\ LastDay \in Int /\ FirstDay <= LastDay
  /\ NoDate \notin Int /\ NoAim \notin [section : Nat, read : BOOLEAN]

Days == FirstDay .. LastDay

VARIABLES
  today,
  batch,              \* a request(response:) is under way
  asked,              \* history: the day it was sent
  pending,            \* what it still waits for
  longest, last,      \* of its answers so far: the most sections, and the last success
  start, nowWeek,     \* startDate and nowWeek of the map
  decisive,           \* history: the answer startDate is from
  inserted,           \* history: the day it was inserted
  drawn,              \* the answer from whose start finalRange has its dates
  reload,             \* the closure that inserted has not come to reloadData() yet
  layoutSections,     \* CollectionViewLayout.sections
  x, y,               \* contentOffset: half pages, and one of two heights
  startX, startY,     \* _scrollViewStartPosPoint
  direction,          \* _scrollDirection: 0, or locked to 1 vertical, 2 horizontal
  pageCalculation,
  phase, target,      \* what moves the offset: nothing, a finger, deceleration to
                      \* a page, or an animation to one
  gesture,            \* history: what the last drag was taken for, like direction
  aim,                \* history: where scroll(to:) should lead, if not dragged since,
                      \* and whether the map had been read since it changed
  alive               \* no index was out of range

dateVars == << today, batch, asked, pending, longest, last, start, nowWeek, decisive, inserted >>
scrollVars == << x, y, startX, startY, direction, pageCalculation, phase, target, gesture, aim >>
viewVars == << sectionVars, dateVars, scrollVars, drawn, reload, layoutSections, alive >>

NoAnswer == [start |-> NoDate, week |-> 0, served |-> NoDate, day |-> NoDate]

\* The view has not been laid out; a first reload is due.
ViewInit ==
  /\ SectionsInit
  /\ today = FirstDay
  /\ batch = FALSE /\ asked = FirstDay /\ pending = {} /\ longest = 0 /\ last = NoAnswer
  /\ start = NoDate /\ nowWeek = 0
  /\ decisive = NoAnswer /\ inserted = NoDate /\ drawn = NoAnswer
  /\ reload = TRUE /\ layoutSections = 0
  /\ x = 0 /\ y = 0 /\ startX = 0 /\ startY = 0
  /\ direction = 0 /\ pageCalculation = 0
  /\ phase = "rest" /\ target = 0
  /\ gesture = 0 /\ aim = NoAim
  /\ alive = TRUE

-----------------------------------------------------------------------------

NextDay ==
  /\ today < LastDay
  /\ today' = today + 1
  /\ UNCHANGED << sectionVars, batch, asked, pending, longest, last, start, nowWeek, decisive,
                  inserted, drawn, scrollVars, reload, layoutSections, alive >>

\* request(response:). Bound: one batch at a time.
BeginRequest ==
  /\ alive /\ ~reload /\ ~batch
  /\ batch' = TRUE /\ asked' = today /\ pending' = Attributes
  /\ longest' = 0 /\ last' = NoAnswer
  /\ UNCHANGED << sectionVars, today, start, nowWeek, decisive, inserted, drawn,
                  scrollVars, reload, layoutSections, alive >>

\* Request.request(attribute:response:) of a failure
AnswerFailure(a) ==
  /\ alive /\ ~reload /\ a \in pending
  /\ pending' = pending \ {a}
  /\ UNCHANGED << sectionVars, today, batch, asked, longest, last, start, nowWeek, decisive,
                  inserted, drawn, scrollVars, reload, layoutSections, alive >>

\* What a JSON answer that the server made on some day says: nowWeek and data, each
\* of which may be missing, so that the week is 0 or there are no courses.
WeeksSaid(served) == {0, ServerWeek(Opening, served)}
LengthsSaid(a) == {0, Reach[a]}

\* Request.request(attribute:response:) of any JSON: an item of so many sections and
\* a key whose start setEXP counts back from the day on which the answer is handled.
Answer(a, served, week, length) ==
  /\ alive /\ ~reload /\ a \in pending
  /\ pending' = pending \ {a}
  /\ longest' = Max({longest, length})
  /\ last' = [start |-> SetEXP(today, week), week |-> week, served |-> served, day |-> today]
  /\ UNCHANGED << sectionVars, today, batch, asked, start, nowWeek, decisive, inserted, drawn,
                  scrollVars, reload, layoutSections, alive >>

\* The closure of request(response:) inserts the successes in the order in which
\* they came, so that the last one leaves its start behind. Only positions reset
\* useImmediate.
Respond ==
  /\ alive /\ ~reload /\ batch /\ pending = {}
  /\ batch' = FALSE
  /\ reload' = TRUE
  /\ grown' = Max({grown, longest})
  /\ useImmediate' = (useImmediate /\ longest = 0)
  /\ IF last = NoAnswer
     THEN UNCHANGED << start, nowWeek, decisive, inserted >>
     ELSE /\ start' = last.start /\ nowWeek' = NowWeek(last.start, today)
          /\ decisive' = last /\ inserted' = today
  /\ UNCHANGED << sections, count, today, asked, pending, longest, last, drawn, scrollVars,
                  layoutSections, alive >>

\* reloadData(): invalidateLayout(with:) asks numberOfSections, which reads final.
\* Its sections keep their dates unless they are built again.
Reload ==
  /\ alive /\ reload
  /\ Read
  /\ drawn' = IF useImmediate THEN drawn ELSE decisive
  /\ layoutSections' = Max({count', MinSections})
  /\ reload' = FALSE
  /\ UNCHANGED << dateVars, scrollVars, alive >>

-----------------------------------------------------------------------------

\* scrollViewDidScroll: the axis is locked by the first offset that differs from
\* the start of the drag, and the other coordinate is put back.
Locks(newX, newY) ==
  IF direction # 0 THEN {direction}
  ELSE IF newY = startY THEN {2} ELSE IF newX = startX THEN {1} ELSE {1, 2}

DidScroll(newX, newY, d) ==
  /\ direction' = d
  /\ x' = IF d = 1 THEN startX ELSE newX
  /\ y' = IF d = 2 THEN startY ELSE newY

Still == UNCHANGED << sectionVars, dateVars, drawn, reload, layoutSections, alive >>

\* Seeded fault: the lock of the drag before is not opened.
BeginDragLocked ==
  /\ alive /\ ~reload /\ phase # "drag"
  /\ pageCalculation' = x \div 2
  /\ startX' = x /\ startY' = y
  /\ phase' = "drag" /\ gesture' = 0 /\ aim' = NoAim
  /\ UNCHANGED << x, y, direction, target >> /\ Still

\* Seeded fault: the nearest page instead of the one before.
BeginDragRounded ==
  /\ alive /\ ~reload /\ phase # "drag"
  /\ pageCalculation' = (x + 1) \div 2
  /\ startX' = x /\ startY' = y /\ direction' = 0
  /\ phase' = "drag" /\ gesture' = 0 /\ aim' = NoAim
  /\ UNCHANGED << x, y, target >> /\ Still

\* scrollViewWillBeginDragging, from rest or out of a movement
BeginDrag ==
  /\ alive /\ ~reload /\ phase # "drag"
  /\ pageCalculation' = x \div 2
  /\ startX' = x /\ startY' = y /\ direction' = 0
  /\ phase' = "drag" /\ gesture' = 0 /\ aim' = NoAim
  /\ UNCHANGED << x, y, target >> /\ Still

Pages == 0 .. layoutSections - 1

\* A finger stays on the screen: it moves the offset by one page at most.
Drag ==
  /\ alive /\ ~reload /\ phase = "drag"
  /\ \E newX \in {x - 1, x, x + 1}, newY \in {0, 1} :
       /\ << newX, newY >> # << x, y >>
       /\ 0 <= newX /\ newX <= 2 * (layoutSections - 1)
       /\ newX - startX \in -2 .. 2
       /\ \E d \in Locks(newX, newY) : DidScroll(newX, newY, d) /\ gesture' = d
  /\ UNCHANGED << startX, startY, pageCalculation, phase, target, aim >> /\ Still

\* Seeded fault: the page is not bounded by pageCalculation.
TargetsAnywhere == Pages

\* targetContentOffset: any index the velocity leads to, then no further than a
\* page from where the drag began; UIKit keeps the offset within the content.
Targets == Pages \cap {pageCalculation - 1, pageCalculation, pageCalculation + 1}

\* Seeded fault: the offset stays where the finger leaves it.
EndDragAnywhere ==
  /\ alive /\ ~reload /\ phase = "drag"
  /\ phase' = "rest"
  /\ UNCHANGED << x, y, startX, startY, direction, pageCalculation, target, gesture, aim >>
  /\ Still

\* scrollViewDidEndDragging: without deceleration the axis remains locked. UIKit
\* decelerates when the target is not where the offset is.
EndDrag ==
  /\ alive /\ ~reload /\ phase = "drag"
  /\ \E t \in Targets :
       \/ phase' = "glide" /\ target' = t /\ direction' = 0
       \/ x = 2 * t /\ phase' = "rest" /\ UNCHANGED << target, direction >>
  /\ UNCHANGED << x, y, startX, startY, pageCalculation, gesture, aim >> /\ Still

Towards(t) == IF x < 2 * t THEN x + 1 ELSE IF x > 2 * t THEN x - 1 ELSE x

\* The deceleration of a drag, which may change the height as well, or the
\* animation of scroll(to:), which does not.
Glide ==
  /\ alive /\ ~reload /\ phase \in {"glide", "animate"}
  /\ \E newX \in {x, Towards(target)}, newY \in IF phase = "glide" THEN {0, 1} ELSE {y} :
       /\ << newX, newY >> # << x, y >>
       /\ \E d \in Locks(newX, newY) :
            /\ DidScroll(newX, newY, d)
            /\ gesture' = IF phase = "glide" THEN d ELSE gesture
  /\ UNCHANGED << startX, startY, pageCalculation, phase, target, aim >> /\ Still

\* It ends at its page, or where the lock holds it: UIKit's last offset is put
\* back by scrollViewDidScroll as well. scrollViewDidEndDecelerating opens the
\* lock, the end of an animation does not.
EndGlide ==
  /\ alive /\ ~reload /\ phase \in {"glide", "animate"}
  /\ x = 2 * target \/ direction = 1
  /\ direction' = IF phase = "glide" THEN 0 ELSE direction
  /\ phase' = "rest"
  /\ UNCHANGED << x, y, startX, startY, pageCalculation, target, gesture, aim >> /\ Still

\* Seeded fault: the section is not cut down to map.sections.
ScrollToUnbounded(s, animated) ==
  /\ alive /\ phase # "drag"
  /\ IF animated
     THEN phase' = "animate" /\ target' = s /\ UNCHANGED << x, y, direction >>
     ELSE /\ \E d \in Locks(2 * s, y) : DidScroll(2 * s, y, d)
          /\ phase' = "rest" /\ UNCHANGED target
  /\ aim' = [section |-> Min({s, grown}), read |-> useImmediate]
  /\ UNCHANGED << startX, startY, pageCalculation, gesture >> /\ Still

\* InteractiveService.scroll(to:): to the section asked for or the last of the map.
\* Bound: not while a finger is on the screen.
ScrollTo(s, animated) ==
  LET section == Min({s, sections})
  IN  /\ alive /\ phase # "drag"
      /\ IF animated
         THEN phase' = "animate" /\ target' = section /\ UNCHANGED << x, y, direction >>
         ELSE /\ \E d \in Locks(2 * section, y) : DidScroll(2 * section, y, d)
              /\ phase' = "rest" /\ UNCHANGED target
      /\ aim' = [section |-> Min({s, grown}), read |-> useImmediate]
      /\ UNCHANGED << startX, startY, pageCalculation, gesture >> /\ Still

-----------------------------------------------------------------------------

\* The pages on the screen, and those layoutAttributesForElements goes through.
Visible == {x \div 2, (x + 1) \div 2}

Window == Max({pageCalculation - 1, 0}) .. Min({pageCalculation + 1, layoutSections})

\* A header of section final.count, and a leading view of any section from there
\* on but the first, index final out of range.
OutOfRange(s) == s # 0 /\ s >= count

Trap ==
  /\ alive /\ ~reload
  /\ \E s \in Visible \cap Window : OutOfRange(s)
  /\ alive' = FALSE
  /\ UNCHANGED << sectionVars, dateVars, scrollVars, drawn, reload, layoutSections >>

\* Bound: the sections scroll(to:) is asked for.
AskedSections == MinSections + 1

ViewNext ==
  \/ NextDay \/ BeginRequest \/ Respond \/ Reload
  \/ \E a \in Attributes :
       \/ AnswerFailure(a)
       \/ \E served \in asked .. today, length \in LengthsSaid(a) :
            \E week \in WeeksSaid(served) : Answer(a, served, week, length)
  \/ BeginDrag \/ Drag \/ EndDrag \/ Glide \/ EndGlide
  \/ \E s \in 0 .. AskedSections, animated \in BOOLEAN : ScrollTo(s, animated)
  \/ Trap

ViewSpec == ViewInit /\ [][ViewNext]_viewVars
-----------------------------------------------------------------------------

MapTypeOK ==
  /\ grown \in Nat /\ sections \in Nat /\ count \in Nat /\ useImmediate \in BOOLEAN
  /\ reload \in BOOLEAN /\ alive \in BOOLEAN /\ layoutSections \in Nat

DatesTypeOK ==
  /\ today \in Days /\ batch \in BOOLEAN /\ pending \subseteq Attributes
  /\ asked \in Days /\ asked <= today
  /\ longest \in Nat /\ (longest # 0 => last # NoAnswer)
  /\ \A a \in {last, decisive, drawn} :
       \/ a = NoAnswer
       \/ a \in [start : Int, week : Int, served : Days, day : Days] /\ a.served <= a.day
  /\ start = decisive.start /\ nowWeek \in Int /\ inserted \in Days \cup {NoDate}

ScrollTypeOK ==
  /\ x \in Nat /\ (layoutSections > 0 => x <= 2 * (layoutSections - 1))
  /\ startX \in Nat /\ pageCalculation = startX \div 2
  /\ y \in {0, 1} /\ startY \in {0, 1}
  /\ direction \in {0, 1, 2} /\ gesture \in {0, 1, 2}
  /\ phase \in {"rest", "drag", "glide", "animate"} /\ target \in Nat
  /\ aim = NoAim \/ aim \in [section : Nat, read : BOOLEAN]

\* Types; the offset is within the content, and pageCalculation is the page on
\* which the last drag began.
ViewTypeOK == MapTypeOK /\ DatesTypeOK /\ ScrollTypeOK

\* An index is out of range only because numberOfSections pads the view to 24
\* sections: where the timetable fills it, neither drags nor scroll(to:), however
\* they mix with answers and reloads, lead past final.
TrapsInPadding == ~alive => count < layoutSections

\* Unless scroll(to:) was called since the last drag (it leaves pageCalculation
\* behind), a view that has come to rest shows no page the layout leaves out.
RestIsLaidOut == phase = "rest" /\ aim = NoAim => Visible \subseteq Window

\* Paging: the view rests on a page, or exactly where the last drag began (a
\* drag that catches the view between two pages and is taken for a vertical one).
RestsOnPage == phase = "rest" => x % 2 = 0 \/ x = startX

\* scroll(to:) comes to rest at the section asked for or the last of the
\* timetable, unless final was not read since the last insertion or the last
\* drag was taken for a vertical one (its lock or its start are still there).
ScrollArrives ==
  phase = "rest" /\ aim # NoAim =>
    \/ x = 2 * aim.section
    \/ ~aim.read
    \/ gesture = 1

\* The week in which the current day is marked, and the date of the mark.
ShowWeekOfView == IF nowWeek < 0 THEN 0 ELSE Min({nowWeek, sections})
MarkedDay == NextOnWeekdayOf(SectionDate(drawn.start, ShowWeekOfView), today)

\* An answer that said the week.
Dated(a) == a # NoAnswer /\ a.week = ServerWeek(Opening, a.served)

\* How late a start is that was counted back on one day from the week of another.
Late(a) == SundayOf(a.day) + 1 - MondayOf(a.served)

\* The marked day is today, in its week of the term, but for what adds up here: the
\* mark remains in the week of the last insertion; an answer that is handled on a
\* Sunday or in a later week than it was made in dates the term too late; and an
\* item without positions moves the mark and not the dates. It takes answers that
\* said the week, and an insertion between the start of the term and its last week.
MarkedIsToday ==
  LET week == ServerWeek(Opening, inserted) - Late(decisive) \div 7
  IN  ~reload /\ Dated(decisive) /\ Dated(drawn) /\ start <= inserted /\ week <= sections =>
        /\ ShowWeekOfView = week
        /\ MarkedDay = today + (MondayOf(inserted) - MondayOf(today))
                             + (Late(drawn) - Late(decisive))
=============================================================================
