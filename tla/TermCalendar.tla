---------------------------- MODULE TermCalendar ----------------------------
(***************************************************************************)
(* The calendar of a term, in days: day 0 is a Monday. Gregorian weeks of  *)
(* the code begin on Sunday (Calendar(identifier: .gregorian) as created), *)
(* those of a schedule on Monday.                                          *)
(***************************************************************************)
EXTENDS Integers

\* The Monday on or before a day, and the Sunday on or before it.
MondayOf(day) == day - (day % 7)
SundayOf(day) == day - ((day + 1) % 7)

IsMonday(day) == day % 7 = 0
IsSunday(day) == day % 7 = 6

\* nowWeek in an answer of the server: the opening week is week 1.
ServerWeek(opening, day) == (MondayOf(day) - opening) \div 7 + 1

\* Seeded fault: weekOfYear, value: -n
SetEXPOneWeekEarly(today, n) == SundayOf(today) - 7 * n + 1

\* Key.setEXP(nowWeek:): weekday 2 of the gregorian week n - 1 weeks ago.
SetEXP(today, n) == SundayOf(today) - 7 * (n - 1) + 1

\* dateComponents([.weekOfYear], from:to:) from the beginning of a day to some time
\* of day after its beginning: whole weeks, towards zero.
WeeksBetween(from, to) == IF to >= from THEN (to - from) \div 7 ELSE -((from - to - 1) \div 7)

\* nowWeek as insert(item:) computes it, and showWeek
NowWeek(start, today) == 1 + WeeksBetween(start, today)

\* The start date of a section, 1 for the first week.
SectionDate(start, s) == start + 7 * (s - 1)

\* reset(.weekday, value:): the first such day from the given one on.
NextOnWeekdayOf(day, other) == day + ((other - day) % 7)
=============================================================================
