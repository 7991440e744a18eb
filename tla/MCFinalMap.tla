----------------------------- MODULE MCFinalMap -----------------------------
(***************************************************************************)
(* Two owners and their items: a course of two adjacent rows, listed for   *)
(* two weeks; one that collides with its second row and one with the night *)
(* row between its two; a custom item at noon; and an item without courses *)
(* that moves the start date.                                              *)
(***************************************************************************)
EXTENDS DataSource

CONSTANTS s1, s2

HalfOpen(l, u) == [lower |-> l, upper |-> u]

Course(t, sections_, period, special) ==
  [title |-> t, inDay |-> 1, inSections |-> sections_, inPeriod |-> period, inSpecial |-> special]

Maths   == Course("maths", {1}, HalfOpen(3, 5), {})
Maths2  == Course("maths", {2}, HalfOpen(3, 5), {})
Sport   == Course("sport", {1}, HalfOpen(4, 5), {})
Affair  == Course("affair", {1}, HalfOpen(6, 6), {5})
Lab     == Course("lab", {1}, HalfOpen(8, 10), {})

MCCourses == {Maths, Maths2, Sport, Affair, Lab}

Mine1   == [sno |-> s1, type |-> "student"]
Custom1 == [sno |-> s1, type |-> "custom"]
Other2  == [sno |-> s2, type |-> "student"]

MCKeys == {Mine1, Custom1, Other2}

\* Day 0 is Today: the first item started two weeks ago, the third starts in
\* three weeks.
MCItems == {[key |-> Mine1, start |-> 0 - 14, values |-> << Maths, Maths2 >>],
            [key |-> Custom1, start |-> NoDate, values |-> << Affair >>],
            [key |-> Other2, start |-> 21, values |-> << Sport, Lab >>],
            [key |-> Mine1, start |-> 0 - 7, values |-> << >>]}
=============================================================================
