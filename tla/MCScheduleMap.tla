--------------------------- MODULE MCScheduleMap ----------------------------
(***************************************************************************)
(* A small timetable: a two-period course, the same course listed again    *)
(* for another week, a shorter one that collides with it, and a custom     *)
(* affair that spans noon and the ninth period's row.                      *)
(***************************************************************************)
EXTENDS ScheduleMap

CONSTANTS s1, s2

HalfOpen(l, u) == [lower |-> l, upper |-> u]

Course(t, sections, period, special) ==
  [title |-> t, inDay |-> 1, inSections |-> sections, inPeriod |-> period, inSpecial |-> special]

MCCourses == {Course("maths", {1}, HalfOpen(4, 6), {}),
              Course("maths", {2}, HalfOpen(4, 6), {}),
              Course("sport", {2}, HalfOpen(5, 6), {}),
              Course("affair", {1}, HalfOpen(5, 5), {5})}

MCKeys == {[sno |-> s1, type |-> "student"], [sno |-> s1, type |-> "custom"],
           [sno |-> s2, type |-> "student"]}
=============================================================================
