-------------------------- MODULE MCRequestPolicy ---------------------------
(***************************************************************************)
(* A student, a teacher and two custom schedules over a memory of two      *)
(* items, so that some are forgotten; and two lists of courses for each.   *)
(***************************************************************************)
EXTENDS RequestPolicy, TLC

CONSTANTS student, teacher, lessons, plans, empty, full

Symmetry == Permutations(Requested) \cup Permutations(Customs) \cup Permutations(Contents)
=============================================================================
