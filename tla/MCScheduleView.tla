--------------------------- MODULE MCScheduleView ---------------------------
(***************************************************************************)
(* Two schedules: with the shorter one alone the view has a section more   *)
(* than the model, with the longer one it has not. Day 0 is the Monday on  *)
(* which the term opens.                                                   *)
(* MCScheduleView.cfg: one day, on which the view is scrolled.             *)
(* MCScheduleViewDates.cfg: a Saturday to the Tuesday after, without       *)
(* scrolling, which neither answers nor dates depend on.                   *)
(***************************************************************************)
EXTENDS ScheduleView, TLC

CONSTANTS a1, a2

MCReach == (a1 :> 2) @@ (a2 :> 4)

\* State constraint of MCScheduleViewDates.cfg.
NotScrolled == phase = "rest" /\ aim = NoAim
=============================================================================
