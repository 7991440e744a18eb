---------------------------- MODULE MapSections -----------------------------
(***************************************************************************)
(* What FinalMap promises about the number of sections: insertions make    *)
(* the timetable longer, and the view sees that with its next read of      *)
(* final. sections and the length of final never run apart.                *)
(***************************************************************************)
EXTENDS Naturals

VARIABLES
  grown,        \* sections of the timetable: 1 + the last week of a course
  sections,     \* FinalMap.sections
  count,        \* final.count
  useImmediate  \* they are those of the timetable

sectionVars == << grown, sections, count, useImmediate >>

SectionsInit == grown = 0 /\ sections = 0 /\ count = 1 /\ useImmediate = FALSE

\* insert(node:in:)
Grow ==
  /\ grown' \in Nat \ {0} /\ grown' >= grown
  /\ useImmediate' = FALSE
  /\ UNCHANGED << sections, count >>

Count == IF grown = 0 THEN 0 ELSE grown + 1

\* The getter final.
Read ==
  IF useImmediate THEN UNCHANGED sectionVars
  ELSE /\ sections' = grown
       /\ count' = Count
       /\ useImmediate' = TRUE
       /\ UNCHANGED grown

SectionsNext == Grow \/ Read

SectionsSpec == SectionsInit /\ [][SectionsNext]_sectionVars
=============================================================================
