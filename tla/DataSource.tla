----------------------------- MODULE DataSource -----------------------------
(***************************************************************************)
(* Where DataSourceService puts the items of a section: the row and the    *)
(* height of a cell, next to the labels of TimeLine in the leading column. *)
(* The two are computed apart: a location counts rows for noon and night   *)
(* that the column has only if the section has such a special time.        *)
(***************************************************************************)
EXTENDS FinalMap

\* final[section].specialTime: empty, for no code writes it.
SpecialTime(s) == {}

\* TimeLine.layouts, from the top; a special time is written as its location.
Periods12 == [i \in 1 .. 12 |-> [normal |-> i]]
Layouts(special) ==
  LET night == IF 10 \in special THEN InsertAt(Periods12, 9, [special |-> 10]) ELSE Periods12
  IN  IF 5 \in special THEN InsertAt(night, 5, [special |-> 5]) ELSE night

\* Seeded fault: the row of noon is always there.
LocationWithNoon(s, v) ==
  LET l == v.locates.lower
  IN  l - (IF l >= 9 /\ 10 \notin SpecialTime(s) THEN 1 ELSE 0)

\* collectionView(_:layout:locationForItemAt:): the row of an item
LocationForItem(s, v) ==
  LET l == v.locates.lower
  IN  l - (IF l >= 5 /\ 5 \notin SpecialTime(s) THEN 1 ELSE 0)
        - (IF l >= 9 /\ 10 \notin SpecialTime(s) THEN 1 ELSE 0)

\* collectionView(_:layout:lenthLocate:at:): the rows it covers
LenthLocate(s, v) ==
  LET l == v.locates.lower
  IN  (v.locates.upper - l)
        - (IF l >= 5 /\ 5 \in SpecialTime(s) THEN 1 ELSE 0)
        - (IF l >= 9 /\ 10 \in SpecialTime(s) THEN 1 ELSE 0)

-----------------------------------------------------------------------------

\* The labels beside an item, and the periods it is for.
LabelsBeside(s, v) ==
  LET first == LocationForItem(s, v)
  IN  {Layouts(SpecialTime(s))[row] : row \in first .. first + LenthLocate(s, v) - 1}

LabelsOf(v) ==
  {[normal |-> p] : p \in {q \in 1 .. 12 : Row(q) \in v.locates.lower .. v.locates.upper - 1}}

\* A drawn item stands beside the labels of its periods, whatever the courses
\* it shares the day with have cut it to, unless a row for noon or night is among
\* its locations, or it begins with the eighth period (location 9): then the test
\* meant for the night row moves it up to the seventh.
RowsAgree ==
  useImmediate =>
    \A i \in DOMAIN finalRange : \A v \in finalRange[i].values :
      (v.locates.lower .. v.locates.upper - 1) \cap Specials = {} /\ v.locates.lower # 9 =>
        LabelsBeside(i - 1, v) = LabelsOf(v)
=============================================================================
