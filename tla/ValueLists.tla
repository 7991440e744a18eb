----------------------------- MODULE ValueLists -----------------------------
(***************************************************************************)
(* What Map expects of its piles: lists are values. A list is created with *)
(* one element; an insertion puts one element at a place of one list and   *)
(* leaves every other list as it was; in the end all go together.          *)
(***************************************************************************)
EXTENDS SequencesExt

CONSTANTS Names, Contents   \* the places lists are kept at, their elements

VARIABLE values             \* [Names -> Seq(Contents)], of the lists there are

NewValue(l, e) ==
  /\ l \notin DOMAIN values
  /\ values' = [m \in DOMAIN values \cup {l} |-> IF m = l THEN << e >> ELSE values[m]]

InsertValue(l, e, i) ==
  /\ l \in DOMAIN values
  /\ values' = [values EXCEPT ![l] = InsertAt(@, i, e)]

NoValues == values' = << >>

ValuesInit == values = << >>

ValuesNext ==
  \/ \E l \in Names, e \in Contents :
       \/ NewValue(l, e)
       \/ l \in DOMAIN values /\ \E i \in 1 .. Len(values[l]) + 1 : InsertValue(l, e, i)
  \/ NoValues

ValuesSpec == ValuesInit /\ [][ValuesNext]_values
=============================================================================
