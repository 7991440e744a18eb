----------------------------- MODULE CellBoard ------------------------------
(***************************************************************************)
(* What the two dictionaries of Map promise together, free of lists and    *)
(* index sets: every cell of the timetable shows one course; a course      *)
(* offered to a cell takes it when the cell is free or when it outranks    *)
(* the one shown, and leaves the cell alone otherwise.                     *)
(***************************************************************************)
EXTENDS Naturals

CONSTANTS
  Cell,              \* positions of the timetable
  Offer,             \* what can be offered to a cell
  Outranks(_, _)     \* Outranks(n, m): n takes a cell that m holds

VARIABLE board       \* the offer each occupied cell shows

Free(c) == c \notin DOMAIN board

Take(c, n) ==
  /\ Free(c) \/ Outranks(n, board[c])
  /\ board' = [d \in DOMAIN board \cup {c} |-> IF d = c THEN n ELSE board[d]]

BoardInit == board = << >>

BoardNext ==
  \E c \in DOMAIN board' :
    c \in Cell /\ board'[c] \in Offer /\ Take(c, board'[c])

BoardSpec == BoardInit /\ [][BoardNext]_board
=============================================================================
