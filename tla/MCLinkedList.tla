---------------------------- MODULE MCLinkedList ----------------------------
(***************************************************************************)
(* Two lists of up to five nodes together, with elements that can repeat.  *)
(***************************************************************************)
EXTENDS LinkedList
=============================================================================
