----------------------------- MODULE MCLRUCache -----------------------------
(***************************************************************************)
(* Two threads on a cache of up to three keys; with as many addresses as   *)
(* keys, every new container soon takes a freed address.                   *)
(***************************************************************************)
EXTENDS LRUCache
=============================================================================
