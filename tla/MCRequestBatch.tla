--------------------------- MODULE MCRequestBatch ---------------------------
(***************************************************************************)
(* Two batches of two requests. The limit is two errors instead of three,  *)
(* so that two recoveries fit in: the errors may come from one batch or    *)
(* from both, while the other is open, closed or not yet sent.             *)
(***************************************************************************)
EXTENDS RequestBatch
=============================================================================
