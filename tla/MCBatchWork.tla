---------------------------- MODULE MCBatchWork ----------------------------
(***************************************************************************)
(* BatchWork for TLC: two threads, so three permits; five items in batches  *)
(* of two or one, which the threads halve and double, make up to four       *)
(* batches at once, the last of which waits for a permit.                   *)
(***************************************************************************)
EXTENDS BatchWork
=============================================================================
