------------------------------ MODULE MCNodeJobs ------------------------------
(***************************************************************************)
(* NodeJobs for TLC: two threads, a batch of two blocks and one of one.     *)
(***************************************************************************)
EXTENDS NodeJobs
CONSTANTS w1, w2
Threads == {w1, w2}
=============================================================================
