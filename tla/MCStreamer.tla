----------------------------- MODULE MCStreamer -----------------------------
(***************************************************************************)
(* Streamer for TLC.  An end block of four leaves room for two full batches *)
(* of two, a short last one, and restarts in between, and the chain grows    *)
(* beyond it; head, the only counter, is bounded by MaxHead, so the state    *)
(* space is finite without a bound on the number of failures.               *)
(***************************************************************************)
EXTENDS Streamer
=============================================================================
