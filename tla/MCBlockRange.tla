---------------------------- MODULE MCBlockRange ----------------------------
(***************************************************************************)
(* BlockRange for TLC: every chain of four blocks within six timestamps,    *)
(* and two calls, so that the second finds points in the cache.             *)
(***************************************************************************)
EXTENDS BlockRange
=============================================================================
