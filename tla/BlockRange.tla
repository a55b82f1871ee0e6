----------------------------- MODULE BlockRange -----------------------------
(***************************************************************************)
(* EthService.get_block_range_for_timestamps over GraphOperations           *)
(* (ethereumetl/service/eth_service.py, graph_operations.py): which blocks  *)
(* have timestamps in a range, by interpolation search for its two ends.    *)
(*                                                                         *)
(* Every point is fetched from a node whose chain grows meanwhile.  A point *)
(* is its block number, the timestamp being that of the block.  The points  *)
(* of all searches are cached, also from one call to the next.              *)
(*                                                                         *)
(* A definition X_Y, before X, is a faulty variant of X: each property is   *)
(* checked to tell one such variant from the code.                         *)
(***************************************************************************)
EXTENDS Integers, FiniteSets

CONSTANTS MaxBlock,   (* bound: blocks are 0 .. MaxBlock *)
          MaxTime,    (* bound: timestamps are 0 .. MaxTime *)
          MaxCalls    (* bound on the number of calls *)

ASSUME BlockRangeAssumption ==
  MaxBlock \in Nat \ {0} /\ MaxTime \in Nat /\ MaxCalls \in Nat

VARIABLES ts,       (* the timestamp of each block, those to come included *)
          head,     (* the number of the latest block *)
          cached,   (* _cached_points *)
          calls,    (* calls so far *)
          query,    (* start_timestamp and end_timestamp *)
          pc,       (* where the call is *)
          side,     (* the timestamp searched for, "start" or "end" *)
          lo, hi,   (* the points start and end of the recursion *)
          est,      (* estimation1 *)
          bounds,   (* start_block_bounds *)
          answer,   (* the range returned, or the exception *)
          seen      (* history: head when the call was made *)

searchVars == <<lo, hi, est>>
callVars == <<calls, query, seen>>
vars == <<ts, head, cached, callVars, pc, side, searchVars, bounds, answer>>

Blocks == 0 .. MaxBlock
Times == 0 .. MaxTime

(* The timestamp of the genesis block is 0. *)
Chains == {f \in [Blocks -> Times] : /\ f[0] = 0
                                     /\ \A a, b \in Blocks : a < b => f[a] < f[b]}

None == [kind |-> "none", first |-> 0, last |-> 0]
Error(kind) == [kind |-> kind, first |-> 0, last |-> 0]

Init == /\ ts \in Chains /\ head \in 1 .. MaxBlock
        /\ cached = {} /\ calls = 0 /\ query = [start |-> 0, end |-> 0]
        /\ pc = "idle" /\ side = "start"
        /\ lo = 0 /\ hi = 0 /\ est = 0 /\ bounds = <<0, 0>>
        /\ answer = None /\ seen = head

y == IF side = "start" THEN query.start ELSE query.end

-----------------------------------------------------------------------------
(* find_best_bounds: the first two neighbours, by timestamp, around y.  The   *)
(* one block of a chain of one is cached twice and is its own neighbour.      *)
Around(p, q) == ts[p] <= y /\ y <= ts[q]

BestBounds_NoEquals(P) ==
  {b \in P \X P : /\ ts[b[1]] < y /\ y < ts[b[2]]
                  /\ \A r \in P : r <= b[1] \/ b[2] <= r}

BestBounds(P) ==
  {b \in P \X P : /\ Around(b[1], b[2])
                  /\ IF b[1] = b[2] THEN P = {b[1]}
                     ELSE \A r \in P : r <= b[1] \/ b[2] <= r
                  /\ ts[b[1]] = y => \A r \in P : b[1] <= r}

(* get_block_range_for_timestamps, with start_timestamp <= end_timestamp *)
Call(s, e) ==
  /\ pc = "idle" /\ calls < MaxCalls
  /\ s <= e
  /\ calls' = calls + 1 /\ query' = [start |-> s, end |-> e] /\ seen' = head
  /\ pc' = "lookup" /\ side' = "start" /\ answer' = None
  /\ UNCHANGED <<ts, head, cached, searchVars, bounds>>

(* get_bounds_for_y_coordinate *)
Lookup ==
  /\ pc = "lookup"
  /\ IF BestBounds(cached) = {}
     THEN pc' = "first" /\ UNCHANGED <<lo, hi>>
     ELSE \E b \in BestBounds(cached) : lo' = b[1] /\ hi' = b[2] /\ pc' = "search"
  /\ UNCHANGED <<ts, head, cached, callVars, side, est, bounds, answer>>

GetFirstPoint ==
  /\ pc = "first"
  /\ cached' = cached \cup {1} /\ lo' = 1
  /\ pc' = "last"
  /\ UNCHANGED <<ts, head, callVars, side, hi, est, bounds, answer>>

GetLastPoint ==
  /\ pc = "last"
  /\ cached' = cached \cup {head} /\ hi' = head
  /\ pc' = "search"
  /\ UNCHANGED <<ts, head, callVars, side, lo, est, bounds, answer>>

-----------------------------------------------------------------------------
(* What the service makes of the bounds of the start, and of both. *)
Return_NoSinglePoint(sb, eb) ==
  /\ pc' = "idle"
  /\ answer' = IF sb = eb THEN Error("no blocks")
               ELSE [kind  |-> "range",
                     first |-> IF sb[2] = 1 THEN 0 ELSE sb[2],
                     last  |-> eb[1]]
  /\ UNCHANGED <<side, bounds>>

Return(sb, eb) ==
  /\ pc' = "idle"
  /\ answer' = IF sb = eb /\ sb[1] # sb[2] THEN Error("no blocks")
               ELSE [kind  |-> "range",
                     first |-> IF sb[2] = 1 THEN 0 ELSE sb[2],
                     last  |-> eb[1]]
  /\ UNCHANGED <<side, bounds>>

NextSide(sb) ==
  /\ bounds' = sb /\ side' = "end" /\ pc' = "lookup"
  /\ UNCHANGED answer

Found(a, b) == IF side = "start" THEN NextSide(<<a, b>>) ELSE Return(bounds, <<a, b>>)

Inside == ts[lo] <= y /\ y <= ts[hi]

OutOfBounds ==
  /\ pc = "search" /\ ~Inside
  /\ IF side = "start" THEN NextSide(<<0, 0>>)
     ELSE /\ pc' = "idle" /\ answer' = Error("out of bounds")
          /\ UNCHANGED <<side, bounds>>
  /\ UNCHANGED <<ts, head, cached, callVars, searchVars>>

Settle_NoEqualEnd ==
  /\ pc = "search" /\ Inside
  /\ \/ y = ts[lo] /\ Found(lo, lo)
     \/ y # ts[lo] /\ hi - lo <= 1 /\ Found(lo, hi)
  /\ UNCHANGED <<ts, head, cached, callVars, searchVars>>

Settle ==
  /\ pc = "search" /\ Inside
  /\ \/ y = ts[lo] /\ Found(lo, lo)
     \/ y # ts[lo] /\ y = ts[hi] /\ Found(hi, hi)
     \/ y \notin {ts[lo], ts[hi]} /\ hi - lo <= 1 /\ Found(lo, hi)
  /\ UNCHANGED <<ts, head, cached, callVars, searchVars>>

(* interpolate rounds a float; bound puts the estimate between the ends. *)
Between_Ends(x) == lo <= x /\ x <= hi

Between(x) == lo < x /\ x < hi

Estimate1(x) ==
  /\ pc = "search" /\ Inside
  /\ y \notin {ts[lo], ts[hi]} /\ hi - lo > 1
  /\ Between(x)
  /\ cached' = cached \cup {x} /\ est' = x
  /\ pc' = "second"
  /\ UNCHANGED <<ts, head, callVars, side, lo, hi, bounds, answer>>

Estimate2(x) ==
  /\ pc = "second"
  /\ Between(x)
  /\ cached' = cached \cup {x}
  /\ IF BestBounds({lo, est, x, hi}) = {}
     THEN pc' = "idle" /\ answer' = Error("no bounds") /\ UNCHANGED <<lo, hi>>
     ELSE /\ \E b \in BestBounds({lo, est, x, hi}) : lo' = b[1] /\ hi' = b[2]
          /\ pc' = "search" /\ UNCHANGED answer
  /\ UNCHANGED <<ts, head, callVars, side, est, bounds>>

(* A request to the node fails; the exception leaves the call. *)
RequestFails ==
  /\ pc \in {"first", "last", "search", "second"}
  /\ pc = "search" => (Inside /\ y \notin {ts[lo], ts[hi]} /\ hi - lo > 1)
  /\ pc' = "idle" /\ answer' = Error("request failed")
  /\ UNCHANGED <<ts, head, cached, callVars, side, searchVars, bounds>>

(* A new block *)
Grow == /\ head < MaxBlock
        /\ head' = head + 1
        /\ UNCHANGED <<ts, cached, callVars, pc, side, searchVars, bounds, answer>>

Search == \/ Lookup \/ GetFirstPoint \/ GetLastPoint \/ OutOfBounds \/ Settle
          \/ \E x \in Blocks : Estimate1(x) \/ Estimate2(x)

Next == \/ \E s, e \in 0 .. MaxTime + 1 : Call(s, e)
        \/ Search \/ RequestFails \/ Grow

Spec == Init /\ [][Next]_vars

(* The process keeps running while the node answers. *)
LiveSpec == Spec /\ WF_vars(Search)

-----------------------------------------------------------------------------
Bounds == Blocks \X Blocks
Kinds == {"none", "range", "no blocks", "out of bounds", "no bounds", "request failed"}

TypeOK ==
  /\ ts \in Chains /\ head \in 1 .. MaxBlock
  /\ cached \in SUBSET (1 .. head)
  /\ calls \in 0 .. MaxCalls
  /\ query \in [start : 0 .. MaxTime + 1, end : 0 .. MaxTime + 1]
  /\ pc \in {"idle", "lookup", "first", "last", "search", "second"}
  /\ side \in {"start", "end"}
  /\ lo \in Blocks /\ hi \in Blocks /\ est \in Blocks
  /\ bounds \in Bounds
  /\ answer \in [kind : Kinds, first : Blocks, last : Blocks]
  /\ seen \in 1 .. head

(* Is block b in the range that was asked for? *)
Wanted(b) == query.start <= ts[b] /\ ts[b] <= query.end

(* No block of the range is left out, whatever was cached by earlier searches *)
(* and however the chain grew during this one, nor is one that comes later.   *)
RangeComplete ==
  answer.kind = "range" =>
    \A b \in 1 .. MaxBlock : Wanted(b) => answer.first <= b /\ b <= answer.last

(* ... and nothing else is in it, if the chain had reached the start when the *)
(* call was made; the genesis block comes with block 1.                       *)
NothingElse ==
  \A b \in 1 .. MaxBlock : answer.first <= b /\ b <= answer.last => Wanted(b)

RangeExact ==
  /\ RangeComplete
  /\ (answer.kind = "range" /\ query.start <= ts[seen]) => NothingElse

(* The exceptions tell the truth: the range has no block, or the chain had not *)
(* covered it when the call was made; and the estimates never lose y, so the    *)
(* search is never left without bounds.                                        *)
ErrorsJustified ==
  /\ answer.kind = "no blocks" => \A b \in 1 .. MaxBlock : ~Wanted(b)
  /\ answer.kind = "out of bounds" => query.end < ts[1] \/ ts[seen] < query.end
  /\ answer.kind # "no bounds"

(* A search ends: each step of it leaves fewer blocks between its bounds. *)
SearchEnds == (pc # "idle") ~> (pc = "idle")

(* cli/get_block_range_for_timestamps.py:46: "Outputs start and end blocks for *)
(* given timestamps."                                                         *)
RangeIsOfTheTimestamps == answer.kind = "range" => NothingElse
==============================================================================
