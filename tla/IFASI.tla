------------------------------- MODULE IFASI -------------------------------
(***************************************************************************)
(* IFASIIndex (streamring/src/subgraph_matching/ifasi_index.py): the        *)
(* streaming pattern index of Tier 1.                                       *)
(*                                                                         *)
(* out_neighbors and in_neighbors map a node to the list of its edges; the  *)
(* counts do not depend on the order of a list, so each map is the set of   *)
(* the edges it holds.  An edge carries the number of its insertion, which  *)
(* keeps equal transactions apart as the lists do.  The history variable    *)
(* `all' is the index that would never evict.                               *)
(*                                                                         *)
(* A definition X_Y, before X, is a faulty variant of X: each property is   *)
(* checked to tell one such variant from the code.                         *)
(***************************************************************************)
EXTENDS Integers, FiniteSets

CONSTANTS Nodes,
          MaxTime,       (* bound: timestamps are 0 .. MaxTime *)
          MaxEdges,      (* bound on the number of insertions *)
          Gap,           (* max_temporal_gap *)
          Window,        (* window_size *)
          EvictEvery,    (* insertions between two clean-ups, 10000 in the code *)
          FanDegrees,    (* the min_degree of the fan features, {3, 5} *)
          BurstWindow,   (* burst_window, 300 *)
          BurstEdges     (* min_edges of a burst, 10 *)

ASSUME IFASIAssumption ==
  /\ MaxTime \in Nat /\ MaxEdges \in Nat
  /\ Gap \in Nat /\ Window \in Nat /\ BurstWindow \in Nat
  /\ EvictEvery \in Nat \ {0}
  /\ FanDegrees \in SUBSET Nat /\ BurstEdges \in Nat

VARIABLES outE,    (* out_neighbors *)
          inE,     (* in_neighbors *)
          now,     (* current_time *)
          count,   (* edge_count *)
          all,     (* history: every edge inserted so far *)
          latest   (* history: the edges of the last insertion *)

index == <<outE, inE, now, count, all, latest>>

Times == 0 .. MaxTime
Edge == [src : Nodes, dst : Nodes, t : Times, id : 1 .. MaxEdges]

IndexInit == /\ outE = {} /\ inE = {}
             /\ now = 0 /\ count = 0
             /\ all = {} /\ latest = {}

-----------------------------------------------------------------------------
Newer(a, b) == IF a >= b THEN a ELSE b

(* _evict_expired: both maps keep the edges that are not before the cutoff. *)
Unexpired_OneOff(E, time) == {e \in E : e.t >= time - Window + 1}

Unexpired(E, time) == {e \in E : e.t >= time - Window}

(* insert_edge *)
InsertEdge(e) ==
  /\ count < MaxEdges
  /\ e.id = count + 1
  /\ count' = count + 1
  /\ now' = Newer(now, e.t)
  /\ IF count' % EvictEvery = 0
     THEN /\ outE' = Unexpired(outE \cup {e}, now')
          /\ inE' = Unexpired(inE \cup {e}, now')
     ELSE /\ outE' = outE \cup {e}
          /\ inE' = inE \cup {e}
  /\ all' = all \cup {e}
  /\ latest' = {e}

IndexNext == \E e \in Edge : InsertEdge(e)

IndexSpec == IndexInit /\ [][IndexNext]_index

-----------------------------------------------------------------------------
(* The queries, over a set of out-edges O and a set of in-edges I. *)
Near(a, b, d) == a - b <= d /\ b - a <= d

(* count_cycles_2 *)
Cycles2(O, n, ref) ==
  {p \in O \X O : /\ p[1].src = n /\ Near(ref, p[1].t, Gap)
                  /\ p[2].src = p[1].dst /\ p[2].dst = n
                  /\ p[2].t > p[1].t /\ p[2].t - p[1].t <= Gap}

(* count_cycles_3 *)
Cycles3_Lax(O, n, ref) ==
  {p \in O \X O \X O : /\ p[1].src = n /\ Near(ref, p[1].t, Gap)
                       /\ p[2].src = p[1].dst /\ p[2].dst # n
                       /\ p[3].src = p[2].dst /\ p[3].dst = n
                       /\ p[3].t > p[2].t /\ p[3].t - p[1].t < Gap}

Cycles3(O, n, ref) ==
  {p \in O \X O \X O : /\ p[1].src = n /\ Near(ref, p[1].t, Gap)
                       /\ p[2].src = p[1].dst /\ p[2].dst # n
                       /\ p[2].t > p[1].t /\ p[2].t - p[1].t <= Gap
                       /\ p[3].src = p[2].dst /\ p[3].dst = n
                       /\ p[3].t > p[2].t /\ p[3].t - p[1].t <= 2 * Gap}

(* count_fan_out and count_fan_in, before the comparison with min_degree *)
FanOut(O, n, ref) == {e.dst : e \in {o \in O : o.src = n /\ Near(ref, o.t, Gap)}}
FanIn(I, n, ref)  == {e.src : e \in {i \in I : i.dst = n /\ Near(ref, i.t, Gap)}}

(* count_temporal_burst, before the comparison with min_edges *)
BurstOut(O, n, ref) == {e \in O : e.src = n /\ Near(ref, e.t, BurstWindow)}
BurstIn(I, n, ref)  == {e \in I : e.dst = n /\ Near(ref, e.t, BurstWindow)}

(* get_pattern_features: the entries that are not constant 0. *)
Features(O, I, n, ref) ==
  [ cycle2 |-> Cardinality(Cycles2(O, n, ref)),
    cycle3 |-> Cardinality(Cycles3(O, n, ref)),
    fanOut |-> {d \in FanDegrees : Cardinality(FanOut(O, n, ref)) >= d},
    fanIn  |-> {d \in FanDegrees : Cardinality(FanIn(I, n, ref)) >= d},
    burst  |-> Cardinality(BurstOut(O, n, ref)) + Cardinality(BurstIn(I, n, ref))
                 >= BurstEdges ]

-----------------------------------------------------------------------------
IndexTypeOK == /\ outE \in SUBSET Edge /\ inE \in SUBSET Edge
               /\ now \in Times /\ count \in 0 .. MaxEdges
               /\ all \in SUBSET Edge /\ latest \in SUBSET Edge

(* How far a query looks back from its reference time. *)
LookBack == Newer(Gap, BurstWindow)

(* Eviction is invisible to streaming queries: with any reference time that is *)
(* not older than the newest transaction by more than Window - LookBack, the   *)
(* features are those of an index that never evicts: the same two maps until   *)
(* something was evicted from one of them, and the same features from then on. *)
Evicted == all \ (outE \cap inE)

EvictionTransparent ==
  Evicted # {} =>
    \A n \in Nodes, ref \in Times :
      ref >= now - (Window - LookBack)
        => Features(outE, inE, n, ref) = Features(all, all, n, ref)

(* process_transaction asks for the features of the transaction's two ends at  *)
(* its own timestamp.  Transactions come in any order; one that is not late by *)
(* more than Window - Gap and closes a transfer there and back within Gap sees *)
(* the cycle at its destination, whatever was evicted before.                  *)
InTime(e) == e.t >= now - (Window - Gap)

Cycle2SeenWhenClosed ==
  \A e \in latest, f \in all :
    (InTime(e) /\ f.src = e.dst /\ f.dst = e.src /\ f.t < e.t /\ e.t - f.t <= Gap)
      => <<f, e>> \in Cycles2(outE, e.dst, e.t)

(* ... and one that closes a ring of three within Gap sees that ring. *)
ClosesRing(f, g, e, span) ==
  /\ f.src = e.dst /\ g.src = f.dst /\ g.dst = e.src
  /\ f.src # g.src /\ g.src # e.src /\ e.src # f.src
  /\ f.t < g.t /\ g.t < e.t /\ e.t - f.t <= span

Cycle3SeenWhenClosed ==
  \A e \in latest, f \in all, g \in all :
    (InTime(e) /\ ClosesRing(f, g, e, Gap))
      => <<f, g, e>> \in Cycles3(outE, e.dst, e.t)

(* The two rings whose features process_transaction scores. *)
CyclesSeenWhenClosed == Cycle2SeenWhenClosed /\ Cycle3SeenWhenClosed
==============================================================================
