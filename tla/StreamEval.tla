------------------------------ MODULE StreamEval ------------------------------
(***************************************************************************)
(* The streaming experiments (lstm_tier3, streaming_simulation and         *)
(* graphsage_tier3): a warm-up graph that Tier 3 is trained on, then one   *)
(* pass that pushes every later edge through the three tiers and keeps the *)
(* tallies of the tables.  A model's answer is any answer; amounts and     *)
(* feature vectors are left out.                                           *)
(***************************************************************************)
EXTENDS Integers, Sequences, FiniteSets, FiniteSetsExt

CONSTANTS Vertices,   (* node ids, numbers *)
          FraudSet,
          NumEdges,
          LastTime,   (* bound: edge times are 0 .. LastTime *)
          Recent,     (* 10000 *)
          Caps        (* the values of 300 *)

ASSUME StreamEvalAssumption ==
  /\ Vertices \subseteq Nat /\ Caps \subseteq Nat
  /\ NumEdges \in Nat /\ LastTime \in Nat /\ Recent \in Nat

VARIABLES
  cap,      (* the most nodes a subgraph keeps *)
  sePhase,  (* "off", "warmup", "trained" or "stream" *)
  running,  (* running_src, running_dst and the times, in the order of time *)
  nodeTs,   (* node_ts_dict, Unseen for a missing key *)
  tiers,    (* tier_dist *)
  confusion,
  tier3Latencies,   (* the number of tier3_latencies *)
  looked    (* the subgraph last looked at: its nodes, their times, and by whom *)

streamEvalVars == <<cap, sePhase, running, nodeTs, tiers, confusion, tier3Latencies, looked>>

Unseen == LastTime + 1   (* float("inf") *)
WarmupN == (NumEdges * 6) \div 10
Zero(keys) == [k \in keys |-> 0]
TierNames == {"tier1_safe", "tier2_suspicious", "tier3_fraud", "tier3_likely_fraud"}
Cells == {"tp", "fp", "tn", "fn"}
Nothing == [by |-> "nobody", nodes |-> {}, cut |-> FALSE, times |-> <<>>]

StreamEvalOff == /\ cap = 0 /\ sePhase = "off" /\ running = <<>> /\ nodeTs = <<>> /\ tiers = <<>>
                 /\ confusion = <<>> /\ tier3Latencies = 0 /\ looked = Nothing

StreamEvalInit == /\ cap \in Caps /\ sePhase = "warmup" /\ running = <<>> /\ nodeTs = [n \in Vertices |-> Unseen]
                  /\ tiers = Zero(TierNames) /\ confusion = Zero(Cells) /\ tier3Latencies = 0
                  /\ looked = Nothing

-----------------------------------------------------------------------------
(* k_hop_subgraph(center, 2, ...) on the last k edges, cut to the cap lowest  *)
(* ids; edges are followed from their target to their source.                *)
LastEdges(k) == {running'[i] : i \in Len(running') - k + 1 .. Len(running')}
Into(ns, es) == {e.src : e \in {f \in es : f.dst \in ns}}
TwoHop(center, es) == {center} \cup Into({center}, es) \cup Into(Into({center}, es), es)
CutTo(ns) == {n \in ns : Cardinality({m \in ns : m < n}) < cap}
Within(ns, k) == {i \in Len(running') - k + 1 .. Len(running') : {running'[i].src, running'[i].dst} \subseteq ns}

(* The rejections before the cut. *)
Usable(center, k) == /\ Cardinality(TwoHop(center, LastEdges(k))) >= 3
                     /\ Cardinality(Within(TwoHop(center, LastEdges(k)), k)) >= 2

LookAt(by, center, k, times) ==
  LET all == TwoHop(center, LastEdges(k))
  IN  looked' = [by |-> by, nodes |-> CutTo(all), cut |-> CutTo(all) # all,
                 times |-> [n \in CutTo(all) |-> times[n]]]

(* build_node_timestamps: the latest edge inside the subset, or Unseen *)
BuildNodeTimestamps(ns, k, n) ==
  LET mine == {i \in Within(ns, k) : n \in {running'[i].src, running'[i].dst}}
  IN  IF mine = {} THEN Unseen ELSE Max({running'[i].t : i \in mine})

-----------------------------------------------------------------------------
NowTime == IF running = <<>> THEN 0 ELSE running[Len(running)].t

(* The next edge of the order of time: the running graph and node_ts_dict *)
Arrive(e) ==
  /\ e.src \in Vertices /\ e.dst \in Vertices /\ e.t \in NowTime .. LastTime
  /\ running' = Append(running, e)
  /\ nodeTs' = [n \in Vertices |-> IF n \in {e.src, e.dst} THEN e.t ELSE nodeTs[n]]

StreamEdge == [src : Vertices, dst : Vertices, t : 0 .. LastTime]

Warm == /\ sePhase = "warmup" /\ Len(running) < WarmupN
        /\ \E e \in StreamEdge : Arrive(e)
        /\ UNCHANGED <<cap, sePhase, tiers, confusion, tier3Latencies, looked>>

(* _extract_warmup_subgraphs for one sampled node; after a cut it needs two  *)
(* edges again.  A node it rejects is `continue'.                            *)
Sample ==
  /\ sePhase = "warmup" /\ Len(running) = WarmupN
  /\ sePhase' = "trained"
  /\ UNCHANGED <<cap, running, nodeTs, tiers, confusion, tier3Latencies>>
  /\ \/ looked' = Nothing
     \/ \E n \in Vertices :
          LET kept == CutTo(TwoHop(n, LastEdges(WarmupN)))
              times == [m \in kept |-> BuildNodeTimestamps(kept, WarmupN, m)]
          IN  /\ Usable(n, WarmupN) /\ Cardinality(Within(kept, WarmupN)) >= 2
              /\ LookAt("training", n, WarmupN, times)

Trained == /\ sePhase = "trained" /\ sePhase' = "stream"
           /\ looked' = Nothing
           /\ UNCHANGED <<cap, running, nodeTs, tiers, confusion, tier3Latencies>>

-----------------------------------------------------------------------------
IsFraud(e) == e.src \in FraudSet \/ e.dst \in FraudSet
More(counts, key) == [counts EXCEPT ![key] = @ + 1]

Missed(e) == confusion' = More(confusion, IF IsFraud(e) THEN "fn" ELSE "tn")

NRecent == IF Len(running') < WarmupN + Recent THEN Len(running') ELSE WarmupN + Recent

Streaming == sePhase = "stream" /\ Len(running) < NumEdges

(* Tier 1 scores below its threshold. *)
EdgeSafe_Untimed == /\ Streaming
                    /\ \E e \in StreamEdge : /\ e.t >= NowTime /\ running' = Append(running, e)
                                     /\ Missed(e)
                    /\ tiers' = More(tiers, "tier1_safe") /\ looked' = Nothing
                    /\ UNCHANGED <<cap, sePhase, nodeTs, tier3Latencies>>

EdgeSafe == /\ Streaming
            /\ \E e \in StreamEdge : Arrive(e) /\ Missed(e)
            /\ tiers' = More(tiers, "tier1_safe")
            /\ looked' = Nothing
            /\ UNCHANGED <<cap, sePhase, tier3Latencies>>

(* Tier 2 scores below one half. *)
EdgeSuspicious == /\ Streaming
                  /\ \E e \in StreamEdge : Arrive(e) /\ Missed(e)
                  /\ tiers' = More(tiers, "tier2_suspicious")
                  /\ looked' = Nothing
                  /\ UNCHANGED <<cap, sePhase, tier3Latencies>>

(* Tier 3 looks at the subgraph of the sender and finds fraud. *)
EdgeFraud ==
  /\ Streaming
  /\ \E e \in StreamEdge :
       /\ Arrive(e) /\ Usable(e.src, NRecent)
       /\ LookAt("streaming", e.src, NRecent, nodeTs')
       /\ confusion' = More(confusion, IF IsFraud(e) THEN "tp" ELSE "fp")
  /\ tiers' = More(tiers, "tier3_fraud") /\ tier3Latencies' = tier3Latencies + 1
  /\ UNCHANGED <<cap, sePhase>>

(* ... does not, raises, or the subgraph is too small. *)
EdgeLikely_Uncounted ==
  /\ Streaming
  /\ \E e \in StreamEdge : Arrive(e) /\ (Usable(e.src, NRecent) => Missed(e))
                     /\ (~Usable(e.src, NRecent) => UNCHANGED confusion)
  /\ tiers' = More(tiers, "tier3_likely_fraud") /\ tier3Latencies' = tier3Latencies + 1
  /\ looked' = Nothing
  /\ UNCHANGED <<cap, sePhase>>

EdgeLikely ==
  /\ Streaming
  /\ \E e \in StreamEdge : Arrive(e) /\ Missed(e)
  /\ tiers' = More(tiers, "tier3_likely_fraud") /\ tier3Latencies' = tier3Latencies + 1
  /\ looked' = Nothing
  /\ UNCHANGED <<cap, sePhase>>

StreamEvalNext == Warm \/ Sample \/ Trained \/ EdgeSafe \/ EdgeSuspicious \/ EdgeFraud \/ EdgeLikely

StreamEvalSpec == StreamEvalInit /\ [][StreamEvalNext]_streamEvalVars

-----------------------------------------------------------------------------
(* The columns of the result tables are about the same edges: every edge      *)
(* after the warm-up has one tier and one cell, fraud found by the third tier *)
(* is what precision divides by, and the latencies are of that tier.          *)
TalliesAgree ==
  sePhase = "stream" =>
    /\ tiers["tier1_safe"] + tiers["tier2_suspicious"] + tiers["tier3_fraud"]
         + tiers["tier3_likely_fraud"] = Len(running) - WarmupN
    /\ confusion["tp"] + confusion["fp"] + confusion["tn"] + confusion["fn"] = Len(running) - WarmupN
    /\ confusion["tp"] + confusion["fp"] = tiers["tier3_fraud"]
    /\ tier3Latencies = tiers["tier3_fraud"] + tiers["tier3_likely_fraud"]

(* What Tier 3 is told of time: in training and in the stream every node of a *)
(* subgraph that was not cut has a time, that of an edge of its own; in the   *)
(* stream it is never before an edge that the node has in the running graph,  *)
(* even one that left the window, and in training never before one inside.   *)
Own(n) == {i \in DOMAIN running : n \in {running[i].src, running[i].dst}}

SubgraphTimes ==
  \A n \in looked.nodes :
    /\ ~looked.cut \/ looked.by = "streaming" => looked.times[n] \in {running[i].t : i \in Own(n)}
    /\ \A i \in Own(n) :
         looked.by = "streaming" \/ {running[i].src, running[i].dst} \subseteq looked.nodes
           => looked.times[n] >= running[i].t
===============================================================================
