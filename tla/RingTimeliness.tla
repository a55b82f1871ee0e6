---------------------------- MODULE RingTimeliness ----------------------------
(***************************************************************************)
(* From a temporal graph to Ring Detection Timeliness: generate_labels,    *)
(* find_fraud_rings, the replay of simulate_detection_rdt_actual, and      *)
(* compute_rdt with its weighted form.                                     *)
(*                                                                         *)
(* The classifier sees only the two ends of an edge, so its answer is a    *)
(* set of pairs, any set.  Known attackers and the thresholds on cycle     *)
(* counts and degrees label any of `KnownLabels'.  Internal transfers have *)
(* no timestamp in the extract: their time is 0.                           *)
(***************************************************************************)
EXTENDS Integers, Sequences, FiniteSets, FiniteSetsExt

CONSTANTS Accounts,
          KnownLabels,   (* sets of accounts that the other labels may mark *)
          MaxTransfers,  (* bound on the edges *)
          LastTransfer,  (* bound on the timestamps *)
          Scale          (* units in a weight of one: every duration divides it *)

ASSUME RingsAssumption ==
  /\ IsFiniteSet(Accounts) /\ KnownLabels \subseteq SUBSET Accounts
  /\ MaxTransfers \in Nat /\ LastTransfer \in Nat
  /\ Scale \in Nat \ {0} /\ \A d \in 1 .. LastTransfer : Scale % d = 0

VARIABLES
  rtPhase,    (* "off", "graph", "rings", "replay" or "done" *)
  edges,      (* the edges in the order of edge_time *)
  flagged,    (* the pairs whose score reaches the threshold *)
  fraud,      (* nodes labelled 1 *)
  unvisited,  (* fraud nodes find_fraud_rings has not visited *)
  rings,      (* the rings found *)
  replayed,   (* edges replayed *)
  detected    (* detection_times, None where missing *)

ringsVars == <<rtPhase, edges, flagged, fraud, unvisited, rings, replayed, detected>>

Undetected == -1
EdgeIndices == DOMAIN edges
Pair(e) == <<e.src, e.dst>>
Pairs == {Pair(edges[i]) : i \in EdgeIndices}

RingsOff == /\ rtPhase = "off" /\ edges = <<>> /\ flagged = {} /\ fraud = {} /\ unvisited = {}
            /\ rings = <<>> /\ replayed = 0 /\ detected = [n \in Accounts |-> Undetected]

RingsInit == /\ rtPhase = "graph" /\ edges = <<>> /\ flagged = {} /\ fraud = {} /\ unvisited = {}
             /\ rings = <<>> /\ replayed = 0 /\ detected = [n \in Accounts |-> Undetected]

(* build_temporal_graph: all edges, sorted by edge_time. *)
AddEdge ==
  /\ rtPhase = "graph" /\ Len(edges) < MaxTransfers
  /\ \E s, d \in Accounts, t \in 0 .. LastTransfer :
       /\ edges # <<>> => edges[Len(edges)].t <= t
       /\ edges' = Append(edges, [src |-> s, dst |-> d, t |-> t])
  /\ UNCHANGED <<rtPhase, flagged, fraud, unvisited, rings, replayed, detected>>

-----------------------------------------------------------------------------
(* What can be reached from n over the pairs ps: the least set that has n and *)
(* that no pair leads out of.                                                 *)
Closed(ns, ps) == \A p \in ps : p[1] \in ns => p[2] \in ns
Reach(n, ps) == {m \in Accounts : \A ns \in SUBSET Accounts : n \in ns /\ Closed(ns, ps) => m \in ns}

Component(n, ps) == {m \in Reach(n, ps) : n \in Reach(m, ps)}

(* label_heuristic_patterns: self-loops. *)
SelfLoops == {p[1] : p \in {q \in Pairs : q[1] = q[2]}}

(* label_structural_anomalies: nx.density(subG) > 0.3 in a component of 3 to 50. *)
Dense(c) == 10 * Cardinality({p \in Pairs : p[1] \in c /\ p[2] \in c})
              > 3 * Cardinality(c) * (Cardinality(c) - 1)

Structural ==
  {n \in Accounts : LET c == Component(n, Pairs) IN Cardinality(c) \in 3 .. 50 /\ Dense(c)}

GenerateLabels ==
  /\ rtPhase = "graph" /\ edges # <<>>
  /\ \E known \in KnownLabels : fraud' = known \cup SelfLoops \cup Structural
  /\ flagged' \in SUBSET Pairs
  /\ unvisited' = fraud'
  /\ rtPhase' = "rings"
  /\ UNCHANGED <<edges, rings, replayed, detected>>

-----------------------------------------------------------------------------
(* find_fraud_rings: adj holds the pairs of fraud nodes in both directions. *)
Adjacent_Directed == {p \in Pairs : p[1] \in fraud /\ p[2] \in fraud}

Adjacent == LET ps == {p \in Pairs : p[1] \in fraud /\ p[2] \in fraud}
            IN  ps \cup {<<p[2], p[1]>> : p \in ps}

(* edge_times_by_pair keeps the last time of a pair. *)
PairTime_First(p) == Min({edges[i].t : i \in {j \in EdgeIndices : Pair(edges[j]) = p}})

PairTime(p) == edges[Max({i \in EdgeIndices : Pair(edges[i]) = p})].t

FindRing ==
  /\ rtPhase = "rings" /\ unvisited # {}
  /\ \E n \in unvisited :
       LET members == Reach(n, Adjacent)
           times == {PairTime(p) : p \in {q \in Pairs : q[1] \in members /\ q[2] \in members}}
       IN  /\ unvisited' = unvisited \ members
           /\ rings' = IF Cardinality(members) < 2 THEN rings
                       ELSE Append(rings, [members |-> members, start |-> Min(times),
                                           completion |-> Max(times)])
  /\ UNCHANGED <<rtPhase, edges, flagged, fraud, replayed, detected>>

RingsFound == /\ rtPhase = "rings" /\ unvisited = {}
              /\ rtPhase' = "replay"
              /\ UNCHANGED <<edges, flagged, fraud, unvisited, rings, replayed, detected>>

-----------------------------------------------------------------------------
(* The replay of all edges: the first flagged edge of a fraud node. *)
ReplayEdge ==
  /\ rtPhase = "replay" /\ replayed < Len(edges)
  /\ LET e == edges[replayed + 1]
     IN  detected' = [n \in Accounts |->
                        IF /\ Pair(e) \in flagged /\ n \in {e.src, e.dst} \cap fraud
                           /\ detected[n] = Undetected
                        THEN e.t ELSE detected[n]]
  /\ replayed' = replayed + 1
  /\ UNCHANGED <<rtPhase, edges, flagged, fraud, unvisited, rings>>

Replayed == /\ rtPhase = "replay" /\ replayed = Len(edges)
            /\ rtPhase' = "done"
            /\ UNCHANGED <<edges, flagged, fraud, unvisited, rings, replayed, detected>>

RingsNext == AddEdge \/ GenerateLabels \/ FindRing \/ RingsFound \/ ReplayEdge \/ Replayed

RingsSpec == RingsInit /\ [][RingsNext]_ringsVars

-----------------------------------------------------------------------------
(* compute_rdt: detections of ring members, and those before the completion. *)
Detections ==
  {d \in (DOMAIN rings) \X Accounts : d[2] \in rings[d[1]].members /\ detected[d[2]] # Undetected}

DetectedBefore == {d \in Detections : detected[d[2]] < rings[d[1]].completion}

(* compute_rdt_weighted, in units of 1/Scale. *)
Duration(r) == rings[r].completion - rings[r].start
Weighed == {d \in Detections : Duration(d[1]) > 0}

Weight(d) ==
  IF d \notin DetectedBefore THEN 0
  ELSE Min({Scale, ((rings[d[1]].completion - detected[d[2]]) * Scale) \div Duration(d[1])})

(* The sum of the weights, unit by unit: uncapped, none has more than *)
(* Scale * LastTransfer.                                              *)
TotalWeight == Cardinality({u \in Weighed \X (1 .. Scale * LastTransfer) : u[2] <= Weight(u[1])})

-----------------------------------------------------------------------------
(* The rings are the parts of the fraud nodes: every transfer between two of  *)
(* them is inside one ring, no node is in two, and no ring falls apart.       *)
RingsPartition ==
  rtPhase \in {"replay", "done"} =>
    /\ \A r, q \in DOMAIN rings : r # q => rings[r].members \cap rings[q].members = {}
    /\ \A p \in Pairs : p[1] # p[2] /\ {p[1], p[2]} \subseteq fraud =>
         \E r \in DOMAIN rings : {p[1], p[2]} \subseteq rings[r].members
    /\ \A r \in DOMAIN rings : \A part \in (SUBSET rings[r].members) \ {{}, rings[r].members} :
         \E p \in Pairs : {p[1], p[2]} \subseteq rings[r].members
                          /\ Cardinality({p[1], p[2]} \cap part) = 1

(* From labels to rings: three accounts that pay each other in a circle, in a *)
(* component of at most four, are all in one ring, whatever was known before.*)
CirclesAreRings ==
  rtPhase \in {"replay", "done"} =>
    \A a, b, c \in Accounts :
      (/\ Cardinality({a, b, c}) = 3 /\ {<<a, b>>, <<b, c>>, <<c, a>>} \subseteq Pairs
       /\ Cardinality(Component(a, Pairs)) <= 4)
         => \E r \in DOMAIN rings : {a, b, c} \subseteq rings[r].members

(* The rings are all there is to detect, each once. *)
RingsExact == RingsPartition /\ CirclesAreRings

(* A member counts as detected in time exactly when an edge that touches it   *)
(* is flagged before some later transfer inside its ring: however often pairs *)
(* repeat, the first alarm is compared with the last transfer.                *)
EarlyIsEarly ==
  rtPhase = "done" =>
    \A r \in DOMAIN rings, n \in Accounts :
      <<r, n>> \in DetectedBefore <=>
        /\ n \in rings[r].members
        /\ \E i, j \in EdgeIndices :
             /\ Pair(edges[i]) \in flagged /\ n \in {edges[i].src, edges[i].dst}
             /\ {edges[j].src, edges[j].dst} \subseteq rings[r].members
             /\ edges[i].t < edges[j].t

(* When every ring lasts, the weighted metric is at most the plain one: a     *)
(* detection never earns more than one, though start_time may be later than  *)
(* the ring's first transfer.                                                 *)
WeightedIsLess ==
  rtPhase = "done" /\ (\A r \in DOMAIN rings : Duration(r) > 0) =>
    TotalWeight * Cardinality(Detections) <= Scale * Cardinality(DetectedBefore) * Cardinality(Weighed)

(* The two scores agree on which detections were in time. *)
TimelinessHolds == EarlyIsEarly /\ WeightedIsLess

(* "Measures the fraction of fraud ring members detected BEFORE the ring        *)
(* completes" (metrics.py line 37): what the detections in time are divided by  *)
(* is the number of members of the rings found, the undetected ones included.   *)
RingMembers == {m \in (DOMAIN rings) \X Accounts : m[2] \in rings[m[1]].members}

ScoreIsOfMembers ==
  rtPhase = "done" /\ DetectedBefore # {} => Cardinality(Detections) = Cardinality(RingMembers)
==============================================================================
