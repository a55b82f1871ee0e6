------------------------------ MODULE Cascade ------------------------------
(***************************************************************************)
(* StreamRingPipeline (streamring/src/fraud_detection/streamring.py): a     *)
(* transaction goes through three tiers, each of which may settle it.       *)
(*                                                                         *)
(* process_transaction runs in one thread; its stages are steps here, so    *)
(* that the stage at which it raises is a step as well.  The pattern index  *)
(* of Tier 1 is IFASI.  What a model answers is any answer; a feature       *)
(* vector is its length, which is what can make a tier fail.                *)
(*                                                                         *)
(* A definition X_Y, before X, is a faulty variant of X: each property is   *)
(* checked to tell one such variant from the code.                         *)
(***************************************************************************)
EXTENDS IFASI

CONSTANTS Sorted,         (* transactions arrive in timestamp order *)
          Vectors,        (* what node_features may hold: a node and the *)
                          (* length of its vector, which is not 1        *)
          MaxSubset,      (* the 300 nodes a subgraph is cut to *)
          Tier2Model,     (* tier2_model is not None *)
          Tier3Model,     (* tier3_model is not None *)
          HalfEscalates   (* the score 0.5 is not below tier2_threshold *)

ASSUME CascadeAssumption ==
  /\ Nodes \in SUBSET Nat /\ Vectors \in SUBSET (Nodes \X (Nat \ {0}))
  /\ MaxSubset \in Nat
  /\ Sorted \in BOOLEAN /\ Tier2Model \in BOOLEAN
  /\ Tier3Model \in BOOLEAN /\ HalfEscalates \in BOOLEAN

VARIABLES graph,      (* _edge_index, an edge with its insertion number *)
          nodeTime,   (* _node_timestamps, -1 where there is none *)
          feats,      (* lengths of _node_features, 0 where there is none *)
          firstFeat,  (* the first key of _node_features, as a set *)
          pc,         (* the stage of process_transaction *)
          tx,         (* its transaction, as a set of at most one *)
          stats,      (* the four counts of stats *)
          out,        (* the last StreamRingOutput, as a set of at most one *)
          answers,    (* history: the number of outputs of each result *)
          raised      (* history: exceptions raised after tier1_count += 1 *)

state == <<graph, nodeTime, feats, firstFeat>>
ledger == <<stats, out, answers, raised>>
vars == <<index, state, pc, tx, ledger>>

Results == {"SAFE", "SUSPICIOUS", "LIKELY_FRAUD", "FRAUD_RING"}
Counts == [{"tier1", "tier2", "tier3", "total"} -> Nat]

Init == /\ IndexInit
        /\ graph = {}
        /\ nodeTime = [n \in Nodes |-> -1]
        /\ feats = [n \in Nodes |-> 0] /\ firstFeat = {}
        /\ pc = "idle" /\ tx = {} /\ out = {}
        /\ stats = [k \in {"tier1", "tier2", "tier3", "total"} |-> 0]
        /\ answers = [r \in Results |-> 0] /\ raised = 0

-----------------------------------------------------------------------------
FeatDims == {v[2] : v \in Vectors}

(* _update_graph_state; given is what node_features holds: nothing, or the *)
(* length d of the vector of one node.                                     *)
UpdateGraph_FirstWins(e, given) ==
  /\ graph' = graph \cup {e}
  /\ nodeTime' = [n \in Nodes |-> IF n \in {e.src, e.dst} /\ nodeTime[n] = -1
                                  THEN e.t ELSE nodeTime[n]]
  /\ feats' = [n \in Nodes |-> IF \E d \in FeatDims : <<n, d>> \in given
                               THEN CHOOSE d \in FeatDims : <<n, d>> \in given
                               ELSE feats[n]]
  /\ firstFeat' = IF firstFeat = {} THEN {p[1] : p \in given} ELSE firstFeat

UpdateGraph(e, given) ==
  /\ graph' = graph \cup {e}
  /\ nodeTime' = [n \in Nodes |-> IF n \in {e.src, e.dst} THEN e.t ELSE nodeTime[n]]
  /\ feats' = [n \in Nodes |-> IF \E d \in FeatDims : <<n, d>> \in given
                               THEN CHOOSE d \in FeatDims : <<n, d>> \in given
                               ELSE feats[n]]
  /\ firstFeat' = IF firstFeat = {} THEN {p[1] : p \in given} ELSE firstFeat

(* process_transaction up to the query of the patterns *)
Receive(e, given) ==
  /\ pc = "idle"
  /\ Sorted => e.t >= now
  /\ InsertEdge(e)
  /\ UpdateGraph(e, given)
  /\ tx' = {e} /\ out' = {}
  /\ pc' = "tier1"
  /\ UNCHANGED <<stats, answers, raised>>

-----------------------------------------------------------------------------
(* _update_stats and the return of an output *)
Output_Unrecorded(counted, result, members) ==
  /\ stats' = counted
  /\ answers' = [answers EXCEPT ![result] = @ + 1]
  /\ out' = {[result |-> result, members |-> members]}
  /\ pc' = "idle"
  /\ UNCHANGED <<index, state, tx, raised>>

Output(counted, result, members) ==
  /\ stats' = [counted EXCEPT !["total"] = @ + 1]
  /\ answers' = [answers EXCEPT ![result] = @ + 1]
  /\ out' = {[result |-> result, members |-> members]}
  /\ pc' = "idle"
  /\ UNCHANGED <<index, state, tx, raised>>

Counted(tier) == [stats EXCEPT ![tier] = @ + 1]

(* predict_proba raises: the transaction stays in the graph and the index. *)
Tier1Raises ==
  /\ pc = "tier1"
  /\ pc' = "idle"
  /\ UNCHANGED <<index, state, tx, ledger>>

Tier1Safe == pc = "tier1" /\ Output(Counted("tier1"), "SAFE", {})

Tier1Escalates ==
  /\ pc = "tier1"
  /\ stats' = [Counted("tier1") EXCEPT !["tier2"] = @ + 1]
  /\ pc' = "tier2"
  /\ UNCHANGED <<index, state, tx, out, answers, raised>>

-----------------------------------------------------------------------------
Known == {e.src : e \in graph} \cup {e.dst : e \in graph}

(* nid < self._num_nodes *)
Indexed == {n \in Nodes : \E m \in Known : n <= m}

(* A vector of N that does not fit the matrix made for the first vector's length *)
Mismatch(N) == \E n \in N, m \in firstFeat : feats[n] # 0 /\ feats[n] # feats[m]

Tier2Ready == Tier2Model /\ Cardinality(graph) >= 2

(* _run_tier2 fills the matrix outside its try. *)
Tier2Raises ==
  /\ pc = "tier2"
  /\ Tier2Ready /\ Mismatch(Indexed)
  /\ raised' = raised + 1
  /\ pc' = "idle"
  /\ UNCHANGED <<index, state, tx, stats, out, answers>>

(* The score of a model, or 0.5 without one and where it raises *)
Tier2Scores == Tier2Ready => ~Mismatch(Indexed)

Tier2Suspicious ==
  /\ pc = "tier2" /\ Tier2Scores
  /\ Tier2Ready \/ ~HalfEscalates
  /\ Output(stats, "SUSPICIOUS", {})

Tier2Escalates ==
  /\ pc = "tier2" /\ Tier2Scores
  /\ Tier2Ready \/ HalfEscalates
  /\ stats' = Counted("tier3")
  /\ pc' = "tier3"
  /\ UNCHANGED <<index, state, tx, out, answers, raised>>

-----------------------------------------------------------------------------
(* torch_geometric.utils.k_hop_subgraph with its default flow: it follows   *)
(* edges from their target to their source; the subset is sorted.           *)
Sources(N) == {e.src : e \in {g \in graph : g.dst \in N}}

TwoHops(n) == {n} \cup Sources({n}) \cup Sources(Sources({n}))

Induced(N) == {e \in graph : e.src \in N /\ e.dst \in N}

(* subset[:300] *)
Truncated_OneShort(N) == {n \in N : Cardinality({m \in N : m < n}) < MaxSubset - 1}

Truncated(N) == {n \in N : Cardinality({m \in N : m < n}) < MaxSubset}

(* _extract_subgraph: no subgraph, or the one of Truncated(TwoHops(n)). *)
HasSubgraph(n) ==
  /\ Cardinality(graph) >= 2
  /\ Cardinality(TwoHops(n)) >= 3
  /\ Cardinality(Induced(TwoHops(n))) >= 2
  /\ ~Mismatch(Truncated(TwoHops(n)))

Subset(n) == Truncated(TwoHops(n))

(* _run_tier3: a model that finds fraud in the subgraph *)
Tier3FraudRing ==
  /\ pc = "tier3"
  /\ \E e \in tx : /\ Tier3Model /\ HasSubgraph(e.src)
                   /\ Output(stats, "FRAUD_RING", Subset(e.src))

(* ... one that does not or raises, no model, or no subgraph *)
Tier3LikelyFraud == pc = "tier3" /\ Output(stats, "LIKELY_FRAUD", {})

Given == {{}} \cup {{v} : v \in Vectors}

Tiers == \/ Tier1Raises \/ Tier1Safe \/ Tier1Escalates
         \/ Tier2Raises \/ Tier2Suspicious \/ Tier2Escalates
         \/ Tier3FraudRing \/ Tier3LikelyFraud

Next == (\E e \in Edge, given \in Given : Receive(e, given)) \/ Tiers

Spec == Init /\ [][Next]_vars

-----------------------------------------------------------------------------
TypeOK == /\ graph \in SUBSET Edge /\ tx \in SUBSET Edge
          /\ nodeTime \in [Nodes -> Times \cup {-1}]
          /\ feats \in [Nodes -> FeatDims \cup {0}]
          /\ firstFeat \in SUBSET Nodes
          /\ pc \in {"idle", "tier1", "tier2", "tier3"}
          /\ stats \in Counts
          /\ out \in SUBSET [result : Results, members : SUBSET Nodes]
          /\ answers \in [Results -> Nat] /\ raised \in Nat

(* Between transactions the counts of get_statistics account for the outputs, *)
(* so its filter rates are the shares of SAFE and of SUSPICIOUS outputs: only *)
(* a transaction that raised in Tier 2 is in tier2_count and in no output.    *)
CountsBalance ==
  pc = "idle" =>
    /\ stats["tier1"] - stats["tier2"] = answers["SAFE"]
    /\ stats["tier2"] - stats["tier3"] = answers["SUSPICIOUS"] + raised
    /\ stats["tier3"] = answers["LIKELY_FRAUD"] + answers["FRAUD_RING"]
    /\ stats["total"] = stats["tier1"] - raised

(* _node_timestamps holds "the most recent timestamp per node" (line 170) when *)
(* the stream is sorted: this is the order the LSTM of Tier 3 reads.           *)
NodeTimeIsLatest ==
  Sorted =>
    /\ \A e \in graph : nodeTime[e.src] >= e.t /\ nodeTime[e.dst] >= e.t
    /\ \A n \in Known : \E e \in graph : n \in {e.src, e.dst} /\ e.t = nodeTime[n]

(* The rings of two and of three that e closes *)
ClosedBy(e) ==
  LET back(n) == {f \in graph : f.src = e.dst /\ f.dst = n}
      last(n) == {g \in graph : g.src = n /\ g.dst = e.src}
  IN  {{e.src, e.dst} : f \in back(e.src)}
        \cup {{e.src, e.dst, n} : n \in {m \in Nodes : back(m) # {} /\ last(m) # {}}}

(* A reported ring is complete: when the transaction closes a ring of two or   *)
(* three, ring_members has all of its nodes, however many others are within    *)
(* two hops.  The cut at 300 is the only exception, and it goes by node number *)
(* alone: a node of the ring, the paying account included, is left out only    *)
(* when 300 nodes with smaller numbers are within two hops.                    *)
RingMembersComplete ==
  TypeOK /\ \A o \in out, e \in tx :
    o.result = "FRAUD_RING" =>
      \A ring \in ClosedBy(e) : \A n \in ring \ o.members :
        Cardinality({m \in TwoHops(e.src) : m < n}) >= MaxSubset
==============================================================================
