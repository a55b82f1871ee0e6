--------------------------- MODULE StreamRingProofs ---------------------------
(***************************************************************************)
(* Theorems about the detector and its experiments: the balance of the      *)
(* cascade's counts, the node timestamps Tier 3 orders a subgraph by and    *)
(* the members of a reported ring (Cascade); what the simulator evaluates   *)
(* and how it keeps pace (Simulator); early stopping (Training); the        *)
(* tallies and subgraph times of the streaming experiments (StreamEval);    *)
(* the rings of an extract and how early they are detected                  *)
(* (RingTimeliness).                                                        *)
(***************************************************************************)
EXTENDS Cascade, Simulator, Training, StreamEval, RingTimeliness, FiniteSetTheorems, TLAPS

-----------------------------------------------------------------------------
(* The cascade *)

(* What the counts are in the middle of a transaction: the stage reached is  *)
(* counted, the output is not.                                               *)
Ledger ==
  LET inTier2 == IF pc = "tier2" THEN 1 ELSE 0
      inTier3 == IF pc = "tier3" THEN 1 ELSE 0
  IN  /\ stats["tier1"] - stats["tier2"] = answers["SAFE"]
      /\ stats["tier2"] - stats["tier3"] = answers["SUSPICIOUS"] + raised + inTier2
      /\ stats["tier3"] = answers["LIKELY_FRAUD"] + answers["FRAUD_RING"] + inTier3
      /\ stats["total"] = stats["tier1"] - raised - inTier2 - inTier3

LedgerTypes == /\ stats \in Counts /\ answers \in [Results -> Nat] /\ raised \in Nat
               /\ pc \in {"idle", "tier1", "tier2", "tier3"}

CountsInv == LedgerTypes /\ Ledger

(* Every output of a transaction keeps the balance. *)
LEMMA AnswerBalances ==
  ASSUME CountsInv, NEW counted \in Counts, NEW r \in Results, NEW members,
         Output(counted, r, members),
         \/ pc = "tier1" /\ r = "SAFE" /\ counted = Counted("tier1")
         \/ pc = "tier2" /\ r = "SUSPICIOUS" /\ counted = stats
         \/ pc = "tier3" /\ r \in {"LIKELY_FRAUD", "FRAUD_RING"} /\ counted = stats
  PROVE  CountsInv'
<1>1. LedgerTypes'
  BY DEF CountsInv, LedgerTypes, Output, Counts, Results
<1>2. CASE pc = "tier1" /\ r = "SAFE" /\ counted = Counted("tier1")
  <2>1. Ledger'
    BY <1>2 DEF CountsInv, LedgerTypes, Ledger, Output, Counted, Counts, Results
  <2> QED BY <1>1, <2>1 DEF CountsInv
<1>3. CASE pc = "tier2" /\ r = "SUSPICIOUS" /\ counted = stats
  <2>1. Ledger'
    BY <1>3 DEF CountsInv, LedgerTypes, Ledger, Output, Counts, Results
  <2> QED BY <1>1, <2>1 DEF CountsInv
<1>4. CASE pc = "tier3" /\ r \in {"LIKELY_FRAUD", "FRAUD_RING"} /\ counted = stats
  <2>1. Ledger'
    BY <1>4 DEF CountsInv, LedgerTypes, Ledger, Output, Counts, Results
  <2> QED BY <1>1, <2>1 DEF CountsInv
<1> QED BY <1>2, <1>3, <1>4

LEMMA InitCounts == Init => CountsInv
  BY DEF Init, CountsInv, LedgerTypes, Ledger, Counts, Results

LEMMA NextCounts == CountsInv /\ [Next]_vars => CountsInv'
<1> SUFFICES ASSUME CountsInv, [Next]_vars PROVE CountsInv'
  OBVIOUS
<1>1. ASSUME NEW e \in Edge, NEW given \in Given, Receive(e, given) PROVE CountsInv'
  BY <1>1 DEF Receive, CountsInv, LedgerTypes, Ledger
<1>2. CASE Tier1Raises
  BY <1>2 DEF Tier1Raises, ledger, CountsInv, LedgerTypes, Ledger
<1>3. CASE Tier1Safe
  <2>1. Counted("tier1") \in Counts
    BY DEF CountsInv, LedgerTypes, Counts, Counted
  <2> QED BY <1>3, <2>1, AnswerBalances DEF Tier1Safe, Results
<1>4. CASE Tier1Escalates
  BY <1>4 DEF Tier1Escalates, Counted, CountsInv, LedgerTypes, Ledger, Counts, Results
<1>5. CASE Tier2Raises
  BY <1>5 DEF Tier2Raises, CountsInv, LedgerTypes, Ledger, Counts, Results
<1>6. CASE Tier2Suspicious
  <2>1. stats \in Counts
    BY DEF CountsInv, LedgerTypes
  <2> QED BY <1>6, <2>1, AnswerBalances DEF Tier2Suspicious, Results
<1>7. CASE Tier2Escalates
  BY <1>7 DEF Tier2Escalates, Counted, CountsInv, LedgerTypes, Ledger, Counts, Results
<1>8. CASE Tier3FraudRing
  <2>1. stats \in Counts
    BY DEF CountsInv, LedgerTypes
  <2>2. PICK e \in tx : Output(stats, "FRAUD_RING", Subset(e.src))
    BY <1>8 DEF Tier3FraudRing
  <2> QED BY <1>8, <2>1, <2>2, AnswerBalances DEF Tier3FraudRing, Results
<1>9. CASE Tier3LikelyFraud
  <2>1. stats \in Counts
    BY DEF CountsInv, LedgerTypes
  <2> QED BY <1>9, <2>1, AnswerBalances DEF Tier3LikelyFraud, Results
<1>10. CASE UNCHANGED vars
  BY <1>10 DEF vars, ledger, CountsInv, LedgerTypes, Ledger
<1> QED BY <1>1, <1>2, <1>3, <1>4, <1>5, <1>6, <1>7, <1>8, <1>9, <1>10 DEF Next, Tiers

(* get_statistics: between transactions the tier counts account for every    *)
(* output and every exception, whatever the models answer.                   *)
THEOREM CountsBalanceTheorem == Spec => []CountsBalance
<1>1. CountsInv => CountsBalance
  BY DEF CountsInv, LedgerTypes, Ledger, CountsBalance, Counts, Results
<1> QED BY <1>1, InitCounts, NextCounts, PTL DEF Spec

-----------------------------------------------------------------------------
(* The order of arrival: no transaction in the graph is after current_time,  *)
(* and a node without a transaction has no timestamp.                        *)
TimeInv == /\ graph \in SUBSET Edge /\ now \in Int
           /\ nodeTime \in [Nodes -> Int]
           /\ \A e \in graph : e.t <= now
           /\ NodeTimeIsLatest

LEMMA InitTime == Init => TimeInv
  BY DEF Init, IndexInit, TimeInv, NodeTimeIsLatest, Known

LEMMA ReceiveTime ==
  ASSUME TimeInv, NEW e \in Edge, NEW given \in Given, Receive(e, given)
  PROVE  TimeInv'
<1>1. /\ e.src \in Nodes /\ e.dst \in Nodes /\ e.t \in Int
  BY CascadeAssumption DEF Edge, Times
<1>2. /\ graph' = graph \cup {e}
      /\ nodeTime' = [n \in Nodes |-> IF n \in {e.src, e.dst} THEN e.t ELSE nodeTime[n]]
      /\ now' = (IF now >= e.t THEN now ELSE e.t)
      /\ Sorted => e.t >= now
  BY DEF Receive, UpdateGraph, InsertEdge, Newer
<1>3. \A f \in graph : f.src \in Nodes /\ f.dst \in Nodes /\ f.t \in Int
  BY CascadeAssumption DEF TimeInv, Edge, Times
<1>4. graph' \in SUBSET Edge
  BY <1>2 DEF TimeInv
<1>5. now' \in Int /\ nodeTime' \in [Nodes -> Int]
  BY <1>1, <1>2 DEF TimeInv
<1>6. \A f \in graph' : f.t <= now'
  BY <1>1, <1>2, <1>3 DEF TimeInv
<1>7. ASSUME Sorted, NEW f \in graph'
      PROVE  nodeTime'[f.src] >= f.t /\ nodeTime'[f.dst] >= f.t
  BY <1>1, <1>2, <1>3, <1>7 DEF TimeInv, NodeTimeIsLatest
<1>8. ASSUME Sorted, NEW n \in Known'
      PROVE  \E f \in graph' : n \in {f.src, f.dst} /\ f.t = nodeTime'[n]
  <2>1. n \in Nodes
    BY <1>1, <1>2, <1>3 DEF Known
  <2>2. CASE n \in {e.src, e.dst}
    BY <1>2, <2>1, <2>2
  <2>3. CASE n \notin {e.src, e.dst}
    <3>1. n \in Known
      BY <1>2, <2>3 DEF Known
    <3>2. PICK f \in graph : n \in {f.src, f.dst} /\ f.t = nodeTime[n]
      BY <1>8, <3>1 DEF TimeInv, NodeTimeIsLatest
    <3> QED BY <1>2, <2>1, <2>3, <3>2
  <2> QED BY <2>2, <2>3
<1>9. NodeTimeIsLatest'
  BY <1>7, <1>8 DEF NodeTimeIsLatest
<1> QED BY <1>4, <1>5, <1>6, <1>9 DEF TimeInv

LEMMA NextTime == TimeInv /\ [Next]_vars => TimeInv'
<1> SUFFICES ASSUME TimeInv, [Next]_vars PROVE TimeInv'
  OBVIOUS
<1>1. CASE \E e \in Edge, given \in Given : Receive(e, given)
  BY <1>1, ReceiveTime
<1>2. CASE ~ \E e \in Edge, given \in Given : Receive(e, given)
  <2>1. UNCHANGED <<graph, nodeTime, now>>
    BY <1>2 DEF Next, Tiers, vars, Tier1Raises, Tier1Safe, Tier1Escalates, Tier2Raises,
      Tier2Suspicious, Tier2Escalates, Tier3FraudRing, Tier3LikelyFraud, Output,
      index, state
  <2> QED BY <2>1 DEF TimeInv, NodeTimeIsLatest, Known
<1> QED BY <1>1, <1>2

(* _node_timestamps: on a sorted stream, the timestamp of a node is that of  *)
(* its newest transaction, for every number of nodes and transactions.       *)
THEOREM NodeTimeTheorem == Spec => []NodeTimeIsLatest
<1>1. TimeInv => NodeTimeIsLatest
  BY DEF TimeInv
<1> QED BY <1>1, InitTime, NextTime, PTL DEF Spec

-----------------------------------------------------------------------------
(* An output with members is of the last transaction, which is in the graph;  *)
(* the graph is finite, so a subgraph that is not cut can be counted.         *)
RingInv == /\ TypeOK /\ IsFiniteSet(graph)
           /\ tx \subseteq graph /\ \A d, e \in tx : d = e
           /\ \A o \in out, e \in tx : o.result = "FRAUD_RING" => o.members = Subset(e.src)

LEMMA InitRing == Init => RingInv
<1> SUFFICES ASSUME Init PROVE RingInv
  OBVIOUS
<1>1. IsFiniteSet(graph)
  BY FS_EmptySet DEF Init
<1> QED BY <1>1 DEF Init, RingInv, TypeOK, Counts

LEMMA SubsetIsNodes ==
  ASSUME graph \in SUBSET Edge, NEW n \in Nodes PROVE Subset(n) \in SUBSET Nodes
<1>1. \A e \in graph : e.src \in Nodes
  BY DEF Edge
<1> QED BY <1>1 DEF Subset, Truncated, TwoHops, Sources

LEMMA ReceiveRing ==
  ASSUME RingInv, NEW e \in Edge, NEW given \in Given, Receive(e, given) PROVE RingInv'
<1>1. /\ graph' = graph \cup {e} /\ tx' = {e} /\ out' = {} /\ pc' = "tier1"
      /\ UNCHANGED <<stats, answers, raised>>
  BY DEF Receive, UpdateGraph
<1>2. nodeTime' \in [Nodes -> Times \cup {-1}]
  BY DEF Receive, UpdateGraph, RingInv, TypeOK, Edge
<1>3. feats' \in [Nodes -> FeatDims \cup {0}]
  <2> DEFINE new(n) == IF \E d \in FeatDims : <<n, d>> \in given
                       THEN CHOOSE d \in FeatDims : <<n, d>> \in given ELSE feats[n]
  <2>1. feats' = [n \in Nodes |-> new(n)]
    BY DEF Receive, UpdateGraph
  <2>2. \A n \in Nodes : new(n) \in FeatDims \cup {0}
    BY DEF RingInv, TypeOK
  <2> QED BY <2>1, <2>2
<1>4. firstFeat' \in SUBSET Nodes
  <2>1. \A p \in given : p[1] \in Nodes
    BY CascadeAssumption DEF Given
  <2>2. firstFeat' = IF firstFeat = {} THEN {p[1] : p \in given} ELSE firstFeat
    BY DEF Receive, UpdateGraph
  <2> QED BY <2>1, <2>2 DEF RingInv, TypeOK
<1>5. IsFiniteSet(graph')
  BY <1>1, FS_AddElement DEF RingInv
<1> QED BY <1>1, <1>2, <1>3, <1>4, <1>5 DEF RingInv, TypeOK

LEMMA NextRing == RingInv /\ [Next]_vars => RingInv'
<1> SUFFICES ASSUME RingInv, [Next]_vars PROVE RingInv'
  OBVIOUS
<1>1. CASE \E e \in Edge, given \in Given : Receive(e, given)
  BY <1>1, ReceiveRing
<1>2. ASSUME NEW counted \in Counts, NEW r \in Results, NEW members \in SUBSET Nodes,
             Output(counted, r, members),
             r = "FRAUD_RING" => \A e \in tx : members = Subset(e.src)
      PROVE  RingInv'
  <2>1. /\ UNCHANGED <<graph, nodeTime, feats, firstFeat, tx, raised>>
        /\ out' = {[result |-> r, members |-> members]} /\ pc' = "idle"
    BY <1>2 DEF Output, state
  <2>2. stats' \in Counts /\ answers' \in [Results -> Nat]
    BY <1>2 DEF Output, Counts, RingInv, TypeOK
  <2>3. \A n : Subset(n)' = Subset(n)
    BY <2>1 DEF Subset, Truncated, TwoHops, Sources
  <2> QED BY <1>2, <2>1, <2>2, <2>3 DEF RingInv, TypeOK
<1>3. stats \in Counts /\ Counted("tier1") \in Counts /\ Counted("tier3") \in Counts
  BY DEF RingInv, TypeOK, Counts, Counted
<1>4. CASE Tier1Safe
  BY <1>2, <1>3, <1>4 DEF Tier1Safe, Results
<1>5. CASE Tier2Suspicious
  BY <1>2, <1>3, <1>5 DEF Tier2Suspicious, Results
<1>6. CASE Tier3LikelyFraud
  BY <1>2, <1>3, <1>6 DEF Tier3LikelyFraud, Results
<1>7. CASE Tier3FraudRing
  <2>1. PICK e \in tx : Output(stats, "FRAUD_RING", Subset(e.src))
    BY <1>7 DEF Tier3FraudRing
  <2>2. e \in Edge /\ e.src \in Nodes
    BY DEF RingInv, TypeOK, Edge
  <2>3. \A d \in tx : d = e
    BY DEF RingInv
  <2> QED BY <1>2, <1>3, <2>1, <2>2, <2>3, SubsetIsNodes DEF RingInv, TypeOK, Results
<1>8. CASE Tier1Raises \/ Tier2Raises \/ Tier1Escalates \/ Tier2Escalates \/ UNCHANGED vars
  <2>1. UNCHANGED <<graph, nodeTime, feats, firstFeat, tx, out, answers>>
    BY <1>8 DEF Tier1Raises, Tier2Raises, Tier1Escalates, Tier2Escalates, vars, state, ledger
  <2>2. stats' \in Counts /\ raised' \in Nat /\ pc' \in {"idle", "tier1", "tier2", "tier3"}
    BY <1>3, <1>8 DEF Tier1Raises, Tier2Raises, Tier1Escalates, Tier2Escalates, vars, ledger,
       RingInv, TypeOK, Counts, Counted
  <2>3. \A n : Subset(n)' = Subset(n)
    BY <2>1 DEF Subset, Truncated, TwoHops, Sources
  <2> QED BY <2>1, <2>2, <2>3 DEF RingInv, TypeOK
<1> QED BY <1>1, <1>4, <1>5, <1>6, <1>7, <1>8 DEF Next, Tiers

LEMMA TwoHopsFinite ==
  ASSUME RingInv, NEW n \in Nodes PROVE TwoHops(n) \in SUBSET Nodes /\ IsFiniteSet(TwoHops(n))
<1>1. ASSUME NEW N PROVE Sources(N) \in SUBSET Nodes /\ IsFiniteSet(Sources(N))
  <2>1. IsFiniteSet({g \in graph : g.dst \in N})
    BY FS_Subset DEF RingInv
  <2>2. IsFiniteSet(Sources(N))
    <3> DEFINE into == {g \in graph : g.dst \in N}
               src == [g \in into |-> g.src]
    <3>1. src \in Surjection(into, Sources(N))
      BY DEF Surjection, Sources
    <3> QED BY <2>1, <3>1, FS_Surjection DEF ExistsSurjection
  <2> QED BY <2>2 DEF Sources, RingInv, TypeOK, Edge
<1>2. IsFiniteSet({n})
  BY FS_Singleton
<1> QED BY <1>1, <1>2, FS_Union DEF TwoHops

(* A ring of two or three that the transaction closes lies within two hops of *)
(* its source, against the direction of the edges.                            *)
LEMMA RingWithinTwoHops ==
  ASSUME RingInv, NEW e \in graph, NEW ring \in ClosedBy(e) PROVE ring \subseteq TwoHops(e.src)
<1>1. CASE \E f \in graph : f.src = e.dst /\ f.dst = e.src /\ ring = {e.src, e.dst}
  BY <1>1 DEF TwoHops, Sources
<1>2. CASE \E f, g \in graph : /\ f.src = e.dst /\ g.src = f.dst /\ g.dst = e.src
                               /\ ring = {e.src, e.dst, f.dst}
  <2>1. PICK f \in graph, g \in graph : /\ f.src = e.dst /\ g.src = f.dst /\ g.dst = e.src
                                        /\ ring = {e.src, e.dst, f.dst}
    BY <1>2
  <2>2. f.dst \in Sources({e.src})
    BY <2>1 DEF Sources
  <2>3. e.dst \in Sources(Sources({e.src}))
    BY <2>1, <2>2 DEF Sources
  <2> QED BY <2>1, <2>2, <2>3 DEF TwoHops
<1> QED BY <1>1, <1>2 DEF ClosedBy

(* Every ring of two or three that the transaction closes is in its ring     *)
(* members in full, but for the nodes that the cut at MaxSubset leaves out.  *)
THEOREM RingMembersTheorem == Spec => []RingMembersComplete
<1>1. RingInv => RingMembersComplete
  <2> SUFFICES ASSUME RingInv, NEW o \in out, NEW e \in tx, o.result = "FRAUD_RING",
                      NEW ring \in ClosedBy(e), NEW n \in ring \ o.members
               PROVE  Cardinality({m \in TwoHops(e.src) : m < n}) >= MaxSubset
    BY DEF RingInv, RingMembersComplete
  <2> DEFINE below == {m \in TwoHops(e.src) : m < n}
  <2>1. e \in graph /\ e.src \in Nodes
    BY DEF RingInv, TypeOK, Edge
  <2>2. n \in TwoHops(e.src)
    BY <2>1, RingWithinTwoHops
  <2>3. ~(Cardinality(below) < MaxSubset)
    BY <2>2 DEF RingInv, Subset, Truncated
  <2>4. Cardinality(below) \in Nat
    BY <2>1, TwoHopsFinite, FS_Subset, FS_CardinalityType
  <2> QED BY <2>3, <2>4, CascadeAssumption
<1> QED BY <1>1, InitRing, NextRing, PTL DEF Spec

-----------------------------------------------------------------------------
(* The simulator *)

Evaluated == IF Warmup = 0 \/ processed < Warmup THEN 0 ELSE processed - Warmup + 1

WarmInv == /\ rows \in Nat /\ processed \in Nat /\ isWarmup \in BOOLEAN
           /\ processed <= rows
           /\ isWarmup <=> Warmup = 0 \/ processed < Warmup
           /\ latencies = [i \in 1 .. Evaluated |-> Warmup + i - 1]
           /\ Labelled => results = latencies

(* Appending the number that comes next keeps an arithmetic sequence. *)
LEMMA OneMore ==
  ASSUME NEW n \in Nat, NEW first \in Nat
  PROVE  Append([i \in 1 .. n |-> first + i - 1], first + n) = [i \in 1 .. n + 1 |-> first + i - 1]
<1> DEFINE s == [i \in 1 .. n |-> first + i - 1]
<1>1. s \in Seq(Int) /\ Len(s) = n
  OBVIOUS
<1>2. /\ DOMAIN Append(s, first + n) = 1 .. n + 1
      /\ \A i \in 1 .. n + 1 : Append(s, first + n)[i] = IF i <= n THEN s[i] ELSE first + n
  BY <1>1
<1> QED BY <1>2

LEMMA WarmInit == SimInit => WarmInv
  BY SimulatorAssumption DEF SimInit, WarmInv, Evaluated

LEMMA WarmNext == WarmInv /\ [SimNext]_simVars => WarmInv'
<1> SUFFICES ASSUME WarmInv, [SimNext]_simVars PROVE WarmInv'
  OBVIOUS
<1> USE SimulatorAssumption DEF WarmInv
<1>1. ASSUME NEW t \in 0 .. LastTimestamp, Skip(t) PROVE WarmInv'
  BY <1>1 DEF Skip, NextRow, Evaluated
<1>2. ASSUME NEW t \in 0 .. LastTimestamp, Process(t) PROVE WarmInv'
  <2>1. /\ processed' = processed + 1 /\ rows' = rows + 1
        /\ isWarmup' = (isWarmup /\ processed + 1 # Warmup)
    BY <1>2 DEF Process, NextRow
  <2>2. /\ rows' \in Nat /\ processed' \in Nat /\ isWarmup' \in BOOLEAN /\ processed' <= rows'
    BY <2>1
  <2>3. isWarmup' <=> Warmup = 0 \/ processed' < Warmup
    <3>1. isWarmup <=> Warmup = 0 \/ processed < Warmup
      OBVIOUS
    <3>2. processed' < Warmup <=> processed < Warmup /\ processed + 1 # Warmup
      BY <2>1
    <3>3. Warmup = 0 => processed + 1 # Warmup
      OBVIOUS
    <3>4. isWarmup' <=> isWarmup /\ processed + 1 # Warmup
      BY <2>1, Zenon
    <3> QED BY <3>1, <3>2, <3>3, <3>4, Zenon
  <2>4. CASE isWarmup'
    <3>1. latencies' = latencies /\ results' = results
      BY <1>2, <2>4 DEF Process, Record
    <3>2. Evaluated' = 0 /\ Evaluated = 0
      BY <2>1, <2>3, <2>4 DEF Evaluated
    <3> QED BY <2>2, <2>3, <3>1, <3>2
  <2>5. CASE ~isWarmup'
    <3>1. /\ latencies' = Append(latencies, processed + 1)
          /\ Labelled => results' = Append(results, processed + 1)
      BY <1>2, <2>1, <2>5 DEF Process, Record
    <3>2. Evaluated \in Nat /\ Evaluated' = Evaluated + 1 /\ processed + 1 = Warmup + Evaluated
      BY <2>1, <2>3, <2>5 DEF Evaluated
    <3>3. latencies' = [i \in 1 .. Evaluated' |-> Warmup + i - 1]
      BY <3>1, <3>2, OneMore
    <3> QED BY <2>2, <2>3, <3>1, <3>3
  <2> QED BY <2>4, <2>5
<1>3. ASSUME NEW t \in 0 .. LastTimestamp, ProcessRaises(t) PROVE WarmInv'
  BY <1>3 DEF ProcessRaises, NextRow, Evaluated
<1>4. CASE Return \/ UNCHANGED simVars
  BY <1>4 DEF Return, simVars, Evaluated
<1> QED BY <1>1, <1>2, <1>3, <1>4 DEF SimNext

(* What is measured is the transaction that ends the warm-up and those after  *)
(* it, one by one, whichever rows the replay skips; nothing without a warm-up. *)
THEOREM EvaluatesTheRestTheorem == SimSpec => []EvaluatesTheRest
<1>1. WarmInv => EvaluatesTheRest
  BY DEF WarmInv, Evaluated, EvaluatesTheRest
<1> QED BY <1>1, WarmInit, WarmNext, PTL DEF SimSpec

-----------------------------------------------------------------------------
(* What is slept since the warm-up is time that passed in the stream: prev is *)
(* the time of the last transaction that was waited for, and moves by at      *)
(* least as much as is slept.                                                 *)
PaceInv ==
  /\ SimTypeOK /\ processed <= rows /\ prev <= last
  /\ Len(times) = processed /\ (processed > 0 => prev # -1)
  /\ Warmup > 0 =>
       /\ isWarmup <=> processed < Warmup
       /\ processed < Warmup => slept = 0
       /\ processed >= Warmup => slept <= prev - times[Warmup]

LEMMA PaceInit == SimInit => PaceInv
<1> SUFFICES ASSUME SimInit PROVE PaceInv
  OBVIOUS
<1>1. SimTypeOK
  BY SimulatorAssumption DEF SimInit, SimTypeOK
<1> QED BY <1>1, SimulatorAssumption DEF SimInit, PaceInv

(* A pause is no longer than the step of time before it. *)
LEMMA Pauses ==
  ASSUME PaceInv, NEW t \in 0 .. LastTimestamp, NextRow(t), Wait(t)
  PROVE  /\ rows' \in 0 .. MaxEvents /\ rows' = rows + 1 /\ last' = t /\ prev' = t
         /\ t >= prev /\ slept' \in Nat /\ slept' >= slept
         /\ isWarmup => slept' = slept
         /\ prev # -1 => slept' - slept <= t - prev
<1>1. /\ rows < MaxEvents /\ rows' = rows + 1 /\ last' = t /\ t >= last
      /\ prev' = t /\ slept' = slept + Pause(t)
  BY DEF NextRow, Wait
<1>2. /\ rows \in 0 .. MaxEvents /\ MaxEvents \in Nat /\ last \in Nat /\ prev \in Int /\ prev >= -1
      /\ prev <= last /\ slept \in Nat /\ t \in Nat
  BY SimulatorAssumption DEF PaceInv, SimTypeOK
<1>3. Pause(t) = 0 \/ (Paced /\ Pause(t) = t - prev /\ t - prev > 0)
  BY <1>2 DEF Pause, Delay
<1>4. isWarmup => ~Paced
  BY DEF Paced
<1> QED BY <1>1, <1>2, <1>3, <1>4

LEMMA PaceNext == PaceInv /\ [SimNext]_simVars => PaceInv'
<1> SUFFICES ASSUME PaceInv, [SimNext]_simVars PROVE PaceInv'
  OBVIOUS
<1> USE SimulatorAssumption
<1>1. ASSUME NEW t \in 0 .. LastTimestamp, Skip(t) PROVE PaceInv'
  BY <1>1 DEF Skip, NextRow, PaceInv, SimTypeOK
<1>2. ASSUME NEW t \in 0 .. LastTimestamp, Process(t) PROVE PaceInv'
  <2>1. /\ NextRow(t) /\ Wait(t) /\ processed' = processed + 1
        /\ isWarmup' = (isWarmup /\ processed' # Warmup)
        /\ times' = Append(times, t) /\ simPhase' = simPhase
    BY <1>2 DEF Process
  <2>2. /\ processed \in Nat /\ processed <= rows /\ rows \in Nat /\ rows' = rows + 1 /\ rows' <= MaxEvents
        /\ times \in Seq(0 .. LastTimestamp) /\ Len(times) = processed
    BY <2>1, Pauses DEF PaceInv, SimTypeOK
  <2>3. processed' \in 1 .. MaxEvents /\ processed' <= rows'
    BY <2>1, <2>2
  <2>4. /\ times' \in Seq(0 .. LastTimestamp) /\ Len(times') = processed'
        /\ times'[processed'] = t /\ \A i \in 1 .. processed : times'[i] = times[i]
    BY <2>1, <2>2
  <2>5. latencies' \in Seq(1 .. MaxEvents) /\ results' \in Seq(1 .. MaxEvents)
    <3>1. latencies \in Seq(1 .. MaxEvents) /\ results \in Seq(1 .. MaxEvents)
      BY DEF PaceInv, SimTypeOK
    <3>2. /\ Append(latencies, processed') \in Seq(1 .. MaxEvents)
          /\ Append(results, processed') \in Seq(1 .. MaxEvents)
      BY <2>3, <3>1
    <3>3. /\ latencies' = Append(latencies, processed') \/ latencies' = latencies
          /\ results' = Append(results, processed') \/ results' = results
      BY <1>2 DEF Process, Record
    <3> QED BY <3>1, <3>2, <3>3
  <2>6. SimTypeOK'
    <3>1. isWarmup' \in BOOLEAN
      BY <2>1 DEF PaceInv, SimTypeOK
    <3>2. prev' \in -1 .. LastTimestamp /\ last' \in 0 .. LastTimestamp /\ slept' \in Nat
      BY <2>1, Pauses
    <3>3. simPhase' \in {"running", "returned", "raised"}
      BY <2>1 DEF PaceInv, SimTypeOK
    <3>4. rows' \in 0 .. MaxEvents /\ processed' \in 0 .. MaxEvents
      BY <2>1, <2>3, Pauses
    <3> QED BY <2>4, <2>5, <3>1, <3>2, <3>3, <3>4 DEF SimTypeOK
  <2>7. prev' <= last' /\ prev' # -1
    BY <2>1, Pauses
  <2>8. ASSUME Warmup > 0
        PROVE  /\ isWarmup' <=> processed' < Warmup
               /\ processed' < Warmup => slept' = 0
               /\ processed' >= Warmup => slept' <= prev' - times'[Warmup]
    <3>1. isWarmup <=> processed < Warmup
      BY <2>8 DEF PaceInv
    <3>2. processed' < Warmup <=> processed < Warmup /\ processed' # Warmup
      BY <2>1, <2>2
    <3>3. isWarmup' <=> processed' < Warmup
      BY <2>1, <3>1, <3>2
    <3>4. CASE processed < Warmup
      <4>1. slept = 0 /\ slept' = slept
        BY <2>1, <2>8, <3>1, <3>4, Pauses DEF PaceInv
      <4>2. processed' >= Warmup => processed' = Warmup
        BY <2>1, <2>2, <3>4
      <4>3. processed' >= Warmup => slept' <= prev' - times'[Warmup]
        BY <2>1, <2>4, <4>1, <4>2, Pauses
      <4> QED BY <3>3, <4>1, <4>3
    <3>5. CASE processed >= Warmup
      <4>1. slept <= prev - times[Warmup] /\ prev # -1
        BY <2>2, <2>8, <3>5 DEF PaceInv
      <4>2. times'[Warmup] = times[Warmup] /\ times[Warmup] \in Nat
        BY <2>2, <2>4, <2>8, <3>5
      <4>3. prev \in Int /\ slept \in Nat
        BY DEF PaceInv, SimTypeOK
      <4>4. slept' <= prev' - times'[Warmup]
        BY <2>1, <4>1, <4>2, <4>3, Pauses, SMTT(30)
      <4>5. ~(processed' < Warmup)
        BY <2>1, <2>2, <3>5
      <4> QED BY <3>3, <4>4, <4>5
    <3> QED BY <2>2, <3>4, <3>5
  <2> QED BY <2>3, <2>4, <2>6, <2>7, <2>8 DEF PaceInv
<1>3. ASSUME NEW t \in 0 .. LastTimestamp, ProcessRaises(t) PROVE PaceInv'
  <2>1. /\ NextRow(t) /\ Wait(t) /\ simPhase' = "raised"
        /\ UNCHANGED <<processed, isWarmup, latencies, results, times>>
    BY <1>3 DEF ProcessRaises
  <2>2. SimTypeOK'
    <3>1. prev' \in -1 .. LastTimestamp /\ last' \in 0 .. LastTimestamp /\ slept' \in Nat
      BY <2>1, Pauses
    <3> QED BY <2>1, <3>1, Pauses DEF SimTypeOK, PaceInv
  <2>3. /\ prev' <= last' /\ prev' # -1 /\ Len(times') = processed'
    BY <2>1, Pauses DEF PaceInv
  <2>4. processed' <= rows'
    BY <2>1, Pauses DEF PaceInv, SimTypeOK
  <2>5. ASSUME Warmup > 0
        PROVE  /\ isWarmup' <=> processed' < Warmup
               /\ processed' < Warmup => slept' = 0
               /\ processed' >= Warmup => slept' <= prev' - times'[Warmup]
    <3>1. isWarmup <=> processed < Warmup
      BY <2>5 DEF PaceInv
    <3>2. processed < Warmup => slept' = 0
      BY <2>1, <2>5, <3>1, Pauses DEF PaceInv
    <3>3. ASSUME processed >= Warmup PROVE slept' <= prev' - times[Warmup]
      <4>1. slept <= prev - times[Warmup] /\ prev # -1
        BY <2>5, <3>3 DEF PaceInv, SimTypeOK
      <4>2. prev \in Int /\ slept \in Nat /\ times[Warmup] \in Nat
        BY <2>5, <3>3 DEF PaceInv, SimTypeOK
      <4> QED BY <2>1, <4>1, <4>2, Pauses
    <3> QED BY <2>1, <3>1, <3>2, <3>3
  <2> QED BY <2>2, <2>3, <2>4, <2>5 DEF PaceInv
<1>4. CASE Return \/ UNCHANGED simVars
  BY <1>4, SMTT(30) DEF Return, simVars, PaceInv, SimTypeOK
<1> QED BY <1>1, <1>2, <1>3, <1>4 DEF SimNext

(* The replay never adds to the stream's own time: from the end of the warm-up *)
(* on, all the delays together are no longer than the time that passed in it.  *)
THEOREM NeverSlowerTheorem == SimSpec => []NeverSlower
<1>1. PaceInv => NeverSlower
  <2> SUFFICES ASSUME PaceInv, Warmup > 0, processed >= Warmup
               PROVE  slept <= last - times[Warmup]
    BY DEF PaceInv, NeverSlower
  <2>1. /\ slept <= prev - times[Warmup] /\ prev <= last /\ prev \in Int /\ last \in Int
        /\ slept \in Nat /\ times[Warmup] \in Nat
    BY SimulatorAssumption DEF PaceInv, SimTypeOK
  <2> QED BY <2>1
<1> QED BY <1>1, PaceInit, PaceNext, PTL DEF SimSpec

-----------------------------------------------------------------------------
(* Early stopping *)

TrainTypeOK ==
  /\ tnPhase \in {"batches", "validate", "done"} /\ loop \in Loops
  /\ epoch \in Nat /\ epoch < loop.epochs /\ batch \in 0 .. Batches
  /\ params \in Nat /\ loss \in Nat /\ loss <= batch * MaxScore
  /\ best \in Nat /\ bestState \in SUBSET Nat /\ patienceCounter \in Nat
  /\ history \in Seq([params : Nat, score : Nat])

(* What is kept belongs to the scored epoch f, the first of the best ones; *)
(* nothing is kept, and f is 0, while no epoch was better than no skill.   *)
Holds(f) == best = history[f].score /\ bestState = {history[f].params}
AucBest(f) ==
  /\ f = 0 => best = 0 /\ bestState = {}
  /\ f > 0 => best > 0 /\ Holds(f)
  /\ \A i \in 1 .. Len(history) :
       history[i].score <= best /\ (i < f => history[i].score < best)
  /\ patienceCounter = Len(history) - f
LossBest(f) ==
  /\ f = 0 => best = Infinite /\ bestState = {} /\ Len(history) = 0
  /\ f > 0 => Holds(f)
  /\ \A i \in 1 .. Len(history) :
       history[i].score >= best /\ (i < f => history[i].score > best)
BestAt(f) ==
  /\ f \in 0 .. Len(history)
  /\ loop.by = "auc" => AucBest(f)
  /\ loop.by = "loss" => LossBest(f)
  /\ tnPhase = "done" /\ f > 0 => params = history[f].params

Stopped ==
  loop.by = "auc" =>
    /\ tnPhase # "done" => patienceCounter < loop.patience
    /\ tnPhase = "done" /\ epoch + 1 < loop.epochs => patienceCounter >= loop.patience

TrainInv == TrainTypeOK /\ (\E f \in Nat : BestAt(f)) /\ Stopped

LEMMA LoopFields ==
  ASSUME NEW l \in Loops
  PROVE  /\ l.by \in {"auc", "loss"} /\ l.epochs \in Nat \ {0} /\ l.every \in Nat \ {0}
         /\ l.patience \in Nat /\ (l.by = "auc" => l.patience > 0)
BY TrainingAssumption

LEMMA TrainInit == TrainingInit => TrainInv
<1> SUFFICES ASSUME TrainingInit
             PROVE  TrainInv
  OBVIOUS
<1>1. /\ tnPhase = "batches" /\ loop \in Loops /\ epoch = 0 /\ batch = 0 /\ params = 0 /\ loss = 0
      /\ best = IF loop.by = "loss" THEN Infinite ELSE 0
      /\ bestState = {} /\ patienceCounter = 0 /\ history = <<>>
  BY DEF TrainingInit
<1>2. Infinite \in Nat
  BY TrainingAssumption DEF Infinite
<1>3. TrainTypeOK
  BY <1>1, <1>2, LoopFields, TrainingAssumption DEF TrainTypeOK
<1>4. BestAt(0)
  BY <1>1, LoopFields DEF BestAt, AucBest, LossBest
<1>5. Stopped
  BY <1>1, LoopFields DEF Stopped
<1> QED
  BY <1>3, <1>4, <1>5 DEF TrainInv

(* The batches of an epoch change the parameters and the loss only; what is *)
(* kept is a copy.                                                          *)
LEMMA BatchesOK ==
  ASSUME TrainInv, StepBatch \/ BatchRaises \/ EpochTrained
  PROVE  TrainInv'
<1>1. /\ tnPhase = "batches" /\ tnPhase' \in {"batches", "validate"}
      /\ UNCHANGED <<loop, epoch, best, bestState, patienceCounter, history>>
  BY DEF StepBatch, BatchRaises, EpochTrained
<1>2. /\ batch' \in 0 .. Batches /\ params' \in Nat
      /\ loss' \in Nat /\ loss' <= batch' * MaxScore
  <2>1. batch \in Nat /\ loss \in Nat /\ MaxScore \in Nat /\ Batches \in Nat /\ batch <= Batches
    BY TrainingAssumption DEF TrainInv, TrainTypeOK
  <2>2. loss <= batch * MaxScore /\ batch * MaxScore \in Nat
    BY <2>1 DEF TrainInv, TrainTypeOK
  <2>3. (batch + 1) * MaxScore = batch * MaxScore + MaxScore
    BY <2>1
  <2>4. CASE StepBatch
    <3>1. /\ batch' = batch + 1 /\ batch < Batches /\ params' = params + 1
          /\ loss' = loss \/ \E l \in Scores : loss' = loss + l
      BY <2>4 DEF StepBatch
    <3>2. loss' \in Nat /\ loss' <= batch * MaxScore + MaxScore
      BY <2>1, <2>2, <3>1 DEF Scores
    <3> QED
      BY <2>1, <2>3, <3>1, <3>2 DEF TrainInv, TrainTypeOK
  <2>5. CASE BatchRaises
    <3>1. batch' = batch + 1 /\ batch < Batches /\ params' = params /\ loss' = loss
      BY <2>5 DEF BatchRaises
    <3> QED
      BY <2>1, <2>2, <2>3, <3>1 DEF TrainInv, TrainTypeOK
  <2>6. CASE EpochTrained
    BY <2>6 DEF EpochTrained, TrainInv, TrainTypeOK
  <2> QED
    BY <2>4, <2>5, <2>6
<1>3. TrainTypeOK'
  BY <1>1, <1>2 DEF TrainInv, TrainTypeOK
<1>4. \A f : BestAt(f) => BestAt(f)'
  BY <1>1 DEF BestAt, AucBest, LossBest, Holds
<1>5. Stopped'
  BY <1>1 DEF TrainInv, Stopped
<1> QED
  BY <1>3, <1>4, <1>5 DEF TrainInv

(* The end of an epoch, with what was kept already decided. *)
LEMMA LeaveOK ==
  ASSUME TrainInv, NEW stop \in BOOLEAN, Leave(stop), loop' = loop,
         NEW f \in 0 .. Len(history'),
         \/ loop.by = "auc" /\ AucBest(f)' /\ (stop <=> patienceCounter' >= loop.patience)
         \/ loop.by = "loss" /\ LossBest(f)',
         best' \in Nat, bestState' \in SUBSET Nat, patienceCounter' \in Nat,
         history' \in Seq([params : Nat, score : Nat])
  PROVE  TrainInv'
<1> DEFINE over == stop \/ epoch + 1 = loop.epochs
<1>1. /\ over => tnPhase' = "done" /\ params' = Restored /\ epoch' = epoch /\ batch' = batch /\ loss' = loss
      /\ ~over => /\ tnPhase' = "batches" /\ epoch' = epoch + 1 /\ batch' = 0 /\ loss' = 0
                  /\ params' = params
  BY DEF Leave
<1>2. loop.epochs \in Nat /\ epoch \in Nat /\ epoch < loop.epochs
  BY LoopFields DEF TrainInv, TrainTypeOK
<1>3. f = 0 => bestState' = {}
  BY LoopFields DEF AucBest, LossBest, TrainInv, TrainTypeOK
<1>4. f > 0 => bestState' = {history'[f].params} /\ history'[f].params \in Nat
  <2>1. f > 0 => bestState' = {history'[f].params}
    BY LoopFields DEF AucBest, LossBest, Holds, TrainInv, TrainTypeOK
  <2> QED
    BY <2>1
<1>5. Restored \in Nat /\ (f > 0 => Restored = history'[f].params)
  <2>1. CASE f = 0
    <3>1. Restored = params
      BY <1>3, <2>1 DEF Restored
    <3> QED
      BY <2>1, <3>1 DEF TrainInv, TrainTypeOK
  <2>2. CASE f > 0
    <3>1. PICK p \in Nat : p = history'[f].params /\ bestState' = {p}
      BY <1>4, <2>2
    <3>2. bestState' # {} /\ bestState' # {Live}
      <4>1. p # Live
        BY DEF Live
      <4> QED
        BY <3>1, <4>1
    <3>3. Restored = p
      BY <3>1, <3>2 DEF Restored
    <3> QED
      BY <3>1, <3>3
  <2> QED
    BY <2>1, <2>2
<1>6. TrainTypeOK'
  <2>1. CASE over
    BY <1>1, <1>5, <2>1 DEF TrainInv, TrainTypeOK
  <2>2. CASE ~over
    <3>1. epoch' \in Nat /\ epoch' < loop.epochs
      BY <1>1, <1>2, <2>2
    <3>2. batch' \in 0 .. Batches /\ loss' \in Nat /\ loss' <= batch' * MaxScore
      BY <1>1, <2>2, TrainingAssumption
    <3> QED
      BY <1>1, <2>2, <3>1, <3>2 DEF TrainInv, TrainTypeOK
  <2> QED
    BY <2>1, <2>2
<1>7. BestAt(f)'
  BY <1>1, <1>5 DEF BestAt
<1>8. Stopped'
  <2> SUFFICES ASSUME loop.by = "auc"
               PROVE  /\ tnPhase' # "done" => patienceCounter' < loop.patience
                      /\ tnPhase' = "done" /\ epoch' + 1 < loop.epochs => patienceCounter' >= loop.patience
    BY DEF Stopped
  <2>1. loop.patience \in Nat
    BY LoopFields DEF TrainInv, TrainTypeOK
  <2>2. stop <=> patienceCounter' >= loop.patience
    OBVIOUS
  <2>3. tnPhase' # "done" => ~stop
    BY <1>1
  <2>4. tnPhase' = "done" /\ epoch' + 1 < loop.epochs => stop
    BY <1>1, <1>2
  <2> QED
    BY <2>1, <2>2, <2>3, <2>4
<1> QED
  BY <1>6, <1>7, <1>8 DEF TrainInv

LEMMA SeqElements ==
  ASSUME NEW S, NEW s \in Seq(S)
  PROVE  /\ DOMAIN s = 1 .. Len(s) /\ Len(s) \in Nat
         /\ \A i \in 1 .. Len(s) : s[i] \in S
OBVIOUS

LEMMA HistoryOK ==
  ASSUME TrainInv
  PROVE  /\ DOMAIN history = 1 .. Len(history) /\ Len(history) \in Nat
         /\ \A i \in 1 .. Len(history) : history[i].score \in Nat
<1>1. history \in Seq([params : Nat, score : Nat])
  BY DEF TrainInv, TrainTypeOK
<1>2. /\ DOMAIN history = 1 .. Len(history) /\ Len(history) \in Nat
      /\ \A i \in 1 .. Len(history) : history[i] \in [params : Nat, score : Nat]
  BY <1>1, SeqElements, Zenon
<1> QED
  BY <1>2

(* One more entry of the history. *)
LEMMA OneMoreEntry ==
  ASSUME TrainInv, NEW score \in Nat, history' = Append(history, Entry(score))
  PROVE  /\ history' \in Seq([params : Nat, score : Nat])
         /\ Len(history') = Len(history) + 1 /\ Len(history) \in Nat
         /\ history'[Len(history')].score = score /\ history'[Len(history')].params = params
         /\ \A i \in 1 .. Len(history) : history'[i] = history[i] /\ history[i].score \in Nat
<1>1. history \in Seq([params : Nat, score : Nat]) /\ params \in Nat
  BY DEF TrainInv, TrainTypeOK
<1>2. Entry(score) \in [params : Nat, score : Nat]
  BY <1>1 DEF Entry
<1>3. Entry(score).score = score /\ Entry(score).params = params
  BY DEF Entry
<1>4. Len(history) \in Nat /\ \A i \in 1 .. Len(history) : history[i].score \in Nat
  BY HistoryOK
<1>5. /\ history' \in Seq([params : Nat, score : Nat]) /\ Len(history') = Len(history) + 1
      /\ history'[Len(history) + 1] = Entry(score)
      /\ \A i \in 1 .. Len(history) : history'[i] = history[i]
  BY <1>1, <1>2
<1> QED
  BY <1>3, <1>4, <1>5

LEMMA ValidateOK ==
  ASSUME TrainInv, Validate
  PROVE  TrainInv'
<1>1. PICK score \in Scores :
        /\ history' = Append(history, Entry(score))
        /\ IF score > best THEN Keep(score) ELSE NotBetter
  BY DEF Validate
<1>2. PICK stop \in BOOLEAN :
        /\ loop.by = "auc" /\ loop' = loop /\ Leave(stop)
        /\ stop <=> patienceCounter' >= loop.patience
  BY DEF Validate, Leave
<1>3. score \in Nat
  BY TrainingAssumption DEF Scores
<1>4. PICK f \in 0 .. Len(history) : AucBest(f)
  BY <1>2 DEF TrainInv, BestAt
<1>5. best \in Nat /\ bestState \in SUBSET Nat /\ patienceCounter \in Nat /\ params \in Nat
  BY DEF TrainInv, TrainTypeOK
<1>6. CASE score > best
  <2>1. best' = score /\ bestState' = {params} /\ patienceCounter' = 0
    BY <1>1, <1>6 DEF Keep
  <2>2. PICK newest \in Nat : newest = Len(history) + 1 /\ Len(history') = newest /\ Len(history) \in Nat
    BY <1>1, <1>3, OneMoreEntry
  <2>3. AucBest(newest)'
    <3>1. \A i \in 1 .. Len(history) : history'[i].score < best'
      BY <1>1, <1>3, <1>4, <1>5, <1>6, <2>1, OneMoreEntry DEF AucBest
    <3>2. \A i \in 1 .. Len(history') : i \in 1 .. Len(history) \/ i = newest
      BY <2>2
    <3>3. history'[newest].score = best' /\ bestState' = {history'[newest].params} /\ best' \in Nat
      BY <1>1, <1>3, <2>1, <2>2, OneMoreEntry
    <3>4. \A i \in 1 .. Len(history') :
            history'[i].score <= best' /\ (i < newest => history'[i].score < best')
      BY <1>1, <1>3, <2>2, <3>1, <3>2, <3>3, OneMoreEntry
    <3>5. newest > 0 /\ best' > 0 /\ patienceCounter' = Len(history') - newest
      BY <1>3, <1>5, <1>6, <2>1, <2>2
    <3> QED
      BY <3>3, <3>4, <3>5 DEF AucBest, Holds
  <2>4. best' \in Nat /\ bestState' \in SUBSET Nat /\ patienceCounter' \in Nat
    BY <1>3, <1>5, <2>1
  <2>5. newest \in 0 .. Len(history')
    BY <2>2
  <2> QED
    BY <1>1, <1>2, <1>3, <2>3, <2>4, <2>5, LeaveOK, OneMoreEntry
<1>7. CASE ~(score > best)
  <2>1. patienceCounter' = patienceCounter + 1 /\ best' = best /\ bestState' = bestState
    BY <1>1, <1>7 DEF NotBetter
  <2>2. f \in Nat /\ f <= Len(history) /\ Len(history') = Len(history) + 1 /\ Len(history) \in Nat
    BY <1>1, <1>3, <1>4, OneMoreEntry
  <2>3. AucBest(f)'
    <3>1. \A i \in 1 .. Len(history') : i \in 1 .. Len(history) \/ i = Len(history')
      BY <2>2
    <3>2. \A i \in 1 .. Len(history) :
            history'[i].score <= best /\ (i < f => history'[i].score < best)
      BY <1>1, <1>3, <1>4, OneMoreEntry DEF AucBest
    <3>3. history'[Len(history')].score <= best /\ ~(Len(history') < f)
      BY <1>1, <1>3, <1>5, <1>7, <2>2, OneMoreEntry
    <3>4. \A i \in 1 .. Len(history') :
            history'[i].score <= best' /\ (i < f => history'[i].score < best')
      BY <2>1, <3>1, <3>2, <3>3
    <3>5. f > 0 => best' > 0 /\ Holds(f)'
      BY <1>1, <1>3, <1>4, <2>1, <2>2, OneMoreEntry DEF AucBest, Holds
    <3>6. patienceCounter' = Len(history') - f
      BY <1>4, <2>1, <2>2 DEF AucBest
    <3>7. f = 0 => best' = 0 /\ bestState' = {}
      BY <1>4, <2>1 DEF AucBest
    <3> QED
      BY <3>4, <3>5, <3>6, <3>7 DEF AucBest
  <2>4. f \in 0 .. Len(history') /\ patienceCounter' \in Nat
    BY <1>5, <2>1, <2>2
  <2> QED
    BY <1>1, <1>2, <1>3, <1>5, <2>1, <2>3, <2>4, LeaveOK, OneMoreEntry
<1> QED
  BY <1>6, <1>7

LEMMA NoScoreOK ==
  ASSUME TrainInv, NoScore
  PROVE  TrainInv'
<1>1. /\ loop.by = "auc" /\ tnPhase = "validate" /\ Leave(FALSE)
      /\ UNCHANGED <<loop, best, bestState, patienceCounter, history>>
  BY DEF NoScore
<1>2. PICK f \in 0 .. Len(history) : AucBest(f)
  BY <1>1 DEF TrainInv, BestAt
<1>3. AucBest(f)'
  BY <1>1, <1>2 DEF AucBest, Holds
<1>4. ~(patienceCounter' >= loop.patience)
  <2>1. patienceCounter < loop.patience
    BY <1>1 DEF TrainInv, Stopped
  <2>2. patienceCounter \in Nat /\ loop.patience \in Nat
    BY LoopFields DEF TrainInv, TrainTypeOK
  <2> QED
    BY <1>1, <2>1, <2>2
<1>5. /\ best' \in Nat /\ bestState' \in SUBSET Nat /\ patienceCounter' \in Nat
      /\ history' \in Seq([params : Nat, score : Nat])
  BY <1>1 DEF TrainInv, TrainTypeOK
<1> QED
  BY <1>1, <1>2, <1>3, <1>4, <1>5, LeaveOK

LEMMA CompareLossOK ==
  ASSUME TrainInv, CompareLoss
  PROVE  TrainInv'
<1>1. /\ loop.by = "loss" /\ loop' = loop /\ Leave(FALSE)
      /\ history' = Append(history, Entry(loss))
      /\ IF loss < best THEN Keep(loss) ELSE UNCHANGED <<best, bestState, patienceCounter>>
  BY DEF CompareLoss
<1>2. loss \in Nat /\ loss < Infinite
  <2>1. /\ batch \in Nat /\ batch <= Batches /\ Batches \in Nat /\ MaxScore \in Nat
        /\ loss \in Nat /\ loss <= batch * MaxScore
    BY TrainingAssumption DEF TrainInv, TrainTypeOK
  <2>2. PICK d \in Nat : Batches = batch + d
    <3>1. Batches - batch \in Nat /\ Batches = batch + (Batches - batch)
      BY <2>1
    <3> QED
      BY <3>1
  <2>3. Batches * MaxScore = batch * MaxScore + d * MaxScore
    BY <2>1, <2>2
  <2>4. d * MaxScore \in Nat /\ batch * MaxScore \in Nat
    BY <2>1
  <2> QED
    BY <2>1, <2>3, <2>4 DEF Infinite
<1>3. PICK f \in 0 .. Len(history) : LossBest(f)
  BY <1>1 DEF TrainInv, BestAt
<1>4. best \in Nat /\ bestState \in SUBSET Nat /\ patienceCounter \in Nat /\ params \in Nat
  BY DEF TrainInv, TrainTypeOK
<1>5. CASE loss < best
  <2>1. best' = loss /\ bestState' = {params} /\ patienceCounter' = 0
    BY <1>1, <1>5 DEF Keep
  <2>2. PICK newest \in Nat : newest = Len(history) + 1 /\ Len(history') = newest /\ Len(history) \in Nat
    BY <1>1, <1>2, OneMoreEntry
  <2>3. LossBest(newest)'
    <3>1. \A i \in 1 .. Len(history) : history'[i].score > best'
      BY <1>1, <1>2, <1>3, <1>4, <1>5, <2>1, OneMoreEntry, SMTT(30) DEF LossBest
    <3>2. \A i \in 1 .. Len(history') : i \in 1 .. Len(history) \/ i = newest
      BY <2>2
    <3>3. history'[newest].score = best' /\ bestState' = {history'[newest].params} /\ best' \in Nat
      BY <1>1, <1>2, <2>1, <2>2, OneMoreEntry
    <3>4. \A i \in 1 .. Len(history') :
            history'[i].score >= best' /\ (i < newest => history'[i].score > best')
      BY <1>1, <1>2, <2>2, <3>1, <3>2, <3>3, OneMoreEntry
    <3>5. newest > 0
      BY <2>2
    <3> QED
      BY <3>3, <3>4, <3>5 DEF LossBest, Holds
  <2>4. best' \in Nat /\ bestState' \in SUBSET Nat /\ patienceCounter' \in Nat
    BY <1>2, <1>4, <2>1
  <2>5. newest \in 0 .. Len(history')
    BY <2>2
  <2> QED
    BY <1>1, <1>2, <2>3, <2>4, <2>5, LeaveOK, OneMoreEntry
<1>6. CASE ~(loss < best)
  <2>1. patienceCounter' = patienceCounter /\ best' = best /\ bestState' = bestState
    BY <1>1, <1>6
  <2>2. f \in Nat /\ f <= Len(history) /\ Len(history') = Len(history) + 1 /\ Len(history) \in Nat
    BY <1>1, <1>2, <1>3, OneMoreEntry
  <2>3. f > 0
    BY <1>2, <1>3, <1>6, <2>2 DEF LossBest
  <2>4. LossBest(f)'
    <3>1. \A i \in 1 .. Len(history') : i \in 1 .. Len(history) \/ i = Len(history')
      BY <2>2
    <3>2. \A i \in 1 .. Len(history) :
            history'[i].score >= best /\ (i < f => history'[i].score > best)
      BY <1>1, <1>2, <1>3, OneMoreEntry DEF LossBest
    <3>3. history'[Len(history')].score >= best /\ ~(Len(history') < f)
      BY <1>1, <1>2, <1>4, <1>6, <2>2, OneMoreEntry
    <3>4. \A i \in 1 .. Len(history') :
            history'[i].score >= best' /\ (i < f => history'[i].score > best')
      BY <2>1, <3>1, <3>2, <3>3
    <3>5. Holds(f)'
      BY <1>1, <1>2, <1>3, <2>1, <2>2, <2>3, OneMoreEntry DEF LossBest, Holds
    <3> QED
      BY <2>3, <3>4, <3>5 DEF LossBest
  <2>5. f \in 0 .. Len(history')
    BY <2>2
  <2> QED
    BY <1>1, <1>2, <1>4, <2>1, <2>4, <2>5, LeaveOK, OneMoreEntry
<1> QED
  BY <1>5, <1>6

LEMMA TrainNext == TrainInv /\ [TrainingNext]_trainVars => TrainInv'
<1> SUFFICES ASSUME TrainInv, [TrainingNext]_trainVars
             PROVE  TrainInv'
  OBVIOUS
<1>1. CASE UNCHANGED trainVars
  BY <1>1 DEF trainVars, TrainInv, TrainTypeOK, BestAt, AucBest, LossBest, Holds, Stopped
<1> QED
  BY <1>1, BatchesOK, ValidateOK, NoScoreOK, CompareLossOK DEF TrainingNext

(* The epoch that is restored is the one that the documentation promises. *)
LEMMA RestoredBest == TrainInv => BestIsRestored
<1> SUFFICES ASSUME TrainInv, tnPhase = "done",
                    \E i \in DOMAIN history : loop.by = "loss" \/ history[i].score > 0
             PROVE  params = history[FirstBest].params /\ best = history[FirstBest].score
  BY DEF BestIsRestored
<1>0. loop.by \in {"auc", "loss"}
  BY LoopFields DEF TrainInv, TrainTypeOK
<1>1. /\ DOMAIN history = 1 .. Len(history) /\ Len(history) \in Nat /\ best \in Nat
      /\ \A i \in 1 .. Len(history) : history[i].score \in Nat
  BY HistoryOK DEF TrainInv, TrainTypeOK
<1>2. PICK f \in 0 .. Len(history) : BestAt(f)
  BY DEF TrainInv, BestAt
<1> DEFINE First(i) == \A j \in DOMAIN history : Better(i, j) \/ (~Better(j, i) /\ i <= j)
<1>3. f > 0
  <2>1. CASE loop.by = "auc"
    BY <1>1, <1>2, <2>1 DEF BestAt, AucBest
  <2>2. CASE loop.by = "loss"
    BY <1>1, <1>2, <2>2 DEF BestAt, LossBest
  <2> QED
    BY <1>0, <2>1, <2>2
<1>4. f \in DOMAIN history /\ best = history[f].score
  BY <1>0, <1>1, <1>2, <1>3 DEF BestAt, AucBest, LossBest, Holds
<1>5. First(f)
  <2> SUFFICES ASSUME NEW j \in 1 .. Len(history)
               PROVE  Better(f, j) \/ (~Better(j, f) /\ f <= j)
    BY <1>1
  <2>1. CASE loop.by = "auc"
    BY <1>1, <1>2, <1>3, <1>4, <2>1 DEF BestAt, AucBest, Better
  <2>2. CASE loop.by = "loss"
    BY <1>1, <1>2, <1>3, <1>4, <2>2 DEF BestAt, LossBest, Better
  <2> QED
    BY <1>0, <2>1, <2>2
<1>6. ASSUME NEW i \in DOMAIN history, First(i)
      PROVE  i = f
  <2>1. /\ Better(i, f) \/ (~Better(f, i) /\ i <= f)
        /\ Better(f, i) \/ (~Better(i, f) /\ f <= i)
    BY <1>4, <1>5, <1>6
  <2>2. ~(Better(i, f) /\ Better(f, i))
    BY <1>1, <1>4 DEF Better
  <2> QED
    BY <1>1, <1>4, <2>1, <2>2
<1>7. FirstBest = f
  <2>1. FirstBest = CHOOSE i \in DOMAIN history : First(i)
    BY DEF FirstBest
  <2> HIDE DEF First
  <2> QED
    BY <1>4, <1>5, <1>6, <2>1
<1> QED
  BY <1>2, <1>3, <1>4, <1>7 DEF BestAt

(* patienceCounter counts the scored epochs since the best one. *)
LEMMA PatienceIsStale ==
  ASSUME TrainInv, loop.by = "auc"
  PROVE  Stale <=> patienceCounter >= loop.patience
<1>0. loop.patience \in Nat /\ loop.patience > 0
  BY LoopFields DEF TrainInv, TrainTypeOK
<1>1. /\ Len(history) \in Nat /\ best \in Nat /\ loop.patience \in Nat /\ loop.patience > 0
      /\ \A i \in 1 .. Len(history) : history[i].score \in Nat
  BY <1>0, HistoryOK DEF TrainInv, TrainTypeOK
<1>2. PICK f \in 0 .. Len(history) : AucBest(f)
  BY DEF TrainInv, BestAt
<1> DEFINE n == Len(history)
           p == loop.patience
<1>3. patienceCounter = n - f /\ f \in Nat /\ f <= n
  BY <1>1, <1>2 DEF AucBest
<1>4. ASSUME f <= n - p
      PROVE  Stale
  <2>1. n >= p
    BY <1>1, <1>3, <1>4
  <2> SUFFICES ASSUME NEW i \in n - p + 1 .. n
               PROVE  \/ history[i].score <= 0
                      \/ \E j \in 1 .. n - p : history[i].score <= history[j].score
    BY <2>1 DEF Stale
  <2>2. i \in 1 .. n
    BY <1>1, <2>1
  <2>3. history[i].score <= best
    BY <1>2, <2>2 DEF AucBest
  <2>4. CASE f = 0
    BY <1>2, <2>3, <2>4 DEF AucBest
  <2>5. CASE f > 0
    <3>1. f \in 1 .. n - p /\ best = history[f].score
      BY <1>1, <1>2, <1>3, <1>4, <2>5 DEF AucBest, Holds
    <3> QED
      BY <2>3, <3>1
  <2> QED
    BY <1>3, <2>4, <2>5
<1>5. ASSUME Stale
      PROVE  f <= n - p
  <2> SUFFICES ASSUME f > n - p
               PROVE  FALSE
    BY <1>1, <1>3
  <2>1. n >= p
    BY <1>5 DEF Stale
  <2>2. f > 0 /\ f \in n - p + 1 .. n
    BY <1>1, <1>3, <2>1
  <2>3. best = history[f].score /\ best > 0
    BY <1>2, <2>2 DEF AucBest, Holds
  <2>4. PICK j \in 1 .. n - p : history[f].score <= history[j].score
    <3>1. \/ history[f].score <= 0
          \/ \E j \in 1 .. n - p : history[f].score <= history[j].score
      BY <1>5, <2>2 DEF Stale
    <3>2. ~(history[f].score <= 0)
      BY <1>1, <2>3
    <3> QED
      BY <3>1, <3>2
  <2>5. j \in 1 .. n /\ j < f
    BY <1>1, <1>3, <2>2
  <2>6. history[j].score < best
    BY <1>2, <2>5 DEF AucBest
  <2> QED
    BY <1>1, <2>3, <2>4, <2>5, <2>6
<1>6. patienceCounter >= p <=> f <= n - p
  BY <1>1, <1>3
<1> QED
  BY <1>4, <1>5, <1>6

(* train_lstm, train_model and _train_tier3_streaming, for any scores, losses, *)
(* batches and patience: the model that leaves the loop is the first of the    *)
(* best epochs, and the loop leaves neither earlier nor later than documented. *)
THEOREM EarlyStoppingTheorem == TrainingSpec => []EarlyStopping
<1>1. TrainInv => EarlyStopping
  <2> SUFFICES ASSUME TrainInv
               PROVE  EarlyStopping
    OBVIOUS
  <2>1. StopsWhenStale
    <3> SUFFICES ASSUME loop.by = "auc"
                 PROVE  /\ tnPhase = "done" /\ epoch + 1 < loop.epochs => Stale
                        /\ tnPhase # "done" => ~Stale
      BY DEF StopsWhenStale
    <3>1. patienceCounter \in Nat /\ loop.patience \in Nat
      BY LoopFields DEF TrainInv, TrainTypeOK
    <3>2. patienceCounter < loop.patience => ~(patienceCounter >= loop.patience)
      BY <3>1
    <3> QED
      BY <3>2, PatienceIsStale DEF TrainInv, Stopped
  <2> QED
    BY <2>1, RestoredBest DEF EarlyStopping
<1> QED
  BY <1>1, TrainInit, TrainNext, PTL DEF TrainingSpec

-----------------------------------------------------------------------------
(* The streaming experiments *)

StreamEvalTypeOK ==
  /\ sePhase \in {"warmup", "trained", "stream"}
  /\ running \in Seq(StreamEdge) /\ nodeTs \in [Vertices -> Nat]
  /\ tiers \in [TierNames -> Nat] /\ confusion \in [Cells -> Nat] /\ tier3Latencies \in Nat

(* Nothing is counted before the stream; in it, every edge that has arrived is. *)
Counting ==
  LET counted == IF sePhase = "stream" THEN Len(running) - WarmupN ELSE 0
  IN  /\ sePhase = "warmup" => Len(running) <= WarmupN /\ looked = Nothing
      /\ sePhase = "trained" => Len(running) = WarmupN
      /\ counted >= 0
      /\ tiers["tier1_safe"] + tiers["tier2_suspicious"] + tiers["tier3_fraud"]
           + tiers["tier3_likely_fraud"] = counted
      /\ confusion["tp"] + confusion["fp"] + confusion["tn"] + confusion["fn"] = counted
      /\ confusion["tp"] + confusion["fp"] = tiers["tier3_fraud"]
      /\ tier3Latencies = tiers["tier3_fraud"] + tiers["tier3_likely_fraud"]

(* The edges come in the order of time, and a node's time is its latest edge's. *)
InOrder == \A i \in DOMAIN running : running[i].t <= NowTime
LatestTime(n) ==
  /\ \A i \in Own(n) : nodeTs[n] >= running[i].t
  /\ Own(n) # {} => \E i \in Own(n) : nodeTs[n] = running[i].t

StreamEvalInv ==
  StreamEvalTypeOK /\ Counting /\ InOrder /\ (\A n \in Vertices : LatestTime(n)) /\ SubgraphTimes

LEMMA LeastNumber ==
  ASSUME NEW T \in SUBSET Nat, T # {}
  PROVE  \E x \in T : \A y \in T : x <= y
<1>1. PICK x \in T : \A y \in T : ~ (<<y, x>> \in OpToRel(<, Nat))
  BY NatLessThanWellFounded, WFMin
<1>2. \A y \in T : ~(y < x)
  BY <1>1 DEF OpToRel
<1> QED
  BY <1>2

LEMMA MaxOfTimes ==
  ASSUME NEW T \in SUBSET (0 .. LastTime), T # {}
  PROVE  Max(T) \in T /\ \A t \in T : Max(T) >= t
<1>0. LastTime \in Nat
  BY StreamEvalAssumption
<1> DEFINE U == {LastTime - t : t \in T}
<1>1. U \in SUBSET Nat /\ U # {}
  <2>1. \A t \in T : LastTime - t \in Nat
    BY <1>0
  <2> QED
    BY <2>1
<1> HIDE DEF U
<1>2. PICK u \in U : \A v \in U : u <= v
  BY <1>1, LeastNumber
<1>3. PICK x \in T : u = LastTime - x
  BY <1>2 DEF U
<1>4. \A y \in T : LastTime - x <= LastTime - y
  BY <1>2, <1>3 DEF U
<1>5. \A y \in T : x >= y
  BY <1>0, <1>4
<1> QED
  BY <1>5 DEF Max

LEMMA WarmupIsNat == WarmupN \in Nat
  BY StreamEvalAssumption DEF WarmupN

LEMMA EdgeFields ==
  ASSUME NEW e \in StreamEdge
  PROVE  e.src \in Vertices /\ e.dst \in Vertices /\ e.t \in Nat /\ e.t \in 0 .. LastTime
BY StreamEvalAssumption DEF StreamEdge

LEMMA RunningIs ==
  ASSUME StreamEvalTypeOK
  PROVE  /\ Len(running) \in Nat /\ DOMAIN running = 1 .. Len(running)
         /\ \A i \in DOMAIN running : running[i] \in StreamEdge
         /\ NowTime \in Nat
<1>1. running \in Seq(StreamEdge)
  BY DEF StreamEvalTypeOK
<1> HIDE DEF StreamEdge
<1>2. /\ Len(running) \in Nat /\ DOMAIN running = 1 .. Len(running)
      /\ \A i \in DOMAIN running : running[i] \in StreamEdge
  BY <1>1
<1>3. NowTime \in Nat
  <2>1. CASE running = <<>>
    BY <2>1 DEF NowTime
  <2>2. CASE running # <<>>
    <3>1. Len(running) \in DOMAIN running
      BY <1>1, <1>2, <2>2
    <3>2. running[Len(running)].t \in Nat
      BY <1>2, <3>1, EdgeFields
    <3> QED
      BY <2>2, <3>2 DEF NowTime
  <2> QED
    BY <2>1, <2>2
<1> QED
  BY <1>2, <1>3

(* The next edge: the order of time and the times of the nodes are kept up. *)
LEMMA ArriveOK ==
  ASSUME StreamEvalInv, NEW e \in StreamEdge, Arrive(e)
  PROVE  /\ running' \in Seq(StreamEdge) /\ nodeTs' \in [Vertices -> Nat]
         /\ Len(running') = Len(running) + 1 /\ running'[Len(running')] = e
         /\ DOMAIN running' = 1 .. Len(running')
         /\ InOrder' /\ \A n \in Vertices : LatestTime(n)'
<1>1. /\ running \in Seq(StreamEdge) /\ nodeTs \in [Vertices -> Nat]
      /\ Len(running) \in Nat /\ DOMAIN running = 1 .. Len(running) /\ NowTime \in Nat
      /\ \A i \in DOMAIN running : running[i] \in StreamEdge
  BY RunningIs DEF StreamEvalInv, StreamEvalTypeOK
<1>2. /\ e.src \in Vertices /\ e.dst \in Vertices /\ e.t \in Nat /\ NowTime <= e.t
      /\ running' = Append(running, e)
      /\ nodeTs' = [n \in Vertices |-> IF n \in {e.src, e.dst} THEN e.t ELSE nodeTs[n]]
  <2>1. e.t \in NowTime .. LastTime
    BY DEF Arrive
  <2> QED
    BY <1>1, <2>1, EdgeFields, StreamEvalAssumption DEF Arrive
<1>3. nodeTs' \in [Vertices -> Nat]
  BY <1>1, <1>2
<1> HIDE DEF StreamEdge
<1>4. /\ running' \in Seq(StreamEdge) /\ Len(running') = Len(running) + 1
      /\ running'[Len(running) + 1] = e /\ DOMAIN running' = 1 .. Len(running')
      /\ \A i \in 1 .. Len(running) : running'[i] = running[i]
  BY <1>1, <1>2
<1>5. \A i \in DOMAIN running' : i = Len(running) + 1 \/ i \in DOMAIN running
  BY <1>1, <1>4
<1>6. \A i \in DOMAIN running : running[i].t \in Nat /\ running[i].t <= NowTime
  BY <1>1, EdgeFields DEF StreamEvalInv, InOrder
<1>7. NowTime' = e.t
  <2>1. running' # <<>>
    BY <1>1, <1>4
  <2> QED
    BY <1>4, <2>1 DEF NowTime
<1>8. \A i \in DOMAIN running' : running'[i].t <= e.t /\ running'[i].t \in Nat
  BY <1>1, <1>2, <1>4, <1>5, <1>6
<1>9. InOrder'
  BY <1>7, <1>8 DEF InOrder
<1>10. ASSUME NEW n \in Vertices
       PROVE  LatestTime(n)'
  <2>1. \A i \in DOMAIN running' : i \in Own(n)' <=> n \in {running'[i].src, running'[i].dst}
    BY DEF Own
  <2>2. CASE n \in {e.src, e.dst}
    <3>1. nodeTs'[n] = e.t
      BY <1>2, <2>2
    <3>2. Len(running) + 1 \in DOMAIN running'
      BY <1>1, <1>4
    <3>3. Len(running) + 1 \in Own(n)' /\ nodeTs'[n] = running'[Len(running) + 1].t
      BY <1>4, <2>1, <2>2, <3>1, <3>2
    <3>4. \A i \in Own(n)' : nodeTs'[n] >= running'[i].t
      BY <1>2, <1>8, <3>1 DEF Own
    <3> QED
      BY <3>3, <3>4 DEF LatestTime
  <2>3. CASE n \notin {e.src, e.dst}
    <3>1. nodeTs'[n] = nodeTs[n]
      BY <1>2, <2>3
    <3>2. Own(n)' = Own(n)
      BY <1>1, <1>4, <1>5, <2>3 DEF Own
    <3>3. \A i \in Own(n) : running'[i] = running[i]
      BY <1>1, <1>4 DEF Own
    <3>4. LatestTime(n)
      BY DEF StreamEvalInv
    <3> QED
      BY <3>1, <3>2, <3>3, <3>4 DEF LatestTime
  <2> QED
    BY <2>2, <2>3
<1> QED
  BY <1>3, <1>4, <1>9, <1>10

(* What a subgraph looks at is among the edges of its window. *)
LEMMA IntoIs ==
  ASSUME NEW ns, NEW es, NEW m \in Into(ns, es)
  PROVE  \E f \in es : f.dst \in ns /\ f.src = m
BY DEF Into

LEMMA TwoHopIs ==
  ASSUME NEW c, NEW es, NEW m \in TwoHop(c, es)
  PROVE  m = c \/ \E f \in es : f.src = m /\ {f.src, f.dst} \subseteq TwoHop(c, es)
<1>1. CASE m \in Into({c}, es)
  BY <1>1 DEF TwoHop, Into
<1>2. CASE m \in Into(Into({c}, es), es)
  BY <1>2 DEF TwoHop, Into
<1> QED
  BY <1>1, <1>2 DEF TwoHop

(* More than one node: then the centre itself has an edge inside. *)
LEMMA CenterHasEdge ==
  ASSUME NEW c, NEW es, Cardinality(TwoHop(c, es)) >= 3
  PROVE  \E f \in es : f.dst = c /\ {f.src, f.dst} \subseteq TwoHop(c, es)
<1>1. TwoHop(c, es) # {c}
  <2>1. Cardinality({c}) = 1
    BY FS_Singleton
  <2> QED
    BY <2>1
<1>2. PICK f \in es : f.dst = c
  <2> SUFFICES ASSUME \A f \in es : f.dst # c
               PROVE  TwoHop(c, es) = {c}
    BY <1>1
  <2>1. Into({c}, es) = {}
    BY DEF Into
  <2>2. Into({}, es) = {}
    BY DEF Into
  <2> QED
    BY <2>1, <2>2 DEF TwoHop
<1>3. f.src \in TwoHop(c, es) /\ c \in TwoHop(c, es)
  BY <1>2 DEF TwoHop, Into
<1> QED
  BY <1>2, <1>3

(* A subgraph of the stream: every node has an edge in the running graph, so *)
(* it has the time of its latest one.                                        *)
LEMMA StreamingTimes ==
  ASSUME StreamEvalInv, sePhase = "stream", NEW e \in StreamEdge, Arrive(e),
         LookAt("streaming", e.src, NRecent, nodeTs')
  PROVE  SubgraphTimes'
<1> DEFINE whole == TwoHop(e.src, LastEdges(NRecent))
<1>1. /\ looked'.by = "streaming" /\ looked'.nodes = CutTo(whole)
      /\ looked'.times = [n \in CutTo(whole) |-> nodeTs'[n]]
  BY DEF LookAt
<1>2. /\ running' \in Seq(StreamEdge) /\ Len(running') = Len(running) + 1 /\ running'[Len(running')] = e
      /\ DOMAIN running' = 1 .. Len(running') /\ \A n \in Vertices : LatestTime(n)'
  BY ArriveOK
<1>3. Len(running) \in Nat /\ WarmupN \in Nat /\ Recent \in Nat
  BY RunningIs, WarmupIsNat, StreamEvalAssumption DEF StreamEvalInv
<1>4. NRecent \in Nat /\ NRecent <= Len(running')
  BY <1>2, <1>3 DEF NRecent
<1>5. \A f \in LastEdges(NRecent) : \E i \in DOMAIN running' : running'[i] = f
  <2>1. \A i \in Len(running') - NRecent + 1 .. Len(running') : i \in DOMAIN running'
    BY <1>2, <1>3, <1>4
  <2> QED
    BY <2>1 DEF LastEdges
<1>6. \A i \in DOMAIN running' : running'[i].src \in Vertices /\ running'[i].dst \in Vertices
  <2>1. \A i \in DOMAIN running' : running'[i] \in StreamEdge
    <3> HIDE DEF StreamEdge
    <3> QED
      BY <1>2
  <2> QED
    BY <2>1, EdgeFields
<1>7. ASSUME NEW n \in whole
      PROVE  n \in Vertices /\ Own(n)' # {}
  <2>1. CASE n = e.src
    <3>1. Len(running') \in DOMAIN running'
      BY <1>2, <1>3
    <3> QED
      BY <1>2, <1>6, <2>1, <3>1 DEF Own
  <2>2. CASE n # e.src
    <3>1. PICK f \in LastEdges(NRecent) : f.src = n
      BY <2>2, TwoHopIs
    <3>2. PICK i \in DOMAIN running' : running'[i] = f
      BY <1>5
    <3> QED
      BY <1>6, <3>1, <3>2 DEF Own
  <2> QED
    BY <2>1, <2>2
<1> SUFFICES ASSUME NEW n \in looked'.nodes
             PROVE  /\ looked'.times[n] \in {running'[i].t : i \in Own(n)'}
                    /\ \A i \in Own(n)' : looked'.times[n] >= running'[i].t
  BY DEF SubgraphTimes
<1>8. n \in whole /\ looked'.times[n] = nodeTs'[n]
  BY <1>1 DEF CutTo
<1>9. LatestTime(n)' /\ Own(n)' # {}
  BY <1>2, <1>7, <1>8
<1> QED
  BY <1>8, <1>9 DEF LatestTime

(* A subgraph of the training set: a node of one that was not cut has an edge *)
(* inside it, and the latest of those is its time.                            *)
LEMMA TrainingTimes ==
  ASSUME StreamEvalInv, Sample
  PROVE  SubgraphTimes'
<1>1. CASE looked' = Nothing
  BY <1>1 DEF Nothing, SubgraphTimes
<1>2. CASE looked' # Nothing
  <2>1. PICK c \in Vertices :
          /\ Usable(c, WarmupN)
          /\ LookAt("training", c, WarmupN,
                    [m \in CutTo(TwoHop(c, LastEdges(WarmupN))) |->
                       BuildNodeTimestamps(CutTo(TwoHop(c, LastEdges(WarmupN))), WarmupN, m)])
    BY <1>2 DEF Sample
  <2> DEFINE whole == TwoHop(c, LastEdges(WarmupN))
             kept == CutTo(whole)
             mine(n) == {i \in Within(kept, WarmupN) : n \in {running'[i].src, running'[i].dst}}
             edgeTimes(n) == {running'[i].t : i \in mine(n)}
  <2>2. /\ looked'.by = "training" /\ looked'.nodes = kept /\ looked'.cut = (kept # whole)
        /\ \A n \in kept : looked'.times[n] = BuildNodeTimestamps(kept, WarmupN, n)
    BY <2>1 DEF LookAt
  <2>3. running' = running /\ Len(running) = WarmupN
    BY DEF Sample
  <2>4. /\ DOMAIN running = 1 .. Len(running) /\ Len(running) \in Nat
        /\ \A i \in DOMAIN running : running[i].t \in 0 .. LastTime
    BY RunningIs, EdgeFields DEF StreamEvalInv
  <2>5. Len(running') - WarmupN + 1 .. Len(running') = DOMAIN running
    BY <2>3, <2>4
  <2>6. \A n, i : i \in mine(n) <=> /\ i \in DOMAIN running /\ {running[i].src, running[i].dst} \subseteq kept
                                    /\ n \in {running[i].src, running[i].dst}
    BY <2>3, <2>5 DEF Within
  <2>7. ASSUME NEW n \in kept, mine(n) # {}
        PROVE  looked'.times[n] \in edgeTimes(n) /\ \A t \in edgeTimes(n) : looked'.times[n] >= t
    <3>1. edgeTimes(n) \in SUBSET (0 .. LastTime) /\ edgeTimes(n) # {}
      <4>1. \A i \in mine(n) : running'[i].t \in 0 .. LastTime
        BY <2>3, <2>4, <2>6
      <4> HIDE DEF mine
      <4> QED
        BY <2>7, <4>1
    <3>2. looked'.times[n] = Max(edgeTimes(n))
      BY <2>2, <2>7 DEF BuildNodeTimestamps
    <3> HIDE DEF edgeTimes
    <3> QED
      BY <3>1, <3>2, MaxOfTimes
  <2>8. ASSUME NEW n \in kept, kept = whole
        PROVE  mine(n) # {}
    <3>1. PICK f \in LastEdges(WarmupN) : n \in {f.src, f.dst} /\ {f.src, f.dst} \subseteq whole
      <4>1. CASE n = c
        BY <2>1, <4>1, CenterHasEdge DEF Usable
      <4>2. CASE n # c
        BY <2>8, <4>2, TwoHopIs
      <4> QED
        BY <4>1, <4>2
    <3>2. PICK i \in DOMAIN running : running[i] = f
      BY <2>3, <2>5 DEF LastEdges
    <3> QED
      BY <2>6, <2>8, <3>1, <3>2
  <2>9. \A n, i : i \in mine(n) => i \in Own(n)'
    BY <2>3, <2>6 DEF Own
  <2> HIDE DEF kept, whole, mine
  <2> SUFFICES ASSUME NEW n \in kept
               PROVE  /\ kept = whole => looked'.times[n] \in {running'[i].t : i \in Own(n)'}
                      /\ \A i \in Own(n)' : {running'[i].src, running'[i].dst} \subseteq kept =>
                           looked'.times[n] >= running'[i].t
    BY <2>2 DEF SubgraphTimes
  <2>10. kept = whole => looked'.times[n] \in {running'[i].t : i \in Own(n)'}
    BY <2>7, <2>8, <2>9
  <2>11. ASSUME NEW i \in Own(n)', {running'[i].src, running'[i].dst} \subseteq kept
         PROVE  looked'.times[n] >= running'[i].t
    <3>1. i \in mine(n)
      BY <2>3, <2>6, <2>11 DEF Own
    <3> QED
      BY <2>7, <3>1
  <2> QED
    BY <2>10, <2>11
<1> QED
  BY <1>1, <1>2

LEMMA StreamEvalInitOK == StreamEvalInit => StreamEvalInv
<1> SUFFICES ASSUME StreamEvalInit
             PROVE  StreamEvalInv
  OBVIOUS
<1>1. /\ sePhase = "warmup" /\ running = <<>> /\ nodeTs = [n \in Vertices |-> Unseen]
      /\ tiers = Zero(TierNames) /\ confusion = Zero(Cells) /\ tier3Latencies = 0 /\ looked = Nothing
  BY DEF StreamEvalInit
<1>2. Unseen \in Nat /\ WarmupN \in Nat
  BY StreamEvalAssumption, WarmupIsNat DEF Unseen
<1>3. StreamEvalTypeOK
  BY <1>1, <1>2 DEF StreamEvalTypeOK, Zero
<1>4. Len(running) = 0 /\ DOMAIN running = {}
  BY <1>1
<1>5. Counting
  BY <1>1, <1>2, <1>4 DEF Counting, Zero, TierNames, Cells
<1>6. InOrder /\ \A n \in Vertices : LatestTime(n)
  BY <1>4 DEF InOrder, LatestTime, Own
<1>7. SubgraphTimes
  BY <1>1 DEF SubgraphTimes, Nothing
<1> QED
  BY <1>3, <1>5, <1>6, <1>7 DEF StreamEvalInv

LEMMA MoreIs ==
  ASSUME NEW keys, NEW counts \in [keys -> Nat], NEW key \in keys
  PROVE  /\ More(counts, key) \in [keys -> Nat] /\ More(counts, key)[key] = counts[key] + 1
         /\ \A k \in keys : k # key => More(counts, key)[k] = counts[k]
BY DEF More

One(b) == IF b THEN 1 ELSE 0

LEMMA MoreTiers ==
  ASSUME NEW counts \in [TierNames -> Nat], NEW key \in TierNames
  PROVE  /\ \A k \in TierNames : /\ counts[k] \in Nat
                               /\ More(counts, key)[k] = counts[k] + One(k = key)
         /\ One("tier1_safe" = key) + One("tier2_suspicious" = key) + One("tier3_fraud" = key)
              + One("tier3_likely_fraud" = key) = 1
         /\ More(counts, key)["tier1_safe"] + More(counts, key)["tier2_suspicious"] + More(counts, key)["tier3_fraud"]
              + More(counts, key)["tier3_likely_fraud"]
              = counts["tier1_safe"] + counts["tier2_suspicious"] + counts["tier3_fraud"]
                 + counts["tier3_likely_fraud"] + 1
<1>1. \A k \in TierNames : counts[k] \in Nat /\ More(counts, key)[k] = counts[k] + One(k = key)
  BY DEF More, One
<1>2. One("tier1_safe" = key) + One("tier2_suspicious" = key) + One("tier3_fraud" = key)
        + One("tier3_likely_fraud" = key) = 1
  BY DEF TierNames, One
<1>3. /\ "tier1_safe" \in TierNames /\ "tier2_suspicious" \in TierNames
      /\ "tier3_fraud" \in TierNames /\ "tier3_likely_fraud" \in TierNames
  BY DEF TierNames
<1>4. PICK w \in Nat, x \in Nat, y \in Nat, z \in Nat :
        /\ w = counts["tier1_safe"] /\ x = counts["tier2_suspicious"]
        /\ y = counts["tier3_fraud"] /\ z = counts["tier3_likely_fraud"]
  BY <1>1, <1>3
<1>5. PICK p \in Nat, q \in Nat, r \in Nat, t \in Nat :
        /\ p = One("tier1_safe" = key) /\ q = One("tier2_suspicious" = key)
        /\ r = One("tier3_fraud" = key) /\ t = One("tier3_likely_fraud" = key)
  BY DEF One
<1>6. /\ More(counts, key)["tier1_safe"] = w + p /\ More(counts, key)["tier2_suspicious"] = x + q
      /\ More(counts, key)["tier3_fraud"] = y + r /\ More(counts, key)["tier3_likely_fraud"] = z + t
  BY <1>1, <1>3, <1>4, <1>5
<1>7. p + q + r + t = 1
  BY <1>2, <1>5
<1>8. (w + p) + (x + q) + (y + r) + (z + t) = w + x + y + z + 1
  BY <1>7
<1> QED
  BY <1>1, <1>2, <1>4, <1>6, <1>8

LEMMA MoreCells ==
  ASSUME NEW counts \in [Cells -> Nat], NEW key \in Cells
  PROVE  /\ \A k \in Cells : /\ counts[k] \in Nat
                               /\ More(counts, key)[k] = counts[k] + One(k = key)
         /\ One("tp" = key) + One("fp" = key) + One("tn" = key)
              + One("fn" = key) = 1
         /\ More(counts, key)["tp"] + More(counts, key)["fp"] + More(counts, key)["tn"]
              + More(counts, key)["fn"]
              = counts["tp"] + counts["fp"] + counts["tn"]
                 + counts["fn"] + 1
<1>1. \A k \in Cells : counts[k] \in Nat /\ More(counts, key)[k] = counts[k] + One(k = key)
  BY DEF More, One
<1>2. One("tp" = key) + One("fp" = key) + One("tn" = key)
        + One("fn" = key) = 1
  BY DEF Cells, One
<1>3. /\ "tp" \in Cells /\ "fp" \in Cells
      /\ "tn" \in Cells /\ "fn" \in Cells
  BY DEF Cells
<1>4. PICK w \in Nat, x \in Nat, y \in Nat, z \in Nat :
        /\ w = counts["tp"] /\ x = counts["fp"]
        /\ y = counts["tn"] /\ z = counts["fn"]
  BY <1>1, <1>3
<1>5. PICK p \in Nat, q \in Nat, r \in Nat, t \in Nat :
        /\ p = One("tp" = key) /\ q = One("fp" = key)
        /\ r = One("tn" = key) /\ t = One("fn" = key)
  BY DEF One
<1>6. /\ More(counts, key)["tp"] = w + p /\ More(counts, key)["fp"] = x + q
      /\ More(counts, key)["tn"] = y + r /\ More(counts, key)["fn"] = z + t
  BY <1>1, <1>3, <1>4, <1>5
<1>7. p + q + r + t = 1
  BY <1>2, <1>5
<1>8. (w + p) + (x + q) + (y + r) + (z + t) = w + x + y + z + 1
  BY <1>7
<1> QED
  BY <1>1, <1>2, <1>4, <1>6, <1>8

(* An edge of the stream is counted once as a tier and once as a cell. *)
LEMMA EdgeCounted ==
  ASSUME StreamEvalInv, sePhase = "stream", sePhase' = sePhase, Len(running') = Len(running) + 1,
         NEW tier \in TierNames, NEW cell \in Cells,
         tiers' = More(tiers, tier), confusion' = More(confusion, cell),
         tier = "tier3_fraud" <=> cell \in {"tp", "fp"},
         tier3Latencies' = tier3Latencies + (IF tier \in {"tier3_fraud", "tier3_likely_fraud"} THEN 1 ELSE 0)
  PROVE  /\ tiers' \in [TierNames -> Nat] /\ confusion' \in [Cells -> Nat] /\ tier3Latencies' \in Nat
         /\ Counting'
<1>1. /\ tiers \in [TierNames -> Nat] /\ confusion \in [Cells -> Nat] /\ tier3Latencies \in Nat
      /\ Len(running) \in Nat /\ WarmupN \in Nat
  BY RunningIs, WarmupIsNat DEF StreamEvalInv, StreamEvalTypeOK
<1>2. /\ tiers' \in [TierNames -> Nat] /\ confusion' \in [Cells -> Nat] /\ tier3Latencies' \in Nat
  BY <1>1, MoreIs
<1>3. PICK counted \in Nat :
        /\ counted = Len(running) - WarmupN
        /\ tiers["tier1_safe"] + tiers["tier2_suspicious"] + tiers["tier3_fraud"]
             + tiers["tier3_likely_fraud"] = counted
        /\ confusion["tp"] + confusion["fp"] + confusion["tn"] + confusion["fn"] = counted
        /\ confusion["tp"] + confusion["fp"] = tiers["tier3_fraud"]
        /\ tier3Latencies = tiers["tier3_fraud"] + tiers["tier3_likely_fraud"]
  BY <1>1 DEF StreamEvalInv, Counting
<1>4. Len(running') - WarmupN = counted + 1
  BY <1>1, <1>3
<1>5. tiers'["tier1_safe"] + tiers'["tier2_suspicious"] + tiers'["tier3_fraud"]
        + tiers'["tier3_likely_fraud"] = counted + 1
  <2>1. \A sum \in Nat : sum = counted => sum + 1 = counted + 1
    OBVIOUS
  <2>2. tiers'["tier1_safe"] + tiers'["tier2_suspicious"] + tiers'["tier3_fraud"]
          + tiers'["tier3_likely_fraud"]
          = tiers["tier1_safe"] + tiers["tier2_suspicious"] + tiers["tier3_fraud"]
             + tiers["tier3_likely_fraud"] + 1
    BY <1>1, MoreTiers, Zenon
  <2> QED
    BY <1>3, <2>1, <2>2
<1>6. confusion'["tp"] + confusion'["fp"] + confusion'["tn"] + confusion'["fn"] = counted + 1
  <2>1. \A sum \in Nat : sum = counted => sum + 1 = counted + 1
    OBVIOUS
  <2>2. confusion'["tp"] + confusion'["fp"] + confusion'["tn"] + confusion'["fn"]
          = confusion["tp"] + confusion["fp"] + confusion["tn"] + confusion["fn"] + 1
    BY <1>1, MoreCells, Zenon
  <2> QED
    BY <1>3, <2>1, <2>2
<1>7. /\ tiers["tier3_fraud"] \in Nat /\ tiers["tier3_likely_fraud"] \in Nat
      /\ confusion["tp"] \in Nat /\ confusion["fp"] \in Nat
  BY <1>1 DEF TierNames, Cells
<1>8. /\ tiers'["tier3_fraud"] = tiers["tier3_fraud"] + One("tier3_fraud" = tier)
      /\ tiers'["tier3_likely_fraud"] = tiers["tier3_likely_fraud"] + One("tier3_likely_fraud" = tier)
  BY <1>1, MoreTiers DEF TierNames
<1>9. /\ confusion'["tp"] = confusion["tp"] + One("tp" = cell)
      /\ confusion'["fp"] = confusion["fp"] + One("fp" = cell)
  BY <1>1, MoreCells DEF Cells
<1>10. /\ One("tp" = cell) + One("fp" = cell) = One("tier3_fraud" = tier)
       /\ One("tier3_fraud" = tier) + One("tier3_likely_fraud" = tier)
            = (IF tier \in {"tier3_fraud", "tier3_likely_fraud"} THEN 1 ELSE 0)
       /\ One("tp" = cell) \in Nat /\ One("fp" = cell) \in Nat
       /\ One("tier3_fraud" = tier) \in Nat /\ One("tier3_likely_fraud" = tier) \in Nat
  BY DEF One
<1>11. \A p, q, x, y \in Nat : (x + p) + (y + q) = (x + y) + (p + q)
  OBVIOUS
<1>12. confusion'["tp"] + confusion'["fp"] = tiers'["tier3_fraud"]
  <2>1. confusion'["tp"] + confusion'["fp"]
          = (confusion["tp"] + confusion["fp"]) + (One("tp" = cell) + One("fp" = cell))
    BY <1>7, <1>9, <1>10, <1>11
  <2> QED
    BY <1>3, <1>8, <1>10, <2>1
<1>13. tier3Latencies' = tiers'["tier3_fraud"] + tiers'["tier3_likely_fraud"]
  <2>1. tiers'["tier3_fraud"] + tiers'["tier3_likely_fraud"]
          = (tiers["tier3_fraud"] + tiers["tier3_likely_fraud"])
             + (One("tier3_fraud" = tier) + One("tier3_likely_fraud" = tier))
    <3>1. (tiers["tier3_fraud"] + One("tier3_fraud" = tier))
            + (tiers["tier3_likely_fraud"] + One("tier3_likely_fraud" = tier))
            = (tiers["tier3_fraud"] + tiers["tier3_likely_fraud"])
               + (One("tier3_fraud" = tier) + One("tier3_likely_fraud" = tier))
      <4>1. PICK x \in Nat, y \in Nat, p \in Nat, q \in Nat :
              /\ x = tiers["tier3_fraud"] /\ y = tiers["tier3_likely_fraud"]
              /\ p = One("tier3_fraud" = tier) /\ q = One("tier3_likely_fraud" = tier)
        BY <1>7, <1>10
      <4>2. (x + p) + (y + q) = (x + y) + (p + q)
        OBVIOUS
      <4> QED
        BY <4>1, <4>2, Zenon
    <3> QED
      BY <1>8, <3>1
  <2> QED
    BY <1>3, <1>10, <2>1
<1>14. Counting'
  <2>1. WarmupN' = WarmupN
    BY DEF WarmupN
  <2> QED
    BY <1>3, <1>4, <1>5, <1>6, <1>12, <1>13, <2>1 DEF Counting
<1> QED
  BY <1>2, <1>14

LEMMA NothingLooked == looked' = Nothing => SubgraphTimes'
  BY DEF SubgraphTimes, Nothing

LEMMA WarmOK == StreamEvalInv /\ Warm => StreamEvalInv'
<1> SUFFICES ASSUME StreamEvalInv, Warm
             PROVE  StreamEvalInv'
  OBVIOUS
<1>1. PICK e \in StreamEdge : Arrive(e)
  BY DEF Warm
<1>2. /\ sePhase = "warmup" /\ Len(running) < WarmupN
      /\ UNCHANGED <<sePhase, tiers, confusion, tier3Latencies, looked>>
  BY DEF Warm
<1>3. /\ running' \in Seq(StreamEdge) /\ nodeTs' \in [Vertices -> Nat] /\ Len(running') = Len(running) + 1
      /\ InOrder' /\ \A n \in Vertices : LatestTime(n)'
  BY <1>1, ArriveOK
<1>4. StreamEvalTypeOK'
  <2> HIDE DEF StreamEdge
  <2> QED
    BY <1>2, <1>3 DEF StreamEvalTypeOK, StreamEvalInv
<1>5. Len(running') <= WarmupN /\ WarmupN' = WarmupN
  <2>1. Len(running) \in Nat /\ WarmupN \in Nat
    BY RunningIs, WarmupIsNat DEF StreamEvalInv
  <2> QED
    BY <1>2, <1>3, <2>1 DEF WarmupN
<1>6. looked = Nothing
  BY <1>2 DEF StreamEvalInv, Counting
<1>7. Counting'
  BY <1>2, <1>5, <1>6 DEF Counting, StreamEvalInv
<1>8. SubgraphTimes'
  BY <1>2, <1>6, NothingLooked
<1> QED
  BY <1>3, <1>4, <1>7, <1>8 DEF StreamEvalInv

LEMMA SampleOK == StreamEvalInv /\ Sample => StreamEvalInv'
<1> SUFFICES ASSUME StreamEvalInv, Sample
             PROVE  StreamEvalInv'
  OBVIOUS
<1>1. /\ sePhase = "warmup" /\ Len(running) = WarmupN /\ sePhase' = "trained"
      /\ UNCHANGED <<running, nodeTs, tiers, confusion, tier3Latencies>>
  BY DEF Sample
<1>2. StreamEvalTypeOK' /\ InOrder' /\ \A n \in Vertices : LatestTime(n)'
  BY <1>1 DEF StreamEvalInv, StreamEvalTypeOK, InOrder, NowTime, LatestTime, Own
<1>3. Counting'
  BY <1>1 DEF StreamEvalInv, Counting, WarmupN
<1> QED
  BY <1>2, <1>3, TrainingTimes DEF StreamEvalInv

LEMMA TrainedOK == StreamEvalInv /\ Trained => StreamEvalInv'
<1> SUFFICES ASSUME StreamEvalInv, Trained
             PROVE  StreamEvalInv'
  OBVIOUS
<1>1. /\ sePhase = "trained" /\ sePhase' = "stream" /\ looked' = Nothing
      /\ UNCHANGED <<running, nodeTs, tiers, confusion, tier3Latencies>>
  BY DEF Trained
<1>2. StreamEvalTypeOK' /\ InOrder' /\ \A n \in Vertices : LatestTime(n)'
  BY <1>1 DEF StreamEvalInv, StreamEvalTypeOK, InOrder, NowTime, LatestTime, Own
<1>3. Len(running') - WarmupN' = 0
  BY <1>1, WarmupIsNat DEF StreamEvalInv, Counting, WarmupN
<1>4. Counting'
  BY <1>1, <1>3 DEF StreamEvalInv, Counting
<1> QED
  BY <1>1, <1>2, <1>4, NothingLooked DEF StreamEvalInv

(* What is the same for every edge of the stream *)
LEMMA EdgeOK ==
  ASSUME StreamEvalInv, Streaming, sePhase' = sePhase, NEW e \in StreamEdge, Arrive(e),
         NEW tier \in TierNames, NEW cell \in Cells,
         tiers' = More(tiers, tier), confusion' = More(confusion, cell),
         tier = "tier3_fraud" <=> cell \in {"tp", "fp"},
         tier3Latencies' = tier3Latencies + (IF tier \in {"tier3_fraud", "tier3_likely_fraud"} THEN 1 ELSE 0),
         SubgraphTimes'
  PROVE  StreamEvalInv'
<1>1. /\ running' \in Seq(StreamEdge) /\ nodeTs' \in [Vertices -> Nat] /\ Len(running') = Len(running) + 1
      /\ InOrder' /\ \A n \in Vertices : LatestTime(n)'
  BY ArriveOK
<1>2. sePhase = "stream"
  BY DEF Streaming
<1>3. /\ tiers' \in [TierNames -> Nat] /\ confusion' \in [Cells -> Nat] /\ tier3Latencies' \in Nat
      /\ Counting'
  BY <1>1, <1>2, EdgeCounted
<1>4. StreamEvalTypeOK'
  <2> HIDE DEF StreamEdge
  <2> QED
    BY <1>1, <1>2, <1>3 DEF StreamEvalTypeOK
<1> QED
  BY <1>1, <1>3, <1>4 DEF StreamEvalInv

LEMMA MissedCell ==
  ASSUME NEW e \in StreamEdge, Missed(e)
  PROVE  \E cell \in Cells \ {"tp", "fp"} : confusion' = More(confusion, cell)
BY DEF Missed, Cells

LEMMA MissedOK ==
  ASSUME StreamEvalInv, EdgeSafe \/ EdgeSuspicious \/ EdgeLikely
  PROVE  StreamEvalInv'
<1>0. /\ Streaming /\ sePhase' = sePhase /\ looked' = Nothing
      /\ \E e \in StreamEdge : Arrive(e) /\ Missed(e)
  BY DEF EdgeSafe, EdgeSuspicious, EdgeLikely
<1>1. PICK e \in StreamEdge : Arrive(e) /\ Missed(e)
  BY <1>0
<1>2. PICK cell \in Cells \ {"tp", "fp"} : confusion' = More(confusion, cell)
  BY <1>1, MissedCell
<1>3. PICK tier \in TierNames \ {"tier3_fraud"} :
        /\ tiers' = More(tiers, tier)
        /\ tier3Latencies' = tier3Latencies + (IF tier \in {"tier3_fraud", "tier3_likely_fraud"} THEN 1 ELSE 0)
  <2>1. tier3Latencies + 0 = tier3Latencies
    BY DEF StreamEvalInv, StreamEvalTypeOK
  <2>2. CASE EdgeSafe
    BY <2>1, <2>2 DEF EdgeSafe, TierNames
  <2>3. CASE EdgeSuspicious
    BY <2>1, <2>3 DEF EdgeSuspicious, TierNames
  <2>4. CASE EdgeLikely
    BY <2>4 DEF EdgeLikely, TierNames
  <2> QED
    BY <2>2, <2>3, <2>4
<1> QED
  BY <1>0, <1>1, <1>2, <1>3, NothingLooked, EdgeOK

LEMMA EdgeFraudOK == StreamEvalInv /\ EdgeFraud => StreamEvalInv'
<1> SUFFICES ASSUME StreamEvalInv, EdgeFraud
             PROVE  StreamEvalInv'
  OBVIOUS
<1>1. PICK e \in StreamEdge :
        /\ Arrive(e) /\ LookAt("streaming", e.src, NRecent, nodeTs')
        /\ confusion' = More(confusion, IF IsFraud(e) THEN "tp" ELSE "fp")
  BY DEF EdgeFraud
<1>2. /\ Streaming /\ sePhase' = sePhase /\ tiers' = More(tiers, "tier3_fraud")
      /\ tier3Latencies' = tier3Latencies + 1
  BY DEF EdgeFraud
<1>3. SubgraphTimes'
  BY <1>1, <1>2, StreamingTimes DEF Streaming
<1>4. PICK cell \in {"tp", "fp"} : confusion' = More(confusion, cell)
  BY <1>1
<1>5. cell \in Cells /\ "tier3_fraud" \in TierNames
  BY <1>4 DEF Cells, TierNames
<1>6. tier3Latencies' = tier3Latencies
        + (IF "tier3_fraud" \in {"tier3_fraud", "tier3_likely_fraud"} THEN 1 ELSE 0)
  BY <1>2
<1> QED
  BY <1>1, <1>2, <1>3, <1>4, <1>5, <1>6, EdgeOK

LEMMA StreamEvalNextOK == StreamEvalInv /\ [StreamEvalNext]_streamEvalVars => StreamEvalInv'
<1> SUFFICES ASSUME StreamEvalInv, [StreamEvalNext]_streamEvalVars
             PROVE  StreamEvalInv'
  OBVIOUS
<1>1. CASE UNCHANGED streamEvalVars
  <2>1. UNCHANGED <<sePhase, running, nodeTs, tiers, confusion, tier3Latencies, looked>>
    BY <1>1 DEF streamEvalVars
  <2>2. StreamEvalTypeOK' /\ Counting'
    BY <2>1 DEF StreamEvalInv, StreamEvalTypeOK, Counting, WarmupN
  <2>3. InOrder' /\ SubgraphTimes'
    BY <2>1 DEF StreamEvalInv, InOrder, NowTime, SubgraphTimes, Own
  <2>4. \A n \in Vertices : LatestTime(n)'
    BY <2>1 DEF StreamEvalInv, LatestTime, Own
  <2> QED
    BY <2>2, <2>3, <2>4 DEF StreamEvalInv
<1> QED
  BY <1>1, WarmOK, SampleOK, TrainedOK, MissedOK, EdgeFraudOK DEF StreamEvalNext

(* The tallies of the streaming experiments are about the same edges.        *)
THEOREM TalliesAgreeTheorem == StreamEvalSpec => []TalliesAgree
<1>1. StreamEvalInv => TalliesAgree
  BY DEF StreamEvalInv, Counting, TalliesAgree
<1> QED
  BY <1>1, StreamEvalInitOK, StreamEvalNextOK, PTL DEF StreamEvalSpec

(* Tier 3 is told the latest time of a node, in training as in the stream.   *)
THEOREM SubgraphTimesTheorem == StreamEvalSpec => []SubgraphTimes
<1>1. StreamEvalInv => SubgraphTimes
  BY DEF StreamEvalInv
<1> QED
  BY <1>1, StreamEvalInitOK, StreamEvalNextOK, PTL DEF StreamEvalSpec

-----------------------------------------------------------------------------
(* Rings and their timeliness *)

(* What can be reached over a symmetric relation are the classes of one. *)
LEMMA ReachIs ==
  ASSUME NEW ps, NEW n \in Accounts
  PROVE  /\ n \in Reach(n, ps) /\ Reach(n, ps) \subseteq Accounts
         /\ \A ns \in SUBSET Accounts : n \in ns /\ Closed(ns, ps) => Reach(n, ps) \subseteq ns
BY DEF Reach

LEMMA ReachClosed ==
  ASSUME NEW ps, ps \subseteq Accounts \X Accounts, NEW n \in Accounts
  PROVE  Closed(Reach(n, ps), ps)
<1> SUFFICES ASSUME NEW p \in ps, p[1] \in Reach(n, ps)
             PROVE  p[2] \in Reach(n, ps)
  BY DEF Closed
<1>1. p[2] \in Accounts
  OBVIOUS
<1>2. \A ns \in SUBSET Accounts : n \in ns /\ Closed(ns, ps) => p[2] \in ns
  BY DEF Reach, Closed
<1> QED
  BY <1>1, <1>2 DEF Reach

LEMMA ReachFurther ==
  ASSUME NEW ps, ps \subseteq Accounts \X Accounts, NEW n \in Accounts, NEW m \in Reach(n, ps)
  PROVE  Reach(m, ps) \subseteq Reach(n, ps)
<1>1. m \in Accounts /\ Reach(n, ps) \in SUBSET Accounts
  BY ReachIs
<1> QED
  BY <1>1, ReachIs, ReachClosed

Symmetric(ps) == \A p \in ps : <<p[2], p[1]>> \in ps

LEMMA ReachBack ==
  ASSUME NEW ps, ps \subseteq Accounts \X Accounts, Symmetric(ps),
         NEW n \in Accounts, NEW m \in Reach(n, ps)
  PROVE  n \in Reach(m, ps)
<1> DEFINE back == {x \in Accounts : n \in Reach(x, ps)}
<1>1. n \in back
  BY ReachIs
<1>2. ASSUME NEW p \in ps, p[1] \in back
      PROVE  p[2] \in back
  <2>1. <<p[2], p[1]>> \in ps /\ p[1] \in Accounts /\ p[2] \in Accounts
    BY DEF Symmetric
  <2>2. p[1] \in Reach(p[2], ps)
    <3>1. \A q \in ps : q[1] \in Reach(p[2], ps) => q[2] \in Reach(p[2], ps)
      BY <2>1, ReachClosed DEF Closed
    <3>2. p[2] \in Reach(p[2], ps)
      BY <2>1, ReachIs
    <3>3. <<p[2], p[1]>>[1] = p[2] /\ <<p[2], p[1]>>[2] = p[1]
      OBVIOUS
    <3> QED
      BY <2>1, <3>1, <3>2, <3>3
  <2> QED
    BY <1>2, <2>1, <2>2, ReachFurther
<1>3. Closed(back, ps)
  BY <1>2 DEF Closed
<1>4. Reach(n, ps) \subseteq back
  BY <1>1, <1>3, ReachIs
<1> QED
  BY <1>4

LEMMA ReachSame ==
  ASSUME NEW ps, ps \subseteq Accounts \X Accounts, Symmetric(ps),
         NEW n \in Accounts, NEW m \in Reach(n, ps)
  PROVE  Reach(m, ps) = Reach(n, ps)
<1>1. m \in Accounts
  BY ReachIs
<1>2. n \in Reach(m, ps)
  BY ReachBack
<1>3. Reach(m, ps) \subseteq Reach(n, ps)
  BY ReachFurther
<1>4. Reach(n, ps) \subseteq Reach(m, ps)
  BY <1>1, <1>2, ReachFurther
<1> QED
  BY <1>3, <1>4

-----------------------------------------------------------------------------
Transfer == [src : Accounts, dst : Accounts, t : 0 .. LastTransfer]

RingsTypeOK ==
  /\ rtPhase \in {"graph", "rings", "replay", "done"}
  /\ edges \in Seq(Transfer) /\ flagged \in SUBSET Pairs
  /\ fraud \in SUBSET Accounts /\ unvisited \in SUBSET fraud
  /\ rings \in Seq([members : SUBSET Accounts, start : Int, completion : Int])
  /\ replayed \in 0 .. Len(edges) /\ detected \in [Accounts -> Int]
  /\ rtPhase = "graph" => fraud = {} /\ rings = <<>>
  /\ rtPhase \in {"graph", "rings"} => replayed = 0
  /\ rtPhase \in {"replay", "done"} => unvisited = {}
  /\ rtPhase = "done" => replayed = Len(edges)

EdgesSorted == \A i, j \in EdgeIndices : i <= j => edges[i].t <= edges[j].t

(* What was labelled stays labelled. *)
LabelsKept == rtPhase # "graph" => SelfLoops \cup Structural \subseteq fraud

(* The rings are classes of the fraud accounts, and what is unvisited is a    *)
(* union of such classes.                                                     *)
RingOK(r) ==
  /\ \E n \in fraud : r.members = Reach(n, Adjacent)
  /\ r.members \cap unvisited = {}

RingsOK ==
  /\ \A r \in DOMAIN rings : RingOK(rings[r])
  /\ \A r, q \in DOMAIN rings : r # q => rings[r].members \cap rings[q].members = {}
  /\ Closed(unvisited, Adjacent)
  /\ \A p \in Pairs : p[1] # p[2] /\ {p[1], p[2]} \subseteq fraud =>
       \/ p[1] \in unvisited
       \/ \E r \in DOMAIN rings : {p[1], p[2]} \subseteq rings[r].members

(* The completion of a ring is the time of its last transfer. *)
Inside(i, ns) == {edges[i].src, edges[i].dst} \subseteq ns
LastInside(r) ==
  /\ \E i \in EdgeIndices : Inside(i, r.members) /\ edges[i].t = r.completion
  /\ \A i \in EdgeIndices : Inside(i, r.members) => edges[i].t <= r.completion

(* A fraud account's detection is its first alarm so far. *)
Alarms(n) ==
  {i \in 1 .. replayed : Pair(edges[i]) \in flagged /\ n \in {edges[i].src, edges[i].dst}}
FirstAlarm(n) ==
  IF n \in fraud /\ Alarms(n) # {}
  THEN /\ \E i \in Alarms(n) : detected[n] = edges[i].t
       /\ \A i \in Alarms(n) : detected[n] <= edges[i].t
  ELSE detected[n] = Undetected

RingsInv ==
  /\ RingsTypeOK /\ EdgesSorted /\ LabelsKept /\ RingsOK
  /\ \A r \in DOMAIN rings : LastInside(rings[r])
  /\ \A n \in Accounts : FirstAlarm(n)

LEMMA EdgesAre ==
  ASSUME RingsTypeOK
  PROVE  /\ Len(edges) \in Nat /\ EdgeIndices = 1 .. Len(edges)
         /\ \A i \in EdgeIndices : /\ edges[i] \in Transfer /\ Pair(edges[i]) = <<edges[i].src, edges[i].dst>>
                                   /\ edges[i].src \in Accounts /\ edges[i].dst \in Accounts
                                   /\ edges[i].t \in 0 .. LastTransfer /\ edges[i].t \in Int
         /\ Pairs \subseteq Accounts \X Accounts
<1>1. edges \in Seq(Transfer)
  BY DEF RingsTypeOK
<1>2. /\ Len(edges) \in Nat /\ EdgeIndices = 1 .. Len(edges)
      /\ \A i \in EdgeIndices : edges[i] \in Transfer
  <2> HIDE DEF Transfer
  <2> QED
    BY <1>1 DEF EdgeIndices
<1>3. \A i \in EdgeIndices : /\ edges[i].src \in Accounts /\ edges[i].dst \in Accounts
                             /\ edges[i].t \in 0 .. LastTransfer
  BY <1>2 DEF Transfer
<1>4. \A i \in EdgeIndices : edges[i].t \in Int
  BY <1>3, RingsAssumption
<1>5. Pairs \subseteq Accounts \X Accounts
  BY <1>3 DEF Pairs, Pair
<1> QED
  BY <1>2, <1>3, <1>4, <1>5 DEF Pair

LEMMA AdjacentIs ==
  ASSUME RingsTypeOK
  PROVE  /\ Adjacent \subseteq Accounts \X Accounts /\ Symmetric(Adjacent)
         /\ \A p \in Adjacent : /\ p[1] \in fraud /\ p[2] \in fraud
                                /\ <<p[1], p[2]>> \in Pairs \/ <<p[2], p[1]>> \in Pairs
         /\ \A p \in Pairs : p[1] \in fraud /\ p[2] \in fraud =>
              <<p[1], p[2]>> \in Adjacent /\ <<p[2], p[1]>> \in Adjacent
<1>1. \A p \in Pairs : p = <<p[1], p[2]>> /\ p[1] \in Accounts /\ p[2] \in Accounts
  BY EdgesAre
<1> DEFINE ps == {p \in Pairs : p[1] \in fraud /\ p[2] \in fraud}
<1>2. Adjacent = ps \cup {<<p[2], p[1]>> : p \in ps}
  BY DEF Adjacent
<1>3. \A p \in Adjacent : \/ p \in ps
                          \/ \E q \in ps : p[1] = q[2] /\ p[2] = q[1] /\ p = <<q[2], q[1]>>
  BY <1>2
<1>4. \A p \in ps : <<p[2], p[1]>> \in Adjacent /\ p \in Adjacent
  BY <1>2
<1>5. \A p \in Adjacent : p \in Accounts \X Accounts /\ p = <<p[1], p[2]>>
  BY <1>1, <1>3
<1>6. ASSUME NEW p \in Adjacent
      PROVE  <<p[2], p[1]>> \in Adjacent
  <2>1. CASE p \in ps
    BY <1>4, <2>1
  <2>2. CASE p \notin ps
    <3>1. PICK q \in ps : p[1] = q[2] /\ p[2] = q[1]
      BY <1>3, <2>2
    <3>2. q = <<p[2], p[1]>>
      BY <1>1, <3>1
    <3> QED
      BY <1>4, <3>2
  <2> QED
    BY <2>1, <2>2
<1>7. \A p \in Adjacent : /\ p[1] \in fraud /\ p[2] \in fraud
                          /\ <<p[1], p[2]>> \in Pairs \/ <<p[2], p[1]>> \in Pairs
  BY <1>1, <1>3
<1>8. \A p \in Pairs : p[1] \in fraud /\ p[2] \in fraud =>
       <<p[1], p[2]>> \in Adjacent /\ <<p[2], p[1]>> \in Adjacent
  BY <1>1, <1>4
<1> HIDE DEF ps
<1> QED
  BY <1>5, <1>6, <1>7, <1>8 DEF Symmetric

LEMMA MaxOfBounded ==
  ASSUME NEW k \in Nat, NEW T \in SUBSET (0 .. k), T # {}
  PROVE  Max(T) \in T /\ \A t \in T : Max(T) >= t
<1> DEFINE U == {k - t : t \in T}
<1>1. U \in SUBSET Nat /\ U # {}
  <2>1. \A t \in T : k - t \in Nat
    OBVIOUS
  <2> QED
    BY <2>1
<1> HIDE DEF U
<1>2. PICK u \in U : \A v \in U : u <= v
  BY <1>1, LeastNumber
<1>3. PICK x \in T : u = k - x
  BY <1>2 DEF U
<1>4. \A y \in T : k - x <= k - y
  BY <1>2, <1>3 DEF U
<1>5. \A y \in T : x >= y
  BY <1>4
<1> QED
  BY <1>5 DEF Max

LEMMA MinOfNumbers ==
  ASSUME NEW T \in SUBSET Nat, T # {}
  PROVE  Min(T) \in T
BY LeastNumber DEF Min

LEMMA TwoMembers ==
  ASSUME NEW ns \in SUBSET Accounts
  PROVE  /\ Cardinality(ns) \in Nat
         /\ \A x, y \in ns : x # y => ~(Cardinality(ns) < 2)
         /\ ~(Cardinality(ns) < 2) => \A x \in ns : \E y \in ns : y # x
<1>1. IsFiniteSet(ns) /\ Cardinality(ns) \in Nat
  BY RingsAssumption, FS_Subset, FS_CardinalityType
<1>2. ASSUME NEW x \in ns, NEW y \in ns, x # y
      PROVE  ~(Cardinality(ns) < 2)
  <2>1. Cardinality({x}) = 1 /\ IsFiniteSet({x})
    BY FS_Singleton
  <2>2. IsFiniteSet({x} \cup {y}) /\ Cardinality({x} \cup {y}) = 2
    <3>1. y \notin {x}
      BY <1>2
    <3>2. IsFiniteSet({x} \cup {y}) /\ Cardinality({x} \cup {y}) = Cardinality({x}) + 1
      BY <2>1, <3>1, FS_AddElement
    <3> QED
      BY <2>1, <3>2
  <2>3. {x} \cup {y} \subseteq ns
    OBVIOUS
  <2>4. Cardinality({x} \cup {y}) <= Cardinality(ns)
    BY <1>1, <2>3, FS_Subset
  <2> QED
    BY <1>1, <2>2, <2>4
<1>3. ASSUME ~(Cardinality(ns) < 2), NEW x \in ns, \A y \in ns : y = x
      PROVE  FALSE
  <2>1. ns = {x}
    BY <1>3
  <2>2. Cardinality({x}) = 1
    BY FS_Singleton
  <2>3. Cardinality(ns) = 1
    BY <2>1, <2>2
  <2> QED
    BY <1>3, <2>3
<1> QED
  BY <1>1, <1>2, <1>3

(* The time of a pair is that of its last transfer. *)
LEMMA PairTimeIs ==
  ASSUME RingsTypeOK, EdgesSorted, NEW p \in Pairs
  PROVE  /\ \E i \in EdgeIndices : Pair(edges[i]) = p /\ PairTime(p) = edges[i].t
         /\ \A i \in EdgeIndices : Pair(edges[i]) = p => edges[i].t <= PairTime(p)
         /\ PairTime(p) \in 0 .. LastTransfer
<1> DEFINE mine == {i \in EdgeIndices : Pair(edges[i]) = p}
<1>1. mine \in SUBSET (0 .. Len(edges)) /\ mine # {} /\ Len(edges) \in Nat
  <2>1. EdgeIndices = 1 .. Len(edges) /\ Len(edges) \in Nat
    BY EdgesAre
  <2> QED
    BY <2>1 DEF Pairs
<1>2. PairTime(p) = edges[Max(mine)].t
  BY DEF PairTime
<1> HIDE DEF mine
<1>3. Max(mine) \in mine /\ \A i \in mine : Max(mine) >= i
  BY <1>1, MaxOfBounded
<1>4. Max(mine) \in EdgeIndices /\ Pair(edges[Max(mine)]) = p
  BY <1>3 DEF mine
<1>5. ASSUME NEW i \in EdgeIndices, Pair(edges[i]) = p
      PROVE  edges[i].t <= PairTime(p)
  <2>1. i \in mine /\ i \in 1 .. Len(edges) /\ Max(mine) \in 1 .. Len(edges)
    BY <1>4, <1>5, EdgesAre DEF mine
  <2>2. i <= Max(mine)
    BY <1>1, <1>3, <2>1
  <2> QED
    BY <1>2, <1>4, <2>2 DEF EdgesSorted
<1>6. PairTime(p) \in 0 .. LastTransfer
  BY <1>2, <1>4, EdgesAre
<1> QED
  BY <1>2, <1>4, <1>5, <1>6

-----------------------------------------------------------------------------
(* Finding a ring *)

TimesInside(ns) == {PairTime(p) : p \in {q \in Pairs : q[1] \in ns /\ q[2] \in ns}}
RingOf(ns) == [members |-> ns, start |-> Min(TimesInside(ns)), completion |-> Max(TimesInside(ns))]

LEMMA RingOfIs ==
  ASSUME RingsInv, NEW n \in fraud, NEW ns \in SUBSET Accounts, ns = Reach(n, Adjacent), ~(Cardinality(ns) < 2)
  PROVE  /\ RingOf(ns) \in [members : SUBSET Accounts, start : Int, completion : Int]
         /\ RingOf(ns).members = ns /\ LastInside(RingOf(ns))
<1>0. RingsTypeOK /\ EdgesSorted /\ fraud \subseteq Accounts /\ LastTransfer \in Nat
  BY RingsAssumption DEF RingsInv, RingsTypeOK
<1>1. PICK m \in ns : m # n
  BY <1>0, TwoMembers, ReachIs
<1>2. PICK p \in Adjacent : p[1] = n /\ p[2] # n
  <2> SUFFICES ASSUME \A p \in Adjacent : p[1] = n => p[2] = n
               PROVE  FALSE
    OBVIOUS
  <2>1. Closed({n}, Adjacent)
    BY DEF Closed
  <2>2. Reach(n, Adjacent) \subseteq {n}
    BY <1>0, <2>1, ReachIs
  <2> QED
    BY <1>1, <2>2
<1>3. p[1] \in ns /\ p[2] \in ns
  BY <1>0, <1>2, AdjacentIs, ReachIs, ReachClosed DEF Closed
<1>4. TimesInside(ns) # {}
  <2>1. PICK q \in Pairs : q[1] \in ns /\ q[2] \in ns
    <3>1. <<p[1], p[2]>> \in Pairs \/ <<p[2], p[1]>> \in Pairs
      BY <1>0, AdjacentIs
    <3> QED
      BY <1>3, <3>1
  <2> QED
    BY <2>1 DEF TimesInside
<1>5. TimesInside(ns) \in SUBSET (0 .. LastTransfer) /\ TimesInside(ns) \in SUBSET Nat
  <2>1. \A q \in Pairs : PairTime(q) \in 0 .. LastTransfer
    BY <1>0, PairTimeIs
  <2> QED
    BY <1>0, <2>1 DEF TimesInside
<1> DEFINE lastOne == Max(TimesInside(ns))
<1>6. lastOne \in TimesInside(ns) /\ \A t \in TimesInside(ns) : lastOne >= t
  BY <1>0, <1>4, <1>5, MaxOfBounded
<1>7. Min(TimesInside(ns)) \in TimesInside(ns)
  BY <1>4, <1>5, MinOfNumbers
<1>8. RingOf(ns) \in [members : SUBSET Accounts, start : Int, completion : Int]
  <2>1. Min(TimesInside(ns)) \in Int /\ Max(TimesInside(ns)) \in Int
    BY <1>5, <1>6, <1>7
  <2> QED
    BY <2>1 DEF RingOf
<1>9. RingOf(ns).members = ns /\ RingOf(ns).completion = lastOne
  BY DEF RingOf
<1> HIDE DEF lastOne
<1>10. \A i \in EdgeIndices : Inside(i, ns) =>
         Pair(edges[i]) \in Pairs /\ PairTime(Pair(edges[i])) \in TimesInside(ns)
  <2> SUFFICES ASSUME NEW i \in EdgeIndices, Inside(i, ns)
               PROVE  Pair(edges[i]) \in Pairs /\ PairTime(Pair(edges[i])) \in TimesInside(ns)
    OBVIOUS
  <2>1. Pair(edges[i]) \in Pairs
    BY DEF Pairs
  <2>2. Pair(edges[i])[1] \in ns /\ Pair(edges[i])[2] \in ns
    BY DEF Pair, Inside
  <2> QED
    BY <2>1, <2>2 DEF TimesInside
<1>11. ASSUME NEW i \in EdgeIndices, Inside(i, ns)
       PROVE  edges[i].t <= lastOne
  <2>1. edges[i].t <= PairTime(Pair(edges[i])) /\ lastOne >= PairTime(Pair(edges[i]))
    BY <1>0, <1>6, <1>10, <1>11, PairTimeIs
  <2>2. edges[i].t \in Int /\ lastOne \in Int /\ PairTime(Pair(edges[i])) \in Int
    BY <1>0, <1>5, <1>6, <1>10, <1>11, EdgesAre
  <2> QED
    BY <2>1, <2>2
<1>12. \E i \in EdgeIndices : Inside(i, ns) /\ edges[i].t = lastOne
  <2>1. PICK q \in Pairs : q[1] \in ns /\ q[2] \in ns /\ lastOne = PairTime(q)
    BY <1>6 DEF TimesInside
  <2>2. PICK i \in EdgeIndices : Pair(edges[i]) = q /\ PairTime(q) = edges[i].t
    BY <1>0, PairTimeIs
  <2>3. Inside(i, ns)
    BY <2>1, <2>2 DEF Pair, Inside
  <2> QED
    BY <2>1, <2>2, <2>3
<1> QED
  BY <1>8, <1>9, <1>11, <1>12 DEF LastInside

LEMMA RingsAre ==
  ASSUME RingsTypeOK
  PROVE  /\ Len(rings) \in Nat /\ DOMAIN rings = 1 .. Len(rings)
         /\ \A r \in DOMAIN rings : /\ rings[r].members \in SUBSET Accounts
                                    /\ rings[r].completion \in Int
<1> DEFINE Rec == [members : SUBSET Accounts, start : Int, completion : Int]
<1>1. rings \in Seq(Rec)
  BY DEF RingsTypeOK
<1>2. \A ring \in Rec : ring.members \in SUBSET Accounts /\ ring.completion \in Int
  OBVIOUS
<1> HIDE DEF Rec
<1>3. Len(rings) \in Nat /\ DOMAIN rings = 1 .. Len(rings) /\ \A r \in DOMAIN rings : rings[r] \in Rec
  BY <1>1
<1> QED
  BY <1>2, <1>3

LEMMA FindRingOK == RingsInv /\ FindRing => RingsInv'
<1> SUFFICES ASSUME RingsInv, FindRing
             PROVE  RingsInv'
  OBVIOUS
<1>0. /\ RingsTypeOK /\ EdgesSorted /\ RingsOK /\ \A r \in DOMAIN rings : LastInside(rings[r])
      /\ \A n \in Accounts : FirstAlarm(n)
  BY DEF RingsInv
<1>1. PICK n \in unvisited :
        /\ unvisited' = unvisited \ Reach(n, Adjacent)
        /\ rings' = IF Cardinality(Reach(n, Adjacent)) < 2 THEN rings
                    ELSE Append(rings, RingOf(Reach(n, Adjacent)))
  BY DEF FindRing, RingOf, TimesInside
<1> DEFINE ns == Reach(n, Adjacent)
           ring == RingOf(ns)
<1>2. /\ rtPhase = "rings" /\ UNCHANGED <<rtPhase, edges, flagged, fraud, replayed, detected>>
      /\ Pairs' = Pairs /\ Adjacent' = Adjacent /\ EdgeIndices' = EdgeIndices
  BY DEF FindRing, Pairs, Adjacent, EdgeIndices
<1>3. n \in fraud /\ n \in Accounts /\ unvisited \in SUBSET fraud /\ fraud \in SUBSET Accounts
  BY <1>0 DEF RingsTypeOK
<1>4. /\ n \in ns /\ ns \in SUBSET Accounts /\ ns \subseteq unvisited /\ Closed(ns, Adjacent)
  <2>1. Closed(unvisited, Adjacent)
    BY <1>0 DEF RingsOK
  <2> QED
    BY <1>0, <1>3, <2>1, ReachIs, ReachClosed, AdjacentIs
<1>5. ~(Cardinality(ns) < 2) =>
        /\ ring \in [members : SUBSET Accounts, start : Int, completion : Int]
        /\ ring.members = ns /\ LastInside(ring)
  BY <1>3, <1>4, RingOfIs
<1>6. \/ rings' = rings /\ Cardinality(ns) < 2
      \/ rings' = Append(rings, ring) /\ ~(Cardinality(ns) < 2)
  BY <1>1
<1>7. unvisited' = unvisited \ ns
  BY <1>1
<1> HIDE DEF ns, ring
<1>8. /\ \A r \in DOMAIN rings : r \in DOMAIN rings' /\ rings'[r] = rings[r]
      /\ \A r \in DOMAIN rings' : r \in DOMAIN rings \/ (rings'[r] = ring /\ ~(Cardinality(ns) < 2))
      /\ \A r, q \in DOMAIN rings' : r \in DOMAIN rings \/ q \in DOMAIN rings \/ r = q
      /\ ~(Cardinality(ns) < 2) => \E r \in DOMAIN rings' : rings'[r] = ring
  <2>1. rings \in Seq([members : SUBSET Accounts, start : Int, completion : Int])
    BY <1>0 DEF RingsTypeOK
  <2> DEFINE Rec == [members : SUBSET Accounts, start : Int, completion : Int]
  <2> HIDE DEF Rec
  <2>2. rings \in Seq(Rec)
    BY <2>1 DEF Rec
  <2>3. CASE rings' = rings /\ Cardinality(ns) < 2
    BY <2>3
  <2>4. CASE rings' = Append(rings, ring) /\ ~(Cardinality(ns) < 2)
    <3>1. /\ DOMAIN rings' = 1 .. Len(rings) + 1 /\ Len(rings) \in Nat /\ DOMAIN rings = 1 .. Len(rings)
          /\ rings'[Len(rings) + 1] = ring /\ \A r \in 1 .. Len(rings) : rings'[r] = rings[r]
      BY <2>2, <2>4
    <3>2. \A r \in 1 .. Len(rings) + 1 : r \in 1 .. Len(rings) \/ r = Len(rings) + 1
      BY <3>1
    <3>3. Len(rings) + 1 \in 1 .. Len(rings) + 1 /\ \A r \in 1 .. Len(rings) : r \in 1 .. Len(rings) + 1
      BY <3>1
    <3> QED
      BY <2>4, <3>1, <3>2, <3>3
  <2> QED
    BY <1>6, <2>3, <2>4
<1>9. rings' \in Seq([members : SUBSET Accounts, start : Int, completion : Int])
  <2> DEFINE Rec == [members : SUBSET Accounts, start : Int, completion : Int]
  <2>1. rings \in Seq(Rec)
    BY <1>0 DEF RingsTypeOK
  <2>2. ~(Cardinality(ns) < 2) => ring \in Rec
    BY <1>5
  <2> HIDE DEF Rec
  <2>3. rings' \in Seq(Rec)
    BY <1>6, <2>1, <2>2
  <2> QED
    BY <2>3 DEF Rec
<1>10. RingsTypeOK'
  BY <1>0, <1>2, <1>7, <1>9 DEF RingsTypeOK
<1>11. ASSUME NEW r \in DOMAIN rings'
       PROVE  RingOK(rings[r])' /\ LastInside(rings[r])'
  <2>1. CASE r \in DOMAIN rings
    <3>1. RingOK(rings[r]) /\ LastInside(rings[r]) /\ rings'[r] = rings[r]
      BY <1>0, <1>8, <2>1 DEF RingsOK
    <3>2. RingOK(rings[r])'
      BY <1>2, <1>7, <3>1 DEF RingOK
    <3>3. LastInside(rings[r])'
      BY <1>2, <3>1 DEF LastInside, Inside
    <3> QED
      BY <3>2, <3>3
  <2>2. CASE rings'[r] = ring /\ ~(Cardinality(ns) < 2)
    <3>1. ring.members = ns /\ LastInside(ring)
      BY <1>5, <2>2
    <3>2. RingOK(rings[r])'
      BY <1>2, <1>3, <1>7, <2>2, <3>1 DEF RingOK, ns
    <3>3. LastInside(rings[r])'
      BY <1>2, <2>2, <3>1 DEF LastInside, Inside
    <3> QED
      BY <3>2, <3>3
  <2> QED
    BY <1>8, <2>1, <2>2
<1>12. ASSUME NEW r \in DOMAIN rings', NEW q \in DOMAIN rings', r # q
       PROVE  rings'[r].members \cap rings'[q].members = {}
  <2>1. \A x \in DOMAIN rings : rings'[x] = rings[x] /\ rings[x].members \cap unvisited = {}
    BY <1>0, <1>8 DEF RingsOK, RingOK
  <2>2. CASE r \in DOMAIN rings /\ q \in DOMAIN rings
    BY <1>0, <1>12, <2>1, <2>2 DEF RingsOK
  <2>3. CASE r \in DOMAIN rings /\ q \notin DOMAIN rings
    BY <1>4, <1>5, <1>8, <2>1, <2>3
  <2>4. CASE r \notin DOMAIN rings /\ q \in DOMAIN rings
    BY <1>4, <1>5, <1>8, <2>1, <2>4
  <2> QED
    BY <1>8, <1>12, <2>2, <2>3, <2>4
<1>13. Closed(unvisited, Adjacent)'
  <2> SUFFICES ASSUME NEW p \in Adjacent, p[1] \in unvisited \ ns
               PROVE  p[2] \in unvisited \ ns
    BY <1>2, <1>7 DEF Closed
  <2>1. p[2] \in unvisited
    BY <1>0 DEF RingsOK, Closed
  <2>2. <<p[2], p[1]>> \in Adjacent
    BY <1>0, AdjacentIs DEF Symmetric
  <2>3. p[2] \notin ns
    <3>1. <<p[2], p[1]>>[1] = p[2] /\ <<p[2], p[1]>>[2] = p[1]
      OBVIOUS
    <3> QED
      BY <1>4, <2>2, <3>1 DEF Closed
  <2> QED
    BY <2>1, <2>3
<1>14. ASSUME NEW p \in Pairs, p[1] # p[2], {p[1], p[2]} \subseteq fraud
       PROVE  \/ p[1] \in unvisited'
              \/ \E r \in DOMAIN rings' : {p[1], p[2]} \subseteq rings'[r].members
  <2>1. CASE \E r \in DOMAIN rings : {p[1], p[2]} \subseteq rings[r].members
    BY <1>8, <2>1
  <2>2. CASE p[1] \in ns
    <3>1. <<p[1], p[2]>> \in Adjacent
      BY <1>0, <1>14, AdjacentIs
    <3>2. p[2] \in ns
      <4>1. <<p[1], p[2]>>[1] = p[1] /\ <<p[1], p[2]>>[2] = p[2]
        OBVIOUS
      <4> QED
        BY <1>4, <2>2, <3>1, <4>1 DEF Closed
    <3>3. ~(Cardinality(ns) < 2)
      BY <1>4, <1>14, <2>2, <3>2, TwoMembers
    <3> QED
      BY <1>5, <1>8, <2>2, <3>2, <3>3
  <2> QED
    BY <1>0, <1>7, <1>14, <2>1, <2>2 DEF RingsOK
<1>15. RingsOK'
  BY <1>2, <1>11, <1>12, <1>13, <1>14 DEF RingsOK
<1>16. EdgesSorted' /\ LabelsKept' /\ \A m \in Accounts : FirstAlarm(m)'
  BY <1>0, <1>2 DEF RingsInv, EdgesSorted, LabelsKept, SelfLoops, Structural, Component, Dense, FirstAlarm, Alarms
<1> QED
  BY <1>10, <1>11, <1>15, <1>16 DEF RingsInv

-----------------------------------------------------------------------------
(* The other steps *)

LEMMA RingsInitOK == RingsInit => RingsInv
<1> SUFFICES ASSUME RingsInit
             PROVE  RingsInv
  OBVIOUS
<1>1. /\ rtPhase = "graph" /\ edges = <<>> /\ flagged = {} /\ fraud = {} /\ unvisited = {}
      /\ rings = <<>> /\ replayed = 0 /\ detected = [n \in Accounts |-> Undetected]
  BY DEF RingsInit
<1>2. Len(edges) = 0 /\ EdgeIndices = {} /\ DOMAIN rings = {} /\ Pairs = {}
  BY <1>1 DEF EdgeIndices, Pairs
<1>3. RingsTypeOK
  BY <1>1, <1>2 DEF RingsTypeOK, Undetected
<1>4. EdgesSorted /\ LabelsKept /\ RingsOK
  BY <1>1, <1>2 DEF EdgesSorted, LabelsKept, RingsOK, Closed
<1>5. \A n \in Accounts : FirstAlarm(n)
  BY <1>1 DEF FirstAlarm
<1> QED
  BY <1>2, <1>3, <1>4, <1>5 DEF RingsInv

LEMMA AddEdgeOK == RingsInv /\ AddEdge => RingsInv'
<1> SUFFICES ASSUME RingsInv, AddEdge
             PROVE  RingsInv'
  OBVIOUS
<1>1. PICK e \in Transfer : /\ edges # <<>> => edges[Len(edges)].t <= e.t
                            /\ edges' = Append(edges, e)
  <2>1. PICK s \in Accounts, d \in Accounts, t \in 0 .. LastTransfer :
          /\ edges # <<>> => edges[Len(edges)].t <= t
          /\ edges' = Append(edges, [src |-> s, dst |-> d, t |-> t])
    BY DEF AddEdge
  <2>2. [src |-> s, dst |-> d, t |-> t] \in Transfer /\ [src |-> s, dst |-> d, t |-> t].t = t
    BY DEF Transfer
  <2> QED
    BY <2>1, <2>2
<1>2. /\ rtPhase = "graph" /\ RingsTypeOK /\ EdgesSorted
      /\ UNCHANGED <<rtPhase, flagged, fraud, unvisited, rings, replayed, detected>>
      /\ \A n \in Accounts : FirstAlarm(n)
  BY DEF AddEdge, RingsInv
<1>3. /\ fraud = {} /\ unvisited = {} /\ rings = <<>> /\ replayed = 0 /\ DOMAIN rings = {}
  BY <1>2 DEF RingsTypeOK
<1>4. /\ edges' \in Seq(Transfer) /\ Len(edges) \in Nat /\ Len(edges') = Len(edges) + 1
      /\ EdgeIndices = 1 .. Len(edges) /\ EdgeIndices' = 1 .. Len(edges) + 1
      /\ edges'[Len(edges) + 1] = e /\ \A i \in EdgeIndices : edges'[i] = edges[i]
  <2>1. edges \in Seq(Transfer)
    BY <1>2 DEF RingsTypeOK
  <2> HIDE DEF Transfer
  <2> QED
    BY <1>1, <2>1 DEF EdgeIndices
<1>5. flagged \subseteq Pairs'
  <2>1. EdgeIndices \subseteq EdgeIndices'
    BY <1>4
  <2>2. Pairs \subseteq Pairs'
    BY <1>4, <2>1 DEF Pairs, Pair
  <2> QED
    BY <1>2, <2>2 DEF RingsTypeOK
<1>6. RingsTypeOK'
  BY <1>2, <1>3, <1>4, <1>5 DEF RingsTypeOK
<1>7. \A i \in EdgeIndices : edges[i].t <= e.t /\ edges[i].t \in Int /\ e.t \in Int
  <2>1. \A i \in EdgeIndices : edges[i].t \in Int
    BY <1>2, EdgesAre
  <2>2. e.t \in Int
    BY <1>1, RingsAssumption DEF Transfer
  <2>3. ASSUME NEW i \in EdgeIndices
        PROVE  edges[i].t <= e.t
    <3>1. Len(edges) \in EdgeIndices /\ i <= Len(edges) /\ edges # <<>>
      BY <1>4
    <3>2. edges[i].t <= edges[Len(edges)].t /\ edges[Len(edges)].t <= e.t
      BY <1>1, <1>2, <3>1 DEF EdgesSorted
    <3> QED
      BY <2>1, <2>2, <3>1, <3>2
  <2> QED
    BY <2>1, <2>2, <2>3
<1>8. EdgesSorted'
  <2> SUFFICES ASSUME NEW i \in EdgeIndices', NEW j \in EdgeIndices', i <= j
               PROVE  edges'[i].t <= edges'[j].t
    BY DEF EdgesSorted
  <2>1. CASE j = Len(edges) + 1
    <3>1. i \in EdgeIndices \/ i = Len(edges) + 1
      BY <1>4
    <3>2. e.t <= e.t
      BY <1>1, RingsAssumption DEF Transfer
    <3> QED
      BY <1>4, <1>7, <2>1, <3>1, <3>2
  <2>2. CASE j # Len(edges) + 1
    <3>1. i \in EdgeIndices /\ j \in EdgeIndices
      BY <1>4, <2>2
    <3> QED
      BY <1>2, <1>4, <3>1 DEF EdgesSorted
  <2> QED
    BY <2>1, <2>2
<1>9. LabelsKept' /\ RingsOK'
  BY <1>2, <1>3 DEF LabelsKept, RingsOK, Closed
<1>10. \A n \in Accounts : FirstAlarm(n)'
  BY <1>2, <1>3 DEF FirstAlarm
<1>11. \A r \in DOMAIN rings' : LastInside(rings[r])'
  BY <1>2, <1>3
<1> QED
  BY <1>6, <1>8, <1>9, <1>10, <1>11 DEF RingsInv

LEMMA GenerateLabelsOK == RingsInv /\ GenerateLabels => RingsInv'
<1> SUFFICES ASSUME RingsInv, GenerateLabels
             PROVE  RingsInv'
  OBVIOUS
<1>1. /\ rtPhase = "graph" /\ rtPhase' = "rings" /\ unvisited' = fraud' /\ flagged' \in SUBSET Pairs
      /\ UNCHANGED <<edges, rings, replayed, detected>>
      /\ RingsTypeOK /\ EdgesSorted /\ \A n \in Accounts : FirstAlarm(n)
  BY DEF GenerateLabels, RingsInv
<1>2. PICK known \in KnownLabels : fraud' = known \cup SelfLoops \cup Structural
  BY DEF GenerateLabels
<1>3. rings = <<>> /\ DOMAIN rings = {} /\ fraud = {} /\ replayed = 0
  BY <1>1 DEF RingsTypeOK
<1>4. fraud' \in SUBSET Accounts
  <2>1. SelfLoops \subseteq Accounts
    BY <1>1, EdgesAre DEF SelfLoops
  <2>2. Structural \subseteq Accounts
    BY DEF Structural
  <2> QED
    BY <1>2, <2>1, <2>2, RingsAssumption
<1>5. Pairs' = Pairs /\ EdgeIndices' = EdgeIndices
  BY <1>1 DEF Pairs, EdgeIndices
<1>6. RingsTypeOK'
  BY <1>1, <1>3, <1>4, <1>5 DEF RingsTypeOK
<1>7. EdgesSorted' /\ LabelsKept'
  <2>1. SelfLoops' = SelfLoops /\ Structural' = Structural
    BY <1>5 DEF SelfLoops, Structural, Component, Dense
  <2> QED
    BY <1>1, <1>2, <1>5, <2>1 DEF EdgesSorted, LabelsKept
<1>8. RingsOK'
  <2>1. Closed(unvisited', Adjacent')
    BY <1>1 DEF Closed, Adjacent
  <2> QED
    BY <1>1, <1>3, <2>1 DEF RingsOK, Closed
<1>9. ASSUME NEW n \in Accounts
      PROVE  FirstAlarm(n)'
  <2>1. Alarms(n)' = {}
    BY <1>1, <1>3 DEF Alarms
  <2>2. detected[n] = Undetected
    BY <1>1, <1>3 DEF FirstAlarm
  <2> QED
    BY <1>1, <2>1, <2>2 DEF FirstAlarm
<1> QED
  BY <1>1, <1>3, <1>6, <1>7, <1>8, <1>9 DEF RingsInv

(* What a step that leaves the graph, the labels and the rings alone keeps *)
LEMMA RingsKept ==
  ASSUME RingsInv, rtPhase # "graph", rtPhase' # "graph", UNCHANGED <<edges, flagged, fraud, unvisited, rings>>
  PROVE  EdgesSorted' /\ LabelsKept' /\ RingsOK' /\ \A r \in DOMAIN rings' : LastInside(rings[r])'
<1>1. Pairs' = Pairs /\ EdgeIndices' = EdgeIndices /\ Adjacent' = Adjacent
  BY DEF Pairs, EdgeIndices, Adjacent
<1>2. SelfLoops' = SelfLoops /\ Structural' = Structural
  BY <1>1 DEF SelfLoops, Structural, Component, Dense
<1>3. EdgesSorted' /\ LabelsKept'
  BY <1>1, <1>2 DEF RingsInv, EdgesSorted, LabelsKept
<1>4. RingsOK'
  BY <1>1 DEF RingsInv, RingsOK, RingOK
<1>5. \A r \in DOMAIN rings' : LastInside(rings[r])'
  BY <1>1 DEF RingsInv, LastInside, Inside
<1> QED
  BY <1>3, <1>4, <1>5

LEMMA RingsFoundOK == RingsInv /\ (RingsFound \/ Replayed) => RingsInv'
<1> SUFFICES ASSUME RingsInv, RingsFound \/ Replayed
             PROVE  RingsInv'
  OBVIOUS
<1>1. /\ rtPhase # "graph" /\ rtPhase' # "graph"
      /\ UNCHANGED <<edges, flagged, fraud, unvisited, rings, replayed, detected>>
  BY DEF RingsFound, Replayed
<1>2. Pairs' = Pairs
  BY <1>1 DEF Pairs, EdgeIndices
<1>3. RingsTypeOK'
  <2>1. RingsTypeOK
    BY DEF RingsInv
  <2>2. /\ rtPhase' \in {"replay", "done"}
        /\ unvisited' = {} /\ (rtPhase' = "done" => replayed' = Len(edges'))
    BY <1>1, <2>1 DEF RingsFound, Replayed, RingsTypeOK
  <2> QED
    BY <1>1, <1>2, <2>1, <2>2 DEF RingsTypeOK
<1>4. \A n \in Accounts : FirstAlarm(n)'
  BY <1>1 DEF RingsInv, FirstAlarm, Alarms
<1> QED
  BY <1>1, <1>3, <1>4, RingsKept DEF RingsInv

LEMMA ReplayEdgeOK == RingsInv /\ ReplayEdge => RingsInv'
<1> SUFFICES ASSUME RingsInv, ReplayEdge
             PROVE  RingsInv'
  OBVIOUS
<1> DEFINE e == edges[replayed + 1]
           alarm(n) == Pair(e) \in flagged /\ n \in {e.src, e.dst}
<1>1. /\ rtPhase = "replay" /\ replayed < Len(edges) /\ replayed' = replayed + 1
      /\ UNCHANGED <<rtPhase, edges, flagged, fraud, unvisited, rings>>
      /\ detected' = [n \in Accounts |-> IF alarm(n) /\ n \in fraud /\ detected[n] = Undetected
                                         THEN e.t ELSE detected[n]]
      /\ RingsTypeOK /\ EdgesSorted
  BY DEF ReplayEdge, RingsInv
<1>2. /\ Len(edges) \in Nat /\ EdgeIndices = 1 .. Len(edges) /\ replayed \in Nat
      /\ \A i \in EdgeIndices : edges[i].t \in Int /\ edges[i].t # Undetected
  <2>1. replayed \in Nat
    BY <1>1, EdgesAre DEF RingsTypeOK
  <2> QED
    BY <1>1, <2>1, EdgesAre, RingsAssumption DEF Undetected
<1>3. replayed + 1 \in EdgeIndices /\ e.t \in Int
  BY <1>1, <1>2
<1>4. detected' \in [Accounts -> Int]
  BY <1>1, <1>3 DEF RingsTypeOK
<1>5. RingsTypeOK'
  <2>1. Pairs' = Pairs
    BY <1>1 DEF Pairs, EdgeIndices
  <2>2. replayed + 1 \in 0 .. Len(edges)
    BY <1>1, <1>2
  <2> QED
    BY <1>1, <1>4, <2>1, <2>2 DEF RingsTypeOK
<1>6. ASSUME NEW n \in Accounts
      PROVE  FirstAlarm(n)'
  <2>1. Alarms(n)' = IF alarm(n) THEN Alarms(n) \cup {replayed + 1} ELSE Alarms(n)
    <3>1. \A i : i \in 1 .. replayed + 1 <=> i \in 1 .. replayed \/ i = replayed + 1
      BY <1>2
    <3>2. \A i : i \in Alarms(n)' <=> /\ i \in 1 .. replayed + 1 /\ Pair(edges[i]) \in flagged
                                      /\ n \in {edges[i].src, edges[i].dst}
      BY <1>1 DEF Alarms, Pair
    <3>3. \A i : i \in Alarms(n) <=> /\ i \in 1 .. replayed /\ Pair(edges[i]) \in flagged
                                     /\ n \in {edges[i].src, edges[i].dst}
      BY DEF Alarms
    <3> QED
      BY <3>1, <3>2, <3>3
  <2>2. detected'[n] = IF alarm(n) /\ n \in fraud /\ detected[n] = Undetected THEN e.t ELSE detected[n]
    BY <1>1
  <2>3. \A i \in Alarms(n) : i \in EdgeIndices /\ i <= replayed + 1
    BY <1>1, <1>2 DEF Alarms
  <2>4. FirstAlarm(n)
    BY DEF RingsInv
  <2> HIDE DEF alarm, e
  <2>5. CASE n \in fraud /\ Alarms(n) # {}
    <3>1. PICK i \in Alarms(n) : detected[n] = edges[i].t
      BY <2>4, <2>5 DEF FirstAlarm
    <3>2. detected'[n] = detected[n]
      BY <1>2, <2>2, <2>3, <3>1
    <3>3. \A j \in Alarms(n) : detected[n] <= edges[j].t
      BY <2>4, <2>5 DEF FirstAlarm
    <3>4. detected[n] <= edges[replayed + 1].t
      BY <1>1, <1>3, <2>3, <3>1 DEF EdgesSorted
    <3>5. \A j \in Alarms(n)' : detected[n] <= edges[j].t
      BY <2>1, <3>3, <3>4
    <3>6. i \in Alarms(n)'
      BY <2>1
    <3> QED
      <4>1. n \in fraud' /\ Alarms(n)' # {} /\ edges' = edges
        BY <1>1, <2>5, <3>6
      <4>2. \E k \in Alarms(n)' : detected'[n] = edges'[k].t
        BY <3>1, <3>2, <3>6, <4>1
      <4>3. \A k \in Alarms(n)' : detected'[n] <= edges'[k].t
        BY <3>2, <3>5, <4>1
      <4> QED
        BY <4>1, <4>2, <4>3 DEF FirstAlarm
  <2>6. CASE n \in fraud /\ Alarms(n) = {}
    <3>1. detected[n] = Undetected
      BY <2>4, <2>6 DEF FirstAlarm
    <3>2. CASE alarm(n)
      <4>1. Alarms(n)' = {replayed + 1} /\ detected'[n] = edges[replayed + 1].t
        BY <2>1, <2>2, <2>6, <3>1, <3>2 DEF e
      <4>2. edges[replayed + 1].t <= edges[replayed + 1].t
        BY <1>2, <1>3
      <4> QED
        BY <1>1, <2>6, <4>1, <4>2 DEF FirstAlarm
    <3>3. CASE ~alarm(n)
      BY <1>1, <2>1, <2>2, <2>6, <3>1, <3>3 DEF FirstAlarm
    <3> QED
      BY <3>2, <3>3
  <2>7. CASE n \notin fraud
    BY <1>1, <2>2, <2>4, <2>7 DEF FirstAlarm
  <2> QED
    BY <2>5, <2>6, <2>7
<1> QED
  BY <1>1, <1>5, <1>6, RingsKept DEF RingsInv

LEMMA RingsNextOK == RingsInv /\ [RingsNext]_ringsVars => RingsInv'
<1> SUFFICES ASSUME RingsInv, [RingsNext]_ringsVars
             PROVE  RingsInv'
  OBVIOUS
<1>1. CASE UNCHANGED ringsVars
  <2>1. UNCHANGED <<rtPhase, edges, flagged, fraud, unvisited, rings, replayed, detected>>
    BY <1>1 DEF ringsVars
  <2>2. Pairs' = Pairs /\ EdgeIndices' = EdgeIndices /\ Adjacent' = Adjacent
    BY <2>1 DEF Pairs, EdgeIndices, Adjacent
  <2>3. RingsTypeOK' /\ \A n \in Accounts : FirstAlarm(n)'
    BY <2>1, <2>2 DEF RingsInv, RingsTypeOK, FirstAlarm, Alarms
  <2>4. EdgesSorted' /\ LabelsKept' /\ RingsOK' /\ \A r \in DOMAIN rings' : LastInside(rings[r])'
    <3>1. SelfLoops' = SelfLoops /\ Structural' = Structural
      BY <2>2 DEF SelfLoops, Structural, Component, Dense
    <3>2. EdgesSorted' /\ LabelsKept'
      BY <2>1, <2>2, <3>1 DEF RingsInv, EdgesSorted, LabelsKept
    <3>3. RingsOK'
      BY <2>1, <2>2 DEF RingsInv, RingsOK, RingOK
    <3>4. \A r \in DOMAIN rings' : LastInside(rings[r])'
      BY <2>1, <2>2 DEF RingsInv, LastInside, Inside
    <3> QED
      BY <3>2, <3>3, <3>4
  <2> QED
    BY <2>3, <2>4 DEF RingsInv
<1> QED
  BY <1>1, AddEdgeOK, GenerateLabelsOK, FindRingOK, RingsFoundOK, ReplayEdgeOK DEF RingsNext

-----------------------------------------------------------------------------
(* The rings are the parts of the fraud accounts *)

LEMMA PartitionOK == RingsInv => RingsPartition
<1> SUFFICES ASSUME RingsInv, rtPhase \in {"replay", "done"}
             PROVE  RingsPartition
  BY DEF RingsPartition
<1>1. RingsTypeOK /\ RingsOK /\ unvisited = {} /\ fraud \subseteq Accounts
  BY DEF RingsInv, RingsTypeOK
<1>2. \A r, q \in DOMAIN rings : r # q => rings[r].members \cap rings[q].members = {}
  BY <1>1 DEF RingsOK
<1>3. \A p \in Pairs : p[1] # p[2] /\ {p[1], p[2]} \subseteq fraud =>
        \E r \in DOMAIN rings : {p[1], p[2]} \subseteq rings[r].members
  BY <1>1 DEF RingsOK
<1>4. ASSUME NEW r \in DOMAIN rings, NEW part \in (SUBSET rings[r].members) \ {{}, rings[r].members}
      PROVE  \E p \in Pairs : {p[1], p[2]} \subseteq rings[r].members
                              /\ Cardinality({p[1], p[2]} \cap part) = 1
  <2>1. PICK n \in fraud : rings[r].members = Reach(n, Adjacent)
    BY <1>1 DEF RingsOK, RingOK
  <2>2. PICK x \in part : x \in Reach(n, Adjacent)
    BY <2>1
  <2>3. Reach(x, Adjacent) = Reach(n, Adjacent) /\ x \in Accounts /\ part \in SUBSET Accounts
    BY <1>1, <2>1, <2>2, AdjacentIs, ReachIs, ReachSame
  <2>4. ~Closed(part, Adjacent)
    BY <2>1, <2>2, <2>3, ReachIs
  <2>5. PICK p \in Adjacent : p[1] \in part /\ p[2] \notin part
    BY <2>4 DEF Closed
  <2>6. p[1] \in rings[r].members /\ p[2] \in rings[r].members
    BY <1>1, <2>1, <2>5, AdjacentIs, ReachClosed DEF Closed
  <2>7. {p[1], p[2]} \cap part = {p[1]} /\ {p[2], p[1]} \cap part = {p[1]}
    BY <2>5
  <2>8. Cardinality({p[1]}) = 1
    BY FS_Singleton
  <2>9. CASE <<p[1], p[2]>> \in Pairs
    BY <2>6, <2>7, <2>8, <2>9
  <2>10. CASE <<p[2], p[1]>> \in Pairs
    BY <2>6, <2>7, <2>8, <2>10
  <2> QED
    BY <1>1, <2>9, <2>10, AdjacentIs
<1> QED
  BY <1>2, <1>3, <1>4 DEF RingsPartition

(* Three that pay each other in a circle, and at most one more in their       *)
(* component: it is dense.                                                    *)
LEMMA CountOf ==
  ASSUME NEW S, IsFiniteSet(S), NEW k \in Nat, Cardinality(S) = k, NEW x, x \notin S
  PROVE  IsFiniteSet(S \cup {x}) /\ Cardinality(S \cup {x}) = k + 1
BY FS_AddElement

LEMMA ThreeOf ==
  ASSUME NEW a, NEW b, NEW c, a # b, b # c, a # c
  PROVE  IsFiniteSet({a, b, c}) /\ Cardinality({a, b, c}) = 3
<1>1. IsFiniteSet({a}) /\ Cardinality({a}) = 1
  BY FS_Singleton
<1>2. IsFiniteSet({a} \cup {b}) /\ Cardinality({a} \cup {b}) = 1 + 1
  BY <1>1, CountOf
<1>3. IsFiniteSet(({a} \cup {b}) \cup {c}) /\ Cardinality(({a} \cup {b}) \cup {c}) = 2 + 1
  BY <1>2, CountOf
<1>4. ({a} \cup {b}) \cup {c} = {a, b, c}
  OBVIOUS
<1> QED
  BY <1>3, <1>4

LEMMA FiveOf ==
  ASSUME NEW a, NEW b, NEW c, NEW d, NEW e, a # b, b # c, a # c,
         d \notin {a, b, c}, e \notin {a, b, c}, d # e
  PROVE  IsFiniteSet({a, b, c, d, e}) /\ Cardinality({a, b, c, d, e}) = 5
<1>1. IsFiniteSet({a, b, c}) /\ Cardinality({a, b, c}) = 3
  BY ThreeOf
<1>2. IsFiniteSet({a, b, c} \cup {d}) /\ Cardinality({a, b, c} \cup {d}) = 3 + 1
  BY <1>1, CountOf
<1>3. IsFiniteSet(({a, b, c} \cup {d}) \cup {e}) /\ Cardinality(({a, b, c} \cup {d}) \cup {e}) = 4 + 1
  BY <1>2, CountOf
<1>4. ({a, b, c} \cup {d}) \cup {e} = {a, b, c, d, e}
  OBVIOUS
<1> QED
  BY <1>3, <1>4

LEMMA ThreeDistinct ==
  ASSUME NEW a, NEW b, NEW c, Cardinality({a, b, c}) = 3
  PROVE  a # b /\ b # c /\ a # c
<1>1. ASSUME NEW x, NEW y
      PROVE  Cardinality({x, y}) # 3
  <2>1. IsFiniteSet({x}) /\ Cardinality({x}) = 1
    BY FS_Singleton
  <2>2. CASE x = y
    <3>1. {x, y} = {x}
      BY <2>2
    <3> QED
      BY <2>1, <3>1
  <2>3. CASE x # y
    <3>1. IsFiniteSet({x} \cup {y}) /\ Cardinality({x} \cup {y}) = 1 + 1
      BY <2>1, <2>3, CountOf
    <3>2. {x} \cup {y} = {x, y}
      OBVIOUS
    <3> QED
      BY <3>1, <3>2
  <2> QED
    BY <2>2, <2>3
<1>2. a = b => {a, b, c} = {a, c}
  OBVIOUS
<1>3. b = c => {a, b, c} = {a, c}
  OBVIOUS
<1>4. a = c => {a, b, c} = {a, b}
  OBVIOUS
<1> QED
  BY <1>1, <1>2, <1>3, <1>4

(* A component is the same from each of its members. *)
LEMMA ComponentSame ==
  ASSUME NEW ps, ps \subseteq Accounts \X Accounts, NEW n \in Accounts, NEW m \in Component(n, ps)
  PROVE  Component(m, ps) = Component(n, ps)
<1>1. m \in Reach(n, ps) /\ n \in Reach(m, ps) /\ m \in Accounts
  BY ReachIs DEF Component
<1>2. Reach(m, ps) = Reach(n, ps)
  BY <1>1, ReachFurther
<1>3. \A x \in Reach(n, ps) : n \in Reach(x, ps) <=> m \in Reach(x, ps)
  <2> SUFFICES ASSUME NEW x \in Reach(n, ps)
               PROVE  n \in Reach(x, ps) <=> m \in Reach(x, ps)
    OBVIOUS
  <2>1. x \in Accounts
    BY ReachIs
  <2>2. n \in Reach(x, ps) => m \in Reach(x, ps)
    BY <1>1, <2>1, ReachFurther
  <2>3. m \in Reach(x, ps) => n \in Reach(x, ps)
    BY <1>1, <2>1, ReachFurther
  <2> QED
    BY <2>2, <2>3
<1> QED
  BY <1>2, <1>3 DEF Component

LEMMA CircleInside ==
  ASSUME NEW ps, ps \subseteq Accounts \X Accounts, NEW a \in Accounts, NEW b \in Accounts, NEW c \in Accounts,
         <<a, b>> \in ps, <<b, c>> \in ps, <<c, a>> \in ps
  PROVE  {a, b, c} \subseteq Component(a, ps)
<1>1. ASSUME NEW x \in Accounts, NEW y \in Accounts, NEW n \in Accounts,
             <<x, y>> \in ps, x \in Reach(n, ps)
      PROVE  y \in Reach(n, ps)
  <2>1. \A p \in ps : p[1] \in Reach(n, ps) => p[2] \in Reach(n, ps)
    BY ReachClosed DEF Closed
  <2>2. <<x, y>>[1] = x /\ <<x, y>>[2] = y
    OBVIOUS
  <2> QED
    BY <1>1, <2>1, <2>2
<1>2. a \in Reach(a, ps) /\ b \in Reach(b, ps) /\ c \in Reach(c, ps)
  BY ReachIs
<1>3. b \in Reach(a, ps) /\ c \in Reach(b, ps) /\ a \in Reach(c, ps)
  BY <1>1, <1>2
<1>4. c \in Reach(a, ps) /\ a \in Reach(b, ps)
  BY <1>1, <1>3
<1> QED
  BY <1>2, <1>3, <1>4 DEF Component

(* A fourth member is paid by another one, and pays one. *)
LEMMA FourthPays ==
  ASSUME NEW ps, ps \subseteq Accounts \X Accounts, NEW a \in Accounts, NEW d \in Component(a, ps), a # d
  PROVE  \E x, y \in Component(a, ps) : x # d /\ y # d /\ <<x, d>> \in ps /\ <<d, y>> \in ps
<1>1. d \in Reach(a, ps) /\ a \in Reach(d, ps) /\ d \in Accounts /\ a \in Reach(a, ps) /\ d \in Reach(d, ps)
  BY ReachIs DEF Component
<1>2. \A p \in ps : p = <<p[1], p[2]>> /\ p[1] \in Accounts /\ p[2] \in Accounts
  OBVIOUS
<1>3. PICK p \in ps : p[2] = d /\ p[1] # d /\ p[1] \in Reach(a, ps)
  <2> DEFINE ns == Reach(a, ps) \ {d}
  <2>1. ns \in SUBSET Accounts /\ a \in ns /\ d \notin ns
    BY <1>1, ReachIs
  <2>2. ~Closed(ns, ps)
    BY <1>1, <2>1, ReachIs
  <2>3. PICK p \in ps : p[1] \in ns /\ p[2] \notin ns
    BY <2>2 DEF Closed
  <2>4. p[2] \in Reach(a, ps)
    BY <2>3, ReachClosed DEF Closed
  <2> QED
    BY <2>3, <2>4
<1>4. p[1] \in Component(a, ps) /\ <<p[1], d>> \in ps
  <2>1. d \in Reach(p[1], ps)
    <3>1. p[1] \in Reach(p[1], ps) /\ p[1] \in Accounts
      BY <1>2, ReachIs
    <3> QED
      BY <1>3, <3>1, ReachClosed DEF Closed
  <2>2. a \in Reach(p[1], ps)
    BY <1>1, <1>2, <2>1, ReachFurther
  <2> QED
    BY <1>2, <1>3, <2>2 DEF Component
<1>5. PICK q \in ps : q[1] = d /\ q[2] # d /\ a \in Reach(q[2], ps)
  <2> DEFINE ns == {x \in Accounts : x = d \/ a \notin Reach(x, ps)}
  <2>1. ns \in SUBSET Accounts /\ d \in ns /\ a \notin ns
    BY <1>1
  <2>2. ~Closed(ns, ps)
    BY <1>1, <2>1, ReachIs
  <2>3. PICK q \in ps : q[1] \in ns /\ q[2] \notin ns
    BY <2>2 DEF Closed
  <2>4. q[2] # d /\ a \in Reach(q[2], ps)
    BY <1>2, <2>3
  <2>5. a \in Reach(q[1], ps)
    <3>1. q[1] \in Reach(q[1], ps) /\ q[1] \in Accounts
      BY <1>2, ReachIs
    <3>2. q[2] \in Reach(q[1], ps)
      BY <3>1, ReachClosed DEF Closed
    <3> QED
      BY <2>4, <3>1, <3>2, ReachFurther
  <2>6. q[1] = d
    BY <2>3, <2>5
  <2> QED
    BY <2>4, <2>6
<1>6. q[2] \in Component(a, ps) /\ <<d, q[2]>> \in ps
  <2>1. q[2] \in Reach(d, ps)
    BY <1>1, <1>5, ReachClosed DEF Closed
  <2>2. q[2] \in Reach(a, ps)
    BY <1>1, <2>1, ReachFurther
  <2> QED
    BY <1>2, <1>5, <2>2 DEF Component
<1> QED
  BY <1>3, <1>4, <1>5, <1>6

LEMMA CircleIsDense ==
  ASSUME RingsTypeOK, NEW a \in Accounts, NEW b \in Accounts, NEW c \in Accounts, a # b, b # c, a # c,
         <<a, b>> \in Pairs, <<b, c>> \in Pairs, <<c, a>> \in Pairs, Cardinality(Component(a, Pairs)) <= 4
  PROVE  {a, b, c} \subseteq Structural
<1> DEFINE comp == Component(a, Pairs)
           inner == {p \in Pairs : p[1] \in comp /\ p[2] \in comp}
<1>1. Pairs \subseteq Accounts \X Accounts /\ comp \in SUBSET Accounts
  BY EdgesAre, ReachIs DEF Component
<1>2. IsFiniteSet(comp) /\ Cardinality(comp) \in Nat
  BY <1>1, RingsAssumption, FS_Subset, FS_CardinalityType
<1>3. IsFiniteSet(inner) /\ Cardinality(inner) \in Nat
  <2>1. IsFiniteSet(Accounts \X Accounts)
    BY RingsAssumption, FS_Product
  <2>2. inner \in SUBSET (Accounts \X Accounts)
    BY <1>1
  <2> QED
    BY <2>1, <2>2, FS_Subset, FS_CardinalityType
<1>4. {a, b, c} \subseteq comp
  BY <1>1, CircleInside
<1>5. <<a, b>> \in inner /\ <<b, c>> \in inner /\ <<c, a>> \in inner
  BY <1>4
<1>6. <<a, b>> # <<b, c>> /\ <<b, c>> # <<c, a>> /\ <<a, b>> # <<c, a>>
  OBVIOUS
<1>7. IsFiniteSet({a, b, c}) /\ Cardinality({a, b, c}) = 3
  BY ThreeOf
<1>8. Cardinality(comp) <= 4
  OBVIOUS
<1> HIDE DEF comp
<1>9. Cardinality(comp) >= 3
  <2>1. Cardinality({a, b, c}) <= Cardinality(comp)
    BY <1>2, <1>4, FS_Subset
  <2> QED
    BY <1>2, <1>7, <2>1
<1>10. 10 * Cardinality(inner) > 3 * Cardinality(comp) * (Cardinality(comp) - 1)
  <2>1. CASE comp = {a, b, c}
    <3>1. Cardinality({<<a, b>>, <<b, c>>, <<c, a>>}) = 3
      BY <1>6, ThreeOf
    <3>2. {<<a, b>>, <<b, c>>, <<c, a>>} \in SUBSET inner
      BY <1>5
    <3>3. Cardinality(inner) >= 3
      <4>1. Cardinality({<<a, b>>, <<b, c>>, <<c, a>>}) <= Cardinality(inner)
        BY <1>3, <3>2, FS_Subset
      <4> QED
        BY <1>3, <3>1, <4>1
    <3>4. Cardinality(comp) = 3
      BY <1>7, <2>1
    <3> HIDE DEF inner
    <3> QED
      BY <1>3, <3>3, <3>4
  <2>2. CASE comp # {a, b, c}
    <3>1. PICK d \in comp : d \notin {a, b, c}
      BY <1>4, <2>2
    <3>2. PICK x \in comp, y \in comp : x # d /\ y # d /\ <<x, d>> \in Pairs /\ <<d, y>> \in Pairs
      BY <1>1, <3>1, FourthPays DEF comp
    <3>3. <<x, d>> \in inner /\ <<d, y>> \in inner
      BY <3>2
    <3>4. /\ <<x, d>> \notin {<<a, b>>, <<b, c>>, <<c, a>>}
          /\ <<d, y>> \notin {<<a, b>>, <<b, c>>, <<c, a>>} /\ <<x, d>> # <<d, y>>
      BY <3>1, <3>2
    <3>5. Cardinality({<<a, b>>, <<b, c>>, <<c, a>>, <<x, d>>, <<d, y>>}) = 5
      BY <1>6, <3>4, FiveOf
    <3>6. {<<a, b>>, <<b, c>>, <<c, a>>, <<x, d>>, <<d, y>>} \in SUBSET inner
      BY <1>5, <3>3
    <3>7. Cardinality(inner) >= 5
      <4>1. Cardinality({<<a, b>>, <<b, c>>, <<c, a>>, <<x, d>>, <<d, y>>}) <= Cardinality(inner)
        BY <1>3, <3>6, FS_Subset
      <4> QED
        BY <1>3, <3>5, <4>1
    <3>8. Cardinality(comp) = 3 \/ Cardinality(comp) = 4
      BY <1>2, <1>8, <1>9
    <3> HIDE DEF inner
    <3>9. CASE Cardinality(comp) = 3
      BY <1>3, <3>7, <3>9
    <3>10. CASE Cardinality(comp) = 4
      BY <1>3, <3>7, <3>10
    <3> QED
      BY <3>8, <3>9, <3>10
  <2> QED
    BY <2>1, <2>2
<1>11. Dense(comp) /\ Cardinality(comp) \in 3 .. 50
  <2>1. Dense(comp)
    BY <1>10 DEF Dense
  <2>2. Cardinality(comp) \in 3 .. 50
    BY <1>2, <1>8, <1>9
  <2> QED
    BY <2>1, <2>2
<1>12. \A n \in {a, b, c} : Component(n, Pairs) = comp /\ n \in Accounts
  BY <1>1, <1>4, ComponentSame DEF comp
<1> QED
  BY <1>11, <1>12 DEF Structural

LEMMA CirclesOK == RingsInv => CirclesAreRings
<1> SUFFICES ASSUME RingsInv, rtPhase \in {"replay", "done"},
                    NEW a \in Accounts, NEW b \in Accounts, NEW c \in Accounts,
                    Cardinality({a, b, c}) = 3, {<<a, b>>, <<b, c>>, <<c, a>>} \subseteq Pairs,
                    Cardinality(Component(a, Pairs)) <= 4
             PROVE  \E r \in DOMAIN rings : {a, b, c} \subseteq rings[r].members
  BY DEF CirclesAreRings
<1>1. a # b /\ b # c /\ a # c
  BY ThreeDistinct
<1>2. RingsTypeOK /\ RingsOK /\ unvisited = {} /\ {a, b, c} \subseteq fraud
  <2>1. RingsTypeOK
    BY DEF RingsInv
  <2>2. {a, b, c} \subseteq Structural
    BY <1>1, <2>1, CircleIsDense
  <2> QED
    BY <2>1, <2>2 DEF RingsInv, RingsTypeOK, LabelsKept
<1>3. PICK r \in DOMAIN rings : {a, b} \subseteq rings[r].members
  <2>1. <<a, b>>[1] = a /\ <<a, b>>[2] = b /\ <<a, b>> \in Pairs
    OBVIOUS
  <2> QED
    BY <1>1, <1>2, <2>1 DEF RingsOK
<1>4. PICK q \in DOMAIN rings : {b, c} \subseteq rings[q].members
  <2>1. <<b, c>>[1] = b /\ <<b, c>>[2] = c /\ <<b, c>> \in Pairs
    OBVIOUS
  <2> QED
    BY <1>1, <1>2, <2>1 DEF RingsOK
<1>5. r = q
  BY <1>2, <1>3, <1>4 DEF RingsOK
<1> QED
  BY <1>3, <1>4, <1>5

(* THEOREM: the rings are the parts of the fraud accounts, and every circle *)
(* of three in a component of at most four is inside one of them.           *)
THEOREM RingsExactTheorem == RingsSpec => []RingsExact
<1>1. RingsInv => RingsExact
  BY PartitionOK, CirclesOK DEF RingsExact
<1> QED
  BY <1>1, RingsInitOK, RingsNextOK, PTL DEF RingsSpec

LEMMA EarlyOK == RingsInv => EarlyIsEarly
<1> SUFFICES ASSUME RingsInv, rtPhase = "done", NEW r \in DOMAIN rings, NEW n \in Accounts
             PROVE  <<r, n>> \in DetectedBefore <=>
                      /\ n \in rings[r].members
                      /\ \E i, j \in EdgeIndices :
                           /\ Pair(edges[i]) \in flagged /\ n \in {edges[i].src, edges[i].dst}
                           /\ {edges[j].src, edges[j].dst} \subseteq rings[r].members
                           /\ edges[i].t < edges[j].t
  BY DEF EarlyIsEarly
<1> DEFINE before == <<r, n>> \in DetectedBefore
           ring == rings[r]
<1>1. /\ RingsTypeOK /\ RingsOK /\ FirstAlarm(n) /\ LastInside(ring) /\ replayed = Len(edges)
      /\ fraud \subseteq Accounts
  BY DEF RingsInv, RingsTypeOK
<1>2. /\ EdgeIndices = 1 .. replayed /\ ring.completion \in Int /\ detected[n] \in Int
      /\ \A i \in EdgeIndices : edges[i].t \in Int /\ edges[i].t # Undetected
  <2>1. \A i \in EdgeIndices : edges[i].t \in Int /\ edges[i].t # Undetected
    BY <1>1, EdgesAre, RingsAssumption DEF Undetected
  <2>2. detected[n] \in Int
    BY <1>1 DEF RingsTypeOK
  <2> QED
    BY <1>1, <2>1, <2>2, EdgesAre, RingsAre
<1>3. before <=> n \in ring.members /\ detected[n] # Undetected /\ detected[n] < ring.completion
  BY DEF DetectedBefore, Detections
<1>4. ring.members \subseteq fraud
  <2>1. PICK x \in fraud : ring.members = Reach(x, Adjacent)
    BY <1>1 DEF RingsOK, RingOK
  <2>2. Closed(fraud, Adjacent)
    BY <1>1, AdjacentIs DEF Closed
  <2> QED
    BY <1>1, <2>1, <2>2, ReachIs
<1>5. ASSUME before
      PROVE  \E i, j \in EdgeIndices :
               /\ Pair(edges[i]) \in flagged /\ n \in {edges[i].src, edges[i].dst}
               /\ {edges[j].src, edges[j].dst} \subseteq ring.members /\ edges[i].t < edges[j].t
  <2>1. PICK i \in Alarms(n) : detected[n] = edges[i].t
    BY <1>1, <1>3, <1>5 DEF FirstAlarm
  <2>2. PICK j \in EdgeIndices : Inside(j, ring.members) /\ edges[j].t = ring.completion
    BY <1>1 DEF LastInside
  <2>3. i \in EdgeIndices /\ Pair(edges[i]) \in flagged /\ n \in {edges[i].src, edges[i].dst}
    BY <1>2 DEF Alarms
  <2> QED
    BY <1>3, <1>5, <2>1, <2>2, <2>3 DEF Inside
<1>6. ASSUME n \in ring.members, NEW i \in EdgeIndices, NEW j \in EdgeIndices,
             Pair(edges[i]) \in flagged, n \in {edges[i].src, edges[i].dst},
             {edges[j].src, edges[j].dst} \subseteq ring.members, edges[i].t < edges[j].t
      PROVE  before
  <2>1. i \in Alarms(n) /\ n \in fraud
    BY <1>2, <1>4, <1>6 DEF Alarms
  <2>2. PICK k \in Alarms(n) : detected[n] = edges[k].t
    BY <1>1, <2>1 DEF FirstAlarm
  <2>3. detected[n] <= edges[i].t
    BY <1>1, <2>1 DEF FirstAlarm
  <2>4. edges[j].t <= ring.completion
    BY <1>1, <1>6 DEF LastInside, Inside
  <2>5. k \in EdgeIndices
    BY <1>2 DEF Alarms
  <2>6. detected[n] # Undetected
    BY <1>2, <2>2, <2>5
  <2>7. detected[n] < ring.completion
    <3> HIDE DEF ring, before
    <3> QED
      BY <1>2, <1>6, <2>3, <2>4
  <2> QED
    BY <1>3, <1>6, <2>6, <2>7
<1> HIDE DEF before
<1> QED
  BY <1>3, <1>5, <1>6 DEF before

LEMMA WeightIsLess == RingsInv => WeightedIsLess
<1> SUFFICES ASSUME RingsInv, rtPhase = "done", \A r \in DOMAIN rings : Duration(r) > 0
             PROVE  TotalWeight * Cardinality(Detections)
                      <= Scale * Cardinality(DetectedBefore) * Cardinality(Weighed)
  BY DEF WeightedIsLess
<1> DEFINE everyone == Cardinality(Detections)
           early == Cardinality(DetectedBefore)
           units == {u \in Weighed \X (1 .. Scale * LastTransfer) : u[2] <= Weight(u[1])}
           total == Cardinality(units)
<1>1. /\ RingsTypeOK /\ IsFiniteSet((DOMAIN rings) \X Accounts) /\ Scale \in Nat /\ LastTransfer \in Nat
      /\ detected \in [Accounts -> Int]
  <2>1. RingsTypeOK /\ detected \in [Accounts -> Int]
    BY DEF RingsInv, RingsTypeOK
  <2>2. IsFiniteSet(DOMAIN rings)
    <3>1. Len(rings) \in Nat /\ DOMAIN rings = 1 .. Len(rings)
      BY <2>1, RingsAre
    <3>2. IsFiniteSet(1 .. Len(rings))
      BY <3>1, FS_Interval
    <3> QED
      BY <3>1, <3>2
  <2> QED
    BY <2>1, <2>2, RingsAssumption, FS_Product
<1>2. Weighed = Detections
  BY DEF Weighed, Detections
<1>3. everyone \in Nat /\ early \in Nat /\ IsFiniteSet(DetectedBefore)
  <2>1. /\ Detections \in SUBSET ((DOMAIN rings) \X Accounts)
        /\ DetectedBefore \in SUBSET ((DOMAIN rings) \X Accounts)
    BY DEF Detections, DetectedBefore
  <2> QED
    BY <1>1, <2>1, FS_Subset, FS_CardinalityType
<1>4. ASSUME NEW d \in DetectedBefore
      PROVE  Weight(d) <= Scale /\ Weight(d) \in Int
  <2>1. d[1] \in DOMAIN rings /\ d[2] \in Accounts
    BY DEF DetectedBefore, Detections
  <2>2. Duration(d[1]) > 0 /\ Duration(d[1]) \in Int /\ rings[d[1]].completion - detected[d[2]] \in Int
    <3>1. rings[d[1]].completion \in Int /\ rings[d[1]].start \in Int
      <4> DEFINE Rec == [members : SUBSET Accounts, start : Int, completion : Int]
      <4>1. rings \in Seq(Rec)
        BY <1>1 DEF RingsTypeOK
      <4>2. \A ring \in Rec : ring.start \in Int /\ ring.completion \in Int
        OBVIOUS
      <4> HIDE DEF Rec
      <4>3. rings[d[1]] \in Rec
        BY <2>1, <4>1
      <4> QED
        BY <4>2, <4>3
    <3> QED
      BY <1>1, <2>1, <3>1 DEF Duration
  <2> DEFINE x == ((rings[d[1]].completion - detected[d[2]]) * Scale) \div Duration(d[1])
  <2>3. x \in Int
    BY <1>1, <2>2
  <2>4. Weight(d) = Min({Scale, x})
    BY DEF Weight
  <2> HIDE DEF x
  <2>5. \E m \in {Scale, x} : \A y \in {Scale, x} : m <= y
    BY <1>1, <2>3
  <2>6. Min({Scale, x}) \in {Scale, x} /\ \A y \in {Scale, x} : Min({Scale, x}) <= y
    BY <2>5 DEF Min
  <2> QED
    BY <1>1, <2>3, <2>4, <2>6
<1>5. \A d : d \notin DetectedBefore => Weight(d) = 0
  BY DEF Weight
<1>6. units \in SUBSET (DetectedBefore \X (1 .. Scale))
  <2> SUFFICES ASSUME NEW u \in units
               PROVE  u[1] \in DetectedBefore /\ u[2] \in 1 .. Scale /\ u = <<u[1], u[2]>>
    OBVIOUS
  <2>1. u = <<u[1], u[2]>> /\ u[2] \in 1 .. Scale * LastTransfer /\ u[2] <= Weight(u[1])
    OBVIOUS
  <2>2. u[2] \in Int /\ u[2] >= 1
    BY <1>1, <2>1
  <2>3. u[1] \in DetectedBefore
    BY <1>5, <2>1, <2>2
  <2>4. Weight(u[1]) <= Scale /\ Weight(u[1]) \in Int
    BY <1>4, <2>3
  <2> QED
    BY <1>1, <2>1, <2>2, <2>3, <2>4
<1>7. total <= early * Scale /\ total \in Nat
  <2>1. IsFiniteSet(1 .. Scale) /\ Cardinality(1 .. Scale) = Scale
    BY <1>1, FS_Interval
  <2>2. /\ IsFiniteSet(DetectedBefore \X (1 .. Scale))
        /\ Cardinality(DetectedBefore \X (1 .. Scale)) = early * Scale
    BY <1>3, <2>1, FS_Product
  <2> QED
    BY <1>6, <2>2, FS_Subset, FS_CardinalityType
<1>8. TotalWeight = total
  BY DEF TotalWeight
<1> HIDE DEF everyone, early, units, total
<1>9. total * everyone <= (early * Scale) * everyone
  <2> DEFINE limit == early * Scale
  <2>1. limit \in Nat /\ total <= limit
    BY <1>1, <1>3, <1>7
  <2> HIDE DEF limit
  <2>2. total * everyone <= limit * everyone
    BY <1>3, <1>7, <2>1
  <2> QED
    BY <2>2 DEF limit
<1>10. (early * Scale) * everyone = Scale * early * everyone
  BY <1>1, <1>3
<1> QED
  BY <1>2, <1>8, <1>9, <1>10 DEF everyone, early

(* THEOREM: a member counts as detected in time exactly when an edge that     *)
(* touches it is flagged before a later transfer inside its ring, and when    *)
(* every ring lasts the weighted score is at most the plain one.              *)
THEOREM TimelinessHoldsTheorem == RingsSpec => []TimelinessHolds
<1>1. RingsInv => TimelinessHolds
  BY EarlyOK, WeightIsLess DEF TimelinessHolds
<1> QED
  BY <1>1, RingsInitOK, RingsNextOK, PTL DEF RingsSpec
=============================================================================
