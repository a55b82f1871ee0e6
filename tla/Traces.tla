-------------------------------- MODULE Traces --------------------------------
(***************************************************************************)
(* The traces of a block: ExportTracesJob on what a Parity node answers,   *)
(* with its calculators of statuses and ids, and geth's trees of calls as  *)
(* ExtractGethTracesJob flattens them; then the contracts that             *)
(* ExtractContractsJob takes out of either.                                *)
(*                                                                         *)
(* A call is its address in the tree of its transaction; the trees are     *)
(* any, made while they are gone through.  Amounts, input and output are   *)
(* left out; addresses joined by `_' and `,' stay different sequences.     *)
(* The definitions carry the module's name because the module is checked   *)
(* together with other offline tools.                                      *)
(***************************************************************************)
EXTENDS Integers, Sequences, FiniteSets, SequencesExt

CONSTANTS CallKinds,  (* what calls there are: their type, and whether they fail *)
          RewardKeys, (* what rewards are sorted by *)
          MaxTraces   (* bound on the traces of a block *)

ASSUME TracesAssumption ==
  /\ CallKinds \subseteq [type : {"call", "create", "suicide"}, error : BOOLEAN]
  /\ RewardKeys \subseteq Int /\ MaxTraces \in Nat

VARIABLES
  trPhase,      (* "off", "calls", "statuses", "visit", "ids", "contracts", "done" or "raised" *)
  source,       (* "parity" or "geth" *)
  transaction,  (* the transaction whose calls are gone through *)
  toIterate,    (* addresses of calls that are still to come in the open loops *)
  traces,       (* the traces in the order of the node *)
  status,       (* trace -> 0, 1 or None *)
  visited,      (* the traces whose parent has been looked at *)
  ids,          (* trace -> trace_id *)
  contracts     (* the creations that are exported as contracts *)

tracesVars == <<trPhase, source, transaction, toIterate, traces, status, visited, ids, contracts>>

Block == 0   (* the `transaction' of a reward *)
None == -1
Positions == DOMAIN traces

Call(tx, address, kind) ==
  [tx |-> tx, address |-> address, type |-> kind.type, error |-> kind.error, key |-> 0]
Reward(key) == [tx |-> Block, address |-> <<>>, type |-> "reward", error |-> FALSE, key |-> key]

TracesOff == /\ trPhase = "off" /\ source = "none" /\ transaction = 0 /\ toIterate = <<>>
             /\ traces = <<>> /\ status = <<>> /\ visited = {} /\ ids = <<>> /\ contracts = {}

TracesInit == /\ trPhase = "calls" /\ source \in {"parity", "geth"}
              /\ transaction = 0 /\ toIterate = <<>> /\ traces = <<>> /\ status = <<>>
              /\ visited = {} /\ ids = <<>> /\ contracts = {}

-----------------------------------------------------------------------------
Scoped(i) == traces[i].tx # Block
Depth(i) == Len(traces[i].address)

(* geth_trace_to_traces: the transactions in their order. *)
BeginTransaction ==
  /\ trPhase = "calls" /\ toIterate = <<>>
  /\ Len(traces) < MaxTraces /\ \A i \in Positions : Scoped(i)
  /\ transaction' = transaction + 1
  /\ toIterate' = <<(<<>>)>>
  /\ UNCHANGED <<trPhase, source, traces, status, visited, ids, contracts>>

(* _iterate_transaction_trace: a call, then its calls in their order, each *)
(* with all below it.                                                       *)
IterateCall ==
  /\ trPhase = "calls" /\ toIterate # <<>>
  /\ \E kind \in CallKinds, calls \in 0 .. MaxTraces - Len(traces) - Len(toIterate) :
       LET address == Head(toIterate)
       IN  /\ traces' = Append(traces, Call(transaction, address, kind))
           /\ toIterate' = [c \in 1 .. calls |-> Append(address, c - 1)] \o Tail(toIterate)
  /\ UNCHANGED <<trPhase, source, transaction, status, visited, ids, contracts>>

(* _extract_geth_traces: geth's traces are exported as they are. *)
Extracted ==
  /\ trPhase = "calls" /\ source = "geth" /\ toIterate = <<>>
  /\ status' = [i \in Positions |-> None]
  /\ trPhase' = "contracts"
  /\ UNCHANGED <<source, transaction, toIterate, traces, visited, ids, contracts>>

(* Parity's answer: the calls of each transaction and the rewards.  Nothing in *)
(* the calculators asks for an order, or that none is missing.                 *)
AddReward ==
  /\ trPhase = "calls" /\ source = "parity" /\ toIterate = <<>> /\ Len(traces) < MaxTraces
  /\ \E key \in RewardKeys : traces' = Append(traces, Reward(key))
  /\ UNCHANGED <<trPhase, source, transaction, toIterate, status, visited, ids, contracts>>

Orders(n) == {order \in UNION {[1 .. m -> 1 .. n] : m \in 0 .. n} : IsInjective(order)}

Answer ==
  /\ trPhase = "calls" /\ source = "parity" /\ toIterate = <<>>
  /\ \E order \in Orders(Len(traces)) :
       /\ traces' = [i \in DOMAIN order |-> traces[order[i]]]
       /\ status' = [i \in DOMAIN order |-> None]
  /\ trPhase' = "statuses"
  /\ UNCHANGED <<source, transaction, toIterate, visited, ids, contracts>>

-----------------------------------------------------------------------------
(* calculate_trace_statuses: the default values. *)
Defaults == /\ trPhase = "statuses"
            /\ status' = [i \in Positions |-> IF traces[i].error THEN 0 ELSE 1]
            /\ trPhase' = "visit"
            /\ UNCHANGED <<source, transaction, toIterate, traces, visited, ids, contracts>>

(* indexed_traces, made for each transaction. *)
Parents(i) ==
  {j \in Positions : traces[j].tx = traces[i].tx /\ traces[j].address = Front(traces[i].address)}

(* sorted_traces: by the length of the address, stable. *)
NextTrace_InAnswerOrder ==
  CHOOSE i \in Positions \ visited : \A j \in Positions \ visited : i <= j

NextTrace ==
  CHOOSE i \in Positions \ visited :
    \A j \in Positions \ visited : Depth(i) < Depth(j) \/ (Depth(i) = Depth(j) /\ i <= j)

(* A call below a failed one has failed. *)
Visit ==
  /\ trPhase = "visit" /\ visited # Positions
  /\ LET i == NextTrace
         below == Scoped(i) /\ Depth(i) > 0
     IN  /\ below => Parents(i) # {}
         /\ visited' = visited \cup {i}
         /\ status' = IF below /\ \E p \in Parents(i) : status[p] = 0
                      THEN [status EXCEPT ![i] = 0] ELSE status
  /\ UNCHANGED <<trPhase, source, transaction, toIterate, traces, ids, contracts>>

(* ValueError *)
ParentMissing ==
  /\ trPhase = "visit" /\ visited # Positions
  /\ LET i == NextTrace IN Scoped(i) /\ Depth(i) > 0 /\ Parents(i) = {}
  /\ trPhase' = "raised"
  /\ UNCHANGED <<source, transaction, toIterate, traces, status, visited, ids, contracts>>

AllVisited ==
  /\ trPhase = "visit" /\ visited = Positions
  /\ trPhase' = "ids"
  /\ UNCHANGED <<source, transaction, toIterate, traces, status, visited, ids, contracts>>

-----------------------------------------------------------------------------
(* calculate_trace_ids: by transaction and address, or by the place among the *)
(* block's traces of the type, sorted by what is in them.                     *)
Rank_AnswerOrder(i) == Cardinality({j \in Positions : ~Scoped(j) /\ j < i})

Rank(i) ==
  Cardinality({j \in Positions : ~Scoped(j) /\
                 (traces[j].key < traces[i].key \/ (traces[j].key = traces[i].key /\ j < i))})

TraceId(i) == [type |-> traces[i].type, tx |-> traces[i].tx, address |-> traces[i].address,
               rank |-> IF Scoped(i) THEN 0 ELSE Rank(i)]

CalculateIds == /\ trPhase = "ids"
                /\ ids' = [i \in Positions |-> TraceId(i)]
                /\ trPhase' = "contracts"
                /\ UNCHANGED <<source, transaction, toIterate, traces, status, visited, contracts>>

(* _extract_contracts *)
ExtractContracts ==
  /\ trPhase = "contracts"
  /\ contracts' = {i \in Positions : traces[i].type = "create" /\ status[i] = 1}
  /\ trPhase' = "done"
  /\ UNCHANGED <<source, transaction, toIterate, traces, status, visited, ids>>

TracesNext ==
  \/ BeginTransaction \/ IterateCall \/ Extracted \/ AddReward \/ Answer
  \/ Defaults \/ Visit \/ ParentMissing \/ AllVisited \/ CalculateIds \/ ExtractContracts

TracesSpec == TracesInit /\ [][TracesNext]_tracesVars

-----------------------------------------------------------------------------
Above(i) == {j \in Positions : traces[j].tx = traces[i].tx /\ IsPrefix(traces[j].address, traces[i].address)}

(* A call's status is 0 exactly when it, or a call above it in its own        *)
(* transaction, has an error, at any depth and in any order of the answer;   *)
(* a call whose parent is missing is not guessed.                             *)
FailureIsInherited ==
  trPhase \in {"ids", "contracts", "done"} /\ source = "parity" =>
    \A i \in Positions : Scoped(i) => (status[i] = 0 <=> \E j \in Above(i) : traces[j].error)

(* What is exported as a contract was created and not rolled back by a call   *)
(* above the creation.                                                       *)
ContractsExist ==
  \A i \in contracts : traces[i].type = "create" /\ \A j \in Above(i) : ~traces[j].error

(* trace_id is an identity: no two traces of a block share one, and a trace   *)
(* keeps its own when the block is exported again from an answer in another  *)
(* order, so that a second export overwrites the first.                      *)
IdsIdentifyTraces ==
  trPhase = "done" /\ source = "parity" =>
    /\ \A i, j \in Positions : ids[i] = ids[j] => i = j
    /\ \A i \in Positions : ~Scoped(i) =>
         ids[i].rank \in Cardinality({j \in Positions : ~Scoped(j) /\ traces[j].key < traces[i].key})
                       .. Cardinality({j \in Positions : ~Scoped(j) /\ traces[j].key <= traces[i].key}) - 1

(* Flattening a tree of calls takes none twice: parents come before their     *)
(* calls, and of two calls of a parent the first comes first with all below. *)
FlattenedInOrder ==
  source = "geth" =>
    \A i, j \in Positions : traces[i].tx = traces[j].tx /\ i < j =>
      \/ IsStrictPrefix(traces[i].address, traces[j].address)
      \/ \E k \in DOMAIN traces[i].address \cap DOMAIN traces[j].address :
           /\ SubSeq(traces[i].address, 1, k - 1) = SubSeq(traces[j].address, 1, k - 1)
           /\ traces[i].address[k] < traces[j].address[k]

(* From statuses to contracts, over both kinds of node. *)
StatusesDecide == FailureIsInherited /\ ContractsExist /\ FlattenedInOrder
==============================================================================
