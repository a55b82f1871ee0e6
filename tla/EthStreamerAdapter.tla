------------------------- MODULE EthStreamerAdapter -------------------------
(***************************************************************************)
(* EthStreamerAdapter.export_all (ethereumetl/streaming) in the streamer's *)
(* cycle, over a chain that may reorganise between any two requests.       *)
(*                                                                         *)
(* export_all asks for the blocks of the range by number, for the receipts *)
(* of their transactions by hash, and for traces by number again; the      *)
(* answers are joined by enrich.py, which raises when a join loses or      *)
(* multiplies items.  What was fetched lives in one call: an exception or  *)
(* a crash drops it and the cycle starts again from the checkpoint.        *)
(*                                                                         *)
(* A block is identified by its number and by the fork that it was mined   *)
(* on, which together stand for its hash.  Every transaction emits one     *)
(* token transfer; those of Creators create a token contract.  Requests    *)
(* are made one block or one transaction at a time: a batch request is     *)
(* several of them with nothing in between.                                *)
(***************************************************************************)
EXTENDS Integers, FiniteSets

CONSTANTS Tx,              (* transaction hashes *)
          Creators,        (* the transactions that create a token contract *)
          Lag,             (* --lag *)
          BlockBatchSize,  (* --block-batch-size *)
          EntityTypeSets,  (* --entity-types: one is chosen *)
          MaxHead,         (* bound on the height of the chain *)
          MaxForks,        (* bound on the number of reorganisations ... *)
          MaxDepth,        (* ... and on the blocks that each replaces *)
          None

(* The order of the types in all_items. *)
ExportOrder == <<"block", "transaction", "log", "token_transfer", "trace",
                 "contract", "token">>

ASSUME AdapterAssumption ==
  /\ Creators \subseteq Tx
  /\ Lag \in Nat /\ BlockBatchSize \in Nat \ {0}
  /\ EntityTypeSets \subseteq SUBSET {ExportOrder[i] : i \in DOMAIN ExportOrder}
  /\ MaxHead \in Nat /\ MaxForks \in Nat /\ MaxDepth \in Nat
  /\ None \notin Tx

VARIABLES
  pc,        (* "cycle", "fetch", "export" or "save" *)
  synced,    (* the checkpoint *)
  target,    (* end_block of the running export_all *)
  blocks,    (* answers so far: blocks ... *)
  receipts,  (* ... receipts, one per transaction asked for ... *)
  traces,    (* ... traces, and the numbers of the blocks traced *)
  items,     (* all_items *)
  sink,      (* the items that reached the sink *)
  types,     (* self.entity_types *)
  head,      (* number of the newest block *)
  chain,     (* the canonical chain: block number -> block *)
  forks,     (* reorganisations so far *)
  depth      (* history: the deepest of them *)

fetched == <<blocks, receipts, traces, items>>
network == <<head, chain, forks, depth>>
vars == <<pc, synced, target, fetched, sink, types, network>>

Block(number, fork, txs) == [number |-> number, fork |-> fork, txs |-> txs]

Init == /\ pc = "cycle" /\ synced = 0 /\ target = 0
        /\ blocks = {} /\ receipts = {} /\ traces = [seen |-> {}, found |-> {}]
        /\ items = {} /\ sink = {}
        /\ types \in EntityTypeSets
        /\ head = 0 /\ chain = [n \in {0} |-> Block(0, 0, {})]
        /\ forks = 0 /\ depth = 0

(* The transactions of a chain. *)
Mined(c) == UNION {c[n].txs : n \in DOMAIN c}

-----------------------------------------------------------------------------
(* _should_export, unfolded: the types that an entity type is requested for. *)
Users_NoTokens(entity) ==
  CASE entity = "transaction" -> {"transaction", "log", "token_transfer"}
    [] entity = "receipt" -> {"transaction", "token_transfer"}
    [] entity = "log" -> {"log", "token_transfer"}
    [] entity = "trace" -> {"trace", "contract"}
    [] OTHER -> {entity}

Users(entity) ==
  CASE entity = "transaction" -> {"transaction", "log", "token_transfer"}
    [] entity = "receipt" -> {"transaction", "token_transfer"}
    [] entity = "log" -> {"log", "token_transfer"}
    [] entity = "trace" -> {"trace", "contract", "token"}
    [] entity = "contract" -> {"contract", "token"}
    [] OTHER -> {entity}

Should(ts, entity) == entity = "block" \/ ts \cap Users(entity) # {}

-----------------------------------------------------------------------------
(* Items.  A field that an item does not have is None. *)
Item(type, number, fork, tx) ==
  [type |-> type, number |-> number, fork |-> fork, tx |-> tx]

(* item_id: a block is identified by its hash, a transaction by its own, logs *)
(* and transfers by the transaction, contracts and tokens by block number and *)
(* address; the type is always part of it.                                    *)
ItemId(i) ==
  CASE i.type = "block" -> <<i.type, i.number, i.fork>>
    [] i.type \in {"contract", "token"} -> <<i.type, i.number, i.tx>>
    [] OTHER -> <<i.type, i.tx>>

(* The transactions found in the blocks, one per occurrence. *)
Transactions ==
  IF ~Should(types, "transaction") THEN {}
  ELSE UNION {{Item("transaction", b.number, b.fork, t) : t \in b.txs} : b \in blocks}

(* join(..., ('block_number', 'number'), ...): the pairs of a fetched item and *)
(* a fetched block of its number; the block's hash goes into the result.       *)
ByNumber(left) == {p \in left \X blocks : p[1].number = p[2].number}
Joined(type, pairs) == {Item(type, p[2].number, p[2].fork, p[1].tx) : p \in pairs}

(* join(transactions, receipts, ('hash', 'transaction_hash'), ...) *)
ByHash == {p \in Transactions \X receipts : p[1].tx = p[2].tx}

(* The contracts that the traces create, and the tokens among those. *)
Contracts == IF Should(types, "contract") THEN {t \in traces.found : t.tx \in Creators} ELSE {}

AllItems ==
  {i \in {Item("block", b.number, b.fork, None) : b \in blocks}
         \cup {p[1] : p \in ByHash}
         \cup Joined("log", ByNumber(receipts))
         \cup Joined("token_transfer", ByNumber(receipts))
         \cup Joined("trace", ByNumber(traces.found))
         \cup Joined("contract", ByNumber(Contracts))
         \cup Joined("token", ByNumber(Contracts)) : i.type \in types}

(* The counts that the enrich_ functions compare after their joins; each runs *)
(* only for a type that was asked for.                                        *)
CountsAgree_NoTransactions ==
  /\ types \cap {"log", "token_transfer"} # {} =>
       Cardinality(ByNumber(receipts)) = Cardinality(receipts)
  /\ "trace" \in types =>
       Cardinality(ByNumber(traces.found)) = Cardinality(traces.found)

CountsAgree ==
  /\ "transaction" \in types => Cardinality(ByHash) = Cardinality(Transactions)
  /\ types \cap {"log", "token_transfer"} # {} =>
       Cardinality(ByNumber(receipts)) = Cardinality(receipts)
  /\ "trace" \in types =>
       Cardinality(ByNumber(traces.found)) = Cardinality(traces.found)
  /\ types \cap {"contract", "token"} # {} =>
       Cardinality(ByNumber(Contracts)) = Cardinality(Contracts)

-----------------------------------------------------------------------------
(* The streamer's cycle up to export_all *)
Smaller(a, b) == IF a <= b THEN a ELSE b
TargetBlock == Smaller(head - Lag, synced + BlockBatchSize)

StartCycle ==
  /\ pc = "cycle"
  /\ TargetBlock > synced
  /\ target' = TargetBlock
  /\ pc' = "fetch"
  /\ UNCHANGED <<synced, fetched, sink, types, network>>

Forget == /\ blocks' = {} /\ receipts' = {} /\ items' = {}
          /\ traces' = [seen |-> {}, found |-> {}]

-----------------------------------------------------------------------------
(* export_all: the requests *)
Requested == synced + 1 .. target
BlocksDone == {b.number : b \in blocks} = Requested
WantsReceipts == Should(types, "receipt") \/ Should(types, "log")
Unasked == {x \in Transactions : \A r \in receipts : r.for # x.number \/ r.tx # x.tx}
ReceiptsDone == BlocksDone /\ (WantsReceipts => Unasked = {})
TracesDone == ReceiptsDone /\ (Should(types, "trace") => traces.seen = Requested)

(* _export_blocks_and_transactions: pool threads, so in any order. *)
FetchBlock(n) ==
  /\ pc = "fetch"
  /\ n \in Requested \ {b.number : b \in blocks}
  /\ n \in DOMAIN chain
  /\ blocks' = blocks \cup {chain[n]}
  /\ UNCHANGED <<pc, synced, target, receipts, traces, items, sink, types, network>>

(* _export_receipts_and_logs: the receipt is that of the block which holds the *)
(* transaction now.  When no block does, the result is None, a retriable error. *)
FetchReceipt(x) ==
  /\ pc = "fetch" /\ BlocksDone /\ WantsReceipts
  /\ x \in Unasked
  /\ \E n \in DOMAIN chain :
       /\ x.tx \in chain[n].txs
       /\ receipts' = receipts \cup {[for |-> x.number, tx |-> x.tx, number |-> n]}
  /\ UNCHANGED <<pc, synced, target, blocks, traces, items, sink, types, network>>

(* _export_traces *)
FetchTraces(n) ==
  /\ pc = "fetch" /\ ReceiptsDone /\ Should(types, "trace")
  /\ n \in Requested \ traces.seen
  /\ n \in DOMAIN chain
  /\ traces' = [seen |-> traces.seen \cup {n},
                found |-> traces.found \cup {[tx |-> t, number |-> n] : t \in chain[n].txs}]
  /\ UNCHANGED <<pc, synced, target, blocks, receipts, items, sink, types, network>>

-----------------------------------------------------------------------------
(* export_all: enrich, export *)
Enrich ==
  /\ pc = "fetch" /\ TracesDone /\ CountsAgree
  /\ items' = AllItems
  /\ pc' = "export"
  /\ UNCHANGED <<synced, target, blocks, receipts, traces, sink, types, network>>

GiveUp_Keeps ==
  /\ pc = "fetch"
  /\ \/ TracesDone /\ ~CountsAgree
     \/ BlocksDone /\ WantsReceipts /\ \E x \in Unasked : x.tx \notin Mined(chain)
  /\ pc' = "cycle"
  /\ UNCHANGED <<synced, target, fetched, sink, types, network>>

(* The counts differ: ValueError.  A receipt that is not on the chain any more: *)
(* the retries of its batch are exhausted.                                      *)
GiveUp ==
  /\ pc = "fetch"
  /\ \/ TracesDone /\ ~CountsAgree
     \/ BlocksDone /\ WantsReceipts /\ \E x \in Unasked : x.tx \notin Mined(chain)
  /\ pc' = "cycle"
  /\ Forget
  /\ UNCHANGED <<synced, target, sink, types, network>>

Export ==
  /\ pc = "export"
  /\ sink' = sink \cup items
  /\ pc' = "save"
  /\ UNCHANGED <<synced, target, fetched, types, network>>

(* export_items raises after the types before ExportOrder[k] and some of that. *)
ExportRaises(k) ==
  /\ pc = "export"
  /\ LET sent == {i \in items : \E j \in 1 .. k - 1 : i.type = ExportOrder[j]}
     IN  \E some \in SUBSET {i \in items : i.type = ExportOrder[k]} :
           sink' = sink \cup sent \cup some
  /\ pc' = "cycle"
  /\ Forget
  /\ UNCHANGED <<synced, target, types, network>>

Save ==
  /\ pc = "save"
  /\ synced' = target
  /\ pc' = "cycle"
  /\ Forget
  /\ UNCHANGED <<target, sink, types, network>>

(* An exception of a request or of the checkpoint's write, or a crash and a *)
(* restart from the checkpoint.                                             *)
Raise ==
  /\ pc # "cycle"
  /\ pc' = "cycle"
  /\ Forget
  /\ UNCHANGED <<synced, target, sink, types, network>>

-----------------------------------------------------------------------------
(* The network *)
Grow == /\ head < MaxHead
        /\ \E txs \in SUBSET (Tx \ Mined(chain)) :
             chain' = [n \in 0 .. head + 1 |->
                         IF n \in DOMAIN chain THEN chain[n] ELSE Block(n, forks, txs)]
        /\ head' = head + 1
        /\ UNCHANGED <<pc, synced, target, fetched, sink, types, forks, depth>>

(* The last d blocks give way to as many of another fork, with the           *)
(* transactions in other places or none.  A fork wins when it is not shorter. *)
Reorganise ==
  /\ forks < MaxForks
  /\ \E d \in 1 .. Smaller(MaxDepth, head) :
       /\ depth' = IF d > depth THEN d ELSE depth
       /\ LET kept == [n \in 0 .. head - d |-> chain[n]]
          IN  \E place \in [Tx \ Mined(kept) -> head - d + 1 .. head + 1] :
                chain' = [n \in 0 .. head |->
                            IF n \in DOMAIN kept THEN kept[n]
                            ELSE Block(n, forks + 1, {t \in DOMAIN place : place[t] = n})]
  /\ forks' = forks + 1
  /\ UNCHANGED <<head, pc, synced, target, fetched, sink, types>>

-----------------------------------------------------------------------------
Step == \/ StartCycle
        \/ \E n \in Requested : FetchBlock(n) \/ FetchTraces(n)
        \/ \E x \in Transactions : FetchReceipt(x)
        \/ Enrich \/ GiveUp \/ Export \/ Save

Next == \/ Step
        \/ Raise \/ \E k \in DOMAIN ExportOrder : ExportRaises(k)
        \/ Grow \/ Reorganise

Spec == Init /\ [][Next]_vars
(* The process runs; failures and reorganisations end; nothing is assumed of *)
(* the growth of the chain.                                                  *)
LiveSpec == Spec /\ WF_vars(Step) /\ <>[][Step \/ Grow]_vars

-----------------------------------------------------------------------------
TypeOK ==
  /\ pc \in {"cycle", "fetch", "export", "save"}
  /\ synced \in Nat /\ target \in Nat /\ synced <= head
  /\ \A b \in blocks : b.number \in Requested /\ b.txs \subseteq Tx
  /\ traces.seen \subseteq Requested
  /\ \A i \in items \cup sink : i.type \in types /\ i.number \in 1 .. head
  /\ types \in EntityTypeSets
  /\ forks \in 0 .. MaxForks

(* What a block of the chain has for the sink. *)
ItemsOf(b) ==
  {i \in {Item("block", b.number, b.fork, None)}
         \cup {Item(type, b.number, b.fork, t) :
                 type \in {"transaction", "log", "token_transfer", "trace"}, t \in b.txs}
         \cup {Item(type, b.number, b.fork, t) :
                 type \in {"contract", "token"}, t \in b.txs \cap Creators} : i.type \in types}

(* docs/index.md:27, "Handles chain reorganizations through configurable lag": *)
(* when no reorganisation is deeper than the lag, everything that ever reaches  *)
(* the sink, from failed exports too, is of the chain as it stays, although a   *)
(* range is read by three kinds of requests at different times.                 *)
OneChain == depth <= Lag =>
  \A i \in sink : i.number \in DOMAIN chain /\ i \in ItemsOf(chain[i.number])

(* ... and up to the checkpoint nothing of that chain is missing, whichever    *)
(* entity types were asked for: _should_export requests everything that the    *)
(* asked types are derived from, and the inner joins lose nothing.             *)
SinkComplete == depth <= Lag => \A n \in 1 .. synced : ItemsOf(chain[n]) \subseteq sink

(* ... and a consumer may drop repeated items by item_id: two different items *)
(* never have the same one.                                                   *)
IdsIdentify == depth <= Lag => \A i, j \in sink : ItemId(i) = ItemId(j) => i = j

(* What the sink holds is the chain, once. *)
SinkIsChain == TypeOK /\ OneChain /\ SinkComplete /\ IdsIdentify

(* However deep the chain reorganises between the requests, a transaction that *)
(* moved and was read in two blocks of the range is not exported twice: the    *)
(* receipts then do not match one to one, and the export raises.               *)
NoTransactionTwice ==
  \A i, j \in items : i.type = "transaction" /\ j.type = "transaction" /\ i.tx = j.tx => i = j

(* Once failures and reorganisations end, the checkpoint comes as close to the *)
(* head as the lag allows, again and again: a mismatch of the joins does not    *)
(* repeat for ever, since the next cycle fetches everything anew.               *)
CatchesUp == []<>(synced >= head - Lag)
==============================================================================
