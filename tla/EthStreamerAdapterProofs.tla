---------------------- MODULE EthStreamerAdapterProofs ----------------------
(***************************************************************************)
(* Proofs about EthStreamerAdapter, for every set of transactions, lag,    *)
(* batch size and height of the chain, and for reorganisations of any      *)
(* depth and number between any two requests.                              *)
(*                                                                         *)
(* SinkIsChain: while no reorganisation is deeper than the lag, the blocks *)
(* up to head - Lag do not change any more, and a cycle only ever asks for *)
(* those: so all that it fetched, at whatever times, is of the chain as it *)
(* stands (Settled), a receipt is that of the block its transaction was    *)
(* read in, and the joins give each block's items, no more and no fewer.   *)
(*                                                                         *)
(* NoTransactionTwice holds at any depth, by counting: a transaction that  *)
(* was read in two blocks has two receipts, so the join by hash has four   *)
(* pairs where two were asked for, and no join is ever short of any.       *)
(***************************************************************************)
EXTENDS EthStreamerAdapter, FiniteSetTheorems, TLAPS

-----------------------------------------------------------------------------
(* The inductive invariant *)

(* The chain: one block per height, a transaction in at most one of them. *)
Blocks(numbers) == [number : numbers, fork : Nat, txs : SUBSET Tx]
ChainOK ==
  /\ head \in Nat /\ depth \in Nat /\ forks \in 0 .. MaxForks
  /\ chain \in [0 .. head -> Blocks(Nat)]
  /\ \A n \in 0 .. head : chain[n].number = n
  /\ \A m, n \in 0 .. head : \A t \in chain[m].txs : t \in chain[n].txs => m = n

(* A cycle works on blocks that are at least Lag behind the head. *)
RangeOK ==
  /\ pc \in {"cycle", "fetch", "export", "save"}
  /\ synced \in Nat /\ target \in Nat /\ types \in EntityTypeSets
  /\ synced > 0 => synced <= head - Lag
  /\ pc # "cycle" => synced < target /\ target <= head - Lag

(* What was fetched, whatever the chain did since. *)
FetchedOK ==
  /\ pc = "cycle" => blocks = {} /\ receipts = {} /\ traces = [seen |-> {}, found |-> {}]
  /\ pc \in {"cycle", "fetch"} => items = {}
  /\ blocks \subseteq Blocks(Requested)
  /\ \A b, c \in blocks : b.number = c.number => b = c
  /\ receipts \subseteq [for : Requested, tx : Tx, number : Nat] /\ IsFiniteSet(receipts)
  /\ traces \in [seen : SUBSET Requested, found : SUBSET [tx : Tx, number : Requested]]

ItemsOK ==
  /\ \A i \in items : i.type \in types /\ i.number \in Requested
  /\ \A i \in sink : i.type \in types /\ i.number \in 1 .. head - Lag

(* No reorganisation was deeper than the lag: what was fetched is of the chain *)
(* as it stands, and so is what was made of it.                                *)
SettledFetched ==
  /\ \A b \in blocks : b = chain[b.number]
  /\ \A r \in receipts : r.number = r.for /\ r.tx \in chain[r.for].txs
  /\ \A f \in traces.found : f.tx \in chain[f.number].txs
  /\ \A n \in traces.seen : \A t \in chain[n].txs : [tx |-> t, number |-> n] \in traces.found

SettledItems ==
  /\ \A i \in items : i \in ItemsOf(chain[i.number])
  /\ pc \in {"export", "save"} => \A n \in Requested : ItemsOf(chain[n]) \subseteq items
  /\ pc = "save" => items \subseteq sink

SettledSink ==
  /\ \A i \in sink : i \in ItemsOf(chain[i.number])
  /\ \A n \in 1 .. synced : ItemsOf(chain[n]) \subseteq sink

Settled == depth <= Lag => SettledFetched /\ SettledItems /\ SettledSink

AdapterInv == ChainOK /\ RangeOK /\ FetchedOK /\ ItemsOK /\ Settled /\ NoTransactionTwice

-----------------------------------------------------------------------------
(* The joins *)

(* A request's answer is asked for whenever a type that is made of it is. *)
LEMMA Requests ==
  ASSUME RangeOK
  PROVE  /\ "transaction" \in types => WantsReceipts
         /\ types \cap {"log", "token_transfer"} # {} => WantsReceipts
         /\ types \cap {"transaction", "log", "token_transfer"} # {} => Should(types, "transaction")
         /\ types \cap {"trace", "contract", "token"} # {} => Should(types, "trace")
         /\ types \cap {"contract", "token"} # {} => Should(types, "contract")
  BY DEF WantsReceipts, Should, Users

(* A transaction read in two blocks of the range has a receipt for each of   *)
(* them, and the join by hash more pairs than there were transactions.       *)
LEMMA JoinedOnce ==
  ASSUME FetchedOK, "transaction" \in types, TracesDone, CountsAgree, RangeOK,
         NEW x \in Transactions, NEW y \in Transactions, x.tx = y.tx
  PROVE  x = y
<1>1. \A z \in Transactions : \E r \in receipts : r.for = z.number /\ r.tx = z.tx
  <2>1. Unasked = {}
    BY Requests DEF TracesDone, ReceiptsDone
  <2> QED
    BY <2>1 DEF Unasked
<1>2. ASSUME NEW u \in Transactions, NEW v \in Transactions, u.tx = v.tx, u.number = v.number
      PROVE  u = v
  <2>1. PICK b \in blocks : \E t \in b.txs : u = Item("transaction", b.number, b.fork, t)
    BY DEF Transactions
  <2>2. PICK c \in blocks : \E t \in c.txs : v = Item("transaction", c.number, c.fork, t)
    BY DEF Transactions
  <2>3. b = c
    BY <1>2, <2>1, <2>2 DEF FetchedOK, Item
  <2> QED
    BY <1>2, <2>1, <2>2, <2>3 DEF Item
<1> DEFINE R(z) == CHOOSE r \in receipts : r.for = z.number /\ r.tx = z.tx
<1>3. \A z \in Transactions : R(z) \in receipts /\ R(z).for = z.number /\ R(z).tx = z.tx
  BY <1>1
<1> HIDE DEF R
<1>4. IsFiniteSet(Transactions)
  <2> DEFINE g == [z \in Transactions |-> R(z)]
  <2>1. g \in Injection(Transactions, receipts)
    BY <1>2, <1>3 DEF Injection, IsInjective
  <2> HIDE DEF g
  <2> QED
    BY <2>1, FS_Injection DEF FetchedOK
<1>5. IsFiniteSet(ByHash)
  <2>1. IsFiniteSet(Transactions \X receipts)
    BY <1>4, FS_Product DEF FetchedOK
  <2>2. ByHash \in SUBSET (Transactions \X receipts)
    BY DEF ByHash
  <2> QED
    BY <2>1, <2>2, FS_Subset
<1> SUFFICES ASSUME x # y
             PROVE  FALSE
  OBVIOUS
<1>6. x.number # y.number
  BY <1>2
<1> DEFINE extra == <<x, R(y)>>
           f == [z \in Transactions |-> <<z, R(z)>>]
<1>7. extra \in ByHash
  BY <1>3 DEF ByHash
<1>8. f \in Injection(Transactions, ByHash \ {extra})
  <2>1. \A z \in Transactions : <<z, R(z)>> \in ByHash
    BY <1>3 DEF ByHash
  <2>2. R(x) # R(y)
    BY <1>3, <1>6
  <2>3. \A z \in Transactions : <<z, R(z)>> # <<x, R(y)>>
    BY <2>2
  <2> QED
    BY <2>1, <2>3 DEF Injection, IsInjective
<1> HIDE DEF extra, f
<1>9. /\ IsFiniteSet(ByHash \ {extra})
      /\ Cardinality(ByHash \ {extra}) = Cardinality(ByHash) - 1
  BY <1>5, <1>7, FS_RemoveElement
<1>10. Cardinality(Transactions) <= Cardinality(ByHash \ {extra})
  BY <1>8, <1>9, FS_Injection
<1>11. Cardinality(ByHash) = Cardinality(Transactions)
  BY DEF CountsAgree
<1>12. Cardinality(ByHash) \in Nat
  BY <1>5, FS_CardinalityType
<1> QED
  BY <1>9, <1>10, <1>11, <1>12

(* All that is exported is of a type that was asked for and of a block of the *)
(* range; of transactions, of one that was read.                              *)
LEMMA AllItemsOfRange ==
  ASSUME FetchedOK, NEW i \in AllItems
  PROVE  /\ i.type \in types /\ i.number \in Requested
         /\ i.type = "transaction" => i \in Transactions
<1>1. i.type \in types
  BY DEF AllItems
<1>2. CASE \E b \in blocks : i = Item("block", b.number, b.fork, None)
  BY <1>1, <1>2 DEF Item, FetchedOK, Blocks
<1>3. CASE \E p \in ByHash : i = p[1]
  <2>1. i \in Transactions
    BY <1>3 DEF ByHash
  <2>2. \E b \in blocks : i.number = b.number
    BY <2>1 DEF Transactions, Item
  <2> QED
    BY <1>1, <2>1, <2>2 DEF FetchedOK, Blocks
<1>4. ASSUME NEW left, NEW type, type # "transaction", i \in Joined(type, ByNumber(left))
      PROVE  i.number \in Requested /\ i.type # "transaction"
  <2>1. PICK p \in ByNumber(left) : i = Item(type, p[2].number, p[2].fork, p[1].tx)
    BY <1>4 DEF Joined
  <2>2. p[2] \in blocks
    BY DEF ByNumber
  <2> QED
    BY <1>4, <2>1, <2>2 DEF Item, FetchedOK, Blocks
<1>5. CASE \/ i \in Joined("log", ByNumber(receipts))
           \/ i \in Joined("token_transfer", ByNumber(receipts))
           \/ i \in Joined("trace", ByNumber(traces.found))
           \/ i \in Joined("contract", ByNumber(Contracts))
           \/ i \in Joined("token", ByNumber(Contracts))
  BY <1>1, <1>4, <1>5
<1> QED
  BY <1>2, <1>3, <1>5 DEF AllItems

(* When everything fetched is of the chain, so is everything exported ... *)
LEMMA AllItemsOfChain ==
  ASSUME FetchedOK, SettledFetched, NEW i \in AllItems
  PROVE  i \in ItemsOf(chain[i.number])
<1>1. i.type \in types
  BY DEF AllItems
<1>2. CASE \E b \in blocks : i = Item("block", b.number, b.fork, None)
  <2>1. PICK b \in blocks : i = Item("block", b.number, b.fork, None)
    BY <1>2
  <2>2. i.number = b.number /\ b = chain[b.number]
    BY <2>1 DEF Item, SettledFetched
  <2>3. i \in ItemsOf(b)
    BY <1>1, <2>1 DEF ItemsOf
  <2> QED
    BY <2>2, <2>3
<1>3. CASE \E p \in ByHash : i = p[1]
  <2>1. i \in Transactions
    BY <1>3 DEF ByHash
  <2>2. PICK b \in blocks : \E t \in b.txs : i = Item("transaction", b.number, b.fork, t)
    BY <2>1 DEF Transactions
  <2>3. i.number = b.number /\ b = chain[b.number]
    BY <2>2 DEF Item, SettledFetched
  <2>4. i \in ItemsOf(b)
    BY <1>1, <2>2 DEF ItemsOf
  <2> QED
    BY <2>3, <2>4
<1>4. ASSUME NEW left, NEW type, i \in Joined(type, ByNumber(left))
      PROVE  \E p \in left : \E b \in blocks :
               /\ p.number = b.number /\ i.number = b.number /\ b = chain[b.number]
               /\ i = Item(type, b.number, b.fork, p.tx)
  <2>1. PICK p \in ByNumber(left) : i = Item(type, p[2].number, p[2].fork, p[1].tx)
    BY <1>4 DEF Joined
  <2>2. p[1] \in left /\ p[2] \in blocks /\ p[1].number = p[2].number
    BY DEF ByNumber
  <2>3. i.number = p[2].number /\ p[2] = chain[p[2].number]
    BY <2>1, <2>2 DEF Item, SettledFetched
  <2> QED
    BY <2>1, <2>2, <2>3
<1>5. CASE \E type \in {"log", "token_transfer"} : i \in Joined(type, ByNumber(receipts))
  <2>1. PICK type \in {"log", "token_transfer"} : i \in Joined(type, ByNumber(receipts))
    BY <1>5
  <2>2. PICK r \in receipts, b \in blocks :
          /\ r.number = b.number /\ i.number = b.number /\ b = chain[b.number]
          /\ i = Item(type, b.number, b.fork, r.tx)
    BY <1>4, <2>1
  <2>3. r.tx \in b.txs
    BY <2>2 DEF SettledFetched
  <2>4. i \in ItemsOf(b)
    BY <1>1, <2>1, <2>2, <2>3 DEF ItemsOf
  <2> QED
    BY <2>2, <2>4
<1>6. CASE i \in Joined("trace", ByNumber(traces.found))
  <2>1. PICK f \in traces.found, b \in blocks :
          /\ f.number = b.number /\ i.number = b.number /\ b = chain[b.number]
          /\ i = Item("trace", b.number, b.fork, f.tx)
    BY <1>4, <1>6
  <2>2. f.tx \in b.txs
    BY <2>1 DEF SettledFetched
  <2>3. i \in ItemsOf(b)
    BY <1>1, <2>1, <2>2 DEF ItemsOf
  <2> QED
    BY <2>1, <2>3
<1>7. CASE \E type \in {"contract", "token"} : i \in Joined(type, ByNumber(Contracts))
  <2>1. PICK type \in {"contract", "token"} : i \in Joined(type, ByNumber(Contracts))
    BY <1>7
  <2>2. PICK f \in Contracts, b \in blocks :
          /\ f.number = b.number /\ i.number = b.number /\ b = chain[b.number]
          /\ i = Item(type, b.number, b.fork, f.tx)
    BY <1>4, <2>1
  <2>3. f.tx \in b.txs \cap Creators
    BY <2>2 DEF SettledFetched, Contracts
  <2>4. i \in ItemsOf(b)
    BY <1>1, <2>1, <2>2, <2>3 DEF ItemsOf
  <2> QED
    BY <2>2, <2>4
<1> QED
  BY <1>2, <1>3, <1>5, <1>6, <1>7 DEF AllItems

(* ... and, when nothing that was asked for is outstanding, nothing of the   *)
(* blocks of the range is missing.                                           *)
LEMMA AllItemsComplete ==
  ASSUME FetchedOK, RangeOK, SettledFetched, TracesDone, NEW n \in Requested
  PROVE  ItemsOf(chain[n]) \subseteq AllItems
<1> DEFINE b == chain[n]
<1>1. b \in blocks /\ b.number = n
  <2>1. PICK c \in blocks : c.number = n
    BY DEF TracesDone, ReceiptsDone, BlocksDone
  <2>2. c = chain[n]
    BY <2>1 DEF SettledFetched
  <2> QED
    BY <2>1, <2>2
<1> HIDE DEF b
<1> SUFFICES ASSUME NEW i \in ItemsOf(b)
             PROVE  i \in AllItems
  BY DEF b
<1>2. i.type \in types
  BY DEF ItemsOf
<1>3. ASSUME NEW t \in b.txs, Should(types, "transaction"), WantsReceipts
      PROVE  /\ Item("transaction", b.number, b.fork, t) \in Transactions
             /\ \E r \in receipts : r.for = b.number /\ r.number = b.number /\ r.tx = t
  <2>1. Item("transaction", b.number, b.fork, t) \in Transactions
    BY <1>1, <1>3 DEF Transactions
  <2>2. PICK r \in receipts : r.for = b.number /\ r.tx = t
    BY <1>3, <2>1 DEF TracesDone, ReceiptsDone, Unasked, Item
  <2> QED
    BY <2>1, <2>2 DEF SettledFetched
<1>4. ASSUME NEW left, NEW type, NEW p \in left, p.number = b.number
      PROVE  Item(type, b.number, b.fork, p.tx) \in Joined(type, ByNumber(left))
  <2>1. <<p, b>> \in ByNumber(left)
    BY <1>1, <1>4 DEF ByNumber
  <2> QED
    BY <2>1 DEF Joined
<1>5. CASE i = Item("block", b.number, b.fork, None)
  BY <1>1, <1>2, <1>5 DEF AllItems
<1>6. ASSUME NEW t \in b.txs, i = Item("transaction", b.number, b.fork, t)
      PROVE  i \in AllItems
  <2>1. "transaction" \in types
    BY <1>2, <1>6 DEF Item
  <2>2. i \in Transactions /\ \E r \in receipts : r.tx = t
    BY <1>3, <1>6, <2>1, Requests
  <2>3. PICK r \in receipts : r.tx = t
    BY <2>2
  <2>4. i.tx = t
    BY <1>6 DEF Item
  <2>5. <<i, r>> \in ByHash
    BY <2>2, <2>3, <2>4 DEF ByHash
  <2>6. \E p \in ByHash : i = p[1]
    BY <2>5
  <2> QED
    BY <1>2, <2>6 DEF AllItems
<1>7. ASSUME NEW t \in b.txs, NEW type \in {"log", "token_transfer"},
             i = Item(type, b.number, b.fork, t)
      PROVE  i \in AllItems
  <2>1. types \cap {"log", "token_transfer"} # {}
    BY <1>2, <1>7 DEF Item
  <2>2. Should(types, "transaction") /\ WantsReceipts
    BY <2>1, Requests
  <2>3. PICK r \in receipts : r.number = b.number /\ r.tx = t
    BY <1>3, <2>2
  <2>4. i \in Joined(type, ByNumber(receipts))
    BY <1>4, <1>7, <2>3
  <2> QED
    BY <1>2, <2>4 DEF AllItems
<1>8. ASSUME NEW t \in b.txs, Should(types, "trace")
      PROVE  [tx |-> t, number |-> n] \in traces.found
  BY <1>8 DEF TracesDone, SettledFetched, b
<1>9. ASSUME NEW t \in b.txs, i = Item("trace", b.number, b.fork, t)
      PROVE  i \in AllItems
  <2>1. "trace" \in types
    BY <1>2, <1>9 DEF Item
  <2>2. [tx |-> t, number |-> n] \in traces.found
    BY <1>8, <2>1, Requests
  <2>3. i \in Joined("trace", ByNumber(traces.found))
    BY <1>1, <1>4, <1>9, <2>2
  <2> QED
    BY <1>2, <2>3 DEF AllItems
<1>10. ASSUME NEW t \in b.txs \cap Creators, NEW type \in {"contract", "token"},
              i = Item(type, b.number, b.fork, t)
       PROVE  i \in AllItems
  <2>1. types \cap {"contract", "token"} # {}
    BY <1>2, <1>10 DEF Item
  <2>2. Should(types, "trace") /\ Should(types, "contract")
    BY <2>1, Requests
  <2>3. [tx |-> t, number |-> n] \in traces.found
    BY <1>8, <2>2
  <2>4. [tx |-> t, number |-> n] \in Contracts
    BY <2>2, <2>3 DEF Contracts
  <2>5. i \in Joined(type, ByNumber(Contracts))
    BY <1>1, <1>4, <1>10, <2>4
  <2> QED
    BY <1>2, <2>5 DEF AllItems
<1> QED
  BY <1>5, <1>6, <1>7, <1>9, <1>10 DEF ItemsOf

-----------------------------------------------------------------------------
(* What changes of the chain *)

(* The blocks that are Lag behind the head stay. *)
Stays(h) == \A n \in 0 .. h - Lag : chain'[n] = chain[n]

(* So does all that was made of them. *)
LEMMA SettledStays ==
  ASSUME ChainOK, RangeOK, FetchedOK, ItemsOK, Settled,
         depth' <= Lag => depth <= Lag /\ Stays(head),
         UNCHANGED <<pc, synced, target, fetched, sink, types>>
  PROVE  Settled'
<1> SUFFICES ASSUME depth' <= Lag
             PROVE  SettledFetched' /\ SettledItems' /\ SettledSink'
  BY DEF Settled
<1>1. SettledFetched /\ SettledItems /\ SettledSink
  BY DEF Settled
<1>2. ASSUME pc # "cycle", NEW n \in Requested
      PROVE  chain'[n] = chain[n]
  BY <1>2, AdapterAssumption DEF Stays, Requested, RangeOK, ChainOK
<1>3. Requested' = Requested
  BY DEF Requested
<1>4. UNCHANGED <<blocks, receipts, traces, items>>
  BY DEF fetched
<1>5. \A b : ItemsOf(b)' = ItemsOf(b)
  BY DEF ItemsOf
<1>6. SettledFetched'
  <2>1. CASE pc = "cycle"
    BY <1>4, <2>1 DEF SettledFetched, FetchedOK
  <2>2. CASE pc # "cycle"
    <3>1. /\ \A b \in blocks : b.number \in Requested
          /\ \A r \in receipts : r.for \in Requested
          /\ \A f \in traces.found : f.number \in Requested
          /\ \A n \in traces.seen : n \in Requested
      BY DEF FetchedOK, Blocks
    <3> QED
      BY <1>1, <1>2, <1>4, <2>2, <3>1 DEF SettledFetched
  <2> QED
    BY <2>1, <2>2
<1>7. SettledItems'
  <2>1. CASE pc = "cycle"
    BY <1>4, <2>1 DEF SettledItems, FetchedOK
  <2>2. CASE pc # "cycle"
    <3>1. \A i \in items : i.number \in Requested
      BY DEF ItemsOK
    <3>2. \A n \in Requested : ItemsOf(chain[n])' = ItemsOf(chain[n])
      BY <1>2, <2>2 DEF ItemsOf
    <3>3. \A i \in items' : i \in ItemsOf(chain[i.number])'
      BY <1>1, <1>4, <3>1, <3>2 DEF SettledItems
    <3>4. pc' \in {"export", "save"} => \A n \in Requested' : ItemsOf(chain[n])' \subseteq items'
      BY <1>1, <1>3, <1>4, <3>2 DEF SettledItems
    <3>5. pc' = "save" => items' \subseteq sink'
      BY <1>1, <1>4 DEF SettledItems
    <3> QED
      BY <3>3, <3>4, <3>5 DEF SettledItems
  <2> QED
    BY <2>1, <2>2
<1>8. SettledSink'
  <2>1. \A i \in sink : ItemsOf(chain[i.number])' = ItemsOf(chain[i.number])
    <3>1. \A i \in sink : i.number \in 0 .. head - Lag
      BY AdapterAssumption DEF ItemsOK, ChainOK
    <3> QED
      BY <3>1 DEF ItemsOf, Stays
  <2>2. \A n \in 1 .. synced : ItemsOf(chain[n])' = ItemsOf(chain[n])
    <3>1. \A n \in 1 .. synced : n \in 0 .. head - Lag
      BY AdapterAssumption DEF RangeOK, ChainOK
    <3> QED
      BY <3>1 DEF ItemsOf, Stays
  <2>3. \A i \in sink' : i \in ItemsOf(chain[i.number])'
    BY <1>1, <2>1 DEF SettledSink
  <2>4. \A n \in 1 .. synced' : ItemsOf(chain[n])' \subseteq sink'
    BY <1>1, <2>2 DEF SettledSink
  <2> QED
    BY <2>3, <2>4 DEF SettledSink
<1> QED
  BY <1>6, <1>7, <1>8

(* A chain that grew or reorganised does not touch the other invariants. *)
LEMMA OthersStay ==
  ASSUME ChainOK, RangeOK, FetchedOK, ItemsOK, NoTransactionTwice,
         head' \in Nat, head' >= head,
         UNCHANGED <<pc, synced, target, fetched, sink, types>>
  PROVE  RangeOK' /\ FetchedOK' /\ ItemsOK' /\ NoTransactionTwice'
<1>1. UNCHANGED <<blocks, receipts, traces, items>>
  BY DEF fetched
<1>2. Requested' = Requested
  BY DEF Requested
<1>3. head - Lag \in Int /\ head' - Lag \in Int /\ head - Lag <= head' - Lag
  <2>1. Lag \in Nat /\ head \in Nat /\ head' \in Nat
    BY AdapterAssumption DEF ChainOK
  <2>2. \A a, b, c \in Nat : b >= a => a - c \in Int /\ b - c \in Int /\ a - c <= b - c
    OBVIOUS
  <2> QED
    BY <2>1, <2>2
<1> DEFINE newest == head - Lag
           newer == head' - Lag
<1>7. newest \in Int /\ newer \in Int /\ newest <= newer
  BY <1>3
<1>8. RangeOK'
  <2>1. /\ synced > 0 => synced <= newest
        /\ pc # "cycle" => synced < target /\ target <= newest
        /\ synced \in Nat /\ target \in Nat
    BY DEF RangeOK
  <2> HIDE DEF newest, newer
  <2>2. /\ synced' > 0 => synced' <= newer
        /\ pc' # "cycle" => synced' < target' /\ target' <= newer
    BY <1>7, <2>1
  <2> QED
    BY <2>2 DEF RangeOK, newer
<1>4. FetchedOK'
  BY <1>1, <1>2 DEF FetchedOK
<1>5. ItemsOK'
  <2>1. \A n \in 1 .. head - Lag : n \in 1 .. head' - Lag
    <3> HIDE DEF newest, newer
    <3>1. \A n \in 1 .. newest : n \in 1 .. newer
      BY <1>7
    <3> QED
      BY <3>1 DEF newest, newer
  <2> QED
    BY <1>1, <1>2, <2>1 DEF ItemsOK
<1>6. NoTransactionTwice'
  BY <1>1 DEF NoTransactionTwice
<1> QED
  BY <1>8, <1>4, <1>5, <1>6

LEMMA GrowOK ==
  ASSUME AdapterInv, Grow
  PROVE  AdapterInv'
<1> USE DEF AdapterInv
<1>1. PICK txs \in SUBSET (Tx \ Mined(chain)) :
        chain' = [n \in 0 .. head + 1 |->
                    IF n \in DOMAIN chain THEN chain[n] ELSE Block(n, forks, txs)]
  BY DEF Grow
<1>2. head' = head + 1 /\ UNCHANGED <<pc, synced, target, fetched, sink, types, forks, depth>>
  BY DEF Grow
<1>3. DOMAIN chain = 0 .. head /\ head \in Nat
  BY DEF ChainOK
<1>4. /\ \A n \in 0 .. head : chain'[n] = chain[n]
      /\ chain'[head + 1] = Block(head + 1, forks, txs)
      /\ \A n \in 0 .. head + 1 : n \in 0 .. head \/ n = head + 1
  BY <1>1, <1>3
<1>5. chain' \in [0 .. head' -> Blocks(Nat)]
  <2>1. Block(head + 1, forks, txs) \in Blocks(Nat)
    BY DEF Block, Blocks, ChainOK
  <2>2. \A n \in 0 .. head : chain[n] \in Blocks(Nat)
    BY DEF ChainOK
  <2>3. \A n \in 0 .. head + 1 : chain'[n] \in Blocks(Nat)
    BY <1>4, <2>1, <2>2
  <2> QED
    BY <1>1, <1>2, <2>3
<1>6. \A n \in 0 .. head' : chain'[n].number = n
  BY <1>2, <1>4 DEF Block, ChainOK
<1>7. \A m, n \in 0 .. head' : \A t \in chain'[m].txs : t \in chain'[n].txs => m = n
  <2>1. \A n \in 0 .. head : \A t \in chain[n].txs : t \notin txs
    BY <1>3 DEF Mined
  <2>2. chain'[head + 1].txs = txs
    BY <1>4 DEF Block
  <2> QED
    BY <1>2, <1>4, <2>1, <2>2 DEF ChainOK
<1>8. ChainOK'
  BY <1>2, <1>3, <1>5, <1>6, <1>7 DEF ChainOK
<1>9. Settled'
  <2>1. Stays(head)
    BY <1>3, <1>4, AdapterAssumption DEF Stays
  <2> QED
    BY <1>2, <2>1, SettledStays
<1> QED
  BY <1>2, <1>3, <1>8, <1>9, OthersStay

LEMMA ReorganiseOK ==
  ASSUME AdapterInv, Reorganise
  PROVE  AdapterInv'
<1> USE DEF AdapterInv
<1>1. PICK d \in 1 .. Smaller(MaxDepth, head) :
        /\ depth' = IF d > depth THEN d ELSE depth
        /\ LET kept == [n \in 0 .. head - d |-> chain[n]]
           IN  \E place \in [Tx \ Mined(kept) -> head - d + 1 .. head + 1] :
                 chain' = [n \in 0 .. head |->
                             IF n \in DOMAIN kept THEN kept[n]
                             ELSE Block(n, forks + 1, {t \in DOMAIN place : place[t] = n})]
  BY DEF Reorganise
<1> DEFINE kept == [n \in 0 .. head - d |-> chain[n]]
<1>2. PICK place \in [Tx \ Mined(kept) -> head - d + 1 .. head + 1] :
        chain' = [n \in 0 .. head |->
                    IF n \in DOMAIN kept THEN kept[n]
                    ELSE Block(n, forks + 1, {t \in DOMAIN place : place[t] = n})]
  BY <1>1
<1>3. /\ forks < MaxForks /\ forks' = forks + 1
      /\ head' = head /\ UNCHANGED <<pc, synced, target, fetched, sink, types>>
  BY DEF Reorganise
<1>4. d \in Nat /\ d >= 1 /\ d <= head /\ head \in Nat /\ depth \in Nat
  BY AdapterAssumption DEF ChainOK, Smaller
<1>5. \A n \in 0 .. head - d : n \in 0 .. head
  BY <1>4
<1>6. \A n \in 0 .. head - d : chain'[n] = chain[n]
  BY <1>2, <1>4, <1>5
<1>7. \A n \in 0 .. head : n \in 0 .. head - d \/
        chain'[n] = Block(n, forks + 1, {t \in DOMAIN place : place[t] = n})
  BY <1>2, <1>4
<1>8. DOMAIN place \subseteq Tx
  OBVIOUS
<1>9. chain' \in [0 .. head' -> Blocks(Nat)]
  <2>1. \A n \in 0 .. head : Block(n, forks + 1, {t \in DOMAIN place : place[t] = n}) \in Blocks(Nat)
    BY <1>3, <1>4, <1>8 DEF Block, Blocks, ChainOK
  <2>2. \A n \in 0 .. head : chain[n] \in Blocks(Nat)
    BY DEF ChainOK
  <2>3. \A n \in 0 .. head : chain'[n] \in Blocks(Nat)
    BY <1>5, <1>6, <1>7, <2>1, <2>2
  <2> HIDE DEF kept
  <2> QED
    BY <1>2, <1>3, <2>3
<1>10. \A n \in 0 .. head' : chain'[n].number = n
  <2>1. \A n \in 0 .. head - d : chain'[n].number = n
    BY <1>5, <1>6 DEF ChainOK
  <2>2. \A n, f, txs : Block(n, f, txs).number = n
    BY DEF Block
  <2> DEFINE B(n) == Block(n, forks + 1, {t \in DOMAIN place : place[t] = n})
  <2>3. \A n : B(n).number = n
    BY <2>2
  <2>4. \A n \in 0 .. head : n \in 0 .. head - d \/ chain'[n] = B(n)
    BY <1>7
  <2> HIDE DEF kept, B
  <2> QED
    BY <1>3, <2>1, <2>3, <2>4
<1>11. \A m, n \in 0 .. head' : \A t \in chain'[m].txs : t \in chain'[n].txs => m = n
  <2>1. \A n \in 0 .. head - d : \A t \in chain'[n].txs : t \notin DOMAIN place
    <3>1. \A n \in 0 .. head - d : \A t \in kept[n].txs : t \in Mined(kept)
      BY DEF Mined
    <3> QED
      BY <1>6, <3>1
  <2>2. \A n \in 0 .. head : n \in 0 .. head - d \/
          \A t \in chain'[n].txs : t \in DOMAIN place /\ place[t] = n
    <3>1. \A n, f, txs : Block(n, f, txs).txs = txs
      BY DEF Block
    <3> DEFINE S(n) == {t \in DOMAIN place : place[t] = n}
               B(n) == Block(n, forks + 1, S(n))
    <3>2. \A n : B(n).txs = S(n)
      BY <3>1
    <3>3. \A n \in 0 .. head : n \in 0 .. head - d \/ chain'[n] = B(n)
      BY <1>7
    <3>4. \A n : \A t \in S(n) : t \in DOMAIN place /\ place[t] = n
      OBVIOUS
    <3> HIDE DEF kept, S, B
    <3> QED
      BY <3>2, <3>3, <3>4
  <2>3. \A m, n \in 0 .. head - d : \A t \in chain'[m].txs : t \in chain'[n].txs => m = n
    BY <1>5, <1>6 DEF ChainOK
  <2> HIDE DEF kept
  <2> QED
    BY <1>3, <2>1, <2>2, <2>3
<1>12. ChainOK'
  <2>1. depth' \in Nat
    BY <1>1, <1>4
  <2>2. forks' \in 0 .. MaxForks
    BY <1>3, AdapterAssumption DEF ChainOK
  <2> QED
    BY <1>3, <1>4, <1>9, <1>10, <1>11, <2>1, <2>2 DEF ChainOK
<1>13. depth' <= Lag => depth <= Lag /\ Stays(head)
  BY <1>1, <1>4, <1>6, AdapterAssumption DEF Stays
<1>14. Settled'
  BY <1>3, <1>13, SettledStays
<1> QED
  BY <1>3, <1>4, <1>12, <1>14, OthersStay

-----------------------------------------------------------------------------
(* The steps of the program *)

(* Steps of the program leave the chain as it is. *)
LEMMA ChainStays ==
  ASSUME ChainOK, UNCHANGED network
  PROVE  ChainOK'
BY DEF ChainOK, network

(* The range of a cycle is behind the lag, above the checkpoint. *)
LEMMA Behind ==
  ASSUME ChainOK, RangeOK, pc # "cycle"
  PROVE  \A n \in Requested : n \in 1 .. head - Lag /\ n \in 0 .. head
<1>1. Lag \in Nat /\ head \in Nat /\ synced \in Nat /\ target \in Nat /\ target <= head - Lag
  BY AdapterAssumption DEF ChainOK, RangeOK
<1> QED
  BY <1>1 DEF Requested

(* Every cycle that ends, for whatever reason, has sent some of its items and *)
(* leaves nothing behind; it moves the checkpoint when all were sent.         *)
LEMMA CycleEnds ==
  ASSUME AdapterInv, pc # "cycle", pc' = "cycle", Forget, UNCHANGED <<target, types, network>>,
         sink \subseteq sink', sink' \subseteq sink \cup items,
         synced' = synced \/ (synced' = target /\ pc = "save")
  PROVE  AdapterInv'
<1> USE DEF AdapterInv
<1>1. ChainOK'
  BY ChainStays
<1>2. /\ blocks' = {} /\ receipts' = {} /\ items' = {}
      /\ traces' = [seen |-> {}, found |-> {}]
  BY DEF Forget
<1>3. head' = head /\ chain' = chain /\ depth' = depth
  BY DEF network
<1>4. RangeOK'
  <2>1. synced \in Nat /\ target \in Nat /\ types' \in EntityTypeSets
    BY DEF RangeOK
  <2>2. synced' \in Nat /\ target' \in Nat
    BY <2>1
  <2>3. synced' > 0 => synced' <= head - Lag
    BY DEF RangeOK
  <2> QED
    BY <1>3, <2>1, <2>2, <2>3 DEF RangeOK
<1>5. FetchedOK'
  BY <1>2, FS_EmptySet DEF FetchedOK
<1>6. ItemsOK'
  <2>1. \A i \in items : i.number \in 1 .. head - Lag
    BY Behind DEF ItemsOK
  <2> QED
    BY <1>2, <1>3, <2>1 DEF ItemsOK
<1>7. Settled'
  <2> SUFFICES ASSUME depth <= Lag
               PROVE  SettledFetched' /\ SettledItems' /\ SettledSink'
    BY <1>3 DEF Settled
  <2>1. SettledFetched /\ SettledItems /\ SettledSink
    BY DEF Settled
  <2>2. \A b : ItemsOf(b)' = ItemsOf(b)
    BY DEF ItemsOf
  <2>3. SettledFetched'
    BY <1>2 DEF SettledFetched
  <2>4. SettledItems'
    BY <1>2 DEF SettledItems
  <2>5. \A i \in sink' : i \in ItemsOf(chain[i.number])
    BY <2>1 DEF SettledItems, SettledSink
  <2>6. \A n \in 1 .. synced' : ItemsOf(chain[n]) \subseteq sink'
    <3>1. CASE synced' = synced
      BY <2>1, <3>1 DEF SettledSink
    <3>2. CASE synced' = target /\ pc = "save"
      <4>1. \A n \in 1 .. target : n \in 1 .. synced \/ n \in Requested
        BY DEF Requested, RangeOK
      <4>2. \A n \in Requested : ItemsOf(chain[n]) \subseteq sink
        BY <2>1, <3>2 DEF SettledItems
      <4> QED
        BY <2>1, <3>2, <4>1, <4>2 DEF SettledSink
    <3> QED
      BY <3>1, <3>2
  <2>7. SettledSink'
    BY <1>3, <2>2, <2>5, <2>6 DEF SettledSink
  <2> QED
    BY <2>3, <2>4, <2>7
<1>8. NoTransactionTwice'
  BY <1>2 DEF NoTransactionTwice
<1> QED
  BY <1>1, <1>4, <1>5, <1>6, <1>7, <1>8

LEMMA StartCycleOK ==
  ASSUME AdapterInv, StartCycle
  PROVE  AdapterInv'
<1> USE DEF AdapterInv
<1>1. /\ pc = "cycle" /\ pc' = "fetch" /\ target' = TargetBlock /\ TargetBlock > synced
      /\ UNCHANGED <<synced, blocks, receipts, traces, items, sink, types>> /\ UNCHANGED network
  BY DEF StartCycle, fetched
<1>2. head' = head /\ chain' = chain /\ depth' = depth
  BY <1>1 DEF network
<1>3. ChainOK'
  BY <1>1, ChainStays
<1>4. /\ blocks = {} /\ receipts = {} /\ items = {}
      /\ traces = [seen |-> {}, found |-> {}]
  BY <1>1 DEF FetchedOK
<1>5. RangeOK'
  <2>1. synced \in Nat /\ head \in Nat /\ Lag \in Nat /\ BlockBatchSize \in Nat
    BY AdapterAssumption DEF RangeOK, ChainOK
  <2>2. TargetBlock \in Int /\ TargetBlock <= head - Lag
    BY <2>1 DEF TargetBlock, Smaller
  <2>3. target' \in Nat /\ synced' < target' /\ target' <= head' - Lag
    BY <1>1, <1>2, <2>1, <2>2
  <2>4. synced' > 0 => synced' <= head' - Lag
    BY <1>1, <1>2 DEF RangeOK
  <2> QED
    BY <1>1, <2>3, <2>4 DEF RangeOK
<1>6. FetchedOK'
  BY <1>1, <1>4, FS_EmptySet DEF FetchedOK
<1>7. ItemsOK'
  BY <1>1, <1>2, <1>4 DEF ItemsOK
<1>8. Settled'
  <2>1. \A b : ItemsOf(b)' = ItemsOf(b)
    BY <1>1 DEF ItemsOf
  <2>2. SettledFetched' /\ SettledItems'
    BY <1>1, <1>4 DEF SettledFetched, SettledItems
  <2>3. SettledSink => SettledSink'
    BY <1>1, <1>2, <2>1 DEF SettledSink
  <2> QED
    BY <1>2, <2>2, <2>3 DEF Settled
<1>9. NoTransactionTwice'
  BY <1>1 DEF NoTransactionTwice
<1> QED
  BY <1>3, <1>5, <1>6, <1>7, <1>8, <1>9

(* A request's answer touches neither the items nor the sink. *)
LEMMA AnswerStays ==
  ASSUME AdapterInv, pc = "fetch",
         UNCHANGED <<pc, synced, target, items, sink, types, network>>,
         FetchedOK', depth <= Lag => SettledFetched'
  PROVE  AdapterInv'
<1> USE DEF AdapterInv
<1>1. head' = head /\ chain' = chain /\ depth' = depth
  BY DEF network
<1>2. ChainOK'
  BY ChainStays
<1>3. RangeOK'
  BY <1>1 DEF RangeOK
<1>4. ItemsOK'
  BY <1>1 DEF ItemsOK, Requested
<1>5. Settled'
  <2>1. \A b : ItemsOf(b)' = ItemsOf(b)
    BY DEF ItemsOf
  <2>2. SettledItems => SettledItems'
    BY <1>1, <2>1 DEF SettledItems
  <2>3. SettledSink => SettledSink'
    BY <1>1, <2>1 DEF SettledSink
  <2> QED
    BY <1>1, <2>2, <2>3 DEF Settled
<1>6. NoTransactionTwice'
  BY DEF NoTransactionTwice
<1> QED
  BY <1>2, <1>3, <1>4, <1>5, <1>6

LEMMA FetchBlockOK ==
  ASSUME AdapterInv, NEW n \in Requested, FetchBlock(n)
  PROVE  AdapterInv'
<1> USE DEF AdapterInv
<1>1. /\ pc = "fetch" /\ n \notin {b.number : b \in blocks}
      /\ blocks' = blocks \cup {chain[n]}
      /\ UNCHANGED <<pc, synced, target, receipts, traces, items, sink, types>>
      /\ UNCHANGED network
  BY DEF FetchBlock
<1>2. n \in 0 .. head
  BY <1>1, Behind
<1>3. chain[n] \in Blocks(Requested) /\ chain[n].number = n
  BY <1>2 DEF ChainOK, Blocks
<1>4. Requested' = Requested /\ chain' = chain
  BY <1>1 DEF Requested, network
<1>5. FetchedOK'
  <2>1. \A b, c \in blocks' : b.number = c.number => b = c
    BY <1>1, <1>3 DEF FetchedOK
  <2>2. blocks' \subseteq Blocks(Requested')
    BY <1>1, <1>3, <1>4 DEF FetchedOK
  <2> QED
    BY <1>1, <1>4, <2>1, <2>2 DEF FetchedOK
<1>6. depth <= Lag => SettledFetched'
  <2>1. SettledFetched => SettledFetched'
    BY <1>1, <1>3, <1>4 DEF SettledFetched
  <2> QED
    BY <2>1 DEF Settled
<1> QED
  BY <1>1, <1>5, <1>6, AnswerStays

LEMMA FetchReceiptOK ==
  ASSUME AdapterInv, NEW x \in Transactions, FetchReceipt(x)
  PROVE  AdapterInv'
<1> USE DEF AdapterInv
<1>1. /\ pc = "fetch"
      /\ UNCHANGED <<pc, synced, target, blocks, traces, items, sink, types>>
      /\ UNCHANGED network
  BY DEF FetchReceipt
<1>2. PICK n \in DOMAIN chain :
        /\ x.tx \in chain[n].txs
        /\ receipts' = receipts \cup {[for |-> x.number, tx |-> x.tx, number |-> n]}
  BY DEF FetchReceipt
<1>3. PICK b \in blocks : \E t \in b.txs : x = Item("transaction", b.number, b.fork, t)
  BY DEF Transactions
<1>4. x.number = b.number /\ x.tx \in b.txs /\ b.number \in Requested /\ x.tx \in Tx
  BY <1>3 DEF Item, FetchedOK, Blocks
<1>5. n \in 0 .. head
  BY DEF ChainOK
<1>6. Requested' = Requested /\ chain' = chain
  BY <1>1 DEF Requested, network
<1>7. FetchedOK'
  <2>1. receipts' \subseteq [for : Requested', tx : Tx, number : Nat]
    BY <1>2, <1>4, <1>5, <1>6 DEF FetchedOK
  <2>2. IsFiniteSet(receipts')
    BY <1>2, FS_AddElement DEF FetchedOK
  <2> QED
    BY <1>1, <1>6, <2>1, <2>2 DEF FetchedOK
<1>8. depth <= Lag => SettledFetched'
  <2> SUFFICES ASSUME depth <= Lag, SettledFetched
               PROVE  SettledFetched'
    BY DEF Settled
  <2>1. b = chain[b.number] /\ b.number \in 0 .. head
    BY <1>1, <1>4, Behind DEF SettledFetched
  <2>2. n = b.number
    BY <1>2, <1>4, <1>5, <2>1 DEF ChainOK
  <2>3. \A r \in receipts' : r.number = r.for /\ r.tx \in chain[r.for].txs
    BY <1>2, <1>4, <2>2 DEF SettledFetched
  <2> QED
    BY <1>1, <1>6, <2>3 DEF SettledFetched
<1> QED
  BY <1>1, <1>7, <1>8, AnswerStays

LEMMA FetchTracesOK ==
  ASSUME AdapterInv, NEW n \in Requested, FetchTraces(n)
  PROVE  AdapterInv'
<1> USE DEF AdapterInv
<1>1. /\ pc = "fetch"
      /\ traces' = [seen |-> traces.seen \cup {n},
                    found |-> traces.found \cup {[tx |-> t, number |-> n] : t \in chain[n].txs}]
      /\ UNCHANGED <<pc, synced, target, blocks, receipts, items, sink, types>>
      /\ UNCHANGED network
  BY DEF FetchTraces
<1>2. n \in 0 .. head
  BY <1>1, Behind
<1>3. Requested' = Requested /\ chain' = chain
  BY <1>1 DEF Requested, network
<1>4. FetchedOK'
  <2>1. chain[n].txs \subseteq Tx
    BY <1>2 DEF ChainOK, Blocks
  <2>2. traces' \in [seen : SUBSET Requested', found : SUBSET [tx : Tx, number : Requested']]
    BY <1>1, <1>3, <2>1 DEF FetchedOK
  <2> QED
    BY <1>1, <1>3, <2>2 DEF FetchedOK
<1>5. depth <= Lag => SettledFetched'
  <2> SUFFICES ASSUME depth <= Lag, SettledFetched
               PROVE  SettledFetched'
    BY DEF Settled
  <2>1. \A f \in traces'.found : f.tx \in chain[f.number].txs
    BY <1>1 DEF SettledFetched
  <2>2. \A m \in traces'.seen : \A t \in chain[m].txs : [tx |-> t, number |-> m] \in traces'.found
    BY <1>1 DEF SettledFetched
  <2> QED
    BY <1>1, <1>3, <2>1, <2>2 DEF SettledFetched
<1> QED
  BY <1>1, <1>4, <1>5, AnswerStays

LEMMA EnrichOK ==
  ASSUME AdapterInv, Enrich
  PROVE  AdapterInv'
<1> USE DEF AdapterInv
<1>1. /\ pc = "fetch" /\ pc' = "export" /\ TracesDone /\ CountsAgree /\ items' = AllItems
      /\ UNCHANGED <<synced, target, blocks, receipts, traces, sink, types>>
      /\ UNCHANGED network
  BY DEF Enrich
<1>2. head' = head /\ chain' = chain /\ depth' = depth /\ Requested' = Requested
  BY <1>1 DEF Requested, network
<1>3. ChainOK'
  BY <1>1, ChainStays
<1>4. RangeOK'
  BY <1>1, <1>2 DEF RangeOK
<1>5. FetchedOK'
  BY <1>1, <1>2 DEF FetchedOK
<1>6. ItemsOK'
  <2>1. \A i \in items' : i.type \in types /\ i.number \in Requested
    BY <1>1, AllItemsOfRange
  <2> QED
    BY <1>1, <1>2, <2>1 DEF ItemsOK
<1>7. Settled'
  <2> SUFFICES ASSUME depth <= Lag, SettledFetched, SettledSink
               PROVE  SettledFetched' /\ SettledItems' /\ SettledSink'
    BY <1>2 DEF Settled
  <2>1. \A b : ItemsOf(b)' = ItemsOf(b)
    BY <1>1 DEF ItemsOf
  <2>2. SettledFetched'
    BY <1>1, <1>2 DEF SettledFetched
  <2>3. \A i \in AllItems : i \in ItemsOf(chain[i.number])
    BY AllItemsOfChain
  <2>4. \A n \in Requested : ItemsOf(chain[n]) \subseteq AllItems
    BY <1>1, AllItemsComplete
  <2>5. SettledItems'
    BY <1>1, <1>2, <2>1, <2>3, <2>4 DEF SettledItems
  <2>6. SettledSink'
    BY <1>1, <1>2, <2>1 DEF SettledSink
  <2> QED
    BY <2>2, <2>5, <2>6
<1>8. NoTransactionTwice'
  <2> SUFFICES ASSUME NEW i \in AllItems, NEW j \in AllItems,
                      i.type = "transaction", j.type = "transaction", i.tx = j.tx
               PROVE  i = j
    BY <1>1 DEF NoTransactionTwice
  <2>1. "transaction" \in types /\ i \in Transactions /\ j \in Transactions
    BY AllItemsOfRange
  <2> QED
    BY <1>1, <2>1, JoinedOnce
<1> QED
  BY <1>3, <1>4, <1>5, <1>6, <1>7, <1>8

LEMMA ExportOK ==
  ASSUME AdapterInv, Export
  PROVE  AdapterInv'
<1> USE DEF AdapterInv
<1>1. /\ pc = "export" /\ pc' = "save" /\ sink' = sink \cup items
      /\ UNCHANGED <<synced, target, blocks, receipts, traces, items, types>>
      /\ UNCHANGED network
  BY DEF Export, fetched
<1>2. head' = head /\ chain' = chain /\ depth' = depth /\ Requested' = Requested
  BY <1>1 DEF Requested, network
<1>3. ChainOK'
  BY <1>1, ChainStays
<1>4. RangeOK'
  BY <1>1, <1>2 DEF RangeOK
<1>5. FetchedOK'
  BY <1>1, <1>2 DEF FetchedOK
<1>6. ItemsOK'
  <2>1. \A i \in items : i.number \in 1 .. head - Lag
    BY <1>1, Behind DEF ItemsOK
  <2> QED
    BY <1>1, <1>2, <2>1 DEF ItemsOK
<1>7. Settled'
  <2> SUFFICES ASSUME SettledFetched, SettledItems, SettledSink
               PROVE  SettledFetched' /\ SettledItems' /\ SettledSink'
    BY <1>2 DEF Settled
  <2>1. \A b : ItemsOf(b)' = ItemsOf(b)
    BY <1>1 DEF ItemsOf
  <2>2. SettledFetched'
    BY <1>1, <1>2 DEF SettledFetched
  <2>3. SettledItems'
    BY <1>1, <1>2, <2>1 DEF SettledItems
  <2>4. \A i \in sink' : i \in ItemsOf(chain[i.number])
    BY <1>1 DEF SettledItems, SettledSink
  <2>5. SettledSink'
    BY <1>1, <1>2, <2>1, <2>4 DEF SettledSink
  <2> QED
    BY <2>2, <2>3, <2>5
<1>8. NoTransactionTwice'
  BY <1>1 DEF NoTransactionTwice
<1> QED
  BY <1>3, <1>4, <1>5, <1>6, <1>7, <1>8

(* GiveUp, ExportRaises, Save and Raise end the cycle. *)
LEMMA EndOK ==
  ASSUME AdapterInv, GiveUp \/ Save \/ Raise \/ \E k \in DOMAIN ExportOrder : ExportRaises(k)
  PROVE  AdapterInv'
<1>1. CASE GiveUp
  BY <1>1, CycleEnds DEF GiveUp
<1>2. CASE Raise
  BY <1>2, CycleEnds DEF Raise
<1>3. CASE Save
  BY <1>3, CycleEnds DEF Save
<1>4. CASE \E k \in DOMAIN ExportOrder : ExportRaises(k)
  <2>1. PICK k \in DOMAIN ExportOrder : ExportRaises(k)
    BY <1>4
  <2>2. sink \subseteq sink' /\ sink' \subseteq sink \cup items
    BY <2>1 DEF ExportRaises
  <2> QED
    BY <2>1, <2>2, CycleEnds DEF ExportRaises
<1> QED
  BY <1>1, <1>2, <1>3, <1>4

-----------------------------------------------------------------------------
(* The theorems *)

LEMMA InitOK == Init => AdapterInv
<1> SUFFICES ASSUME Init
             PROVE  AdapterInv
  OBVIOUS
<1>1. /\ pc = "cycle" /\ synced = 0 /\ target = 0
      /\ blocks = {} /\ receipts = {} /\ traces = [seen |-> {}, found |-> {}]
      /\ items = {} /\ sink = {} /\ types \in EntityTypeSets
      /\ head = 0 /\ chain = [n \in {0} |-> Block(0, 0, {})]
      /\ forks = 0 /\ depth = 0
  BY DEF Init
<1>2. ChainOK
  <2>1. 0 .. head = {0}
    BY <1>1
  <2>2. chain[0] = Block(0, 0, {}) /\ Block(0, 0, {}) \in Blocks(Nat)
    BY <1>1 DEF Block, Blocks
  <2>3. forks \in 0 .. MaxForks
    BY <1>1, AdapterAssumption
  <2>4. chain[0].number = 0 /\ chain[0].txs = {}
    BY <2>2 DEF Block
  <2> QED
    BY <1>1, <2>1, <2>2, <2>3, <2>4 DEF ChainOK
<1>3. RangeOK
  BY <1>1 DEF RangeOK
<1>4. FetchedOK
  BY <1>1, FS_EmptySet DEF FetchedOK
<1>5. ItemsOK /\ NoTransactionTwice
  BY <1>1 DEF ItemsOK, NoTransactionTwice
<1>6. Settled
  BY <1>1 DEF Settled, SettledFetched, SettledItems, SettledSink
<1> QED
  BY <1>2, <1>3, <1>4, <1>5, <1>6 DEF AdapterInv

LEMMA StutterOK ==
  ASSUME AdapterInv, UNCHANGED vars
  PROVE  AdapterInv'
<1> USE DEF AdapterInv
<1>1. UNCHANGED <<pc, synced, target, fetched, sink, types>> /\ UNCHANGED network
  BY DEF vars
<1>2. head' = head /\ chain' = chain /\ depth' = depth
  BY <1>1 DEF network
<1>3. ChainOK'
  BY <1>1, ChainStays
<1>4. head' \in Nat /\ head' >= head
  BY <1>2 DEF ChainOK
<1>5. Settled'
  BY <1>1, <1>2, SettledStays DEF Stays
<1> QED
  BY <1>1, <1>3, <1>4, <1>5, OthersStay

LEMMA NextOK ==
  ASSUME AdapterInv, [Next]_vars
  PROVE  AdapterInv'
<1>1. CASE StartCycle
  BY <1>1, StartCycleOK
<1>2. CASE \E n \in Requested : FetchBlock(n)
  BY <1>2, FetchBlockOK
<1>3. CASE \E n \in Requested : FetchTraces(n)
  BY <1>3, FetchTracesOK
<1>4. CASE \E x \in Transactions : FetchReceipt(x)
  BY <1>4, FetchReceiptOK
<1>5. CASE Enrich
  BY <1>5, EnrichOK
<1>6. CASE Export
  BY <1>6, ExportOK
<1>7. CASE GiveUp \/ Save \/ Raise \/ \E k \in DOMAIN ExportOrder : ExportRaises(k)
  BY <1>7, EndOK
<1>8. CASE Grow
  BY <1>8, GrowOK
<1>9. CASE Reorganise
  BY <1>9, ReorganiseOK
<1>10. CASE UNCHANGED vars
  BY <1>10, StutterOK
<1> QED
  BY <1>1, <1>2, <1>3, <1>4, <1>5, <1>6, <1>7, <1>8, <1>9, <1>10 DEF Next, Step

LEMMA AlwaysInv == Spec => []AdapterInv
<1>1. AdapterInv /\ [Next]_vars => AdapterInv'
  BY NextOK
<1> QED
  BY InitOK, <1>1, PTL DEF Spec

(* Two items of the chain that have one item_id are the same item: of a block *)
(* there is one per type, and a transaction is in one block only.             *)
LEMMA IdsOfChain ==
  ASSUME ChainOK, NEW m \in 0 .. head, NEW n \in 0 .. head,
         NEW i \in ItemsOf(chain[m]), NEW j \in ItemsOf(chain[n]), ItemId(i) = ItemId(j)
  PROVE  i = j
<1>1. i.type = j.type
  <2>1. ItemId(i)[1] = i.type /\ ItemId(j)[1] = j.type
    BY DEF ItemId
  <2> QED
    BY <2>1
<1>2. /\ chain[m].number = m /\ chain[n].number = n
      /\ \A t \in chain[m].txs : t \in chain[n].txs => m = n
  BY DEF ChainOK
<1>3. ASSUME NEW k, NEW e \in ItemsOf(chain[k])
      PROVE  /\ e = Item(e.type, chain[k].number, chain[k].fork, e.tx)
             /\ e.number = chain[k].number /\ e.fork = chain[k].fork
             /\ e.type = "block" => e.tx = None
             /\ e.type # "block" => e.tx \in chain[k].txs
  BY DEF ItemsOf, Item
<1>4. CASE i.type = "block"
  <2>1. i.number = j.number
    BY <1>1, <1>4 DEF ItemId
  <2>2. m = n
    BY <1>2, <1>3, <2>1
  <2>3. i.tx = None /\ j.tx = None
    BY <1>1, <1>3, <1>4
  <2>4. /\ i = Item(i.type, chain[m].number, chain[m].fork, i.tx)
        /\ j = Item(j.type, chain[n].number, chain[n].fork, j.tx)
    BY <1>3
  <2> QED
    BY <1>1, <2>2, <2>3, <2>4
<1>5. CASE i.type # "block"
  <2>1. i.tx = j.tx
    BY <1>1, <1>5 DEF ItemId
  <2>2. m = n
    BY <1>1, <1>2, <1>3, <1>5, <2>1
  <2>3. /\ i = Item(i.type, chain[m].number, chain[m].fork, i.tx)
        /\ j = Item(j.type, chain[n].number, chain[n].fork, j.tx)
    BY <1>3
  <2> QED
    BY <1>1, <2>1, <2>2, <2>3
<1> QED
  BY <1>4, <1>5

(* EthStreamerAdapter.export_all under the streamer: as long as no            *)
(* reorganisation is deeper than the lag, what the sink holds is the chain's  *)
(* items up to the checkpoint, none missing, none of another fork, and no two *)
(* with one item_id; whichever entity types were asked for.                   *)
THEOREM SinkIsChainTheorem == Spec => []SinkIsChain
<1>1. AdapterInv => SinkIsChain
  <2> SUFFICES ASSUME AdapterInv
               PROVE  SinkIsChain
    OBVIOUS
  <2> USE DEF AdapterInv
  <2>1. Lag \in Nat /\ head \in Nat /\ DOMAIN chain = 0 .. head
    BY AdapterAssumption DEF ChainOK
  <2>2. \A n \in 1 .. head - Lag : n \in 1 .. head /\ n \in 0 .. head
    BY <2>1
  <2>3. TypeOK
    <3>1. synced <= head
      BY <2>1 DEF RangeOK
    <3>2. \A b \in blocks : b.number \in Requested /\ b.txs \subseteq Tx
      BY DEF FetchedOK, Blocks
    <3>3. \A i \in items : i.number \in 1 .. head - Lag
      BY Behind DEF ItemsOK, FetchedOK
    <3>4. \A i \in items \cup sink : i.type \in types /\ i.number \in 1 .. head
      BY <2>2, <3>3 DEF ItemsOK
    <3> QED
      BY <3>1, <3>2, <3>4 DEF TypeOK, RangeOK, FetchedOK, ChainOK
  <2> SUFFICES ASSUME depth <= Lag
               PROVE  OneChain /\ SinkComplete /\ IdsIdentify
    BY <2>3 DEF SinkIsChain, OneChain, SinkComplete, IdsIdentify
  <2>4. SettledSink
    BY DEF Settled
  <2>5. \A i \in sink : i.number \in 0 .. head /\ i \in ItemsOf(chain[i.number])
    BY <2>2, <2>4 DEF SettledSink, ItemsOK
  <2>6. OneChain
    BY <2>1, <2>5 DEF OneChain
  <2>7. SinkComplete
    BY <2>4 DEF SinkComplete, SettledSink
  <2>8. IdsIdentify
    BY <2>5, IdsOfChain DEF IdsIdentify
  <2> QED
    BY <2>6, <2>7, <2>8
<1> QED
  BY <1>1, AlwaysInv, PTL

(* enrich_transactions' count is enough: however deep the chain reorganises   *)
(* while a range is read, a transaction found in two of its blocks is never   *)
(* exported twice.                                                            *)
THEOREM NoTransactionTwiceTheorem == Spec => []NoTransactionTwice
<1>1. AdapterInv => NoTransactionTwice
  BY DEF AdapterInv
<1> QED
  BY <1>1, AlwaysInv, PTL
=============================================================================
