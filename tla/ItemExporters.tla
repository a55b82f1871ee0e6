---------------------------- MODULE ItemExporters ----------------------------
(***************************************************************************)
(* MultiItemExporter over the item exporters of the streaming command, in  *)
(* the streamer's cycle: what the sinks have accepted when the checkpoint  *)
(* moves, and what a retry sends again.                                    *)
(*                                                                         *)
(* The clients of the sinks are external.  Kafka's send and Pub/Sub's      *)
(* publish hand a message to a background thread (`inFlight'); Kinesis may *)
(* refuse records of a call without raising; an INSERT of many rows is one *)
(* statement; an upload replaces its file.  A message whose call is over   *)
(* (`orphan') is still sent, but nobody looks at its future any more.      *)
(***************************************************************************)
EXTENDS Integers, Sequences, FiniteSets

CONSTANTS Outputs,         (* --output: sequences of exporter kinds, one is chosen *)
          TypeOrder,       (* the item types in the order of all_items *)
          TableOrder,      (* ... in the order of item_type_to_insert_stmt_mapping *)
          Bundled,         (* the item types that build_block_bundles keeps *)
          BlockBatchSize,  (* --block-batch-size *)
          ChunkSize,       (* _KINESIS_BATCH_LIMIT *)
          LastBlock,       (* bound: the stream ends here *)
          MaxFailures      (* bound on exceptions, timeouts and crashes *)

Kinds == {"kafka", "kinesis", "pubsub", "postgres", "gcs"}
Types == {TypeOrder[i] : i \in DOMAIN TypeOrder}

ASSUME ExportersAssumption ==
  /\ \A o \in Outputs : o \in Seq(Kinds) /\ o # <<>>
  /\ TypeOrder \in Seq(Types) /\ TableOrder \in Seq(Types) /\ Bundled \subseteq Types
  /\ BlockBatchSize \in Nat \ {0} /\ ChunkSize \in Nat \ {0}
  /\ LastBlock \in Nat /\ MaxFailures \in Nat
(* create_item_exporter's mapping starts with the blocks. *)
ASSUME BlocksFirst ==
  "block" \in Types => 1 \in DOMAIN TableOrder /\ TableOrder[1] = "block"

VARIABLES
  output,    (* kinds of self.item_exporters, in their order *)
  pc,        (* "cycle", "export" or "save" *)
  synced,    (* the checkpoint *)
  at,        (* the exporter whose export_items runs *)
  todo,      (* the items that it has not taken yet *)
  inFlight,  (* exporter -> messages its client has not sent yet *)
  sink,      (* exporter -> items accepted by the sink *)
  given_up,  (* exporter -> items refused or lost without an exception *)
  failures   (* exceptions, timeouts, losses and crashes so far *)

vars == <<output, pc, synced, at, todo, inFlight, sink, given_up, failures>>

Exporters == DOMAIN output
Kind == output[at]
Smaller(a, b) == IF a <= b THEN a ELSE b

Item(b, type) == [block |-> b, type |-> type]
Target == Smaller(synced + BlockBatchSize, LastBlock)

(* all_items, and their order: by type first, then by block. *)
AllItems == [block : synced + 1 .. Target, type : Types]
Before(i, j) ==
  \E p, q \in DOMAIN TypeOrder :
    /\ TypeOrder[p] = i.type /\ TypeOrder[q] = j.type
    /\ p < q \/ (p = q /\ i.block < j.block)

Init == /\ output \in Outputs
        /\ pc = "cycle" /\ synced = 0 /\ at = 0 /\ todo = {}
        /\ inFlight = [e \in Exporters |-> {}]
        /\ sink = [e \in Exporters |-> {}]
        /\ given_up = [e \in Exporters |-> {}]
        /\ failures = 0

-----------------------------------------------------------------------------
(* The cycle.  Each exporter gets all items, one exporter after the other. *)
StartCycle == /\ pc = "cycle" /\ synced < LastBlock
              /\ pc' = "export" /\ at' = 1 /\ todo' = AllItems
              /\ UNCHANGED <<output, synced, inFlight, sink, given_up, failures>>

(* future.result() has returned for every future of this call. *)
Published_Unawaited == todo = {}

Published == todo = {} /\ (Kind = "pubsub" => \A m \in inFlight[at] : m.orphan)

(* MultiItemExporter.export_items: the next exporter, or the end of the loop. *)
NextExporter ==
  /\ pc = "export" /\ Published
  /\ IF at = Len(output) THEN pc' = "save" /\ UNCHANGED <<at, todo>>
                         ELSE at' = at + 1 /\ todo' = AllItems /\ UNCHANGED pc
  /\ UNCHANGED <<output, synced, inFlight, sink, given_up, failures>>

Save_Forgotten ==
  /\ pc = "save"
  /\ pc' = "cycle" /\ at' = 0
  /\ UNCHANGED <<output, synced, todo, inFlight, sink, given_up, failures>>

Save == /\ pc = "save"
        /\ synced' = Target
        /\ pc' = "cycle" /\ at' = 0
        /\ UNCHANGED <<output, todo, inFlight, sink, given_up, failures>>

-----------------------------------------------------------------------------
(* KafkaItemExporter.export_item, GooglePubSubItemExporter.export_item *)
SendOne ==
  /\ pc = "export" /\ Kind \in {"kafka", "pubsub"}
  /\ \E i \in todo :
       /\ \A j \in todo \ {i} : Before(i, j)
       /\ inFlight' = [inFlight EXCEPT ![at] = @ \cup {[item |-> i, orphan |-> FALSE]}]
       /\ todo' = todo \ {i}
  /\ UNCHANGED <<output, pc, synced, at, sink, given_up, failures>>

Without(e, m) == [inFlight EXCEPT ![e] = @ \ {m}]

(* The end of a cycle by an exception, with the messages `left' to the clients. *)
GiveUp(left) ==
  /\ pc' = "cycle" /\ at' = 0 /\ todo' = {}
  /\ inFlight' = [e \in Exporters |-> {[m EXCEPT !.orphan = TRUE] : m \in left[e]}]

(* The client's thread gets a message through. *)
Deliver(e, m) ==
  /\ m \in inFlight[e]
  /\ inFlight' = Without(e, m)
  /\ sink' = [sink EXCEPT ![e] = @ \cup {m.item}]
  /\ UNCHANGED <<output, pc, synced, at, todo, given_up, failures>>

(* ... or not.  Nobody looks at the future of a Kafka send, nor at one of an *)
(* earlier call; one of this call raises out of result().                    *)
DeliveryFails(e, m) ==
  /\ failures < MaxFailures
  /\ m \in inFlight[e]
  /\ failures' = failures + 1
  /\ given_up' = [given_up EXCEPT ![e] = @ \cup {m.item}]
  /\ IF output[e] = "pubsub" /\ ~m.orphan
     THEN GiveUp(Without(e, m))
     ELSE inFlight' = Without(e, m) /\ UNCHANGED <<pc, at, todo>>
  /\ UNCHANGED <<output, synced, sink>>

-----------------------------------------------------------------------------
(* KinesisItemExporter.export_items: chunks; put_records answers with the    *)
(* number of refused records, which is not looked at.                        *)
PutRecords ==
  /\ pc = "export" /\ todo # {} /\ Kind = "kinesis"
  /\ \E chunk \in SUBSET todo : \E accepted \in SUBSET chunk :
       /\ Cardinality(chunk) = Smaller(ChunkSize, Cardinality(todo))
       /\ \A i \in chunk, j \in todo \ chunk : Before(i, j)
       /\ accepted # chunk => failures < MaxFailures
       /\ failures' = IF accepted = chunk THEN failures ELSE failures + 1
       /\ sink' = [sink EXCEPT ![at] = @ \cup accepted]
       /\ given_up' = [given_up EXCEPT ![at] = @ \cup (chunk \ accepted)]
       /\ todo' = todo \ chunk
  /\ UNCHANGED <<output, pc, synced, at, inFlight>>

-----------------------------------------------------------------------------
(* PostgresItemExporter.export_items: one upsert per item type. *)
OfType(type) == {i \in todo : i.type = type}

InsertGroup ==
  /\ pc = "export" /\ Kind = "postgres"
  /\ \E k \in DOMAIN TableOrder :
       /\ OfType(TableOrder[k]) # {}
       /\ \A j \in 1 .. k - 1 : OfType(TableOrder[j]) = {}
       /\ sink' = [sink EXCEPT ![at] = @ \cup OfType(TableOrder[k])]
       /\ todo' = todo \ OfType(TableOrder[k])
  /\ UNCHANGED <<output, pc, synced, at, inFlight, given_up, failures>>

-----------------------------------------------------------------------------
(* GcsItemExporter.export_items: one file per block item, lowest number first, *)
(* with the block's items of the bundled types.                                *)
Stored(e, i) == output[e] = "gcs" => "block" \in Types /\ i.type \in Bundled

Upload_Unsorted ==
  /\ pc = "export" /\ Kind = "gcs"
  /\ \E type \in Types :
       /\ OfType(type) # {}
       /\ sink' = [sink EXCEPT ![at] = @ \cup {i \in OfType(type) : Stored(at, i)}]
       /\ todo' = todo \ OfType(type)
  /\ UNCHANGED <<output, pc, synced, at, inFlight, given_up, failures>>

Upload ==
  /\ pc = "export" /\ Kind = "gcs"
  /\ \E first \in todo :
       LET of == {i \in todo : i.block = first.block}
       IN  /\ \A i \in todo : first.block <= i.block
           /\ sink' = [sink EXCEPT ![at] = @ \cup {i \in of : Stored(at, i)}]
           /\ todo' = todo \ of
  /\ UNCHANGED <<output, pc, synced, at, inFlight, given_up, failures>>

-----------------------------------------------------------------------------
(* An exception of a client, Pub/Sub's timeout of 300 seconds, or one of the  *)
(* checkpoint's write: the cycle starts again, and every exporter gets all    *)
(* items again.  A publisher that is replaced keeps sending what it has.      *)
Raise ==
  /\ pc \in {"export", "save"} /\ failures < MaxFailures
  /\ failures' = failures + 1
  /\ GiveUp(inFlight)
  /\ UNCHANGED <<output, synced, sink, given_up>>

(* The process ends, orderly or not: close() flushes nothing. *)
Stop ==
  /\ failures < MaxFailures
  /\ failures' = failures + 1
  /\ GiveUp([e \in Exporters |-> {}])
  /\ given_up' = [e \in Exporters |-> given_up[e] \cup {m.item : m \in inFlight[e]}]
  /\ UNCHANGED <<output, synced, sink>>

-----------------------------------------------------------------------------
Step == StartCycle \/ NextExporter \/ Save
        \/ SendOne \/ PutRecords \/ InsertGroup \/ Upload
Sent == \E e \in Exporters : \E m \in inFlight[e] : Deliver(e, m)
Fails == \E e \in Exporters : \E m \in inFlight[e] : DeliveryFails(e, m)

Next == Step \/ Sent \/ Fails \/ Raise \/ Stop

Spec == Init /\ [][Next]_vars
LiveSpec == Spec /\ WF_vars(Step) /\ WF_vars(Sent)

-----------------------------------------------------------------------------
Items == [block : 1 .. LastBlock, type : Types]

TypeOK ==
  /\ output \in Outputs
  /\ pc \in {"cycle", "export", "save"}
  /\ synced \in 0 .. LastBlock /\ at \in 0 .. Len(output)
  /\ \A e \in Exporters : sink[e] \subseteq Items /\ given_up[e] \subseteq Items
  /\ \A e \in Exporters : \A m \in inFlight[e] : m.item \in Items /\ m.orphan \in BOOLEAN
  /\ failures \in 0 .. MaxFailures
  /\ todo \subseteq AllItems

Passed == {i \in Items : i.block <= synced}

(* Pub/Sub, Postgres and GCS: when the checkpoint has passed a block, its items *)
(* have been accepted, whatever failed, timed out or crashed on the way, and    *)
(* wherever the exporter stands among the others.                               *)
AcceptedBeforeCheckpoint ==
  \A e \in Exporters : output[e] \in {"pubsub", "postgres", "gcs"} =>
    \A i \in Passed : Stored(e, i) => i \in sink[e]

(* Kafka and Kinesis: what the checkpoint has passed and the sink does not have *)
(* is still in the producer's buffer, or was refused or dropped after           *)
(* export_items had returned.  The code of the exporters loses nothing else.    *)
NothingElseLost ==
  \A e \in Exporters : \A i \in Passed :
    Stored(e, i) => i \in sink[e] \cup given_up[e] \cup {m.item : m \in inFlight[e]}

(* A checkpoint that moved on never leaves an item behind unnoticed. *)
NothingSkipped == TypeOK /\ AcceptedBeforeCheckpoint /\ NothingElseLost

(* Between two statements, and after any failure, the tables hold no row of a  *)
(* block whose blocks row is missing.                                           *)
RowsHaveBlocks == "block" \in Types =>
  \A e \in Exporters : output[e] = "postgres" =>
    \A i \in sink[e] : Item(i.block, "block") \in sink[e]

(* A bundle in the bucket is never without some of its block's items. *)
BundlesWhole ==
  \A e \in Exporters : output[e] = "gcs" =>
    \A i \in sink[e] : \A type \in Bundled : Item(i.block, type) \in sink[e]

(* A reader of the sink never meets a block in part where the exporter orders *)
(* or bundles its items.                                                      *)
NothingHalf == RowsHaveBlocks /\ BundlesWhole

(* With finitely many failures the stream gets to its end and every producer's *)
(* buffer empties: waiting for futures does not block for ever.                *)
EverythingSent == <>[](synced = LastBlock /\ \A e \in Exporters : inFlight[e] = {})
==============================================================================
