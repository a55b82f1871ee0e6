# Specifications of the streaming ETL and of StreamRing

TLA+ models, TLC configurations and TLAPS proofs for the two programs of this
repository: `ethereum-etl-develop` (the `ethereumetl` commands, which export a
chain to files, queues and databases) and `streamring` (a three-tier detector
of fraud rings in a stream of transactions).

- [Inventory](#inventory): the parts of the system, what is hard in them
- [Modules](#modules): how each module corresponds to the code
- [Runs](#runs): what TLC checks, with which bounds, and what it shows
- [Fairness](#fairness)
- [Proofs](#proofs): what TLAPS proves and along which argument
- [Where the code and its documentation disagree](#where-the-code-and-its-documentation-disagree)
- [Not modelled](#not-modelled), [Plan](#plan)

Parse with `tlasany M.tla`, check with `tlc -config X.cfg MC….tla`, prove with
`tlapm …Proofs.tla`. `PROJECT.json` maps each definition to its source lines,
and lists the runs, the hazards and, for each property, a faulty variant of a
definition (`X_Y`, just before `X`) that the property tells from the code.

## Inventory

Paths are below `src/ethereum-etl-develop/` (first group) and
`src/streamring/src/` (second).

| Component | State | Operations | Talks to | What is hard | What makes it correct |
|---|---|---|---|---|---|
| **Streamer** `blockchainetl/streaming/streamer.py`, `ethereumetl/cli/stream.py` | `last_synced_block`, the checkpoint file, the pid file | construct, sync cycle, retry, stop | adapter (items of a block range, or an exception), node (head), operating system (signals) | crashes between export and checkpoint and inside the checkpoint's write; signals inside a retry loop; a node whose answers go back | no block skipped, at most one batch repeated, lag and end block kept, SIGTERM ends it wherever it comes, every due block delivered |
| **Streamer adapter** `ethereumetl/streaming/` | what one call has fetched | `export_all`: blocks, receipts, logs, transfers, traces, joins, export | jobs, exporter | requests to a chain that reorganises between them; types that depend on one another | with a lag no smaller than a reorganisation the sink holds one chain, whole; the checkpoint catches up |
| **Executors** `ethereumetl/executors/`, `utils.py` | semaphore, list of futures, batch size and the time of its change | submit, handle, retry, halve, double, shut down | thread pool, job handlers | threads that share the batch size without a lock; a permit released by either of two threads; failures that surface later | each item handled once, no permit lost, no failure swallowed, it ends |
| **Jobs** `ethereumetl/jobs/`, `blockchainetl/jobs/base_job.py` | item exporter, `_supports_eth_newFilter` | start, export, end | executors, node, exporters | partial exports before a retry; a flag shared by threads; filters that stay on the node | no item more often than the retries explain, a closed exporter is complete, the job ends |
| **Item exporters** `blockchainetl/jobs/exporters/` | clients, buffers | open, export_items, close | Kafka, Kinesis, Pub/Sub, SQL, Cloud Storage | sends that are queued, rejected in part or repeated; one exporter of several that fails | what the checkpoint passes has been accepted |
| **CSV files** `blockchainetl/exporters.py`, `composite_item_exporter.py` | the header flag and its lock, counters, files | export_item, close | pool threads | a flag read outside its lock, a write that raises, a last flush whose error is swallowed | one header, and first; the reported total is not less than the rows in the file, and equal if the last flush succeeded |
| **Block range lookup** `ethereumetl/service/eth_service.py`, `graph_operations.py` | `_cached_points` | `get_block_range_for_timestamps` | node | a chain that grows during and between searches, equal timestamps, stale bounds | exactly the blocks of the range, or a justified exception |
| **Progress logger** `progress_logger.py`, `atomic_counter.py` | counter | start, track, finish | pool threads | an increment that is several steps | 100% is reached and reported |
| **Trace calculators, mappers** `ethereumetl/service/`, `mappers/` | none | pure functions | jobs | trees of calls, answers in any order | a failure is inherited, ids identify, no contract that was rolled back |
| **IPC provider** `ethereumetl/providers/ipc.py` | a socket | `make_request` | node | answers in pieces, timeouts, broken pipes | the answer belongs to the request |
| **export_all** `jobs/export_all_common.py` | files of a partition, `.tmp` | partitions, the jobs of one, clean-up | jobs | files half written by a run that stopped; two lookups of a day on a growing chain | a partition that ends is whole, each block in one file, nothing temporary stays |
| **IFASI index** `subgraph_matching/ifasi_index.py` | two maps of edges, `current_time`, `edge_count` | `insert_edge`, `get_pattern_features` | cascade, batch pipeline | eviction; inequalities along a path of edges | a query cannot tell that edges are evicted |
| **Cascade** `fraud_detection/streamring.py` | graph, node timestamps, features, index, counts | `process_transaction`, `get_statistics` | index, three models | a tier that raises after the state has changed; a subgraph cut at its limit | counts balance, a reported ring is whole |
| **Stream simulator** `streaming/stream_simulator.py` | latencies, results | `run` | cascade | the end of the warm-up, delays across skipped rows | all transactions from the one that ends the warm-up are evaluated, no delay exceeds the stream's time |
| **RDT metrics, labels, graph construction** `evaluation/`, `labeling/`, `graph_construction/`, `experiments/compute_rdt.py` | none | batch computations | data frames | definitions of "before the ring completes"; one time per pair; what a score is divided by | rings partition, a member is early exactly when its alarm came first |
| **Streaming experiments** `experiments/lstm_tier3.py`, `streaming_simulation.py`, `graphsage_tier3.py`, `baselines.py`, `tier2_diagnostic.py` | weights and their best copy, running graph, tallies | train with early stopping, one pass through the tiers | models | copies against references, early exits that update some counters only | the best epoch is restored, the tables' columns are about the same edges |
| **GNN models, other experiments** | weights | cross validation, plots | – | numerical | – |

How they interact. The streamer owns the checkpoint and calls the adapter,
which runs one job per kind of item; a job hands its handler to a
`BatchWorkExecutor`, whose pool threads call the node and the exporter; an
exception climbs back through the future, `FailSafeExecutor`, the job and the
adapter to the streamer's cycle, which sleeps and tries the same range again.
In `streamring`, the simulator calls `process_transaction` once per row; that
updates the graph, inserts into the index, asks the index for features, and
calls up to three models.

The hazards that follow from this, each at its line, are listed in
`PROJECT.json` with the properties that cover them.

## Modules

| Module | Models | Extends or instantiates |
|---|---|---|
| `BlockStream` | what the streaming command promises: a resumable, at-least-once stream of blocks | – |
| `Streamer` | the streaming process with its files, signals, crashes and relaunches | `Stream == INSTANCE BlockStream` |
| `BatchWork` | `BatchWorkExecutor` over `FailSafeExecutor` over `BoundedExecutor` over a thread pool | – |
| `BlockRange` | `EthService` over `GraphOperations` and a growing chain | – |
| `IFASI` | the pattern index | – |
| `Cascade` | `process_transaction` and its state | `IFASI` |
| `Simulator` | `StreamSimulator.run` | – |
| `EthStreamerAdapter` | `export_all` of the streaming command in the streamer's cycle, over a chain that reorganises | – |
| `ItemExporters` | `MultiItemExporter` over five kinds of exporters in the streamer's cycle | – |
| `NodeJobs` | the geth traces job over `BatchIPCProvider`, the token transfers job with its filters, `BaseJob`, the progress logger | – |
| `Traces` | trace statuses, ids, the flattening of geth's trees, contracts out of traces | – |
| `RingTimeliness` | from a temporal graph through labels and rings to both timeliness scores | – |
| `FileExporter` | a CSV file of `CompositeItemExporter` under pool threads | – |
| `ExportAll` | the partitions and files of `export_all` over several runs | – |
| `Training` | the training loops with early stopping | – |
| `StreamEval` | warm-up and the one pass of the streaming experiments | – |
| `StreamerProofs`, `BatchWorkProofs`, `EthStreamerAdapterProofs`, `NodeJobsProofs`, `IFASIProofs` | theorems about the module of that name | the module and `TLAPS` |
| `RangeProofs` | theorems about `BlockRange` and `ExportAll` | both and `TLAPS` |
| `ExportersProofs` | theorems about `FileExporter`, `ItemExporters` and `Traces` | the three and `TLAPS` |
| `StreamRingProofs` | theorems about `Cascade`, `Simulator`, `Training`, `StreamEval` and `RingTimeliness` | the five and `TLAPS` |
| `MC…` | constants for TLC; `MCOffline` holds the nine parts that share nothing with one another: `on` picks the part that runs, the others stay idle | the modules |

**Streamer.** `pc` is the statement the process is at: the constructor
(`init_write`, `read`), the first statements of `stream` (`start`, `open`), the cycle
(`loop`, `cycle`, `export`, `save`, `write`, `sleep`), the `finally` (`close`,
`delete`), and no process at all (`down` after the last statement, `dead` otherwise:
killed, or an exception out of the constructor or the `finally`). `Launch` is the
constructor's test of `--start-block` against the file. `open(file, 'w')` followed by
`write` is two steps with an empty file (`Torn`) between them. The adapter sends the
items of leading blocks step by step (`ExportSome`), and may raise or be interrupted at
any of them. `DeletePidFile` may leave the file, since `delete_file` swallows an
`OSError`. `Terminate` is SIGTERM: `SystemExit` passes the `except Exception` of the loop
and leads to the `finally`; in the constructor, in the `finally` or before the `try` it
ends the process. `signal` follows it; `SignalReplaced` is a `finally` on its way (a job's
`_end`, the close of a file) that raises an exception in its place, which the loop does
catch. `Kill` has no `finally`. The node may answer with any head up to the real one until
`stable` is set. History variables: `delivered` (the block numbers that reached the
sink), `saved` (the last number the file held), `origin`, `signal`.

**BatchWork.** One action per step between which another thread can run. The
main thread cuts a batch (`Fill`), looks for failed futures (`Check`), takes a
permit (`Acquire`), submits (`Enqueue`) and registers the callback, which runs
at once if the future is already done (`AddCallback`); then `Join` and
`LastCheck` are `shutdown`. The work iterable may raise (`FillRaises`), and so may
`submit`, after which the permit goes back (`EnqueueRaises`); `own` remembers that the
exception is the main thread's. A pool thread handles its batch; on a retriable
exception it may halve the shared size (`ReadForDecrease`, `Halve`,
`NoteHalved`: read, write and time stamp are separate steps) and retries item by
item. `handled` counts for each item how often a handler returned for it. What a
handler sends before it raises depends on the job: `NodeJobs` has it.

**BlockRange.** A point is a block, its timestamp is `ts`. `Init` picks any
chain and any head; `Grow` adds a block between any two steps. `interpolate`
rounds a float and `bound` puts the result strictly between the two ends, so an
estimate is any block strictly between them: what is shown does not depend on
the interpolation (`Between`). The second estimate's `ValueError` for a search without
bounds is there as well; `ErrorsJustified` says it is never raised. `Lookup` chooses among the pairs of cached neighbours that
`find_best_bounds` can return.

**IFASI.** A map from nodes to lists of edges is the set of its edges, each with
the number of its insertion; counts do not depend on the order of a list. `all`
is the index that would never evict.

**Cascade.** Extends `IFASI`: its index is that module's, with the same constants. A transaction passes the stages `tier1`, `tier2`, `tier3`, so that
the stage at which a tier raises is visible. The graph update and the insertion
into the index are one step (one thread, nothing in between can observe it). A
model's answer is any answer; a feature vector is its length, because two lengths
in one graph make `_run_tier2` raise outside its `try`. `TwoHops` is
`k_hop_subgraph` with its default flow, which follows edges from target to
source; `ClosedBy` are the rings of two and of three that a transaction closes.

**EthStreamerAdapter.** A block is its number and the fork it was mined on, which
stand for its hash; a transaction may move to another block or vanish when the
chain reorganises (`Reorganise`). A call of `export_all` asks block by block
(`FetchBlock`), then for receipts by transaction hash (`FetchReceipt`), then for
traces by number again (`FetchTraces`), as far as `_should_export` says (`Should`);
`Users(t)` are the types for whose sake `t` is fetched. `Enrich` is the inner joins of
`enrich.py` and their comparison of lengths (`CountsAgree`), which raises (`GiveUp`). `ExportRaises` leaves any part of the items
in the sink. What was fetched is local to the call: each way out of it forgets it.

**ItemExporters.** `at` is the exporter whose `export_items` runs and `todo` what it has
not taken, a set that each kind takes from in its own way, item by item in the order
`Before`, in chunks, or by type. `inFlight` is what a Kafka producer or a Pub/Sub publisher has queued; when
the call or the process is gone its messages are orphans that may still arrive.
Kinesis may refuse records of an accepted call; Postgres takes one statement per
table; Cloud Storage replaces a file per block.

**NodeJobs.** A thread's socket has requests the node still answers (`pending`) and
answers in two chunks (`incoming`). `Timeout` and `SendRaises` leave `with
self._socket`, which closes the connection. `Returned` and `Raised` are what the
executor does with a handler that returned or raised: next item of the retry,
another try, or a failed future. `ItemRaises` is an exception between the items of a
response, of the mapper or the exporter. `exported` counts how often items of a block were
exported. `implements` is what the node says to `eth_newFilter`; nodes behind one
address may disagree.

**Traces.** A call is its address in the tree of its transaction. The trees are any: they
are made while they are gone through, `toIterate` being the calls still to come in the
open loops of `_iterate_transaction_trace`. The answer of a Parity node (`Answer`) has
these calls and the block's rewards in any order, with any of them missing, since nothing
in the calculators asks for either. `Visit` is one turn of the loop over `sorted_traces`,
`ParentMissing` the `ValueError` of a call whose parent the answer lacks.

**RingTimeliness.** Edges arrive in the order of `edge_time`; a classifier sees only
the two ends of an edge, so its answer is any set of pairs; labels by thresholds are
any of `KnownLabels`. `Reach` is the least set that no edge leads out of, which is what
the breadth-first search of `find_fraud_rings` collects. A weight of one is `Scale` units,
which every duration divides, so that the weighted score is exact; a weighted sum counts
units (`TotalWeight`).

**FileExporter.** One action per step of the double-checked lock, of the row and of
the counter. The file is buffered: `written` are the lines its writer accepted, of which
the first `flushed` are in the file; a full buffer is written out before a line is put
into it. A write may raise after part of the buffer went out, which gives the lock back
and leaves the flag up. `Close` flushes the rest, or part of it: `close_silently`
swallows the error, and the total is logged all the same.

**ExportAll.** Each job writes one file from what an earlier file holds (`Written`);
`todo` is the set of partitions to come, taken in their order. A day's two ends are looked
up in two steps with new blocks between them (`LookupStart`, `LookupEnd`); a day that is
not `Covered` by the chain is refused, as is one without a block of its own, and a start that is
looked up too early begins at genesis. `JobStops` leaves any part of the file, `Killed`
stops between two jobs, `Run` starts again. `JobTruncates` is a job that goes on although
the last flush of its file failed; the temporary files of `extract_csv_column_unique` are
closed by `with`, which raises.

**Training, StreamEval.** The parameters of a model are the number of steps its
optimizer has taken; scores, losses and the models' answers are any, the same for the
same parameters. `StreamEval` keeps the running graph, `node_ts_dict` and the tallies
of `_run_cascade`, and looks at one subgraph at a time. The same loops, line by line
apart from names, are in `streaming_simulation.py` and `graphsage_tier3.py`.

**Simulator.** One step per row: skipped, processed, or raising. A delay is the
difference of two timestamps; `MaxDelay` is the 10 seconds; `slept` is the sum of what
`run` has slept.

## Runs

| Run | What it asks | Bounds, and why they are enough |
|---|---|---|
| `streamer` (`MCStreamer.cfg`) | nothing skipped, one batch replayed at most, lag and end block kept, SIGTERM not retried, `BlockStream` implemented, every due block delivered | batch 2, lag 1, end block 4, head up to 6: from block 0 or 1 there are two full batches, a short last one, and a chain that outgrows the end block. Faults are unbounded; only `head` counts. Until the stream reaches the end block it is the stream without one |
| `streamer_torn` | *violated*: the checkpoint file of a stopped process holds a number | head up to 2 |
| `streamer_sigterm` | *violated*: a process that was sent SIGTERM exports nothing more | head up to 2 |
| `executors` (`MCBatchWork.cfg`) | each item handled once, permits balance, failures surface at once, batch size in range, every job ends | two threads, three permits, five items in batches of 2 and 1: two sizes at once and, after a halving, a fourth batch that waits for a permit; two attempts per item |
| `block_range` (`MCBlockRange.cfg`) | ranges complete and exact, exceptions justified, searches end | every chain of four blocks with timestamps 0..5, every head, two calls, so that the second finds a stale cache. Between the first and the last block there are two more, so both estimates happen. Longer chains are covered by the theorems |
| `block_range_race` | *violated*: a returned range holds no block outside the timestamps | three blocks, one call |
| `simulator_warmup` | *violated*: none of the warm-up's transactions is evaluated | three rows, warm-up of two |
| `rdt_score` | *violated*: RDT is a fraction of the members of the rings | two accounts, three transfers |
| `adapter` (`MCEthStreamerAdapter.cfg`) | one chain, whole, under identities; no transaction twice; the checkpoint catches up | lag 1, ranges of two blocks, head up to 4, one reorganisation of up to three blocks: shallower than the lag, as deep, and deeper, at any point of a call. One transaction that moves, vanishes or stays: requests of different transactions do not interact. Six choices of entity types, along each chain of `_should_export`; no bound on failures |
| `sinks` (`MCItemExporters.cfg`) | what the checkpoint has passed was accepted; no row without its block, no bundle in part; everything is sent in the end | two cycles of one block with three types, one of which is not bundled; three lists of two exporters, so that each kind stands before or after another; two failures, so that a retry fails as well |
| `node_jobs` (`MCNodeJobs.cfg`) | answers belong to requests, what retries cost, what a closed exporter and a finished job promise, it ends | two threads, batches of two blocks and of one, two tries, three faults: a lost connection, a failing retry and one more for the other thread; nodes that agree and that do not |
| `offline` (`MCOffline.cfg`) | the nine parts of `MCOffline`, one to three properties each | given by part below |

The parts of `offline`:

- Traces: up to four of them, calls and rewards, so any trees with a branch, a depth of
  two or several transactions, calls that succeed, fail or create, two rewards with or
  without a tie, and every answer.
- Files: three threads with two items each.
- `export_all`: two days of two blocks, an empty day and a block of the day after; two runs,
  one file of a run that loses its end (`MaxTorn`); ranges of blocks and of dates. The
  chain grows at any moment, so days are refused, and looked up too early.
- Rings: three accounts, three edges, three timestamps.
- Training: by AUC every epoch and every second one, by loss; patience two.
- Experiments' stream: three nodes, four edges, subgraphs of at most two or three nodes. With a
  warm-up this short the cut of a training subgraph does not occur; the theorem covers it.
- Simulator: five rows, warm-up of two, delays around the cap of 3.
- Index: three nodes, three edges in any order, timestamps 0..4, gap 2, window 3, clean-up
  at the third insertion: a ring of three, and a transfer, a newer one and a late one
  back. The clean-up of longer streams is covered by the theorems.
- Cascade: three nodes, three edges with timestamps up to `CascadeTime`, vectors of two
  lengths on two nodes, so that Tier 2 raises, and subgraphs cut to two nodes, so that a
  ring of three loses one. The third transaction brings no new vector and is not a transfer
  of an account to itself.

Deadlock is not checked (`CHECK_DEADLOCK FALSE`): a job returns, a search is
answered, a stream of transactions ends, and the bounded chain stops growing.

What the main properties say:

- `NoGap`: from the first block of the stream to the number in the checkpoint
  file, every block has reached the sink, whatever crashed before.
- `BoundsRespected`: nothing beyond one batch after the checkpoint was ever sent, so
  this is all a restart can repeat, and nothing closer to the head than the lag or
  beyond the end block, whatever head the node answered.
- `ImplementsStream`: each step of the process is a `Begin`, a `Deliver`, a `Commit`
  of `BlockStream`, or none of them.
- `PermitsBalance`: a permit is held from `acquire` until the callback, whichever
  thread runs it.
- `SignalObeyed`: from the SystemExit of a SIGTERM on, whichever statement it came in,
  nothing is exported, the checkpoint stays as it is, and if nothing else fails the pid
  file is gone with the process. `SigtermStops` asks the same of the signal rather than of
  its exception, which the code does not give (`streamer_sigterm`).
- `FailureSurfaces`: a job that returns had no failed batch and no exception of its own,
  one that raises had one of them, and after a batch has failed at most one more is
  submitted.
- `RangeExact`, `ErrorsJustified`: refer to the chain as it was at the call (`seen`),
  which is what a caller can know; a search never runs out of bounds to begin with.
- `EvictionTransparent`: once something was evicted, for each reference time that is late
  by no more than the window allows, all features equal those of `all`. Before that the
  maps are the same.
- `RingMembersComplete`: if the current transaction closes a ring of two or three,
  `ring_members` has all its nodes, except those above the cut: a missing node, be it the
  payer, has `MaxSubset` nodes with smaller numbers within two hops.
- `EvaluatesTheRest`: the transactions evaluated are, in order, those from the one that ends
  the warm-up; none for a warm-up of 0. `WarmupFirst` is what the docstring says instead
  (`simulator_warmup`).
- `TimelinessHolds`: a member counts as early exactly when its first alarm came before its
  ring's last transfer, and the weighted score is at most the plain one. Both divide
  by the detected members; `ScoreIsOfMembers` is the fraction the docstrings
  describe (`rdt_score`).
- `SinkIsChain`: while no reorganisation is deeper than the lag, the sink never holds
  an item of an abandoned fork, up to the checkpoint it holds all the asked types of
  the chain, and equal `item_id`s are equal items. `NoTransactionTwice` needs no lag.
- `NothingSkipped`: for Pub/Sub, Postgres and Cloud Storage what the checkpoint has
  passed was accepted; Kafka and Kinesis lose what is in a buffer that is never
  flushed and what is refused, and nothing else.
- `RetriesBounded`: a retried batch exports no block more than twice (geth traces,
  whose items come last) or once more than there are retries (transfers, whose call
  to uninstall the filter comes after the items); filters left on the node are those
  of failed calls, if the nodes agree on `eth_newFilter`.
- `EndedIsComplete`: an exporter that is closed after it was opened holds every block,
  and the job has then reported 100%, although threads count in turns.
- `StatusesDecide`: a call failed exactly if it or a call above it has an error, in any
  order of the answer, and a call whose parent is missing is not guessed; contracts are
  creations that were not rolled back.
- `IdsIdentifyTraces`: no two traces of a block share an id, and a trace keeps its own in
  another order of the answer, up to rewards that are alike.
- `FileIsWhole`: the first line of the file is the header and no other line is, and the
  logged total is the number of rows, or more if the last flush failed.
- `PartitionsComplete`: a partition that reached its end with all its files flushed holds
  exactly what the chain has for it.
- `DiskIsClean`: after a run that finished each block asked for is in a file, in two only if
  one of them begins at genesis because its day was looked up too early, and the
  temporary files of stopped runs are gone.
- `EarlyStopping`: the parameters put back are those of the first best epoch, and the loop
  stops exactly when the patience is used up.
- `SubgraphTimes`: in the stream a node's time is that of its last edge, also of edges that
  tier 1 let pass; in training it is that of its last edge inside the subset.

A property whose parts are about one promise is their conjunction; the parts are
definitions of their own, the type invariant among them.

## Fairness

- `Streamer`: weak fairness of the process's own steps (one thread that runs), of
  its relaunch without `--start-block` (the command is meant to be run by a
  supervisor), and of `Stabilise`: the faulty period ends. No fairness of the
  chain: `EventuallyDelivered` is about blocks that exist. It exempts one outcome,
  the empty checkpoint file, from which no relaunch recovers.
- `BatchWork`: weak fairness of the threads together: as long as one of them can run, the
  operating system runs one of them. `Cooldown`, the passing of time, has none.
- `EthStreamerAdapter`: weak fairness of the cycle's steps, and from some time on
  nothing else happens than these and new blocks: failures and reorganisations end, as
  for `Stabilise`.
- `ItemExporters`: weak fairness of the process and of the producers' threads; failures
  are finitely many (`MaxFailures`).
- `NodeJobs`: weak fairness of the main thread, of each pool thread or the timeout of its
  request, and of the node's answers on a connection that lasts; faults are finitely many
  (`MaxFaults`).
- `BlockRange`: weak fairness of the search (the thread runs and the node answers;
  a failing request ends the call as well). Which estimate is made is left open.

The parts of `MCOffline` are driven by their callers and have no liveness property.

## Proofs

Every safety and action property that a run checks and that holds is also a theorem:
TLC shows it on a small instance, TLAPS for every value of the constants. `PROJECT.json`
lists them under "theorems", by property.

**Assumptions.** Each module with constants has one named `...Assumption` (`Streamer` and
`FileExporter` have two, `ItemExporters` has `BlocksFirst` as well), and TLC evaluates it
for the values of each run. Most only give the constants their types. Those that say
more:

| Assumption | What it says | Where it comes from |
|---|---|---|
| `SentinelAssumption`, `AdapterAssumption` | `None`, a missing and a torn file are no numbers and no transactions | Python's `None` and file contents |
| `BlocksFirst` | the first table of an insert is that of the blocks | the mapping of `create_item_exporter`; `NothingHalf` says no row without its block |
| `ExportAssumption` | days do not decrease along the chain, and blocks are numbered from 0 | timestamps increase along a chain |
| `TrainingAssumption` | the patience of a loop by AUC is positive | the values in the code; with 0 "the last `patience` epochs" are none, and `EarlyStopping` says nothing |
| `RingsAssumption` | every duration divides `Scale` | states that the scores are fractions; `MaxTransfers` and `LastTransfer` stay arbitrary |
| `BatchWorkAssumption`, `JobsAssumption`, `ThreadsAssumption` | finitely many threads, and at least one where there has to be | `max_workers` |

No theorem has a premise besides these. Bounds such as `MaxHead`, `MaxFaults` or
`MaxTraces` are constants like the others, so the theorems hold for each value of them.

**StreamerProofs.** The safety properties are not inductive: what `target`
promises and what the process remembers must agree with the disk. `IInv` adds
`DiskInv` (the file holds `saved` unless it is missing or torn; before the stream
begins nothing was delivered) and `ProcInv` (`last = saved` while streaming;
between the computation of `target` and the write, `target` obeys all four bounds
of `_calculate_target_block`, and after the export the whole range is delivered).
`TargetBounds` is the lemma about that function. `CheckpointAdvances` and the
refinement (`Refinement == Spec => ImplementsStream`) follow step by step from
`IInv`. `SignalObeyed` has an invariant of its own (`SignalInv`): while a `SystemExit` is
raised, the process is in the `finally` or gone.

**BatchWorkProofs.** All four safety properties of the executor, for any number of
threads, items, permits and retries. The invariant grows in three layers. `Shape`
bounds the size of every batch and of what a thread is about to write; it has to
mention the threads because a size is read in one step and written in another, and it
gives `BatchSizeInRange`. `Placement` says where a submitted batch is (queued, with
exactly one thread, or done), that a failure stays in a future until `submit` or
`shutdown` meets it, that an exception of the main thread's own makes it raise, and that
at most one batch is late: `FailureSurfaces`. `Handling`
adds that batches are disjoint and that what is handled of a batch follows from where
it is and how far its thread got: `ExactlyOnce`. `Balance` counts permits over the same
places: `PermitsBalance`.

**EthStreamerAdapterProofs.** For every chain, lag, choice of types and number of
reorganisations of any depth. `SinkIsChain`: blocks up to `head - Lag` do not change as
long as no reorganisation was deeper, and a cycle only asks for those, so all it fetched,
at whatever moments, is of the chain as it stands (`Settled`). From there each join
gives exactly the items of its block. `NoTransactionTwice` holds at any depth, and by a
count (`JoinedOnce`): a transaction read in two blocks was asked for twice and has two
receipts, so the inner join by hash has four pairs where two were asked for. The
comparison of lengths in `enrich.py` would not notice that if other transactions were
missing; but a receipt that does not come raises before, so no join is short of any.

**NodeJobsProofs.** For any number of threads, blocks, retries and faults. `AnswerIsOurs`:
`Exchanged` says where the answer to a thread's request is: not asked for, with the
node, on the socket, or half read; and that outside of a request nothing is under way,
which holds only because a timeout closes the connection. `RetriesBounded` and
`EndedIsComplete` need `JobInv`: a thread is at all of its batch or at one block with
those after it still to come (`Loops`), batches of threads are disjoint (`Apart`), and
the number of times a block was exported is bounded by where its thread is and how often
it has tried (`Tried`); `Counts` says that the counter is the number of blocks whose
threads have counted them, which is why the last of the turns sees 100%; `Filters` that
the filters on the node are those that threads hold and those of faults.

**RangeProofs**, `BlockRange`. `IInv` says what is known at each place of the search:
bounds inside the chain with the timestamp between them (`SearchInv`, `SecondInv`), the
answer for the start either a bracket of its timestamp or a proof that it lies
outside the chain seen at the call (`StartInv`). Its last part (`AnswerInv`) is
`RangeExact` and `ErrorsJustified`. The proofs hold for chains of any length and for any
estimates. `ExportAll`: `ExportInv` says that the files written so far by the current
partition's jobs hold what they should unless one was torn (`CurrentOK`), whatever an
earlier run left in their place, since each job writes its file anew; that the first
block of a day, once looked up, is the right one or genesis, however the chain grew since
(`DayLookedUp`); and that a partition the run has passed is complete or torn and has nothing
temporary left (`RunOK`). `DiskIsClean` then needs that two partitions of one kind of
request meet in no block (`FilesApart`), which for days is the order of timestamps, and
fails only for those that begin too early.

**IFASIProofs.** The invariant `Unevicted` says that both maps hold each edge not
older than the window and none that was never inserted. `QueriesAgree` shows that
two sets of edges that agree from some time on give equal answers to each query
that does not look back further; the theorems about eviction and the two about
rings follow, for every gap, window, clean-up interval and order of arrival.

**ExportersProofs**, `FileExporter`. `HeaderInv` says who may be where while the flag is
up (no line, or the header of the one thread that is about to clear it), so that a row
is written only after the header (`OneHeader`); what is flushed are the first of these
lines. `TotalInv` says that the counter lacks exactly the rows written whose threads are
about to count; when `close` reads it there is no such thread, and the file has at most
these rows.
`ItemExporters`: `SinksInv` follows one cycle. The exporters before `at` have dealt with
every item (`Dealt`), and the running one with all but `todo` (`Taken`); the two differ
for Pub/Sub, whose client has what was published until its futures return. With that,
what the checkpoint passes was accepted (`NothingSkipped`), and `NothingHalf` follows
from the order in which each kind writes. `Traces`: `TracesInv` says that what is still
to come of a transaction is after all that has come (`Ordered`, `Walk`), so that no call
comes twice (`Distinct`) in any order of the answer, and that the status of a visited
call is final (`Final`): the loop visits by depth, so a call's parent had its final status
before it. `IdsIdentifyTraces` needs in addition that a rank counts what comes before.

**StreamRingProofs**, `Cascade`. `Ledger` is `CountsBalance` with the transaction in
progress counted at its stage. `TimeInv` adds to `NodeTimeIsLatest` that no edge is newer
than the index's current time. `RingInv` says of a reported ring that
its members are the subgraph around the transaction's source, computed with the
transaction already in the graph. By `RingWithinTwoHops` a ring that the transaction
closes is part of its neighbourhood, so a node that is missing was cut, which by the
order of the numbers takes `MaxSubset` smaller ones: `RingMembersComplete`.
`Simulator`: `WarmInv` ties the flag `isWarmup` to the count of processed
transactions, for a warm-up of 0 too; `OneMore` is the step of the sequence of evaluated ones
(`EvaluatesTheRest`). `PaceInv` compares what was slept with how far `prev_sim_time` has
moved since the warm-up (`NeverSlower`). `Training`: `TrainInv` names the epoch whose
parameters are kept, the first of the best ones; the patience counter is the number of
epochs since, which makes the loop's test the one of `Stale`. `StreamEval`: `Counting`
is the balance of the three tallies, all of them with the number of edges since the
warm-up (`TalliesAgree`); `LatestTime` follows the dictionary of node times through edges
that leave the loop early (`SubgraphTimes`). `RingTimeliness`: over a symmetric relation
the sets `Reach` are the classes of an equivalence (`ReachSame`), so the rings found so far
are classes, disjoint, and what is unvisited is a union of classes (`RingsOK`): together
`RingsExact`. `LastInside` and `FirstAlarm` say what completion and detection times are
while edges are replayed, from which `TimelinessHolds`, with the weighted sum compared
unit by unit.

**Only model-checked:** the six liveness properties (`EventuallyDelivered`, `Terminates`,
`SearchEnds`, `CatchesUp`, `EverythingSent`, `RunEnds`), because liveness under fairness
is out of the prover's reach; and, by their nature, the five properties that the code
violates.

## Where the code and its documentation disagree

The first five have a run that shows them.

1. `streamer.py:137`: the checkpoint is truncated before it is written; a kill in
   between leaves an empty file, and the next start raises in the constructor
   (`streamer_torn`).
2. `base_job.py:30`: a SIGTERM inside an export raises SystemExit; `BaseJob.run` then runs
   `_end`, whose exception for a batch that failed takes its place, and the retry
   loop goes on, against `streaming_utils.py:10` (`streamer_sigterm`).
3. `eth_service.py:47`: a start timestamp after the latest block is treated like one
   before the first block. If a block arrives before the search for the end asks
   for the latest block again, the result begins at block 0 (`block_range_race`).
4. `stream_simulator.py:124`: the last transaction of the warm-up is evaluated, and with
   `warmup_transactions=0` none ever is, against lines 26-27 (`simulator_warmup`).
5. `metrics.py:63`: RDT is divided by the detected members, where `metrics.py:37` and
   `compute_rdt.py:4` say it is the fraction of the rings' members (`rdt_score`).

Others, visible in the definitions or met while reading.

The exporting commands:

- `eth_streamer_adapter.py:92`: `sort_by(enriched_blocks, 'number')` is given a string where a
  tuple is expected, so the keys are its characters, all missing: blocks stay in the order
  in which the threads fetched them.
- A reorganisation deeper than the lag, between two requests, is joined by block number
  without a look at hashes: `SinkIsChain` has the premise `depth <= Lag` for that.
- The tokens table has a column that no item provides, withdrawals have no column.
- Traces taken from geth get no status, `trace_id` or `transaction_hash`, so
  `extract_contracts` finds no contract in them; `create2` is not `create`.
- Load-balanced nodes that disagree on `eth_newFilter` leave filters behind; a failing
  `eth_uninstallFilter` exports the transfers again with each retry; the exporter is
  not closed when a handler failed.
- `export_all` refuses a date that is not over (`OutOfBoundsError`, `eth_service.py:53`), with
  what was exported of the dates before it; a date whose first block is looked up before
  it exists is exported from genesis (3. above). A rerun truncates files of partitions
  that were complete.
- `composite_item_exporter.py:76`: `close_silently` swallows the error of a file's last flush
  and the total is logged as if it had succeeded, so it may exceed the rows in the file.
- `streamer.py:112`: the pid file stays when `adapter.close()` raises, when a second SIGTERM
  comes in the `finally`, or when the file cannot be deleted.
- `progress_logger.py:53`: the comment names one race, a percentage printed twice; since
  `increment(n)` adds one at a time, threads that take turns may also skip one (not the
  last, `EndedIsComplete`).

The detector:

- `pipeline.py:219`: features are asked of the index after all edges were inserted, when
  the edges of nodes that have not been active lately are evicted.
- `streamring.py:248`: `subset[:300]` keeps the lowest node ids, and may drop the sender.
- `stream_simulator.py:114`: a delay of 10 seconds or more is skipped, not capped (`Pause`).
- `Cycles3`: first edges are at most `max_temporal_gap` old, where
  `pattern_templates.py:54` gives a ring twice that span. `Cycles2`: two transfers of an
  address to itself are a 2-cycle, where `pattern_templates.py:44` asks for two nodes.
  `count_chain` always returns 0.
- `TwoHops`: the receiver need not be in the "2-hop subgraph around src" of
  `streamring.py:223`. `HasSubgraph`: the size is checked before the cut, not after,
  against `streamring.py:225`.
- `temporal_graph.py:111`: traces have no `block_timestamp`, so their edges get the time
  0; failed and root calls are kept as transfers.
- `compute_rdt.py:59` keeps the last time of a pair, so `start_time` may be later than the
  first transfer; its "Replay remaining 40%" replays all edges.
- Tier 3's loop by loss compares sums over the batches that did not raise, so an epoch
  with exceptions looks better.
- Node timestamps come from the subset's edges in training and from all edges in the
  stream (`SubgraphTimes` states both).
- `streaming_simulation.py:342`: "Use warmup graph + some recent edges", but the window is
  the last `warmup_n + 10000` edges, so warm-up edges drop out.

## Not modelled

- The numerical models and the experiments that only train, cross-validate, sweep or
  plot (`generate_final_figures_v2.py`, `allout_v3.py`, `temporal_baselines.py`,
  `augmentation_ablation.py` and the like): straight-line arithmetic on tensors and data
  frames, in which no step depends on an order, a failure or another actor. A
  model's answer is any answer. Their loops with early stopping are those of `Training`.
- `mainnet_genesis_alloc.py` and `mainnet_daofork_state_changes.py`: tables of constants,
  a third of the implementation's lines.
- `ethereumetl/ipfs/`, the BigQuery extractor: one request and its answer.
- Command-line parsing, and the mappers that copy fields.
- `ThreadPoolExecutor`, `k_hop_subgraph`, the node, the sinks and the operating
  system are modelled from how the code uses them.
- A pool that has queued a batch when starting a thread for it fails: `EnqueueRaises` is a
  `submit` that raises before it queues.
- Time in `BatchWork` is only "within the cooldown" or "after it".
- Amounts, gas, inputs and the other fields of items.

## Plan

1. `EthStreamerAdapter` as the `ExportAll` step of `Streamer`: the composition implements
   `BlockStream` as long as reorganisations respect the lag.
2. An abstract executor, a pool that handles each item at most as often as its retries
   allow, which `BatchWork` implements and over which `NodeJobs` is stated, instead of
   the shortened executor in it.
3. An abstract index without eviction as a specification of its own, and `IFASI` shown to
   implement it for queries near the newest transaction.
