------------------------------- MODULE NodeJobs -------------------------------
(***************************************************************************)
(* Two jobs that ask a node for the blocks of a range: ExportGethTracesJob *)
(* over BatchIPCProvider, and ExportTokenTransfersJob with its filters on  *)
(* the node.  BaseJob.run, the retries of a batch and the progress logger  *)
(* are here; permits, futures and the size of the batches are in BatchWork.*)
(*                                                                         *)
(* Each pool thread has its own provider (ThreadLocalProxy), hence its own *)
(* connection.  The socket of web3's IPCProvider is external: an exception *)
(* that leaves `with self._socket' closes it.  An answer arrives in two    *)
(* chunks.  The exceptions of RETRY_EXCEPTIONS are the retriable ones.     *)
(***************************************************************************)
EXTENDS Integers, Sequences, FiniteSets

CONSTANTS Workers,     (* max_workers threads *)
          LastBlock,   (* end_block; start_block is 1 *)
          BatchSize,   (* batch_size *)
          MaxRetries,  (* max_retries *)
          MaxFaults    (* bound on lost connections, errors and late answers *)

ASSUME JobsAssumption ==
  /\ IsFiniteSet(Workers) /\ Workers # {}
  /\ LastBlock \in Nat /\ BatchSize \in Nat \ {0}
  /\ MaxRetries \in Nat \ {0} /\ MaxFaults \in Nat

VARIABLES
  job,         (* "geth_traces" or "token_transfers" *)
  implements,  (* what the node, or the nodes behind one address, say to eth_newFilter *)
  main,        (* the thread of run() *)
  exporter,    (* "new", "unopened" (open raised), "open" or "closed" *)
  submitted,   (* batches submitted *)
  taken,       (* batches taken by a thread *)
  failed,      (* some future holds an exception *)
  worker,      (* thread -> its local state *)
  sock,        (* thread -> the socket of its provider *)
  filters,     (* filters installed on the node *)
  supports,    (* self._supports_eth_newFilter *)
  exported,    (* block -> times its items were exported *)
  counter,     (* AtomicCounter *)
  reported,    (* track's (processed_items_before, processed_items) pairs *)
  faults       (* lost connections, errors and late answers so far *)

net == <<sock, filters, supports>>
progress == <<counter, reported>>
mainVars == <<main, exporter, submitted>>
vars == <<job, implements, mainVars, taken, failed, worker, net, exported, progress, faults>>

Blocks == 1 .. LastBlock
Smaller(a, b) == IF a <= b THEN a ELSE b
Batches == (LastBlock + BatchSize - 1) \div BatchSize
Batch(k) == (k - 1) * BatchSize + 1 .. Smaller(k * BatchSize, LastBlock)
First(bs) == CHOOSE b \in bs : \A c \in bs : b <= c

Closed == [alive |-> FALSE, pending |-> {}, incoming |-> <<>>]
Connected(ids) == [alive |-> TRUE, pending |-> ids, incoming |-> <<>>]
Idle == [pc |-> "idle", batch |-> {}, attempt |-> {}, rest |-> {}, tries |-> 0,
         raw |-> <<>>, todo |-> {}, filter |-> FALSE, ticks |-> 0]
FirstStep == IF job = "geth_traces" THEN "send" ELSE "filter"

Init ==
  /\ job \in {"geth_traces", "token_transfers"}
  /\ implements \in (SUBSET BOOLEAN) \ {{}}
  /\ job = "geth_traces" => implements = {TRUE}
  /\ main = "start" /\ exporter = "new" /\ submitted = 0 /\ taken = 0 /\ failed = FALSE
  /\ worker = [w \in Workers |-> Idle]
  /\ sock = [w \in Workers |-> Closed]
  /\ filters = 0 /\ supports = TRUE
  /\ exported = [b \in Blocks |-> 0]
  /\ counter = 0 /\ reported = {} /\ faults = 0

Fault == faults < MaxFaults /\ faults' = faults + 1
Set(w, r) == worker' = [worker EXCEPT ![w] = r]
At(w, pc) == worker[w].pc = pc
unchangedMain == UNCHANGED <<job, implements, mainVars>>

-----------------------------------------------------------------------------
(* BaseJob.run and the jobs' _start, _export and _end. *)
Start ==
  /\ main = "start"
  /\ \/ main' = "submit" /\ exporter' = "open" /\ UNCHANGED faults
     \/ main' = "join" /\ exporter' = "unopened" /\ Fault
  /\ UNCHANGED <<job, implements, submitted, taken, failed, worker, net, exported, progress>>

(* submit raises the exception of a batch that has failed before. *)
Submit ==
  /\ main = "submit"
  /\ IF failed \/ submitted = Batches THEN main' = "join" /\ UNCHANGED submitted
                                      ELSE submitted' = submitted + 1 /\ UNCHANGED main
  /\ UNCHANGED <<job, implements, exporter, taken, failed, worker, net, exported, progress, faults>>

(* _end waits for the pool and raises what is left to raise; only then does *)
(* the progress logger finish, which counts once more.                      *)
Join ==
  /\ main = "join" /\ taken = submitted /\ \A w \in Workers : At(w, "idle")
  /\ IF failed THEN main' = "raised" /\ UNCHANGED counter
               ELSE main' = "close" /\ counter' = counter + 1
  /\ UNCHANGED <<job, implements, exporter, submitted, taken, failed, worker, net,
                 exported, reported, faults>>

Close_First ==
  /\ main \in {"raised", "close"} /\ exporter = "open"
  /\ exporter' = "closed" /\ main' = "ended"
  /\ UNCHANGED <<job, implements, submitted, taken, failed, worker, net, exported, progress, faults>>

Close ==
  /\ main = "close"
  /\ exporter' = IF exporter = "open" THEN "closed" ELSE exporter
  /\ main' = "ended"
  /\ UNCHANGED <<job, implements, submitted, taken, failed, worker, net, exported, progress, faults>>

-----------------------------------------------------------------------------
(* _fail_safe_execute: the batch, then its blocks one at a time. *)
Take(w) ==
  /\ At(w, "idle") /\ taken < submitted
  /\ taken' = taken + 1
  /\ Set(w, [Idle EXCEPT !.pc = FirstStep, !.batch = Batch(taken'), !.attempt = Batch(taken')])
  /\ unchangedMain /\ UNCHANGED <<failed, net, exported, progress, faults>>

Again(r, blocks, tries) ==
  [Idle EXCEPT !.pc = FirstStep, !.batch = r.batch, !.attempt = {First(blocks)},
               !.rest = blocks \ {First(blocks)}, !.tries = tries]

(* The handler returned. *)
Returned(w, r) ==
  Set(w, IF r.rest # {} THEN Again(r, r.rest, 1)
         ELSE [Idle EXCEPT !.pc = "track", !.batch = r.batch, !.ticks = Cardinality(r.batch)])

(* The handler raised, something retriable or not. *)
Fatal(w) == Set(w, Idle) /\ failed' = TRUE

Raised_WholeBatch(w) ==
  LET r == worker[w]
  IN  IF r.tries = MaxRetries THEN Fatal(w)
      ELSE /\ Set(w, [Idle EXCEPT !.pc = FirstStep, !.batch = r.batch, !.attempt = r.batch,
                                  !.tries = r.tries + 1])
           /\ UNCHANGED failed

Raised(w) ==
  LET r == worker[w]
  IN  IF r.tries = MaxRetries THEN Fatal(w)
      ELSE /\ Set(w, IF r.tries = 0 THEN Again(r, r.batch, 1)
                                    ELSE Again(r, r.attempt \cup r.rest, r.tries + 1))
           /\ UNCHANGED failed

-----------------------------------------------------------------------------
(* BatchIPCProvider.make_batch_request: a broken pipe is reset and gets the *)
(* request once more.                                                       *)
Send(w) ==
  /\ At(w, "send")
  /\ sock' = [sock EXCEPT ![w] = IF @.alive THEN [@ EXCEPT !.pending = worker[w].attempt]
                                 ELSE Connected(worker[w].attempt)]
  /\ Set(w, [worker[w] EXCEPT !.pc = "receive"])
  /\ unchangedMain /\ UNCHANGED <<taken, failed, filters, supports, exported, progress, faults>>

(* ... and no third time. *)
SendRaises(w) ==
  /\ At(w, "send") /\ ~sock[w].alive /\ Fault
  /\ Raised(w)
  /\ unchangedMain /\ UNCHANGED <<taken, net, exported, progress>>

Receive(w) ==
  /\ At(w, "receive") /\ sock[w].incoming # <<>>
  /\ LET raw == Append(worker[w].raw, Head(sock[w].incoming))
         whole == Len(raw) = 2 /\ raw[1].ids = raw[2].ids /\ raw[1].chunk = 1 /\ raw[2].chunk = 2
     IN  Set(w, IF whole THEN [worker[w] EXCEPT !.pc = "export", !.todo = raw[1].ids, !.raw = <<>>]
                         ELSE [worker[w] EXCEPT !.raw = raw])
  /\ sock' = [sock EXCEPT ![w].incoming = Tail(@)]
  /\ unchangedMain /\ UNCHANGED <<taken, failed, filters, supports, exported, progress, faults>>

TimesOut_Connected(w) == sock[w].alive /\ Fault

(* recv of a connection that is gone gives b"" until the timeout. *)
TimesOut(w) == IF sock[w].alive \/ sock[w].incoming # <<>> THEN Fault ELSE UNCHANGED faults

Timeout_Reuses(w) ==
  /\ At(w, "receive") /\ TimesOut(w)
  /\ Raised(w)
  /\ unchangedMain /\ UNCHANGED <<taken, net, exported, progress>>

Timeout(w) ==
  /\ At(w, "receive") /\ TimesOut(w)
  /\ Raised(w)
  /\ sock' = [sock EXCEPT ![w] = Closed]
  /\ unchangedMain /\ UNCHANGED <<taken, filters, supports, exported, progress>>

Answer(w) ==
  /\ sock[w].pending # {}
  /\ sock' = [sock EXCEPT ![w].pending = {},
                          ![w].incoming = @ \o [i \in 1 .. 2 |-> [ids |-> sock[w].pending, chunk |-> i]]]
  /\ unchangedMain /\ UNCHANGED <<taken, failed, worker, filters, supports, exported, progress, faults>>

Disconnect(w) ==
  /\ sock[w].alive /\ Fault
  /\ sock' = [sock EXCEPT ![w].alive = FALSE, ![w].pending = {}]
  /\ unchangedMain /\ UNCHANGED <<taken, failed, worker, filters, supports, exported, progress>>

-----------------------------------------------------------------------------
(* ExportTokenTransfersJob._export_batch *)
NewFilter(w) ==
  /\ At(w, "filter") /\ TRUE \in implements
  /\ filters' = filters + 1
  /\ Set(w, [worker[w] EXCEPT !.pc = "entries", !.filter = TRUE])
  /\ unchangedMain /\ UNCHANGED <<taken, failed, sock, supports, exported, progress, faults>>

(* The node does not implement eth_newFilter: getLogs instead. *)
GetLogs(w) ==
  /\ At(w, "filter") /\ FALSE \in implements
  /\ supports' = FALSE
  /\ Set(w, [worker[w] EXCEPT !.pc = "export", !.todo = worker[w].attempt])
  /\ unchangedMain /\ UNCHANGED <<taken, failed, sock, filters, exported, progress, faults>>

GetAllEntries(w) ==
  /\ At(w, "entries")
  /\ Set(w, [worker[w] EXCEPT !.pc = "export", !.todo = worker[w].attempt])
  /\ unchangedMain /\ UNCHANGED <<taken, failed, net, exported, progress, faults>>

(* event_filter is bound here: a thread that has none has cleared the flag. *)
Uninstall(w) ==
  /\ At(w, "export") /\ worker[w].todo = {} /\ job = "token_transfers" /\ supports
  /\ worker[w].filter
  /\ filters' = filters - 1
  /\ Returned(w, worker[w])
  /\ unchangedMain /\ UNCHANGED <<taken, failed, sock, supports, exported, progress, faults>>

(* A call of eth.* fails, before or after the node has done what it asks. *)
CallRaises(w) ==
  /\ job = "token_transfers" /\ Fault
  /\ \/ At(w, "filter") /\ TRUE \in implements /\ filters' \in {filters, filters + 1} /\ UNCHANGED supports
     \/ At(w, "filter") /\ FALSE \in implements /\ supports' = FALSE /\ UNCHANGED filters
     \/ At(w, "entries") /\ UNCHANGED <<filters, supports>>
     \/ At(w, "export") /\ worker[w].todo = {} /\ supports /\ filters' \in {filters, filters - 1}
                        /\ UNCHANGED supports
  /\ \/ Raised(w)
     \/ Fatal(w)
  /\ unchangedMain /\ UNCHANGED <<taken, sock, exported, progress>>

-----------------------------------------------------------------------------
(* The loop over the answer, whose elements come in any order. *)
ExportItem(w) ==
  /\ At(w, "export")
  /\ \E b \in worker[w].todo :
       /\ exported' = [exported EXCEPT ![b] = @ + 1]
       /\ Set(w, [worker[w] EXCEPT !.todo = @ \ {b}])
  /\ unchangedMain /\ UNCHANGED <<taken, failed, net, progress, faults>>

(* An element without a result (rpc_response_to_result), a mapper, or the   *)
(* exporter.  A block has one item in the traces job and any number of      *)
(* transfers, some of which may have been exported when another one raises. *)
ItemRaises(w) ==
  /\ At(w, "export") /\ Fault
  /\ worker[w].todo # {} \/ job = "token_transfers"
  /\ \/ Raised(w)
     \/ Fatal(w)
  /\ unchangedMain /\ UNCHANGED <<taken, net, exported, progress>>

Return(w) ==
  /\ At(w, "export") /\ worker[w].todo = {}
  /\ job = "geth_traces" \/ ~supports
  /\ Returned(w, worker[w])
  /\ unchangedMain /\ UNCHANGED <<taken, failed, net, exported, progress, faults>>

-----------------------------------------------------------------------------
(* ProgressLogger.track over AtomicCounter.increment: one next() for each item *)
(* of the batch, the last of which is processed_items.                         *)
Tracked(w, last) ==
  /\ counter' = counter + 1
  /\ IF worker[w].ticks > 1
     THEN Set(w, [worker[w] EXCEPT !.ticks = @ - 1]) /\ UNCHANGED reported
     ELSE /\ Set(w, Idle)
          /\ reported' = reported \cup {[before |-> last - Cardinality(worker[w].batch), processed |-> last]}

Track(w) ==
  /\ At(w, "track")
  /\ Tracked(w, counter + 1)
  /\ unchangedMain /\ UNCHANGED <<taken, failed, net, exported, faults>>

-----------------------------------------------------------------------------
MainStep == Start \/ Submit \/ Join \/ Close
WorkerStep(w) ==
  Take(w) \/ Send(w) \/ Receive(w) \/ NewFilter(w) \/ GetLogs(w) \/ GetAllEntries(w)
  \/ ExportItem(w) \/ Uninstall(w) \/ Return(w) \/ Track(w)
WorkerRaises(w) == SendRaises(w) \/ Timeout(w) \/ CallRaises(w) \/ ItemRaises(w)
Node(w) == Answer(w) \/ Disconnect(w)

Next == MainStep \/ \E w \in Workers : WorkerStep(w) \/ WorkerRaises(w) \/ Node(w)

Spec == Init /\ [][Next]_vars

(* The threads run, the node answers a connection that lasts, and the timeout *)
(* of a request fires.                                                        *)
LiveSpec == /\ Spec /\ WF_vars(MainStep)
            /\ \A w \in Workers : WF_vars(WorkerStep(w) \/ Timeout(w)) /\ WF_vars(Answer(w))

-----------------------------------------------------------------------------
TypeOK ==
  /\ main \in {"start", "submit", "join", "close", "ended", "raised"}
  /\ exporter \in {"new", "unopened", "open", "closed"}
  /\ submitted \in 0 .. Batches /\ taken \in 0 .. submitted
  /\ \A w \in Workers :
       /\ worker[w].pc \in {"idle", "send", "receive", "filter", "entries", "export", "track"}
       /\ worker[w].attempt \cup worker[w].rest \subseteq worker[w].batch
       /\ worker[w].tries \in 0 .. MaxRetries /\ worker[w].ticks \in 0 .. BatchSize
       /\ Len(sock[w].incoming) <= 2
  /\ filters \in Nat /\ counter \in 0 .. LastBlock + 1 /\ faults \in 0 .. MaxFaults

(* The blocks whose items a thread exports are those of the request it made: no *)
(* broken pipe, timeout or split answer makes it take another one for its own.  *)
AnswerIsOurs == \A w \in Workers : worker[w].todo \subseteq worker[w].attempt

(* A block of a job is exported at most twice by the traces job, whose items    *)
(* come last, and once more for each retry by the transfers job, where another  *)
(* transfer of the block, or the call after all of them, may fail.              *)
ExportsBounded ==
  \A b \in Blocks : exported[b] <= IF job = "geth_traces" THEN 2 ELSE 1 + MaxRetries

(* An exporter that was opened and is closed holds every block of the range:   *)
(* who finds it closed may take it for complete.                               *)
ClosedIsComplete == exporter = "closed" => \A b \in Blocks : exported[b] > 0

(* When the nodes agree on eth_newFilter, a filter on the node is that of a    *)
(* batch in progress, or was left by a call or an item that failed.            *)
FiltersAccounted ==
  implements # BOOLEAN => filters <= faults + Cardinality({w \in Workers : worker[w].filter})

(* What the retries of a failing node may cost: items again, and filters. *)
RetriesBounded == ExportsBounded /\ FiltersAccounted

(* Threads count their items in turns, and still the job that finishes has     *)
(* reported 100%, and the total that finish prints is the number of blocks.    *)
HundredReported ==
  main \in {"close", "ended"} /\ exporter \in {"open", "closed"} =>
    /\ counter - 1 = LastBlock
    /\ LastBlock > 0 => \E r \in reported : r.processed = LastBlock

(* The job that ends without an error has done, and reported, all of it. *)
EndedIsComplete == TypeOK /\ ClosedIsComplete /\ HundredReported

(* run() ends, whatever the node does. *)
RunEnds == <>(main \in {"ended", "raised"})
==============================================================================
