----------------------------- MODULE BatchWork -----------------------------
(***************************************************************************)
(* BatchWorkExecutor over FailSafeExecutor over BoundedExecutor over a      *)
(* thread pool (ethereumetl/executors), as a job uses it: the main thread   *)
(* cuts the items into batches of the current size and submits them, the    *)
(* pool's threads run the job's work handler, retry a failed batch one item *)
(* at a time and adapt the shared batch size without a lock.                *)
(*                                                                         *)
(* A batch is the record of its first and last item; it also names its      *)
(* future, since batches are submitted once.  Time is the age of the last   *)
(* change of the batch size: "never" changed, "recent", or "old" once the   *)
(* cooldown period has passed.                                              *)
(*                                                                         *)
(* A definition X_Y, before X, is a faulty variant of X: each property is   *)
(* checked to tell one such variant from the code.                         *)
(***************************************************************************)
EXTENDS Integers, FiniteSets

CONSTANTS Workers,        (* the threads of the pool *)
          NumItems,       (* the work_iterable has items 1 .. NumItems *)
          MaxBatchSize,   (* starting_batch_size, which is also the maximum *)
          MaxRetries,     (* max_retries *)
          NoBatch         (* a thread without work *)

ASSUME BatchWorkAssumption ==
  /\ IsFiniteSet(Workers) /\ Workers # {}
  /\ NumItems \in Nat
  /\ MaxBatchSize \in Nat \ {0}
  /\ MaxRetries \in Nat \ {0}

VARIABLES
  main,      (* where the main thread is *)
  next,      (* first item not yet in a batch *)
  current,   (* the batch being submitted *)
  raising,   (* execute() has raised: shutdown runs from the job's finally *)
  own,       (* ... an exception of the main thread's own, not of a batch *)
  futures,   (* FailSafeExecutor._futures *)
  permits,   (* value of BoundedExecutor._semaphore *)
  queue,     (* batches submitted to the pool that no thread has taken *)
  callback,  (* futures with a registered done callback *)
  done,      (* futures that are done *)
  failed,    (* ... with an exception *)
  batchSize, (* self.batch_size *)
  changed,   (* age of latest_batch_size_change_time *)
  wpc,       (* where each pool thread is *)
  batch,     (* its batch *)
  item,      (* the item it retries *)
  attempt,   (* ... and the attempt, from 1 *)
  handled,   (* history: how often a handler returned for each item *)
  late       (* history: batches enqueued since the first failure *)

mainVars   == <<main, next, current, raising, own>>
poolVars   == <<futures, permits, queue, callback, done, failed>>
sizeVars   == <<batchSize, changed>>
workerVars == <<wpc, batch, item, attempt>>
vars == <<mainVars, poolVars, sizeVars, workerVars, handled, late>>

Items == 1 .. NumItems
Batches == [lo : Items, hi : Items]
ItemsOf(b) == b.lo .. b.hi
SizeOf(b) == b.hi - b.lo + 1
Capacity == Cardinality(Workers) + 1

Init ==
  /\ main = "fill" /\ next = 1 /\ current = NoBatch /\ raising = FALSE /\ own = FALSE
  /\ futures = {} /\ permits = Capacity /\ queue = {}
  /\ callback = {} /\ done = {} /\ failed = {}
  /\ batchSize = MaxBatchSize /\ changed = "never"
  /\ wpc = [w \in Workers |-> "idle"] /\ batch = [w \in Workers |-> NoBatch]
  /\ item = [w \in Workers |-> 0] /\ attempt = [w \in Workers |-> 0]
  /\ handled = [i \in Items |-> 0] /\ late = 0

-----------------------------------------------------------------------------
(* The main thread: execute(), then shutdown() from the job's finally. *)

(* dynamic_batch_iterator asks for the size when it resumes after a submit. *)
Fill ==
  /\ main = "fill"
  /\ IF next > NumItems
     THEN main' = "join" /\ UNCHANGED <<current, next>>
     ELSE \E hi \in Items :
            /\ \/ hi = next + batchSize - 1
               \/ hi = NumItems /\ hi < next + batchSize - 1
            /\ current' = [lo |-> next, hi |-> hi]
            /\ next' = hi + 1
            /\ main' = "check"
  /\ UNCHANGED <<raising, own, poolVars, sizeVars, workerVars, handled, late>>

(* The main thread's own exception leaves execute(). *)
Raise == main' = "join" /\ raising' = TRUE /\ own' = TRUE

(* The work iterable raises: what was read for the next batch is dropped. *)
FillRaises ==
  /\ main = "fill"
  /\ Raise
  /\ UNCHANGED <<next, current, poolVars, sizeVars, workerVars, handled, late>>

(* _check_completed_futures, in submission order: futures that succeeded are *)
(* forgotten up to the first one that failed, whose exception is raised.     *)
Succeeded(f) == f \in done \ failed
Forgotten == {f \in futures : /\ Succeeded(f)
                              /\ \A g \in futures \cap failed : f.lo < g.lo}

Check_DropsFailed ==
  /\ main = "check"
  /\ futures' = futures \ done
  /\ main' = "acquire"
  /\ UNCHANGED <<next, current, raising, own, permits, queue, callback, done, failed,
                 sizeVars, workerVars, handled, late>>

Check ==
  /\ main = "check"
  /\ futures' = futures \ Forgotten
  /\ IF futures \cap failed # {}
     THEN main' = "join" /\ raising' = TRUE
     ELSE main' = "acquire" /\ UNCHANGED raising
  /\ UNCHANGED <<next, current, own, permits, queue, callback, done, failed,
                 sizeVars, workerVars, handled, late>>

Acquire ==
  /\ main = "acquire"
  /\ permits > 0
  /\ permits' = permits - 1
  /\ main' = "enqueue"
  /\ UNCHANGED <<next, current, raising, own, futures, queue, callback, done, failed,
                 sizeVars, workerVars, handled, late>>

(* ThreadPoolExecutor.submit; the FailSafeExecutor notes the future. *)
Enqueue ==
  /\ main = "enqueue"
  /\ queue' = queue \cup {current}
  /\ futures' = futures \cup {current}
  /\ late' = IF failed # {} THEN late + 1 ELSE late
  /\ main' = "callback"
  /\ UNCHANGED <<next, current, raising, own, permits, callback, done, failed,
                 sizeVars, workerVars, handled>>

(* The pool refuses the batch: the permit goes back, the exception goes on. *)
EnqueueRaises ==
  /\ main = "enqueue"
  /\ permits' = permits + 1
  /\ Raise
  /\ UNCHANGED <<next, current, futures, queue, callback, done, failed,
                 sizeVars, workerVars, handled, late>>

(* add_done_callback runs the callback at once when the future is done. *)
AddCallback_Always ==
  /\ main = "callback"
  /\ callback' = callback \cup {current}
  /\ main' = "fill"
  /\ UNCHANGED <<next, current, raising, own, futures, permits, queue, done, failed,
                 sizeVars, workerVars, handled, late>>

AddCallback ==
  /\ main = "callback"
  /\ IF current \in done
     THEN permits' = permits + 1 /\ UNCHANGED callback
     ELSE callback' = callback \cup {current} /\ UNCHANGED permits
  /\ main' = "fill"
  /\ UNCHANGED <<next, current, raising, own, futures, queue, done, failed,
                 sizeVars, workerVars, handled, late>>

(* _delegate.shutdown(wait=True): every submitted batch has run and every   *)
(* thread has left its callback.                                            *)
Join ==
  /\ main = "join"
  /\ queue = {} /\ \A w \in Workers : wpc[w] = "idle"
  /\ main' = "last_check"
  /\ UNCHANGED <<next, current, raising, own, poolVars, sizeVars, workerVars, handled, late>>

(* shutdown()'s _check_completed_futures, then its assertion. *)
LastCheck ==
  /\ main = "last_check"
  /\ futures' = futures \ Forgotten
  /\ main' = IF futures \cap failed # {} THEN "raised" ELSE "assert"
  /\ UNCHANGED <<next, current, raising, own, permits, queue, callback, done, failed,
                 sizeVars, workerVars, handled, late>>

(* assert len(self._futures) == 0, and the pending exception of execute(). *)
Return ==
  /\ main = "assert"
  /\ main' = IF futures = {} /\ ~raising THEN "returned" ELSE "raised"
  /\ UNCHANGED <<next, current, raising, own, poolVars, sizeVars, workerVars, handled, late>>

-----------------------------------------------------------------------------
(* A pool thread *)

Take(w) ==
  /\ wpc[w] = "idle"
  /\ \E b \in queue :
       /\ \A c \in queue : b.lo <= c.lo
       /\ queue' = queue \ {b}
       /\ batch' = [batch EXCEPT ![w] = b]
  /\ wpc' = [wpc EXCEPT ![w] = "handle"]
  /\ UNCHANGED <<mainVars, futures, permits, callback, done, failed,
                 sizeVars, item, attempt, handled, late>>

(* What a handler exports before it raises comes on top of this and is up to *)
(* the job; the retry does the whole batch again in any case.                *)
HandlerReturned(some) ==
  handled' = [i \in Items |-> IF i \in some THEN handled[i] + 1 ELSE handled[i]]

(* The future fails with the exception. *)
Fail(w) == /\ failed' = failed \cup {batch[w]}
           /\ done' = done \cup {batch[w]}
           /\ wpc' = [wpc EXCEPT ![w] = "release"]

(* _fail_safe_execute: work_handler(batch) *)
HandleOk(w) ==
  /\ wpc[w] = "handle"
  /\ HandlerReturned(ItemsOf(batch[w]))
  /\ wpc' = [wpc EXCEPT ![w] = "increase"]
  /\ UNCHANGED <<mainVars, poolVars, sizeVars, batch, item, attempt, late>>

HandleRaisesRetriable(w) ==
  /\ wpc[w] = "handle"
  /\ wpc' = [wpc EXCEPT ![w] = "decrease"]
  /\ UNCHANGED <<mainVars, poolVars, sizeVars, batch, item, attempt, handled, late>>

(* Any other exception leaves _fail_safe_execute. *)
HandleRaises(w) ==
  /\ wpc[w] = "handle"
  /\ Fail(w)
  /\ UNCHANGED <<mainVars, futures, permits, queue, callback, sizeVars,
                 batch, item, attempt, handled, late>>

(* for item in batch: execute_with_retries(work_handler, [item]) *)
RetryOk(w) ==
  /\ wpc[w] = "retry"
  /\ HandlerReturned({item[w]})
  /\ IF item[w] < batch[w].hi
     THEN /\ item' = [item EXCEPT ![w] = @ + 1]
          /\ attempt' = [attempt EXCEPT ![w] = 1]
          /\ UNCHANGED wpc
     ELSE wpc' = [wpc EXCEPT ![w] = "track"] /\ UNCHANGED <<item, attempt>>
  /\ UNCHANGED <<mainVars, poolVars, sizeVars, batch, late>>

RetryAgain_Forever(w) ==
  /\ wpc[w] = "retry"
  /\ attempt' = [attempt EXCEPT ![w] = IF @ < MaxRetries THEN @ + 1 ELSE 1]
  /\ UNCHANGED <<mainVars, poolVars, sizeVars, wpc, batch, item, handled, late>>

RetryAgain(w) ==
  /\ wpc[w] = "retry"
  /\ attempt[w] < MaxRetries
  /\ attempt' = [attempt EXCEPT ![w] = @ + 1]
  /\ UNCHANGED <<mainVars, poolVars, sizeVars, wpc, batch, item, handled, late>>

(* The last attempt failed, or an exception that is not retriable. *)
RetryRaises_Swallowed(w) ==
  /\ wpc[w] = "retry"
  /\ wpc' = [wpc EXCEPT ![w] = "track"]
  /\ UNCHANGED <<mainVars, poolVars, sizeVars, batch, item, attempt, handled, late>>

RetryRaises(w) ==
  /\ wpc[w] = "retry"
  /\ Fail(w)
  /\ UNCHANGED <<mainVars, futures, permits, queue, callback, sizeVars,
                 batch, item, attempt, handled, late>>

(* progress_logger.track; the future is done. *)
Track(w) ==
  /\ wpc[w] = "track"
  /\ done' = done \cup {batch[w]}
  /\ wpc' = [wpc EXCEPT ![w] = "release"]
  /\ UNCHANGED <<mainVars, futures, permits, queue, callback, failed, sizeVars,
                 batch, item, attempt, handled, late>>

(* The pool invokes the callbacks of the future that is now done. *)
Release(w) ==
  /\ wpc[w] = "release"
  /\ permits' = IF batch[w] \in callback THEN permits + 1 ELSE permits
  /\ wpc' = [wpc EXCEPT ![w] = "idle"]
  /\ batch' = [batch EXCEPT ![w] = NoBatch]
  /\ item' = [item EXCEPT ![w] = 0] /\ attempt' = [attempt EXCEPT ![w] = 0]
  /\ UNCHANGED <<mainVars, futures, queue, callback, done, failed, sizeVars,
                 handled, late>>

-----------------------------------------------------------------------------
(* The shared batch size.  Reading it, writing it and writing the time are   *)
(* three steps that other threads may interleave.                            *)

(* A failed batch is then retried from its first item. *)
ToRetry(w) == /\ wpc' = [wpc EXCEPT ![w] = "retry"]
              /\ item' = [item EXCEPT ![w] = batch[w].lo]
              /\ attempt' = [attempt EXCEPT ![w] = 1]

ReadForDecrease(w) ==
  /\ wpc[w] = "decrease"
  /\ IF batchSize = SizeOf(batch[w]) /\ batchSize > 1
     THEN wpc' = [wpc EXCEPT ![w] = "halve"] /\ UNCHANGED <<item, attempt>>
     ELSE ToRetry(w)
  /\ UNCHANGED <<mainVars, poolVars, sizeVars, batch, handled, late>>

Halve(w) ==
  /\ wpc[w] = "halve"
  /\ batchSize' = SizeOf(batch[w]) \div 2
  /\ wpc' = [wpc EXCEPT ![w] = "halved"]
  /\ UNCHANGED <<mainVars, poolVars, changed, batch, item, attempt, handled, late>>

NoteHalved(w) ==
  /\ wpc[w] = "halved"
  /\ changed' = "recent"
  /\ ToRetry(w)
  /\ UNCHANGED <<mainVars, poolVars, batchSize, batch, handled, late>>

ReadForIncrease(w) ==
  /\ wpc[w] = "increase"
  /\ wpc' = [wpc EXCEPT ![w] =
               IF SizeOf(batch[w]) * 2 <= MaxBatchSize /\ changed = "old"
               THEN "double" ELSE "track"]
  /\ UNCHANGED <<mainVars, poolVars, sizeVars, batch, item, attempt, handled, late>>

Double_Shared(w) ==
  /\ wpc[w] = "double"
  /\ batchSize' = batchSize * 2
  /\ wpc' = [wpc EXCEPT ![w] = "doubled"]
  /\ UNCHANGED <<mainVars, poolVars, changed, batch, item, attempt, handled, late>>

Double(w) ==
  /\ wpc[w] = "double"
  /\ batchSize' = SizeOf(batch[w]) * 2
  /\ wpc' = [wpc EXCEPT ![w] = "doubled"]
  /\ UNCHANGED <<mainVars, poolVars, changed, batch, item, attempt, handled, late>>

NoteDoubled(w) ==
  /\ wpc[w] = "doubled"
  /\ changed' = "recent"
  /\ wpc' = [wpc EXCEPT ![w] = "track"]
  /\ UNCHANGED <<mainVars, poolVars, batchSize, batch, item, attempt, handled, late>>

(* BATCH_CHANGE_COOLDOWN_PERIOD_SECONDS pass. *)
Cooldown == /\ changed = "recent"
            /\ changed' = "old"
            /\ UNCHANGED <<mainVars, poolVars, batchSize, workerVars, handled, late>>

-----------------------------------------------------------------------------
MainStep == Fill \/ FillRaises \/ Check \/ Acquire \/ Enqueue \/ EnqueueRaises
            \/ AddCallback \/ Join \/ LastCheck \/ Return

WorkerStep(w) ==
  \/ Take(w) \/ HandleOk(w) \/ HandleRaisesRetriable(w) \/ HandleRaises(w)
  \/ RetryOk(w) \/ RetryAgain(w) \/ RetryRaises(w) \/ Track(w) \/ Release(w)
  \/ ReadForDecrease(w) \/ Halve(w) \/ NoteHalved(w)
  \/ ReadForIncrease(w) \/ Double(w) \/ NoteDoubled(w)

Next == MainStep \/ (\E w \in Workers : WorkerStep(w)) \/ Cooldown

Spec == Init /\ [][Next]_vars

(* The operating system runs some thread that can run, whichever it is. *)
LiveSpec == Spec /\ WF_vars(MainStep \/ \E w \in Workers : WorkerStep(w))

-----------------------------------------------------------------------------
Finished == main \in {"returned", "raised"}

TypeOK ==
  /\ main \in {"fill", "check", "acquire", "enqueue", "callback", "join",
               "last_check", "assert", "returned", "raised"}
  /\ next \in 1 .. NumItems + 1
  /\ current \in Batches \cup {NoBatch}
  /\ raising \in BOOLEAN /\ own \in BOOLEAN
  /\ futures \in SUBSET Batches /\ queue \in SUBSET Batches
  /\ callback \in SUBSET Batches
  /\ done \in SUBSET Batches /\ failed \in SUBSET done
  /\ permits \in Int
  /\ batchSize \in Int /\ changed \in {"never", "recent", "old"}
  /\ wpc \in [Workers -> {"idle", "handle", "retry", "track", "release",
                          "decrease", "halve", "halved",
                          "increase", "double", "doubled"}]
  /\ batch \in [Workers -> Batches \cup {NoBatch}]
  /\ item \in [Workers -> 0 .. NumItems] /\ attempt \in [Workers -> 0 .. MaxRetries]
  /\ handled \in [Items -> Nat] /\ late \in Nat

(* "Some acceptable race conditions are possible": whatever threads overwrite  *)
(* each other's change, the size stays usable and within what the user asked  *)
(* for, and so does every batch.                                              *)
BatchSizeInRange == /\ TypeOK
                    /\ batchSize \in 1 .. MaxBatchSize
                    /\ \A b \in futures : SizeOf(b) \in 1 .. MaxBatchSize

(* Batches submitted whose permit has not been given back. *)
Outstanding ==
  queue \cup {batch[w] : w \in {v \in Workers : wpc[v] # "idle"}}

(* BoundedExecutor: each batch holds one permit from acquire to its callback, *)
(* whichever thread runs the callback, or to a submit that raises, so the      *)
(* bounded semaphore is never released too often and no more than Capacity    *)
(* batches are ever in flight.                                                *)
PermitsBalance ==
  LET held    == {b \in Outstanding : b \notin done \/ b \in callback}
      pending == IF main = "callback" /\ current \in done THEN {current} ELSE {}
      mine    == IF main = "enqueue" THEN 1 ELSE 0
  IN  /\ permits >= 0
      /\ permits + Cardinality(held \cup pending) + mine = Capacity

(* A job that returns normally has had every item handled once, however       *)
(* often batches failed, were halved or were retried: nothing is lost, and     *)
(* only a handler that exports and then raises can repeat an item.             *)
ExactlyOnce == /\ \A i \in Items : handled[i] <= 1
               /\ main = "returned" => \A i \in Items : handled[i] = 1

(* What makes a job raise is never swallowed and never made up: it returns    *)
(* only if no batch failed for good and neither the work iterable nor submit   *)
(* raised, whatever shutdown did after that, and raises only for one of these,  *)
(* so shutdown's assertion never fails; and, "failing fast in case of errors",  *)
(* at most one more batch is handed to the pool after a failure.               *)
FailureSurfaces == /\ main = "returned" => failed = {} /\ ~own
                   /\ main = "raised" => failed # {} \/ own
                   /\ late <= 1

(* The job always ends: no batch waits forever, no thread retries forever,   *)
(* and main is not left waiting for a permit.                                *)
Terminates == <>Finished
==============================================================================
