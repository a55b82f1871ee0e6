---------------------------- MODULE BatchWorkProofs ----------------------------
(***************************************************************************)
(* The four safety properties of BatchWork for any number of threads, items *)
(* and retries.  Shape bounds sizes; Placement says where a batch that was  *)
(* submitted is: queued, with one thread, or done, and that a failure stays  *)
(* among the futures; Handling counts the items by that place; Balance is   *)
(* PermitsBalance with what its counting needs.                             *)
(***************************************************************************)
EXTENDS BatchWork, FiniteSetTheorems, TLAPS

InHand == {"check", "acquire", "enqueue", "callback"}
Busy(w) == wpc[w] # "idle"
Unfinished(w) == wpc[w] \notin {"idle", "release"}
Submitted == futures \cup done

(* The first item that is in no submitted batch *)
Front == IF main \in InHand \ {"callback"} THEN current.lo ELSE next

-----------------------------------------------------------------------------
(* Sizes: of the batch in hand, of those submitted, and of what a thread is   *)
(* about to write.                                                            *)
Sized(b) == b \in Batches /\ SizeOf(b) \in 1 .. MaxBatchSize

Shape ==
  /\ TypeOK
  /\ batchSize \in 1 .. MaxBatchSize
  /\ main \in InHand => Sized(current) /\ current.hi = next - 1
  /\ \A b \in Submitted \cup queue : Sized(b)
  /\ \A w \in Workers :
       /\ Busy(w) => Sized(batch[w])
       /\ wpc[w] = "halve" => SizeOf(batch[w]) > 1
       /\ wpc[w] = "double" => SizeOf(batch[w]) * 2 <= MaxBatchSize
       /\ wpc[w] = "retry" => item[w] \in ItemsOf(batch[w]) /\ attempt[w] \in 1 .. MaxRetries

(* Where batches are *)
Placed ==
  /\ queue \subseteq futures \ done
  /\ callback \subseteq Submitted
  /\ failed \subseteq futures
  /\ \A b \in Submitted : b.hi < Front
  /\ \A f \in futures \ done : f \in queue \/ \E w \in Workers : Unfinished(w) /\ batch[w] = f

Held ==
  \A w \in Workers :
    /\ Unfinished(w) => batch[w] \in futures \ done
    /\ wpc[w] = "release" => batch[w] \in done
    /\ Busy(w) => batch[w] \notin queue
    /\ \A v \in Workers : Busy(v) /\ Busy(w) /\ batch[v] = batch[w] => v = w

(* How the job ends *)
Ending ==
  /\ raising => failed # {} \/ own
  /\ own => raising
  /\ late = 0 \/ (late = 1 /\ failed # {} /\ main \notin {"acquire", "enqueue"})
  /\ main \in {"last_check", "assert", "returned", "raised"} =>
       queue = {} /\ \A w \in Workers : ~Busy(w)
  /\ main \in {"assert", "returned"} => futures = {} /\ failed = {}
  /\ main = "raised" => failed # {} \/ own
  /\ main \in {"join", "last_check", "assert", "returned"} /\ ~raising => next > NumItems
  /\ main = "returned" => ~raising

(* A batch without a callback that is not done is the one being submitted. *)
Waiting == /\ \A b \in futures \ done : b \in callback \/ (main = "callback" /\ b = current)
           /\ main = "callback" => current \in Submitted \ callback

Placement == Shape /\ Placed /\ Held /\ Waiting /\ Ending

(* Submitted batches have no item in common and leave none out. *)
Apart(b, c) == b = c \/ b.hi < c.lo \/ c.hi < b.lo

Cut == /\ \A b, c \in Submitted : Apart(b, c)
       /\ ~raising => \A i \in Items : i < Front => \E b \in Submitted : i \in ItemsOf(b)

(* How often each item was handled, by the place of its batch *)
Counted ==
  /\ \A i \in Items : handled[i] <= 1 /\ (i >= Front => handled[i] = 0)
  /\ \A b \in queue : \A i \in ItemsOf(b) : handled[i] = 0
  /\ \A b \in done \ failed : \A i \in ItemsOf(b) : handled[i] = 1
  /\ \A w \in Workers : Busy(w) => \A i \in ItemsOf(batch[w]) :
       /\ wpc[w] \in {"handle", "decrease", "halve", "halved"} => handled[i] = 0
       /\ wpc[w] = "retry" => handled[i] = (IF i < item[w] THEN 1 ELSE 0)
       /\ wpc[w] \in {"increase", "double", "doubled", "track"} => handled[i] = 1

Handling == Placement /\ Cut /\ Counted

(* The batches that hold a permit, and the permit of main *)
Holding == {b \in queue \cup {batch[w] : w \in {v \in Workers : Busy(v)}} : b \notin done \/ b \in callback}
           \cup {b \in {current} : main = "callback" /\ b \in done}
InReserve == IF main = "enqueue" THEN 1 ELSE 0
Balance == /\ permits >= 0 /\ IsFiniteSet(Holding)
           /\ permits + InReserve + Cardinality(Holding) = Capacity

-----------------------------------------------------------------------------
(* A batch of a size in range is not empty, and its items are items. *)
LEMMA SizedFacts ==
  ASSUME NEW b, Sized(b)
  PROVE  /\ b \in Batches /\ b.lo \in Int /\ b.hi \in Int /\ b.lo <= b.hi /\ 1 <= b.lo /\ b.hi <= NumItems
         /\ SizeOf(b) \in 1 .. MaxBatchSize /\ SizeOf(b) = b.hi - b.lo + 1
  BY BatchWorkAssumption DEF Sized, SizeOf, Batches, Items

LEMMA ShapeInit == Init => Shape
<1> SUFFICES ASSUME Init PROVE Shape
  OBVIOUS
<1>1. permits \in Int
  BY BatchWorkAssumption, FS_CardinalityType DEF Init, Capacity
<1>2. /\ handled \in [Items -> Nat] /\ batch \in [Workers -> Batches \cup {NoBatch}]
      /\ item \in [Workers -> 0 .. NumItems] /\ attempt \in [Workers -> 0 .. MaxRetries]
      /\ wpc \in [Workers -> {"idle", "handle", "retry", "track", "release", "decrease", "halve", "halved",
                              "increase", "double", "doubled"}]
      /\ next \in 1 .. NumItems + 1 /\ batchSize \in Int
  BY BatchWorkAssumption DEF Init
<1>3. TypeOK
  BY <1>1, <1>2, BatchWorkAssumption DEF Init, TypeOK
<1> QED BY <1>3, BatchWorkAssumption DEF Init, Shape, InHand, Submitted, Busy

(* Each write of the size comes from a batch that was small enough or large enough for it. *)
LEMMA ShapeNext == Shape /\ [Next]_vars => Shape'
<1> SUFFICES ASSUME Shape, [Next]_vars PROVE Shape'
  OBVIOUS
<1>0. \A b : Sized(b) => b \in Batches
  BY DEF Sized
<1> USE BatchWorkAssumption, <1>0 DEF vars, mainVars, poolVars, sizeVars, workerVars, Shape, TypeOK, InHand, Submitted, Busy
<1>1. ASSUME Fill PROVE Shape'
  <2>1. CASE next > NumItems
    BY <1>1, <2>1 DEF Fill
  <2>2. CASE ~(next > NumItems)
    <3>1. PICK hi \in Items : /\ \/ hi = next + batchSize - 1
                                 \/ hi = NumItems /\ hi < next + batchSize - 1
                              /\ current' = [lo |-> next, hi |-> hi]
                              /\ next' = hi + 1 /\ main' = "check"
      BY <1>1, <2>2 DEF Fill
    <3>2. next \in 1 .. NumItems /\ hi \in 1 .. NumItems /\ next <= hi /\ hi - next + 1 <= batchSize
      BY <2>2, <3>1 DEF Items
    <3>3. Sized(current')
      BY <3>1, <3>2 DEF Sized, SizeOf, Batches, Items
    <3>4. current' \in Batches /\ current'.hi = next' - 1 /\ next' \in 1 .. NumItems + 1
      BY <3>1, <3>2, <3>3
    <3> QED BY <1>1, <3>1, <3>3, <3>4 DEF Fill
  <2> QED BY <2>1, <2>2
<1>2. ASSUME Check PROVE Shape'
  BY <1>2 DEF Check, Forgotten, Succeeded
<1>3. ASSUME Acquire PROVE Shape'
  BY <1>3 DEF Acquire
<1>4. ASSUME Enqueue PROVE Shape'
  BY <1>4 DEF Enqueue
<1>5. ASSUME AddCallback PROVE Shape'
  BY <1>5 DEF AddCallback
<1>6. ASSUME Join PROVE Shape'
  BY <1>6 DEF Join
<1>7. ASSUME LastCheck PROVE Shape'
  BY <1>7 DEF LastCheck, Forgotten, Succeeded
<1>8. ASSUME Return PROVE Shape'
  BY <1>8 DEF Return
<1>9. ASSUME NEW w \in Workers, Take(w) PROVE Shape'
  BY <1>9 DEF Take
<1>10. ASSUME NEW w \in Workers, HandleOk(w) PROVE Shape'
  BY <1>10 DEF HandleOk, HandlerReturned
<1>11. ASSUME NEW w \in Workers, HandleRaisesRetriable(w) PROVE Shape'
  BY <1>11 DEF HandleRaisesRetriable
<1>12. ASSUME NEW w \in Workers, HandleRaises(w) PROVE Shape'
  BY <1>12 DEF HandleRaises, Fail
<1>13. ASSUME NEW w \in Workers, RetryOk(w) PROVE Shape'
  <2>1. Sized(batch[w]) /\ item[w] \in batch[w].lo .. batch[w].hi
    BY <1>13 DEF RetryOk, ItemsOf
  <2>2. handled' \in [Items -> Nat]
    BY <1>13 DEF RetryOk, HandlerReturned
  <2>3. CASE item[w] < batch[w].hi
    <3>1. item[w] + 1 \in ItemsOf(batch[w]) /\ item[w] + 1 \in 0 .. NumItems
      BY <2>1, <2>3, SizedFacts DEF ItemsOf
    <3> QED BY <1>13, <2>2, <2>3, <3>1 DEF RetryOk
  <2>4. CASE ~(item[w] < batch[w].hi)
    BY <1>13, <2>2, <2>4 DEF RetryOk
  <2> QED BY <2>3, <2>4
<1>14. ASSUME NEW w \in Workers, RetryAgain(w) PROVE Shape'
  BY <1>14 DEF RetryAgain
<1>15. ASSUME NEW w \in Workers, RetryRaises(w) PROVE Shape'
  BY <1>15 DEF RetryRaises, Fail
<1>16. ASSUME NEW w \in Workers, Track(w) PROVE Shape'
  BY <1>16 DEF Track
<1>17. ASSUME NEW w \in Workers, Release(w) PROVE Shape'
  BY <1>17 DEF Release
<1>18. ASSUME NEW w \in Workers, ReadForDecrease(w) PROVE Shape'
  <2>1. Sized(batch[w])
    BY <1>18 DEF ReadForDecrease
  <2>2. batch[w].lo \in ItemsOf(batch[w]) /\ batch[w].lo \in 0 .. NumItems
        /\ SizeOf(batch[w]) \in 1 .. MaxBatchSize
    BY <2>1, SizedFacts DEF ItemsOf
  <2> QED BY <1>18, <2>2 DEF ReadForDecrease, ToRetry
<1>19. ASSUME NEW w \in Workers, Halve(w) PROVE Shape'
  <2>1. SizeOf(batch[w]) \in 1 .. MaxBatchSize /\ SizeOf(batch[w]) > 1
    BY <1>19, SizedFacts DEF Halve
  <2>2. SizeOf(batch[w]) \div 2 \in 1 .. MaxBatchSize
    BY <2>1
  <2> QED BY <1>19, <2>2 DEF Halve
<1>20. ASSUME NEW w \in Workers, NoteHalved(w) PROVE Shape'
  <2>1. Sized(batch[w])
    BY <1>20 DEF NoteHalved
  <2>2. batch[w].lo \in ItemsOf(batch[w]) /\ batch[w].lo \in 0 .. NumItems
        /\ SizeOf(batch[w]) \in 1 .. MaxBatchSize
    BY <2>1, SizedFacts DEF ItemsOf
  <2> QED BY <1>20, <2>2 DEF NoteHalved, ToRetry
<1>21. ASSUME NEW w \in Workers, ReadForIncrease(w) PROVE Shape'
  BY <1>21 DEF ReadForIncrease
<1>22. ASSUME NEW w \in Workers, Double(w) PROVE Shape'
  <2>1. SizeOf(batch[w]) \in 1 .. MaxBatchSize /\ SizeOf(batch[w]) * 2 <= MaxBatchSize
    BY <1>22, SizedFacts DEF Double
  <2>2. SizeOf(batch[w]) * 2 \in 1 .. MaxBatchSize
    BY <2>1
  <2> QED BY <1>22, <2>2 DEF Double
<1>23. ASSUME NEW w \in Workers, NoteDoubled(w) PROVE Shape'
  BY <1>23 DEF NoteDoubled
<1>24. ASSUME Cooldown PROVE Shape'
  BY <1>24 DEF Cooldown
<1>25. ASSUME UNCHANGED vars PROVE Shape'
  BY <1>25
<1>26. ASSUME FillRaises PROVE Shape'
  BY <1>26 DEF FillRaises, Raise
<1>27. ASSUME EnqueueRaises PROVE Shape'
  BY <1>27 DEF EnqueueRaises, Raise
<1> QED BY <1>1, <1>2, <1>3, <1>4, <1>5, <1>6, <1>7, <1>8, <1>9, <1>10, <1>11, <1>12, <1>13, <1>14, <1>15, <1>16, <1>17, <1>18, <1>19, <1>20, <1>21, <1>22, <1>23, <1>24, <1>25, <1>26, <1>27 DEF Next, MainStep, WorkerStep

(* A batch stays in the place where it is until the step that moves it on. *)
LEMMA PlacedNext == Placement /\ [Next]_vars => Placed'
<1> SUFFICES ASSUME Placement, [Next]_vars PROVE Placed'
  OBVIOUS
<1>0. \A b : Sized(b) => b.lo \in Int /\ b.hi \in Int /\ b.lo <= b.hi
  BY SizedFacts
<1>00. /\ next \in Int /\ Held /\ Waiting
       /\ main \in InHand => Sized(current) /\ current.hi = next - 1
       /\ \A b \in Submitted \cup queue : Sized(b)
       /\ failed \subseteq done
       /\ DOMAIN wpc = Workers /\ DOMAIN batch = Workers
  BY DEF Placement, Shape, TypeOK
<1> USE <1>0, <1>00 DEF vars, mainVars, poolVars, sizeVars, workerVars, Placement, Placed, Front, InHand, Submitted, Unfinished, Busy
<1>1. ASSUME Fill PROVE Placed'
  BY <1>1 DEF Fill
<1>2. ASSUME Check PROVE Placed'
  BY <1>2 DEF Check, Forgotten, Succeeded
<1>3. ASSUME Acquire PROVE Placed'
  BY <1>3 DEF Acquire
<1>4. ASSUME Enqueue PROVE Placed'
  BY <1>4 DEF Enqueue
<1>5. ASSUME AddCallback PROVE Placed'
  BY <1>5 DEF AddCallback, Waiting
<1>6. ASSUME Join PROVE Placed'
  BY <1>6 DEF Join
<1>7. ASSUME LastCheck PROVE Placed'
  BY <1>7 DEF LastCheck, Forgotten, Succeeded
<1>8. ASSUME Return PROVE Placed'
  BY <1>8 DEF Return
<1>9. ASSUME NEW w \in Workers, Take(w) PROVE Placed'
  BY <1>9 DEF Take
<1>10. ASSUME NEW w \in Workers, HandleOk(w) PROVE Placed'
  BY <1>10 DEF HandleOk, HandlerReturned
<1>11. ASSUME NEW w \in Workers, HandleRaisesRetriable(w) PROVE Placed'
  BY <1>11 DEF HandleRaisesRetriable
<1>12. ASSUME NEW w \in Workers, HandleRaises(w) PROVE Placed'
  BY <1>12 DEF HandleRaises, Fail, Held
<1>13. ASSUME NEW w \in Workers, RetryOk(w) PROVE Placed'
  BY <1>13 DEF RetryOk, HandlerReturned
<1>14. ASSUME NEW w \in Workers, RetryAgain(w) PROVE Placed'
  BY <1>14 DEF RetryAgain
<1>15. ASSUME NEW w \in Workers, RetryRaises(w) PROVE Placed'
  BY <1>15 DEF RetryRaises, Fail, Held
<1>16. ASSUME NEW w \in Workers, Track(w) PROVE Placed'
  BY <1>16 DEF Track, Held
<1>17. ASSUME NEW w \in Workers, Release(w) PROVE Placed'
  BY <1>17 DEF Release, Held
<1>18. ASSUME NEW w \in Workers, ReadForDecrease(w) PROVE Placed'
  BY <1>18 DEF ReadForDecrease, ToRetry
<1>19. ASSUME NEW w \in Workers, Halve(w) PROVE Placed'
  BY <1>19 DEF Halve
<1>20. ASSUME NEW w \in Workers, NoteHalved(w) PROVE Placed'
  BY <1>20 DEF NoteHalved, ToRetry
<1>21. ASSUME NEW w \in Workers, ReadForIncrease(w) PROVE Placed'
  BY <1>21 DEF ReadForIncrease
<1>22. ASSUME NEW w \in Workers, Double(w) PROVE Placed'
  BY <1>22 DEF Double
<1>23. ASSUME NEW w \in Workers, NoteDoubled(w) PROVE Placed'
  BY <1>23 DEF NoteDoubled
<1>24. ASSUME Cooldown PROVE Placed'
  BY <1>24 DEF Cooldown
<1>25. ASSUME UNCHANGED vars PROVE Placed'
  BY <1>25
<1>26. ASSUME FillRaises PROVE Placed'
  BY <1>26 DEF FillRaises, Raise
<1>27. ASSUME EnqueueRaises PROVE Placed'
  BY <1>27 DEF EnqueueRaises, Raise
<1> QED BY <1>1, <1>2, <1>3, <1>4, <1>5, <1>6, <1>7, <1>8, <1>9, <1>10, <1>11, <1>12, <1>13, <1>14, <1>15, <1>16, <1>17, <1>18, <1>19, <1>20, <1>21, <1>22, <1>23, <1>24, <1>25, <1>26, <1>27 DEF Next, MainStep, WorkerStep

(* Every batch has one thread. *)
LEMMA HeldNext == Placement /\ [Next]_vars => Held'
<1> SUFFICES ASSUME Placement, [Next]_vars PROVE Held'
  OBVIOUS
<1>0. /\ queue \subseteq futures \ done /\ failed \subseteq done
      /\ DOMAIN wpc = Workers /\ DOMAIN batch = Workers
      /\ main = "enqueue" => \A u \in Workers : Busy(u) => batch[u] # current
  <2>1. /\ queue \subseteq futures \ done /\ failed \subseteq done
        /\ DOMAIN wpc = Workers /\ DOMAIN batch = Workers
    BY DEF Placement, Shape, Placed, TypeOK
  <2>2. ASSUME main = "enqueue", NEW u \in Workers, Busy(u) PROVE batch[u] # current
    <3>1. batch[u] \in Submitted /\ Sized(current) /\ batch[u].hi < current.lo
      BY <2>2 DEF Placement, Held, Busy, Unfinished, Shape, Placed, Submitted, Front, InHand, TypeOK
    <3> QED BY <3>1, SizedFacts
  <2> QED BY <2>1, <2>2
<1> USE <1>0 DEF vars, mainVars, poolVars, sizeVars, workerVars, Placement, Held, Unfinished, Busy
<1>1. ASSUME Fill PROVE Held'
  BY <1>1 DEF Fill
<1>2. ASSUME Check PROVE Held'
  BY <1>2 DEF Check, Forgotten, Succeeded
<1>3. ASSUME Acquire PROVE Held'
  BY <1>3 DEF Acquire
<1>4. ASSUME Enqueue PROVE Held'
  BY <1>4 DEF Enqueue
<1>5. ASSUME AddCallback PROVE Held'
  BY <1>5 DEF AddCallback
<1>6. ASSUME Join PROVE Held'
  BY <1>6 DEF Join
<1>7. ASSUME LastCheck PROVE Held'
  BY <1>7 DEF LastCheck, Forgotten, Succeeded
<1>8. ASSUME Return PROVE Held'
  BY <1>8 DEF Return
<1>9. ASSUME NEW w \in Workers, Take(w) PROVE Held'
  BY <1>9 DEF Take
<1>10. ASSUME NEW w \in Workers, HandleOk(w) PROVE Held'
  BY <1>10 DEF HandleOk, HandlerReturned
<1>11. ASSUME NEW w \in Workers, HandleRaisesRetriable(w) PROVE Held'
  BY <1>11 DEF HandleRaisesRetriable
<1>12. ASSUME NEW w \in Workers, HandleRaises(w) PROVE Held'
  BY <1>12 DEF HandleRaises, Fail
<1>13. ASSUME NEW w \in Workers, RetryOk(w) PROVE Held'
  BY <1>13 DEF RetryOk, HandlerReturned
<1>14. ASSUME NEW w \in Workers, RetryAgain(w) PROVE Held'
  BY <1>14 DEF RetryAgain
<1>15. ASSUME NEW w \in Workers, RetryRaises(w) PROVE Held'
  BY <1>15 DEF RetryRaises, Fail
<1>16. ASSUME NEW w \in Workers, Track(w) PROVE Held'
  BY <1>16 DEF Track
<1>17. ASSUME NEW w \in Workers, Release(w) PROVE Held'
  BY <1>17 DEF Release
<1>18. ASSUME NEW w \in Workers, ReadForDecrease(w) PROVE Held'
  BY <1>18 DEF ReadForDecrease, ToRetry
<1>19. ASSUME NEW w \in Workers, Halve(w) PROVE Held'
  BY <1>19 DEF Halve
<1>20. ASSUME NEW w \in Workers, NoteHalved(w) PROVE Held'
  BY <1>20 DEF NoteHalved, ToRetry
<1>21. ASSUME NEW w \in Workers, ReadForIncrease(w) PROVE Held'
  BY <1>21 DEF ReadForIncrease
<1>22. ASSUME NEW w \in Workers, Double(w) PROVE Held'
  BY <1>22 DEF Double
<1>23. ASSUME NEW w \in Workers, NoteDoubled(w) PROVE Held'
  BY <1>23 DEF NoteDoubled
<1>24. ASSUME Cooldown PROVE Held'
  BY <1>24 DEF Cooldown
<1>25. ASSUME UNCHANGED vars PROVE Held'
  BY <1>25
<1>26. ASSUME FillRaises PROVE Held'
  BY <1>26 DEF FillRaises, Raise
<1>27. ASSUME EnqueueRaises PROVE Held'
  BY <1>27 DEF EnqueueRaises, Raise
<1> QED BY <1>1, <1>2, <1>3, <1>4, <1>5, <1>6, <1>7, <1>8, <1>9, <1>10, <1>11, <1>12, <1>13, <1>14, <1>15, <1>16, <1>17, <1>18, <1>19, <1>20, <1>21, <1>22, <1>23, <1>24, <1>25, <1>26, <1>27 DEF Next, MainStep, WorkerStep

(* main joins the threads before it looks at the futures for the last time. *)
LEMMA EndingNext == Placement /\ [Next]_vars => Ending'
<1> SUFFICES ASSUME Placement, [Next]_vars PROVE Ending'
  OBVIOUS
<1>0. /\ queue \subseteq futures /\ failed \subseteq futures /\ failed \subseteq done /\ Ending
      /\ \A f \in futures \ done : f \in queue \/ \E w \in Workers : Busy(w) /\ batch[w] = f
      /\ DOMAIN wpc = Workers /\ DOMAIN batch = Workers
      /\ next \in Int
  BY DEF Placement, Shape, Placed, TypeOK, Unfinished, Busy
<1> USE <1>0 DEF vars, mainVars, poolVars, sizeVars, workerVars, Ending, Busy
<1>1. ASSUME Fill PROVE Ending'
  BY <1>1 DEF Fill
<1>2. ASSUME Check PROVE Ending'
  BY <1>2 DEF Check, Forgotten, Succeeded
<1>3. ASSUME Acquire PROVE Ending'
  BY <1>3 DEF Acquire
<1>4. ASSUME Enqueue PROVE Ending'
  BY <1>4 DEF Enqueue
<1>5. ASSUME AddCallback PROVE Ending'
  BY <1>5 DEF AddCallback
<1>6. ASSUME Join PROVE Ending'
  BY <1>6 DEF Join
<1>7. ASSUME LastCheck PROVE Ending'
  BY <1>7 DEF LastCheck, Forgotten, Succeeded
<1>8. ASSUME Return PROVE Ending'
  BY <1>8 DEF Return
<1>9. ASSUME NEW w \in Workers, Take(w) PROVE Ending'
  BY <1>9 DEF Take
<1>10. ASSUME NEW w \in Workers, HandleOk(w) PROVE Ending'
  BY <1>10 DEF HandleOk, HandlerReturned
<1>11. ASSUME NEW w \in Workers, HandleRaisesRetriable(w) PROVE Ending'
  BY <1>11 DEF HandleRaisesRetriable
<1>12. ASSUME NEW w \in Workers, HandleRaises(w) PROVE Ending'
  BY <1>12 DEF HandleRaises, Fail
<1>13. ASSUME NEW w \in Workers, RetryOk(w) PROVE Ending'
  BY <1>13 DEF RetryOk, HandlerReturned
<1>14. ASSUME NEW w \in Workers, RetryAgain(w) PROVE Ending'
  BY <1>14 DEF RetryAgain
<1>15. ASSUME NEW w \in Workers, RetryRaises(w) PROVE Ending'
  BY <1>15 DEF RetryRaises, Fail
<1>16. ASSUME NEW w \in Workers, Track(w) PROVE Ending'
  BY <1>16 DEF Track
<1>17. ASSUME NEW w \in Workers, Release(w) PROVE Ending'
  BY <1>17 DEF Release
<1>18. ASSUME NEW w \in Workers, ReadForDecrease(w) PROVE Ending'
  BY <1>18 DEF ReadForDecrease, ToRetry
<1>19. ASSUME NEW w \in Workers, Halve(w) PROVE Ending'
  BY <1>19 DEF Halve
<1>20. ASSUME NEW w \in Workers, NoteHalved(w) PROVE Ending'
  BY <1>20 DEF NoteHalved, ToRetry
<1>21. ASSUME NEW w \in Workers, ReadForIncrease(w) PROVE Ending'
  BY <1>21 DEF ReadForIncrease
<1>22. ASSUME NEW w \in Workers, Double(w) PROVE Ending'
  BY <1>22 DEF Double
<1>23. ASSUME NEW w \in Workers, NoteDoubled(w) PROVE Ending'
  BY <1>23 DEF NoteDoubled
<1>24. ASSUME Cooldown PROVE Ending'
  BY <1>24 DEF Cooldown
<1>25. ASSUME UNCHANGED vars PROVE Ending'
  BY <1>25
<1>26. ASSUME FillRaises PROVE Ending'
  BY <1>26 DEF FillRaises, Raise
<1>27. ASSUME EnqueueRaises PROVE Ending'
  BY <1>27 DEF EnqueueRaises, Raise
<1> QED BY <1>1, <1>2, <1>3, <1>4, <1>5, <1>6, <1>7, <1>8, <1>9, <1>10, <1>11, <1>12, <1>13, <1>14, <1>15, <1>16, <1>17, <1>18, <1>19, <1>20, <1>21, <1>22, <1>23, <1>24, <1>25, <1>26, <1>27 DEF Next, MainStep, WorkerStep

(* Only the batch in hand is without its callback. *)
LEMMA WaitingNext == Placement /\ [Next]_vars => Waiting'
<1> SUFFICES ASSUME Placement, [Next]_vars PROVE Waiting'
  OBVIOUS
<1>0. /\ queue \subseteq futures \ done /\ failed \subseteq done /\ Held /\ Waiting
      /\ callback \subseteq futures \cup done
      /\ DOMAIN wpc = Workers /\ DOMAIN batch = Workers
      /\ main \in {"acquire", "enqueue"} => current \notin callback
  <2>1. /\ queue \subseteq futures \ done /\ failed \subseteq done /\ Held /\ Waiting
        /\ callback \subseteq futures \cup done
        /\ DOMAIN wpc = Workers /\ DOMAIN batch = Workers
    BY DEF Placement, Shape, Placed, TypeOK, Submitted
  <2>2. ASSUME main \in {"acquire", "enqueue"}, current \in callback PROVE FALSE
    <3>1. current \in Submitted /\ Sized(current) /\ current.hi < current.lo
      BY <2>2 DEF Placement, Shape, Placed, Front, InHand
    <3> QED BY <3>1, SizedFacts
  <2> QED BY <2>1, <2>2
<1> USE <1>0 DEF vars, mainVars, poolVars, sizeVars, workerVars, Waiting, Submitted, Busy, Unfinished
<1>1. ASSUME Fill PROVE Waiting'
  BY <1>1 DEF Fill
<1>2. ASSUME Check PROVE Waiting'
  BY <1>2 DEF Check, Forgotten, Succeeded
<1>3. ASSUME Acquire PROVE Waiting'
  BY <1>3 DEF Acquire
<1>4. ASSUME Enqueue PROVE Waiting'
  BY <1>4 DEF Enqueue
<1>5. ASSUME AddCallback PROVE Waiting'
  BY <1>5 DEF AddCallback
<1>6. ASSUME Join PROVE Waiting'
  BY <1>6 DEF Join
<1>7. ASSUME LastCheck PROVE Waiting'
  BY <1>7 DEF LastCheck, Forgotten, Succeeded
<1>8. ASSUME Return PROVE Waiting'
  BY <1>8 DEF Return
<1>9. ASSUME NEW w \in Workers, Take(w) PROVE Waiting'
  BY <1>9 DEF Take
<1>10. ASSUME NEW w \in Workers, HandleOk(w) PROVE Waiting'
  BY <1>10 DEF HandleOk, HandlerReturned
<1>11. ASSUME NEW w \in Workers, HandleRaisesRetriable(w) PROVE Waiting'
  BY <1>11 DEF HandleRaisesRetriable
<1>12. ASSUME NEW w \in Workers, HandleRaises(w) PROVE Waiting'
  BY <1>12 DEF HandleRaises, Fail, Held
<1>13. ASSUME NEW w \in Workers, RetryOk(w) PROVE Waiting'
  BY <1>13 DEF RetryOk, HandlerReturned
<1>14. ASSUME NEW w \in Workers, RetryAgain(w) PROVE Waiting'
  BY <1>14 DEF RetryAgain
<1>15. ASSUME NEW w \in Workers, RetryRaises(w) PROVE Waiting'
  BY <1>15 DEF RetryRaises, Fail, Held
<1>16. ASSUME NEW w \in Workers, Track(w) PROVE Waiting'
  BY <1>16 DEF Track, Held
<1>17. ASSUME NEW w \in Workers, Release(w) PROVE Waiting'
  BY <1>17 DEF Release
<1>18. ASSUME NEW w \in Workers, ReadForDecrease(w) PROVE Waiting'
  BY <1>18 DEF ReadForDecrease, ToRetry
<1>19. ASSUME NEW w \in Workers, Halve(w) PROVE Waiting'
  BY <1>19 DEF Halve
<1>20. ASSUME NEW w \in Workers, NoteHalved(w) PROVE Waiting'
  BY <1>20 DEF NoteHalved, ToRetry
<1>21. ASSUME NEW w \in Workers, ReadForIncrease(w) PROVE Waiting'
  BY <1>21 DEF ReadForIncrease
<1>22. ASSUME NEW w \in Workers, Double(w) PROVE Waiting'
  BY <1>22 DEF Double
<1>23. ASSUME NEW w \in Workers, NoteDoubled(w) PROVE Waiting'
  BY <1>23 DEF NoteDoubled
<1>24. ASSUME Cooldown PROVE Waiting'
  BY <1>24 DEF Cooldown
<1>25. ASSUME UNCHANGED vars PROVE Waiting'
  BY <1>25
<1>26. ASSUME FillRaises PROVE Waiting'
  BY <1>26 DEF FillRaises, Raise
<1>27. ASSUME EnqueueRaises PROVE Waiting'
  BY <1>27 DEF EnqueueRaises, Raise
<1> QED BY <1>1, <1>2, <1>3, <1>4, <1>5, <1>6, <1>7, <1>8, <1>9, <1>10, <1>11, <1>12, <1>13, <1>14, <1>15, <1>16, <1>17, <1>18, <1>19, <1>20, <1>21, <1>22, <1>23, <1>24, <1>25, <1>26, <1>27 DEF Next, MainStep, WorkerStep

(* A thread moves no batch in or out, and main's place is its own. *)
LEMMA WorkerKeeps ==
  ASSUME Placement, NEW w \in Workers, WorkerStep(w)
  PROVE  /\ UNCHANGED <<main, next, current, raising, futures, late>>
         /\ Submitted' = Submitted /\ Front' = Front
<1>1. UNCHANGED <<main, next, current, raising, futures>> /\ late' = late
  BY DEF WorkerStep, mainVars, poolVars, Take, HandleOk, HandleRaisesRetriable, HandleRaises, RetryOk, RetryAgain, RetryRaises, Track, Release, ReadForDecrease, Halve, NoteHalved, ReadForIncrease, Double, NoteDoubled, Fail, ToRetry
<1>2. done' = done \/ (Unfinished(w) /\ done' = done \cup {batch[w]})
  BY DEF WorkerStep, poolVars, Unfinished, Take, HandleOk, HandleRaisesRetriable, HandleRaises, RetryOk, RetryAgain, RetryRaises, Track, Release, ReadForDecrease, Halve, NoteHalved, ReadForIncrease, Double, NoteDoubled, Fail, ToRetry
<1>3. Unfinished(w) => batch[w] \in futures
  BY DEF Placement, Held
<1> QED BY <1>1, <1>2, <1>3 DEF Submitted, Front

(* The cut goes on where the last batch ended. *)
LEMMA CutNext == Placement /\ Cut /\ [Next]_vars => Cut'
<1> SUFFICES ASSUME Placement, Cut, [Next]_vars PROVE Cut'
  OBVIOUS
<1>1. ASSUME Submitted' = Submitted, Front' = Front \/ raising', raising => raising' PROVE Cut'
  BY <1>1 DEF Cut
<1>2. /\ failed \subseteq done /\ Placed /\ next \in Int
      /\ main \in InHand => Sized(current) /\ current.hi = next - 1
      /\ \A b \in Submitted : Sized(b) /\ b.hi < Front
  BY DEF Placement, Shape, Placed, TypeOK
<1>3. CASE Fill
  <2>1. Submitted' = Submitted /\ Front' = Front /\ raising' = raising
    <3>1. CASE next > NumItems
      BY <1>3, <3>1 DEF Fill, Submitted, Front, InHand, poolVars
    <3>2. CASE ~(next > NumItems)
      <4>1. PICK hi \in Items : current' = [lo |-> next, hi |-> hi] /\ main' = "check"
        BY <1>3, <3>2 DEF Fill
      <4> QED BY <1>3, <4>1 DEF Fill, Submitted, Front, InHand, poolVars
    <3> QED BY <3>1, <3>2
  <2> QED BY <1>1, <2>1
<1>4. CASE Check
  BY <1>1, <1>2, <1>4 DEF Check, Forgotten, Succeeded, Submitted, Front, InHand
<1>5. CASE Enqueue
  <2>1. /\ Submitted' = Submitted \cup {current} /\ raising' = raising
        /\ Front = current.lo /\ Front' = next
    BY <1>5 DEF Enqueue, Submitted, Front, InHand
  <2>2. current.lo \in Int /\ current.hi \in Int /\ current.hi = next - 1
    BY <1>2, <1>5, SizedFacts DEF Enqueue, InHand
  <2>3. \A b, c \in Submitted' : Apart(b, c)
    BY <1>2, <2>1, <2>2, SizedFacts DEF Cut, Apart
  <2>4. ASSUME ~raising, NEW i \in Items, i < next PROVE \E b \in Submitted' : i \in ItemsOf(b)
    <3>1. CASE i < current.lo
      BY <2>1, <2>4, <3>1 DEF Cut
    <3>2. CASE ~(i < current.lo)
      <4>1. i \in ItemsOf(current)
        BY <1>2, <2>2, <2>4, <3>2, BatchWorkAssumption DEF ItemsOf, Items
      <4> QED BY <2>1, <4>1
    <3> QED BY <3>1, <3>2
  <2> QED BY <2>1, <2>3, <2>4 DEF Cut
<1>6. CASE Acquire \/ AddCallback \/ Join \/ Return
  BY <1>1, <1>6 DEF Acquire, AddCallback, Join, Return, Submitted, Front, InHand, poolVars
<1>7. CASE LastCheck
  BY <1>1, <1>2, <1>7 DEF LastCheck, Forgotten, Succeeded, Submitted, Front, InHand
<1>8. CASE \E w \in Workers : WorkerStep(w)
  BY <1>1, <1>8, WorkerKeeps
<1>9. CASE Cooldown \/ UNCHANGED vars
  BY <1>1, <1>9 DEF Cooldown, vars, mainVars, poolVars, Submitted, Front
<1>10. CASE FillRaises \/ EnqueueRaises
  <2>1. Submitted' = Submitted /\ raising' = TRUE
    BY <1>10 DEF FillRaises, EnqueueRaises, Raise, poolVars, Submitted
  <2> QED BY <1>1, <2>1
<1> QED BY <1>3, <1>4, <1>5, <1>6, <1>7, <1>8, <1>9, <1>10 DEF Next, MainStep

(* What Counted needs of the places: threads hold different batches, whose    *)
(* items are their own and lie before the front.                             *)
LEMMA Owners ==
  ASSUME Placement, Cut
  PROVE  /\ failed \subseteq done /\ queue \subseteq futures \ done
         /\ DOMAIN wpc = Workers /\ DOMAIN batch = Workers /\ DOMAIN item = Workers
         /\ \A w \in Workers : item[w] \in Int /\ (Busy(w) => batch[w] \in Submitted \ queue)
         /\ \A w \in Workers : Unfinished(w) => batch[w] \notin done
         /\ \A v, w \in Workers : Busy(v) /\ Busy(w) /\ batch[v] = batch[w] => v = w
         /\ \A b \in Submitted : \A i \in ItemsOf(b) : i \in Items /\ i < Front
         /\ \A b, c \in Submitted : b # c => ItemsOf(b) \cap ItemsOf(c) = {}
         /\ handled \in [Items -> Nat]
<1>1. /\ failed \subseteq done /\ queue \subseteq futures \ done
      /\ DOMAIN wpc = Workers /\ DOMAIN batch = Workers /\ DOMAIN item = Workers
      /\ handled \in [Items -> Nat] /\ next \in Int
  BY DEF Placement, Shape, Placed, TypeOK
<1>2. \A w \in Workers : item[w] \in Int
  BY DEF Placement, Shape, TypeOK
<1>3. \A w \in Workers : /\ Busy(w) => batch[w] \in Submitted \ queue
                         /\ Unfinished(w) => batch[w] \notin done
  BY DEF Placement, Held, Busy, Unfinished, Submitted
<1>4. \A v, w \in Workers : Busy(v) /\ Busy(w) /\ batch[v] = batch[w] => v = w
  BY DEF Placement, Held
<1>5. Front \in Int
  BY <1>1, SizedFacts DEF Placement, Shape, Front
<1>6. \A b \in Submitted : b.hi < Front /\ Sized(b)
  BY DEF Placement, Placed, Shape
<1>7. \A b \in Submitted : \A i \in ItemsOf(b) : i \in Items /\ i < Front
  BY <1>5, <1>6, SizedFacts, BatchWorkAssumption DEF ItemsOf, Items
<1>8. \A b, c \in Submitted : b # c => ItemsOf(b) \cap ItemsOf(c) = {}
  BY <1>6, SizedFacts DEF Cut, Apart, ItemsOf
<1> QED BY <1>1, <1>2, <1>3, <1>4, <1>7, <1>8

LEMMA FrontInt == Placement => Front \in Int
  BY SizedFacts DEF Placement, Shape, TypeOK, Front

(* main hands over items that were not handled, and touches nothing else. *)
LEMMA CountedMain == Handling /\ MainStep => Counted'
<1> SUFFICES ASSUME Handling, MainStep PROVE Counted'
  OBVIOUS
<1>1. UNCHANGED <<done, failed, wpc, batch, item, handled>>
  BY DEF MainStep, workerVars, poolVars, Fill, FillRaises, Check, Acquire, Enqueue, EnqueueRaises, AddCallback, Join,
         LastCheck, Return
<1>2. /\ next \in Int
      /\ main \in InHand => Sized(current)
      /\ main \in InHand => current.hi = next - 1
  BY DEF Handling, Placement, Shape, TypeOK
<1>3. Front' = Front \/ (main \in InHand /\ Front = current.lo /\ Front' = next)
  <2>1. CASE Fill
    <3>1. CASE next > NumItems
      BY <2>1, <3>1 DEF Fill, Front, InHand
    <3>2. CASE ~(next > NumItems)
      <4>1. PICK hi \in Items : current' = [lo |-> next, hi |-> hi] /\ main' = "check"
        BY <2>1, <3>2 DEF Fill
      <4> QED BY <2>1, <4>1 DEF Fill, Front, InHand
    <3> QED BY <3>1, <3>2
  <2>2. CASE FillRaises \/ Check \/ Acquire \/ Enqueue \/ EnqueueRaises \/ AddCallback \/ Join \/ LastCheck \/ Return
    BY <2>2 DEF FillRaises, Check, Acquire, Enqueue, EnqueueRaises, AddCallback, Join, LastCheck, Return, Raise,
                mainVars, Front, InHand
  <2> QED BY <2>1, <2>2 DEF MainStep
<1>4. Front' = Front \/ (Front \in Int /\ Front' \in Int /\ Front <= Front')
  BY <1>2, <1>3, SizedFacts
<1>5. \A b \in queue' : b \in queue \/ \A i \in ItemsOf(b) : i \in Items /\ i >= Front
  <2>1. CASE Enqueue
    <3>1. main = "enqueue" /\ queue' = queue \cup {current} /\ Front = current.lo /\ Sized(current)
      BY <1>2, <2>1 DEF Enqueue, Front, InHand
    <3>2. \A i \in ItemsOf(current) : i \in Items /\ i >= Front
      BY <3>1, SizedFacts, BatchWorkAssumption DEF ItemsOf, Items
    <3> QED BY <3>1, <3>2
  <2>2. CASE Fill \/ FillRaises \/ Check \/ Acquire \/ EnqueueRaises \/ AddCallback \/ Join \/ LastCheck \/ Return
    BY <2>2 DEF Fill, FillRaises, Check, Acquire, EnqueueRaises, AddCallback, Join, LastCheck, Return, poolVars
  <2> QED BY <2>1, <2>2 DEF MainStep
<1>6. \A i \in Items : i >= Front' => i >= Front
  BY <1>4, BatchWorkAssumption DEF Items
<1> QED BY <1>1, <1>5, <1>6 DEF Handling, Counted, Busy

(* A thread's handler returns for the items of its own batch only. *)
LEMMA CountedWorker == ASSUME Handling, NEW w \in Workers, WorkerStep(w) PROVE Counted'
<1>1. Front' = Front
  BY WorkerKeeps DEF Handling
<1>2. /\ Counted /\ failed \subseteq done /\ queue \subseteq futures \ done
      /\ DOMAIN wpc = Workers /\ DOMAIN batch = Workers /\ DOMAIN item = Workers
  BY Owners DEF Handling
<1> USE <1>1, <1>2 DEF Counted, Busy
<1>3. CASE Take(w)
  BY <1>3 DEF Take
<1>4. CASE HandleOk(w)
  <2> DEFINE mine == ItemsOf(batch[w])
  <2>1. /\ wpc[w] = "handle" /\ handled' = [i \in Items |-> IF i \in mine THEN handled[i] + 1 ELSE handled[i]]
        /\ wpc' = [wpc EXCEPT ![w] = "increase"] /\ UNCHANGED <<queue, done, failed, batch, item>>
    BY <1>4 DEF HandleOk, HandlerReturned, poolVars
  <2>2. \A i \in mine : i \in Items /\ i < Front /\ handled[i] = 0 /\ ~(i >= Front)
    BY <2>1, Owners, FrontInt DEF Handling, Items
  <2>3. \A b \in queue \cup done : \A i \in ItemsOf(b) : i \notin mine /\ i \in Items
    BY <2>1, Owners DEF Handling, Unfinished, Submitted
  <2>4. \A v \in Workers : Busy(v) /\ v # w => \A i \in ItemsOf(batch[v]) : i \notin mine /\ i \in Items
    BY <2>1, Owners DEF Handling
  <2> QED BY <2>1, <2>2, <2>3, <2>4
<1>5. CASE RetryOk(w)
  <2>1. /\ wpc[w] = "retry" /\ handled' = [i \in Items |-> IF i \in {item[w]} THEN handled[i] + 1 ELSE handled[i]]
        /\ UNCHANGED <<queue, done, failed, batch>>
        /\ IF item[w] < batch[w].hi
           THEN item' = [item EXCEPT ![w] = @ + 1] /\ wpc' = wpc
           ELSE item' = item /\ wpc' = [wpc EXCEPT ![w] = "track"]
    BY <1>5 DEF RetryOk, HandlerReturned, poolVars
  <2>2. item[w] \in ItemsOf(batch[w]) /\ Sized(batch[w])
    BY <2>1 DEF Handling, Placement, Shape
  <2>3. \A i \in ItemsOf(batch[w]) : i \in Items /\ i \in Int /\ i < Front /\ ~(i >= Front) /\ i <= batch[w].hi
    BY <2>1, <2>2, Owners, FrontInt, SizedFacts DEF Handling, Items, ItemsOf
  <2>4. \A b \in queue \cup done : \A i \in ItemsOf(b) : i # item[w] /\ i \in Items
    BY <2>1, <2>2, Owners DEF Handling, Unfinished, Submitted
  <2>5. \A v \in Workers : Busy(v) /\ v # w => \A i \in ItemsOf(batch[v]) : i # item[w] /\ i \in Items
    BY <2>1, <2>2, Owners DEF Handling
  <2>6. handled[item[w]] = 0 /\ item[w] \in Int
    BY <2>1, <2>2, <2>3
  <2>7. batch[w].hi \in Int
    BY <2>2, SizedFacts
  <2>8. CASE item[w] < batch[w].hi
    <3>1. \A i \in ItemsOf(batch[w]) : handled'[i] = (IF i < item'[w] THEN 1 ELSE 0)
      BY <2>1, <2>3, <2>6, <2>8
    <3> QED BY <2>1, <2>2, <2>3, <2>4, <2>5, <2>6, <2>8, <3>1
  <2>9. CASE ~(item[w] < batch[w].hi)
    <3>1. \A i \in ItemsOf(batch[w]) : handled'[i] = 1
      BY <2>1, <2>3, <2>6, <2>7, <2>9
    <3> QED BY <2>1, <2>2, <2>3, <2>4, <2>5, <2>6, <2>9, <3>1
  <2> QED BY <2>8, <2>9
<1>6. CASE HandleRaises(w) \/ RetryRaises(w)
  BY <1>6 DEF HandleRaises, RetryRaises, Fail
<1>7. CASE Track(w) \/ Release(w)
  BY <1>7 DEF Track, Release
<1>8. CASE HandleRaisesRetriable(w) \/ RetryAgain(w) \/ ReadForIncrease(w) \/ Halve(w) \/ Double(w) \/ NoteDoubled(w)
  BY <1>8 DEF HandleRaisesRetriable, RetryAgain, ReadForIncrease, Halve, Double, NoteDoubled, poolVars
<1>9. CASE ReadForDecrease(w) \/ NoteHalved(w)
  <2>1. \A i \in ItemsOf(batch[w]) : ~(i < batch[w].lo)
    BY <1>9, SizedFacts DEF ReadForDecrease, NoteHalved, Handling, Placement, Shape, ItemsOf
  <2> QED BY <1>9, <2>1 DEF ReadForDecrease, NoteHalved, ToRetry, poolVars
<1> QED BY <1>3, <1>4, <1>5, <1>6, <1>7, <1>8, <1>9 DEF WorkerStep

(* The batches that hold a permit: PermitsBalance in one set *)
LEMMA HoldingIs ==
  Holding = {b \in Outstanding : b \notin done \/ b \in callback}
            \cup (IF main = "callback" /\ current \in done THEN {current} ELSE {})
  BY DEF Holding, Outstanding, Busy

(* A permit given or taken goes with the batch that holds it. *)
LEMMA Exchange ==
  ASSUME NEW S, IsFiniteSet(S), NEW b, NEW k \in Int, NEW n \in Int, k + Cardinality(S) = n
  PROVE  /\ b \notin S => IsFiniteSet(S \cup {b}) /\ k - 1 + Cardinality(S \cup {b}) = n
         /\ b \in S => IsFiniteSet(S \ {b}) /\ k + 1 + Cardinality(S \ {b}) = n
<1>1. Cardinality(S) \in Int
  BY FS_CardinalityType
<1>2. ASSUME b \notin S PROVE IsFiniteSet(S \cup {b}) /\ Cardinality(S \cup {b}) = Cardinality(S) + 1
  BY <1>2, FS_AddElement
<1>3. ASSUME b \in S PROVE IsFiniteSet(S \ {b}) /\ Cardinality(S \ {b}) = Cardinality(S) - 1
  BY <1>3, FS_RemoveElement
<1> QED BY <1>1, <1>2, <1>3

LEMMA BalanceInit == Init => Balance
<1> SUFFICES ASSUME Init PROVE Balance
  OBVIOUS
<1>1. Holding = {}
  BY DEF Init, Holding, Busy
<1>2. Capacity \in Nat /\ permits = Capacity /\ main = "fill"
  BY BatchWorkAssumption, FS_CardinalityType DEF Init, Capacity
<1> QED BY <1>1, <1>2, FS_EmptySet DEF Balance, InReserve

LEMMA BalanceNext == Placement /\ Balance /\ [Next]_vars => Balance'
<1> SUFFICES ASSUME Placement, Balance, [Next]_vars PROVE Balance'
  OBVIOUS
<1>1. /\ permits \in Int /\ Capacity \in Int /\ InReserve \in Int /\ IsFiniteSet(Holding)
      /\ permits >= 0 /\ permits + InReserve + Cardinality(Holding) = Capacity
      /\ Cardinality(Holding) \in Int
  BY BatchWorkAssumption, FS_CardinalityType DEF Balance, Capacity, InReserve, Placement, Shape, TypeOK
<1>2. /\ DOMAIN wpc = Workers /\ DOMAIN batch = Workers /\ failed \subseteq done
      /\ queue \subseteq futures \ done /\ Held /\ Waiting /\ callback \subseteq Submitted
  BY DEF Placement, Shape, Placed, TypeOK
<1>3. ASSUME main \in {"acquire", "enqueue"} PROVE current \notin Submitted
  <2>1. ASSUME current \in Submitted PROVE FALSE
    BY <1>3, <2>1, SizedFacts DEF Placement, Shape, Placed, Front, InHand
  <2> QED BY <2>1
<1>4. ASSUME Holding' = Holding, permits' + InReserve' = permits + InReserve, permits' \in Int, permits' >= 0
      PROVE  Balance'
  BY <1>1, <1>4 DEF Balance, InReserve, Capacity
<1>5. CASE Fill \/ FillRaises \/ Check \/ Join \/ LastCheck \/ Return
  <2>1. UNCHANGED <<queue, wpc, batch, done, callback, permits>>
    BY <1>5 DEF Fill, FillRaises, Check, Join, LastCheck, Return, poolVars, workerVars
  <2>2. main \notin {"callback", "enqueue"} /\ main' \notin {"callback", "enqueue"}
    BY <1>5 DEF Fill, FillRaises, Raise, Check, Join, LastCheck, Return
  <2>3. Holding' = Holding /\ InReserve' = InReserve
    BY <2>1, <2>2 DEF Holding, Busy, InReserve
  <2> QED BY <1>1, <1>4, <2>1, <2>3
<1>6. CASE Acquire
  <2>1. Holding' = Holding /\ InReserve' = 1 /\ InReserve = 0 /\ permits' = permits - 1 /\ permits > 0
    BY <1>6 DEF Acquire, workerVars, Holding, Busy, InReserve
  <2> QED BY <1>1, <1>4, <2>1
<1>7. CASE Enqueue
  <2>1. Holding' = Holding \cup {current} /\ current \notin Holding
    <3>1. current \notin Submitted
      BY <1>3, <1>7 DEF Enqueue
    <3>2. \A w \in Workers : Busy(w) => batch[w] # current
      BY <1>2, <3>1 DEF Held, Busy, Unfinished, Submitted
    <3> QED BY <1>2, <1>7, <3>1, <3>2 DEF Enqueue, workerVars, Holding, Busy, Submitted
  <2>2. InReserve' = 0 /\ InReserve = 1 /\ permits' = permits
    BY <1>7 DEF Enqueue, InReserve
  <2>3. IsFiniteSet(Holding') /\ permits + 1 - 1 + Cardinality(Holding') = Capacity
    BY <1>1, <2>1, <2>2, Exchange
  <2>4. Cardinality(Holding') \in Int
    BY <2>3, FS_CardinalityType
  <2> QED BY <1>1, <2>2, <2>3, <2>4 DEF Balance, Capacity
<1>8. CASE AddCallback
  <2>1. InReserve' = 0 /\ InReserve = 0 /\ current \notin callback
    BY <1>2, <1>8 DEF AddCallback, InReserve, Waiting
  <2>2. CASE current \in done
    <3>1. Holding' = Holding \ {current} /\ current \in Holding /\ permits' = permits + 1
      BY <1>8, <2>1, <2>2 DEF AddCallback, workerVars, Holding, Busy
    <3>2. IsFiniteSet(Holding') /\ permits + 1 + Cardinality(Holding') = Capacity
      <4>1. permits + Cardinality(Holding) = Capacity
        BY <1>1, <2>1
      <4> QED BY <1>1, <3>1, <4>1, Exchange
    <3>3. Cardinality(Holding') \in Int
      BY <3>2, FS_CardinalityType
    <3> QED BY <1>1, <2>1, <3>1, <3>2, <3>3 DEF Balance, Capacity
  <2>3. CASE current \notin done
    <3>1. Holding' = Holding /\ permits' = permits
      BY <1>8, <2>3 DEF AddCallback, workerVars, Holding, Busy
    <3> QED BY <1>1, <1>4, <2>1, <3>1
  <2> QED BY <2>2, <2>3
<1>9. ASSUME NEW w \in Workers, WorkerStep(w), ~Release(w) PROVE Balance'
  <2>1. UNCHANGED <<main, current, permits, callback>>
    BY <1>9 DEF WorkerStep, mainVars, poolVars, Take, HandleOk, HandleRaisesRetriable, HandleRaises, RetryOk, RetryAgain, RetryRaises, Track, Release, ReadForDecrease, Halve, NoteHalved, ReadForIncrease, Double, NoteDoubled, Fail, ToRetry
  <2>2. CASE Take(w)
    <3>1. PICK b \in queue : queue' = queue \ {b} /\ batch' = [batch EXCEPT ![w] = b]
      BY <2>2 DEF Take
    <3>2. /\ wpc[w] = "idle" /\ wpc' = [wpc EXCEPT ![w] = "handle"] /\ done' = done
      BY <2>2 DEF Take
    <3>3. Holding' = Holding /\ InReserve' = InReserve
      BY <1>2, <2>1, <3>1, <3>2 DEF Holding, Busy, InReserve
    <3> QED BY <1>1, <1>4, <2>1, <3>3
  <2>3. CASE Track(w) \/ HandleRaises(w) \/ RetryRaises(w)
    <3>1. /\ done' = done \cup {batch[w]} /\ wpc[w] \in {"track", "handle", "retry"} /\ queue' = queue
          /\ wpc' = [wpc EXCEPT ![w] = "release"] /\ batch' = batch
      BY <2>3 DEF Track, HandleRaises, RetryRaises, Fail
    <3>2. batch[w] \in callback \/ (main = "callback" /\ batch[w] = current)
      BY <1>2, <3>1 DEF Held, Waiting, Unfinished
    <3>3. batch[w] \notin queue
      BY <1>2, <3>1 DEF Held, Busy
    <3>4. Holding' = Holding /\ InReserve' = InReserve
      BY <1>2, <2>1, <3>1, <3>2, <3>3 DEF Holding, Busy, InReserve, Waiting
    <3> QED BY <1>1, <1>4, <2>1, <3>4
  <2>4. CASE ~Take(w) /\ ~Track(w) /\ ~HandleRaises(w) /\ ~RetryRaises(w)
    <3>1. /\ UNCHANGED <<queue, done, batch>> /\ wpc[w] # "idle"
          /\ wpc' = wpc \/ \E at \in {"increase", "decrease", "track", "retry", "halve", "halved", "double", "doubled"} :
                             wpc' = [wpc EXCEPT ![w] = at]
      BY <1>9, <2>4 DEF WorkerStep, poolVars, HandleOk, HandleRaisesRetriable, RetryOk, RetryAgain,
         ReadForDecrease, Halve, NoteHalved, ReadForIncrease, Double, NoteDoubled, ToRetry
    <3>2. \A v \in Workers : Busy(v)' <=> Busy(v)
      BY <1>2, <3>1 DEF Busy
    <3>3. Holding' = Holding /\ InReserve' = InReserve
      BY <2>1, <3>1, <3>2 DEF Holding, InReserve
    <3> QED BY <1>1, <1>4, <2>1, <3>3
  <2> QED BY <2>2, <2>3, <2>4
<1>10. ASSUME NEW w \in Workers, Release(w) PROVE Balance'
  <2>1. /\ wpc[w] = "release" /\ wpc' = [wpc EXCEPT ![w] = "idle"] /\ batch' = [batch EXCEPT ![w] = NoBatch]
        /\ UNCHANGED <<main, current, queue, callback, done>>
        /\ permits' = IF batch[w] \in callback THEN permits + 1 ELSE permits
    BY <1>10 DEF Release, mainVars
  <2>2. /\ InReserve' = InReserve /\ batch[w] \in done /\ batch[w] \notin queue
        /\ \A v \in Workers : v # w /\ Busy(v) => batch[v] # batch[w]
    BY <1>2, <2>1 DEF InReserve, Held, Busy
  <2>3. CASE batch[w] \in callback
    <3>1. Holding' = Holding \ {batch[w]} /\ batch[w] \in Holding
      BY <1>2, <2>1, <2>2, <2>3 DEF Holding, Busy, Waiting
    <3>2. IsFiniteSet(Holding') /\ permits + InReserve + 1 + Cardinality(Holding') = Capacity
      <4>1. permits + InReserve \in Int
        BY <1>1
      <4>2. ASSUME NEW k \in Int, k + Cardinality(Holding) = Capacity
            PROVE  IsFiniteSet(Holding') /\ k + 1 + Cardinality(Holding') = Capacity
        BY <1>1, <3>1, <4>2, Exchange
      <4> QED BY <1>1, <4>1, <4>2
    <3>3. Cardinality(Holding') \in Int
      BY <3>2, FS_CardinalityType
    <3> QED BY <1>1, <2>1, <2>2, <2>3, <3>2, <3>3 DEF Balance, Capacity
  <2>4. CASE batch[w] \notin callback
    <3>1. Holding' = Holding
      BY <1>2, <2>1, <2>2, <2>4 DEF Holding, Busy
    <3> QED BY <1>1, <1>4, <2>1, <2>2, <2>4, <3>1
  <2> QED BY <2>3, <2>4
<1>11. CASE Cooldown \/ UNCHANGED vars
  <2>1. UNCHANGED <<main, current, queue, wpc, batch, done, callback, permits>>
    BY <1>11 DEF Cooldown, vars, mainVars, poolVars, workerVars
  <2>2. Holding' = Holding /\ InReserve' = InReserve
    BY <2>1 DEF Holding, Busy, InReserve
  <2> QED BY <1>1, <1>4, <2>1, <2>2
<1>12. CASE EnqueueRaises
  <2>1. Holding' = Holding /\ InReserve' = 0 /\ InReserve = 1 /\ permits' = permits + 1
    BY <1>12 DEF EnqueueRaises, Raise, workerVars, Holding, Busy, InReserve
  <2> QED BY <1>1, <1>4, <2>1
<1> QED BY <1>5, <1>6, <1>7, <1>8, <1>9, <1>10, <1>11, <1>12 DEF Next, MainStep

-----------------------------------------------------------------------------
LEMMA Placing == Placement /\ [Next]_vars => Placement'
  BY ShapeNext, PlacedNext, HeldNext, WaitingNext, EndingNext DEF Placement

LEMMA Counting == Handling /\ [Next]_vars => Handling'
<1> SUFFICES ASSUME Handling, [Next]_vars PROVE Handling'
  OBVIOUS
<1>1. Placement' /\ Cut'
  BY Placing, CutNext DEF Handling
<1>2. CASE MainStep
  BY <1>1, <1>2, CountedMain DEF Handling
<1>3. CASE \E w \in Workers : WorkerStep(w)
  BY <1>1, <1>3, CountedWorker DEF Handling
<1>4. CASE Cooldown \/ UNCHANGED vars
  <2>1. UNCHANGED <<queue, done, failed, wpc, batch, item, handled, main, current, next>>
    BY <1>4 DEF Cooldown, vars, mainVars, poolVars, workerVars
  <2>2. Counted'
    BY <2>1 DEF Handling, Counted, Busy, Front
  <2> QED BY <1>1, <2>2 DEF Handling
<1> QED BY <1>2, <1>3, <1>4 DEF Next

(* Whatever happens, every batch has its place and every item its count. *)
THEOREM HandlingTheorem == Spec => []Handling
<1>1. Init => Handling
  <2> SUFFICES ASSUME Init PROVE Handling
    OBVIOUS
  <2>1. Placed /\ Held /\ Waiting /\ Ending
    BY BatchWorkAssumption DEF Init, Placed, Held, Waiting, Ending, Submitted, Busy, Unfinished
  <2>2. Cut
    BY BatchWorkAssumption DEF Init, Cut, Submitted, Front, InHand, Items
  <2>3. Counted
    BY BatchWorkAssumption DEF Init, Counted, Front, InHand, Busy
  <2> QED BY ShapeInit, <2>1, <2>2, <2>3 DEF Handling, Placement
<1> QED BY <1>1, Counting, PTL DEF Spec

(* However the threads interleave their unlocked changes, the batch size and  *)
(* every batch stay within what the user asked for.                           *)
THEOREM BatchSizeTheorem == Spec => []BatchSizeInRange
<1>1. Handling => BatchSizeInRange
  BY DEF Handling, Placement, Shape, BatchSizeInRange, Submitted, Sized
<1> QED BY <1>1, HandlingTheorem, PTL

(* A failed batch and an exception of main's own both reach the caller, the  *)
(* caller sees an exception only for one of them, and main submits at most   *)
(* one batch after a failure.                                               *)
THEOREM FailureTheorem == Spec => []FailureSurfaces
<1>1. Handling => FailureSurfaces
  BY DEF Handling, Placement, Ending, FailureSurfaces
<1> QED BY <1>1, HandlingTheorem, PTL

(* A job that returns has had every item handled exactly once. *)
THEOREM ExactlyOnceTheorem == Spec => []ExactlyOnce
<1>1. Handling => ExactlyOnce
  <2> SUFFICES ASSUME Handling PROVE ExactlyOnce
    OBVIOUS
  <2>1. ASSUME main = "returned", NEW i \in Items PROVE handled[i] = 1
    <3>1. next > NumItems /\ Front = next /\ ~raising /\ futures = {} /\ failed = {}
      BY <2>1 DEF Handling, Placement, Ending, Front, InHand
    <3>2. i < Front
      BY <3>1, BatchWorkAssumption DEF Items, Handling, Placement, Shape, TypeOK
    <3>3. PICK b \in done : i \in ItemsOf(b)
      BY <3>1, <3>2 DEF Handling, Cut, Submitted
    <3> QED BY <3>1, <3>3 DEF Handling, Counted
  <2> QED BY <2>1 DEF ExactlyOnce, Handling, Counted
<1> QED BY <1>1, HandlingTheorem, PTL

(* Every permit is free, about to be used, or held by one batch in flight. *)
THEOREM PermitsTheorem == Spec => []PermitsBalance
<1>1. Placement /\ Balance => PermitsBalance
  <2> SUFFICES ASSUME Placement, Balance PROVE PermitsBalance
    OBVIOUS
  <2> DEFINE held == {b \in Outstanding : b \notin done \/ b \in callback}
             pending == IF main = "callback" /\ current \in done THEN {current} ELSE {}
             mine == IF main = "enqueue" THEN 1 ELSE 0
  <2>1. Holding = held \cup pending /\ mine = InReserve
    BY HoldingIs DEF InReserve
  <2>2. permits \in Int /\ Cardinality(Holding) \in Int
    BY FS_CardinalityType DEF Balance, Placement, Shape, TypeOK
  <2>3. permits >= 0 /\ permits + Cardinality(held \cup pending) + mine = Capacity
    BY <2>1, <2>2 DEF Balance, InReserve
  <2> QED BY <2>3 DEF PermitsBalance
<1>2. Handling /\ Balance /\ [Next]_vars => Balance'
  BY BalanceNext DEF Handling
<1>3. Handling => Placement
  BY DEF Handling
<1> QED BY <1>1, <1>2, <1>3, BalanceInit, HandlingTheorem, PTL DEF Spec

=============================================================================
