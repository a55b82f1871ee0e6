---------------------------- MODULE NodeJobsProofs ----------------------------
(***************************************************************************)
(* Proofs about NodeJobs, for any number of threads, blocks, retries and   *)
(* faults.                                                                 *)
(*                                                                         *)
(* AnswerIsOurs.  Exchanged says where the answer to a thread's request    *)
(* is: not asked for yet, with the node, on the socket, or half of it      *)
(* read.  Outside of a request the connection carries nothing, which is    *)
(* what closing it on a timeout is for.                                    *)
(*                                                                         *)
(* RetriesBounded and EndedIsComplete.  JobInv says of each block where it *)
(* is (not yet submitted, in the batch of one thread, in a failed batch,   *)
(* or handled), and how often its items were exported there, as a function *)
(* of the tries its thread has made.                                       *)
(***************************************************************************)
EXTENDS NodeJobs, FiniteSetTheorems, TLAPS

Part(ids, i) == [ids |-> ids, chunk |-> i]

(* A thread's state and a connection are records of these fields. *)
IsThread(r) == DOMAIN r = {"pc", "batch", "attempt", "rest", "tries", "raw", "todo", "filter", "ticks"}
IsSocket(s) == DOMAIN s = {"alive", "pending", "incoming"}

Quiet(r, s) == s.pending = {} /\ s.incoming = <<>> /\ r.raw = <<>>
Asked(r, s) == s.pending = r.attempt /\ s.incoming = <<>> /\ r.raw = <<>>
Answered(r, s) == s.pending = {} /\ s.incoming = <<Part(r.attempt, 1), Part(r.attempt, 2)>> /\ r.raw = <<>>
HalfRead(r, s) == s.pending = {} /\ s.incoming = <<Part(r.attempt, 2)>> /\ r.raw = <<Part(r.attempt, 1)>>

Exchanged(r, s) == IF r.pc = "receive" THEN Quiet(r, s) \/ Asked(r, s) \/ Answered(r, s) \/ HalfRead(r, s)
                                       ELSE Quiet(r, s)

ThreadInv(r, s) == IsThread(r) /\ IsSocket(s) /\ r.todo \subseteq r.attempt /\ Exchanged(r, s)

AnswerInv == /\ worker = [w \in Workers |-> worker[w]] /\ sock = [w \in Workers |-> sock[w]]
             /\ \A w \in Workers : ThreadInv(worker[w], sock[w])

-----------------------------------------------------------------------------
(* The states from which a thread starts over hold no part of an answer. *)
Fresh(r) == IsThread(r) /\ r.pc # "receive" /\ r.todo = {} /\ r.raw = <<>>

LEMMA IdleIsFresh == Fresh(Idle)
  BY DEF Fresh, IsThread, Idle

LEMMA StartsFresh ==
  ASSUME NEW r, NEW blocks, NEW tries PROVE Fresh(Again(r, blocks, tries))
  BY DEF Fresh, IsThread, Again, Idle, FirstStep

LEMMA RaisedIsFresh ==
  ASSUME NEW w \in Workers, Raised(w)
  PROVE  \E r : Fresh(r) /\ worker' = [worker EXCEPT ![w] = r]
  BY IdleIsFresh, StartsFresh DEF Raised, Fatal, Set

LEMMA ReturnedIsFresh ==
  ASSUME NEW w \in Workers, NEW r, Returned(w, r)
  PROVE  \E q : Fresh(q) /\ worker' = [worker EXCEPT ![w] = q]
<1> DEFINE last == [Idle EXCEPT !.pc = "track", !.batch = r.batch, !.ticks = Cardinality(r.batch)]
<1>1. Fresh(last)
  BY DEF Fresh, IsThread, Idle
<1>2. worker' = [worker EXCEPT ![w] = IF r.rest # {} THEN Again(r, r.rest, 1) ELSE last]
  BY DEF Returned, Set
<1> QED BY <1>1, <1>2, StartsFresh

(* One thread and its connection move, and they move to a good state. *)
LEMMA OneMoves ==
  ASSUME AnswerInv, NEW w \in Workers, NEW r, NEW s, ThreadInv(r, s),
         worker' = [worker EXCEPT ![w] = r], sock' = [sock EXCEPT ![w] = s]
  PROVE  AnswerInv'
  BY DEF AnswerInv

LEMMA TwoParts ==
  ASSUME NEW a, NEW b
  PROVE  /\ Head(<<b>>) = b /\ Tail(<<b>>) = <<>>
         /\ Len(Append(<<a>>, b)) = 2 /\ Append(<<a>>, b)[1] = a /\ Append(<<a>>, b)[2] = b
  OBVIOUS

(* The whole of an answer is two parts of the same one, in their order. *)
LEMMA Reading ==
  ASSUME NEW w \in Workers, AnswerInv, Receive(w) PROVE AnswerInv'
<1> DEFINE r == worker[w]
           s == sock[w]
           raw == Append(r.raw, Head(s.incoming))
           whole == Len(raw) = 2 /\ raw[1].ids = raw[2].ids /\ raw[1].chunk = 1 /\ raw[2].chunk = 2
<1>1. /\ r.pc = "receive" /\ s.incoming # <<>> /\ ThreadInv(r, s)
      /\ worker' = [worker EXCEPT ![w] = IF whole THEN [r EXCEPT !.pc = "export", !.todo = raw[1].ids, !.raw = <<>>]
                                                  ELSE [r EXCEPT !.raw = raw]]
      /\ sock' = [sock EXCEPT ![w] = [s EXCEPT !.incoming = Tail(s.incoming)]]
  BY DEF Receive, At, Set, AnswerInv
<1>2. CASE Answered(r, s)
  <2>1. raw = <<Part(r.attempt, 1)>> /\ Tail(s.incoming) = <<Part(r.attempt, 2)>> /\ Len(raw) = 1
    BY <1>2 DEF Answered
  <2>2. ThreadInv([r EXCEPT !.raw = raw], [s EXCEPT !.incoming = Tail(s.incoming)])
    BY <1>1, <1>2, <2>1 DEF ThreadInv, IsThread, IsSocket, Exchanged, Answered, HalfRead
  <2>3. ~whole
    BY <2>1
  <2> HIDE DEF raw, whole
  <2> QED BY <1>1, <2>2, <2>3, OneMoves
<1>3. CASE HalfRead(r, s)
  <2>1. /\ r.raw = <<Part(r.attempt, 1)>> /\ Head(s.incoming) = Part(r.attempt, 2)
        /\ Tail(s.incoming) = <<>>
    BY <1>3, TwoParts DEF HalfRead
  <2>2. whole /\ raw[1].ids = r.attempt
    <3>1. Len(raw) = 2 /\ raw[1] = Part(r.attempt, 1) /\ raw[2] = Part(r.attempt, 2)
      BY <2>1, TwoParts
    <3> HIDE DEF raw
    <3> QED BY <3>1 DEF Part
  <2> HIDE DEF raw, whole
  <2>3. ThreadInv([r EXCEPT !.pc = "export", !.todo = raw[1].ids, !.raw = <<>>],
                  [s EXCEPT !.incoming = Tail(s.incoming)])
    BY <1>1, <1>3, <2>1, <2>2 DEF ThreadInv, IsThread, IsSocket, Exchanged, HalfRead, Quiet
  <2> QED BY <1>1, <2>2, <2>3, OneMoves
<1> QED BY <1>1, <1>2, <1>3 DEF ThreadInv, Exchanged, Quiet, Asked

(* A fresh start next to a connection that carries nothing *)
LEMMA FreshStart ==
  ASSUME AnswerInv, NEW w \in Workers, NEW r, Fresh(r), worker' = [worker EXCEPT ![w] = r],
         \/ sock' = sock /\ worker[w].pc # "receive"
         \/ sock' = [sock EXCEPT ![w] = Closed]
  PROVE  AnswerInv'
<1>1. CASE sock' = sock /\ worker[w].pc # "receive"
  <2>1. ThreadInv(r, sock[w])
    BY <1>1 DEF AnswerInv, ThreadInv, Exchanged, Quiet, Fresh
  <2>2. sock' = [sock EXCEPT ![w] = sock[w]]
    BY <1>1 DEF AnswerInv
  <2> QED BY <2>1, <2>2, OneMoves
<1>2. CASE sock' = [sock EXCEPT ![w] = Closed]
  <2>1. ThreadInv(r, Closed)
    BY DEF ThreadInv, Exchanged, Quiet, Fresh, IsSocket, Closed
  <2> QED BY <1>2, <2>1, OneMoves
<1> QED BY <1>1, <1>2

LEMMA AnswerStep == ASSUME AnswerInv, NEW w \in Workers,
                           WorkerStep(w) \/ WorkerRaises(w) \/ Node(w)
                    PROVE  AnswerInv'
<1>1. /\ worker = [v \in Workers |-> worker[v]] /\ sock = [v \in Workers |-> sock[v]]
      /\ ThreadInv(worker[w], sock[w])
  BY DEF AnswerInv
<1> DEFINE r == worker[w]
           s == sock[w]
<1>2. CASE Take(w)
  <2> DEFINE q == [Idle EXCEPT !.pc = FirstStep, !.batch = Batch(taken'), !.attempt = Batch(taken')]
  <2>1. Fresh(q)
    BY DEF Fresh, IsThread, Idle, FirstStep
  <2> QED BY <1>2, <2>1, FreshStart DEF Take, At, Set, net
<1>3. CASE Send(w)
  <2>1. /\ r.pc = "send" /\ worker' = [worker EXCEPT ![w] = [r EXCEPT !.pc = "receive"]]
        /\ sock' = [sock EXCEPT ![w] = IF s.alive THEN [s EXCEPT !.pending = r.attempt] ELSE Connected(r.attempt)]
    BY <1>3 DEF Send, At, Set
  <2>2. /\ ThreadInv([r EXCEPT !.pc = "receive"], [s EXCEPT !.pending = r.attempt])
        /\ ThreadInv([r EXCEPT !.pc = "receive"], Connected(r.attempt))
    BY <1>1, <2>1 DEF ThreadInv, IsThread, IsSocket, Exchanged, Quiet, Asked, Connected
  <2> QED BY <2>1, <2>2, OneMoves
<1>4. CASE Receive(w)
  BY <1>4, Reading
<1>5. CASE NewFilter(w) \/ GetLogs(w) \/ GetAllEntries(w) \/ ExportItem(w)
  <2>1. PICK q : /\ worker' = [worker EXCEPT ![w] = q] /\ ThreadInv(q, s)
    <3>1. ASSUME NEW todo, NEW pc, pc # "receive", r.pc # "receive", todo \subseteq r.attempt
          PROVE  /\ ThreadInv([r EXCEPT !.pc = pc, !.filter = TRUE], s)
                 /\ ThreadInv([r EXCEPT !.pc = pc, !.todo = todo], s)
                 /\ ThreadInv([r EXCEPT !.todo = todo], s)
      BY <1>1, <3>1 DEF ThreadInv, IsThread, Exchanged, Quiet
    <3>2. r.todo \subseteq r.attempt
      BY <1>1 DEF ThreadInv
    <3>3. CASE NewFilter(w)
      BY <3>1, <3>2, <3>3 DEF NewFilter, At, Set
    <3>4. CASE GetLogs(w) \/ GetAllEntries(w)
      BY <3>1, <3>4 DEF GetLogs, GetAllEntries, At, Set
    <3>5. CASE ExportItem(w)
      <4>1. PICK b \in r.todo : worker' = [worker EXCEPT ![w] = [r EXCEPT !.todo = r.todo \ {b}]]
        BY <3>5 DEF ExportItem, Set
      <4>2. r.todo \ {b} \subseteq r.attempt /\ r.pc # "receive" /\ "export" # "receive"
        BY <3>2, <3>5 DEF ExportItem, At
      <4> QED BY <3>1, <4>1, <4>2
    <3> QED BY <1>5, <3>3, <3>4, <3>5
  <2>2. sock' = [sock EXCEPT ![w] = s]
    BY <1>1, <1>5 DEF NewFilter, GetLogs, GetAllEntries, ExportItem, net
  <2> QED BY <2>1, <2>2, OneMoves
<1>6. CASE Uninstall(w) \/ Return(w)
  BY <1>1, <1>6, ReturnedIsFresh, FreshStart DEF Uninstall, Return, At, net
<1>7. CASE Track(w)
  <2>1. r.pc = "track" /\ sock' = sock
    BY <1>7 DEF Track, At, net
  <2>2. CASE r.ticks > 1
    <3>1. worker' = [worker EXCEPT ![w] = [r EXCEPT !.ticks = r.ticks - 1]]
      BY <1>7, <2>2 DEF Track, Tracked, Set
    <3>2. ThreadInv([r EXCEPT !.ticks = r.ticks - 1], s)
      BY <1>1, <2>1 DEF ThreadInv, IsThread, Exchanged, Quiet
    <3>3. sock' = [sock EXCEPT ![w] = s]
      BY <1>1, <2>1
    <3> QED BY <3>1, <3>2, <3>3, OneMoves
  <2>3. CASE ~(r.ticks > 1)
    BY <1>7, <2>1, <2>3, IdleIsFresh, FreshStart DEF Track, Tracked, Set
  <2> QED BY <2>2, <2>3
<1>8. CASE SendRaises(w) \/ ItemRaises(w) \/ CallRaises(w)
  <2>1. r.pc # "receive" /\ sock' = sock
    BY <1>8 DEF SendRaises, ItemRaises, CallRaises, At, net
  <2>2. Raised(w) \/ Fatal(w)
    BY <1>8 DEF SendRaises, ItemRaises, CallRaises
  <2> QED BY <1>1, <2>1, <2>2, RaisedIsFresh, IdleIsFresh, FreshStart DEF Fatal, Set
<1>9. CASE Timeout(w)
  BY <1>1, <1>9, RaisedIsFresh, FreshStart DEF Timeout
<1>10. CASE Answer(w) \/ Disconnect(w)
  <2>1. worker' = [worker EXCEPT ![w] = r]
    BY <1>1, <1>10 DEF Answer, Disconnect
  <2>2. CASE Answer(w)
    <3> DEFINE parts == [i \in 1 .. 2 |-> [ids |-> s.pending, chunk |-> i]]
               t == [s EXCEPT !.pending = {}, !.incoming = s.incoming \o parts]
    <3>1. s.pending # {} /\ sock' = [sock EXCEPT ![w] = t]
      BY <1>1, <2>2 DEF Answer
    <3>2. Asked(r, s) /\ r.pc = "receive"
      BY <1>1, <3>1 DEF ThreadInv, Exchanged, Quiet, Answered, HalfRead
    <3>3. s.incoming \o parts = <<Part(r.attempt, 1), Part(r.attempt, 2)>>
      <4>1. parts = <<Part(r.attempt, 1), Part(r.attempt, 2)>>
        BY <3>2 DEF Asked, Part
      <4> QED BY <3>2, <4>1 DEF Asked
    <3>4. ThreadInv(r, t)
      BY <1>1, <3>2, <3>3 DEF ThreadInv, IsSocket, Exchanged, Asked, Answered
    <3> QED BY <2>1, <3>1, <3>4, OneMoves
  <2>3. CASE Disconnect(w)
    <3>1. sock' = [sock EXCEPT ![w] = [s EXCEPT !.alive = FALSE, !.pending = {}]]
      BY <1>1, <2>3 DEF Disconnect
    <3>2. ThreadInv(r, [s EXCEPT !.alive = FALSE, !.pending = {}])
      BY <1>1 DEF ThreadInv, IsSocket, Exchanged, Quiet, Asked, Answered, HalfRead
    <3> QED BY <2>1, <3>1, <3>2, OneMoves
  <2> QED BY <1>10, <2>2, <2>3
<1> QED BY <1>2, <1>3, <1>4, <1>5, <1>6, <1>7, <1>8, <1>9, <1>10 DEF WorkerStep, WorkerRaises, Node

LEMMA AnswerStarts == Init => AnswerInv
<1>1. ThreadInv(Idle, Closed)
  BY DEF ThreadInv, IsThread, IsSocket, Exchanged, Quiet, Idle, Closed
<1> QED BY <1>1 DEF Init, AnswerInv

LEMMA AnswerNext == ASSUME AnswerInv, [Next]_vars PROVE AnswerInv'
<1>1. CASE MainStep \/ UNCHANGED vars
  <2>1. UNCHANGED <<worker, sock>>
    BY <1>1 DEF MainStep, Start, Submit, Join, Close, vars, net
  <2> QED BY <2>1 DEF AnswerInv
<1> QED BY <1>1, AnswerStep DEF Next

(* Whatever breaks, times out or arrives in pieces, a thread exports blocks    *)
(* that it asked for in the request it is waiting for.                         *)
THEOREM AnswerIsOursTheorem == Spec => []AnswerIsOurs
<1>1. AnswerInv => AnswerIsOurs
  BY DEF AnswerInv, ThreadInv, AnswerIsOurs
<1> QED BY <1>1, AnswerStarts, AnswerNext, PTL DEF Spec

-----------------------------------------------------------------------------
(***************************************************************************)
(* RetriesBounded and EndedIsComplete.  Loops says where a thread is in its *)
(* batch: at all of it, or at one block with those after it still to come.  *)
(* Exports counts the items of each block by that place, Counts the ticks   *)
(* of the progress logger, and Filters the filters on the node.             *)
(***************************************************************************)
Top(k) == Smaller(k * BatchSize, LastBlock)
Covered == 1 .. Top(taken)
Bound == IF job = "geth_traces" THEN 2 ELSE 1 + MaxRetries

Trying == {"send", "receive", "filter", "entries", "export"}
Stages == IF job = "geth_traces" THEN {"idle", "send", "receive", "export", "track"}
                                 ELSE {"idle", "filter", "entries", "export", "track"}

(* What of a thread's batch is still to be exported, and to be counted *)
Ahead(r) == (IF r.pc = "export" THEN r.todo ELSE r.attempt) \cup r.rest
Uncounted(r) == CASE r.pc \in Trying -> r.batch
                  [] r.pc = "track" -> {b \in r.batch : b < First(r.batch) + r.ticks}
                  [] OTHER -> {}

WholeBatch(r) == r.tries = 0 /\ r.attempt = r.batch /\ r.rest = {}
OneByOne(r) == r.tries > 0 /\ \E lo, hi \in Blocks : /\ lo <= hi /\ lo .. hi \subseteq r.batch
                                                     /\ r.attempt = {lo} /\ r.rest = lo + 1 .. hi

Looping(r) ==
  /\ r.pc \in Stages /\ r.tries \in 0 .. MaxRetries
  /\ r.pc = "idle" => r = Idle
  /\ r.pc # "idle" => \E lo, hi \in Covered : lo <= hi /\ hi - lo < BatchSize /\ r.batch = lo .. hi
  /\ r.pc \in Trying => r.ticks = 0 /\ (WholeBatch(r) \/ OneByOne(r))
  /\ r.pc = "track" => /\ r.attempt = {} /\ r.rest = {} /\ r.tries = 0
                       /\ r.ticks \in 1 .. Cardinality(r.batch)

(* A block of a whole batch was exported at most once, one that is tried by *)
(* itself once more for each try that came to its items.                    *)
Tried(r, b, times) ==
  IF b \notin r.attempt \cup r.rest THEN times \in 1 .. Bound
  ELSE IF r.tries = 0 THEN times = IF b \in Ahead(r) THEN 0 ELSE 1
  ELSE IF b \in r.rest THEN times <= 1
  ELSE IF b \in Ahead(r) THEN times <= Bound - 1 /\ times <= r.tries
  ELSE times \in 1 .. r.tries + 1 /\ times <= Bound

Loops == \A w \in Workers : Looping(worker[w])
Apart == \A v, w \in Workers : v # w => worker[v].batch \cap worker[w].batch = {}

Exports ==
  /\ exported \in [Blocks -> Nat]
  /\ \A w \in Workers : \A b \in worker[w].batch : Tried(worker[w], b, exported[b])
  /\ \A b \in Blocks : (\A w \in Workers : b \notin worker[w].batch) =>
       IF b \in Covered THEN exported[b] <= Bound /\ (failed \/ exported[b] > 0) ELSE exported[b] = 0

Ended == main \in {"close", "ended"}

Running ==
  /\ main \in {"start", "submit", "join", "close", "ended", "raised"} /\ failed \in BOOLEAN
  /\ submitted \in 0 .. Batches /\ taken \in 0 .. submitted /\ faults \in 0 .. MaxFaults
  /\ main = "start" => exporter = "new"
  /\ main = "submit" => exporter = "open"
  /\ main \in {"join", "close", "raised"} => exporter \in {"open", "unopened"}
  /\ main = "ended" => exporter \in {"closed", "unopened"}
  /\ main = "join" /\ exporter = "open" => failed \/ submitted = Batches
  /\ main = "raised" => failed
  /\ Ended => /\ ~failed /\ taken = submitted /\ \A w \in Workers : worker[w].pc = "idle"
              /\ exporter # "unopened" => submitted = Batches

Counted == Covered \ UNION {Uncounted(worker[w]) : w \in Workers}
Ticked == IF Ended THEN counter - 1 ELSE counter

Counts ==
  /\ counter \in Nat /\ Ticked \in Nat
  /\ Ticked <= Cardinality(Counted) /\ (~failed => Ticked = Cardinality(Counted))
  /\ Ticked = LastBlock /\ LastBlock > 0 => \E r \in reported : r.processed = LastBlock

Holding == {w \in Workers : worker[w].filter}
HoldsRightly(r) ==
  /\ r.filter \in BOOLEAN
  /\ r.filter => r.pc \in {"entries", "export"} /\ TRUE \in implements /\ job = "token_transfers"
  /\ r.pc = "entries" => r.filter
  /\ r.pc = "export" /\ job = "token_transfers" /\ supports => r.filter

Filters ==
  /\ filters \in Nat /\ supports \in BOOLEAN /\ implements \in (SUBSET BOOLEAN) \ {{}}
  /\ job \in {"geth_traces", "token_transfers"} /\ (job = "geth_traces" => implements = {TRUE})
  /\ ~supports => FALSE \in implements
  /\ \A w \in Workers : HoldsRightly(worker[w])
  /\ Cardinality(Holding) <= filters
  /\ implements # BOOLEAN => filters <= faults + Cardinality(Holding)

JobInv == Loops /\ Apart /\ Exports /\ Running /\ Counts /\ Filters

-----------------------------------------------------------------------------
(* The cut of the range into batches *)
LEMMA Multiples ==
  ASSUME NEW k \in Nat, NEW m \in Nat, k <= m
  PROVE  k * BatchSize <= m * BatchSize /\ k * BatchSize \in Nat
<1>1. \A a \in Nat : a * BatchSize \in Nat
  BY JobsAssumption
<1>2. (m - k) * BatchSize \in Nat /\ m * BatchSize = k * BatchSize + (m - k) * BatchSize
  BY <1>1, JobsAssumption
<1> QED BY <1>1, <1>2

LEMMA LastBatch ==
  Batches \in Nat /\ Batches * BatchSize \in LastBlock .. LastBlock + BatchSize - 1
<1> DEFINE n == LastBlock + BatchSize - 1
<1>1. n \in Nat /\ BatchSize \in Nat /\ BatchSize > 0
  BY JobsAssumption
<1>2. n \div BatchSize \in Int /\ (n \div BatchSize) * BatchSize \in Int
  BY <1>1
<1>3. BatchSize * (n \div BatchSize) <= n /\ n < BatchSize * (n \div BatchSize) + BatchSize
  BY <1>1
<1>4. n \div BatchSize >= 0
  BY <1>1
<1> QED BY <1>1, <1>2, <1>3, <1>4, JobsAssumption DEF Batches

LEMMA NextBatch ==
  ASSUME NEW k \in Nat, k < Batches
  PROVE  /\ Top(k) \in Nat /\ Top(k) < LastBlock /\ Top(k + 1) \in Top(k) + 1 .. LastBlock
         /\ Top(k + 1) - Top(k) <= BatchSize /\ Batch(k + 1) = Top(k) + 1 .. Top(k + 1)
<1>1. k * BatchSize \in Nat /\ (k + 1) * BatchSize = k * BatchSize + BatchSize
  BY JobsAssumption
<1>2. k * BatchSize < LastBlock
  <2>1. (k + 1) * BatchSize <= Batches * BatchSize
    BY LastBatch, Multiples
  <2> QED BY <1>1, <2>1, LastBatch, JobsAssumption
<1>3. Top(k) = k * BatchSize
  BY <1>1, <1>2, JobsAssumption DEF Top, Smaller
<1>4. k + 1 - 1 = k
  OBVIOUS
<1> QED BY <1>1, <1>2, <1>3, <1>4, JobsAssumption DEF Top, Smaller, Batch

LEMMA AllTaken == Top(Batches) = LastBlock
  BY LastBatch, JobsAssumption DEF Top, Smaller

LEMMA TopInside == ASSUME NEW k \in Nat PROVE Top(k) \in 0 .. LastBlock
  BY Multiples, JobsAssumption DEF Top, Smaller

LEMMA FirstOfInterval == ASSUME NEW lo \in Int, NEW hi \in Int, lo <= hi PROVE First(lo .. hi) = lo
<1>1. lo \in lo .. hi /\ \A c \in lo .. hi : lo <= c
  OBVIOUS
<1>2. \A b \in lo .. hi : (\A c \in lo .. hi : b <= c) => b = lo
  BY <1>1
<1> QED BY <1>1, <1>2 DEF First

LEMMA IdleLoops == Looping(Idle)
  BY JobsAssumption DEF Looping, Idle, Stages, Trying

LEMMA BatchInside ==
  ASSUME Loops, taken \in Nat, NEW w \in Workers
  PROVE  worker[w].batch \subseteq Covered /\ Covered \subseteq Blocks
<1>1. Top(taken) \in 0 .. LastBlock
  BY TopInside
<1>2. Covered \subseteq Blocks
  BY <1>1, JobsAssumption DEF Covered, Blocks
<1>3. CASE worker[w].pc = "idle"
  <2>1. worker[w].batch = {}
    BY <1>3 DEF Loops, Looping, Idle
  <2> QED BY <1>2, <2>1
<1>4. CASE worker[w].pc # "idle"
  <2>1. PICK lo, hi \in Covered : worker[w].batch = lo .. hi
    BY <1>4 DEF Loops, Looping
  <2>2. lo .. hi \subseteq Covered
    BY <1>1 DEF Covered
  <2> QED BY <1>2, <2>1, <2>2
<1> QED BY <1>3, <1>4

-----------------------------------------------------------------------------
(* A thread moves on in its batch; nothing is taken. *)
LEMMA Moves ==
  ASSUME AnswerInv, Loops, Apart, Exports, taken \in Nat, NEW w \in Workers, NEW q,
         worker' = [worker EXCEPT ![w] = q], UNCHANGED <<job, taken>>, failed => failed',
         Looping(q), q.batch = worker[w].batch,
         exported' \in [Blocks -> Nat],
         \A b \in q.batch : Tried(q, b, exported'[b]),
         \A b \in Blocks \ q.batch : exported'[b] = exported[b]
  PROVE  (Loops /\ Apart /\ Exports)'
<1>1. worker'[w] = q /\ \A v \in Workers \ {w} : worker'[v] = worker[v]
  BY DEF AnswerInv
<1>2. Covered' = Covered /\ Bound' = Bound
  BY DEF Covered, Bound
<1>3. Loops'
  <2>1. ASSUME NEW v \in Workers PROVE Looping(worker[v])'
    <3>1. Looping(worker'[v])
      BY <1>1 DEF Loops
    <3> QED BY <3>1, <1>2 DEF Looping, Stages, WholeBatch, OneByOne
  <2> QED BY <2>1 DEF Loops
<1>4. \A v \in Workers : worker'[v].batch = worker[v].batch
  BY <1>1
<1>5. Apart'
  BY <1>4 DEF Apart
<1>6. ASSUME NEW v \in Workers, NEW b \in worker'[v].batch PROVE Tried(worker[v], b, exported[b])'
  <2>1. CASE v = w
    BY <1>1, <1>2, <2>1 DEF Tried, Ahead
  <2>2. CASE v # w
    <3>1. b \in worker[v].batch /\ b \notin worker[w].batch /\ worker'[v] = worker[v]
      BY <1>1, <1>4, <2>2 DEF Apart
    <3>2. b \in Blocks
      BY <3>1, BatchInside
    <3>3. exported'[b] = exported[b] /\ Tried(worker[v], b, exported[b])
      BY <3>1, <3>2 DEF Exports
    <3> QED BY <1>2, <3>1, <3>3 DEF Tried, Ahead
  <2> QED BY <2>1, <2>2
<1>7. Exports'
  <2>1. ASSUME NEW b \in Blocks, \A v \in Workers : b \notin worker'[v].batch
        PROVE  IF b \in Covered THEN exported'[b] <= Bound /\ (failed' \/ exported'[b] > 0) ELSE exported'[b] = 0
    <3>1. \A v \in Workers : b \notin worker[v].batch
      BY <1>4, <2>1
    <3>2. exported'[b] = exported[b]
      BY <3>1
    <3> QED BY <3>1, <3>2 DEF Exports
  <2> QED BY <1>2, <1>6, <2>1 DEF Exports
<1> QED BY <1>3, <1>5, <1>7

(* A thread is done with its batch, or the batch has failed. *)
LEMMA Leaves ==
  ASSUME AnswerInv, Loops, Apart, Exports, taken \in Nat, NEW w \in Workers,
         worker' = [worker EXCEPT ![w] = Idle], UNCHANGED <<job, taken, exported>>, failed => failed',
         \A b \in worker[w].batch : exported[b] <= Bound /\ (failed' \/ exported[b] > 0)
  PROVE  (Loops /\ Apart /\ Exports)'
<1>1. worker'[w] = Idle /\ \A v \in Workers \ {w} : worker'[v] = worker[v]
  BY DEF AnswerInv
<1>2. Covered' = Covered /\ Bound' = Bound
  BY DEF Covered, Bound
<1>3. Loops'
  <2>1. ASSUME NEW v \in Workers PROVE Looping(worker[v])'
    <3>1. Looping(worker'[v])
      BY <1>1, IdleLoops DEF Loops
    <3> QED BY <3>1, <1>2 DEF Looping, Stages, WholeBatch, OneByOne
  <2> QED BY <2>1 DEF Loops
<1>4. worker'[w].batch = {} /\ \A v \in Workers \ {w} : worker'[v].batch = worker[v].batch
  BY <1>1 DEF Idle
<1>5. Apart'
  BY <1>4 DEF Apart
<1>6. ASSUME NEW v \in Workers, NEW b \in worker'[v].batch PROVE Tried(worker[v], b, exported[b])'
  BY <1>1, <1>2, <1>4 DEF Exports, Tried, Ahead
<1>7. Exports'
  <2>1. ASSUME NEW b \in Blocks, \A v \in Workers : b \notin worker'[v].batch
        PROVE  IF b \in Covered THEN exported[b] <= Bound /\ (failed' \/ exported[b] > 0) ELSE exported[b] = 0
    <3>1. CASE b \in worker[w].batch
      BY <3>1, BatchInside
    <3>2. CASE b \notin worker[w].batch
      BY <1>4, <2>1, <3>2 DEF Exports
    <3> QED BY <3>1, <3>2
  <2> QED BY <1>2, <1>6, <2>1 DEF Exports
<1> QED BY <1>3, <1>5, <1>7

(* A step within an attempt that exports nothing *)
LEMMA Proceeds ==
  ASSUME AnswerInv, Loops, Apart, Exports, taken \in Nat, NEW w \in Workers, NEW q,
         worker' = [worker EXCEPT ![w] = q], UNCHANGED <<job, taken, exported, failed>>,
         worker[w].pc \in Trying, q.pc \in Trying \cap Stages, Ahead(q) = Ahead(worker[w]),
         q.batch = worker[w].batch, q.attempt = worker[w].attempt, q.rest = worker[w].rest,
         q.tries = worker[w].tries, q.ticks = worker[w].ticks
  PROVE  (Loops /\ Apart /\ Exports)'
<1>1. Looping(worker[w]) /\ q.pc \notin {"idle", "track"} /\ worker[w].pc # "idle"
  BY DEF Loops, Trying
<1>2. Looping(q)
  BY <1>1 DEF Looping, WholeBatch, OneByOne
<1>3. \A b \in q.batch : Tried(q, b, exported[b])
  BY DEF Exports, Tried
<1> QED BY <1>2, <1>3, Moves DEF Exports

(* One item of the answer *)
LEMMA Exporting ==
  ASSUME AnswerInv, Loops, Apart, Exports, taken \in Nat, NEW w \in Workers, NEW b \in worker[w].todo,
         worker[w].pc = "export", worker' = [worker EXCEPT ![w] = [worker[w] EXCEPT !.todo = @ \ {b}]],
         exported' = [exported EXCEPT ![b] = @ + 1], UNCHANGED <<job, taken, failed>>,
         job \in {"geth_traces", "token_transfers"}
  PROVE  (Loops /\ Apart /\ Exports)'
<1> DEFINE r == worker[w]
           q == [r EXCEPT !.todo = r.todo \ {b}]
<1>1. /\ q.pc = "export" /\ q.todo = r.todo \ {b} /\ q.batch = r.batch /\ q.attempt = r.attempt
      /\ q.rest = r.rest /\ q.tries = r.tries /\ q.ticks = r.ticks
  BY DEF AnswerInv, ThreadInv, IsThread
<1>2. /\ Looping(r) /\ b \in r.attempt /\ r.todo \subseteq r.attempt
      /\ r.tries \in 0 .. MaxRetries /\ Bound \in Nat /\ Bound >= 2
  BY JobsAssumption DEF Loops, Looping, AnswerInv, ThreadInv, Bound
<1>3. r.attempt \subseteq r.batch /\ (r.attempt \cap r.rest = {})
  <2>1. CASE WholeBatch(r)
    BY <2>1 DEF WholeBatch
  <2>2. CASE OneByOne(r)
    <3>1. PICK lo, hi \in Blocks : lo <= hi /\ lo .. hi \subseteq r.batch /\ r.attempt = {lo} /\ r.rest = lo + 1 .. hi
      BY <2>2 DEF OneByOne
    <3>2. lo \in Int /\ hi \in Int /\ lo \in lo .. hi /\ lo \notin lo + 1 .. hi
      BY <3>1 DEF Blocks
    <3> QED BY <3>1, <3>2
  <2> QED BY <1>2, <2>1, <2>2 DEF Looping, Trying
<1>4. b \in r.batch /\ b \in Blocks
  BY <1>2, <1>3, BatchInside
<1>5. Looping(q)
  <2> HIDE DEF q
  <2> QED BY <1>1, <1>2 DEF Looping, WholeBatch, OneByOne, Trying
<1>6. exported[b] \in Nat /\ Tried(r, b, exported[b]) /\ b \in Ahead(r) /\ b \notin Ahead(q)
  BY <1>1, <1>2, <1>3, <1>4 DEF Exports, Ahead
<1>7. ASSUME NEW c \in q.batch PROVE Tried(q, c, exported'[c])
  <2>1. CASE c = b
    <3>1. exported'[b] = exported[b] + 1
      BY <1>4 DEF Exports
    <3>2. b \in q.attempt /\ b \notin q.rest
      BY <1>1, <1>2, <1>3
    <3>3. IF r.tries = 0 THEN exported[b] = 0 ELSE exported[b] <= Bound - 1 /\ exported[b] <= r.tries
      BY <1>2, <1>3, <1>6 DEF Tried
    <3> HIDE DEF q
    <3> QED BY <1>1, <1>2, <1>6, <2>1, <3>1, <3>2, <3>3 DEF Tried
  <2>2. CASE c # b
    <3>1. c \in Blocks /\ c \in r.batch
      BY <1>1, <1>7, BatchInside
    <3>2. exported'[c] = exported[c] /\ Tried(r, c, exported[c])
      BY <1>4, <2>2, <3>1 DEF Exports
    <3>3. c \in Ahead(q) <=> c \in Ahead(r)
      BY <1>1, <2>2 DEF Ahead
    <3> HIDE DEF q
    <3> QED BY <1>1, <3>2, <3>3 DEF Tried
  <2> QED BY <2>1, <2>2
<1>8. /\ exported' \in [Blocks -> Nat] /\ q.batch = r.batch
      /\ \A c \in Blocks \ q.batch : exported'[c] = exported[c]
  BY <1>1, <1>4, <1>6 DEF Exports
<1>9. worker' = [worker EXCEPT ![w] = q]
  OBVIOUS
<1> HIDE DEF q
<1> QED BY <1>5, <1>7, <1>8, <1>9, Moves

(* What a thread does next when its handler has raised, or returned *)
NoFilter(r) == r.filter = FALSE

LEMMA AgainKeeps ==
  ASSUME NEW r, NEW blocks, NEW tries
  PROVE  \E q : q = Again(r, blocks, tries) /\ NoFilter(q) /\ q.pc = FirstStep /\ q.batch = r.batch
<1> DEFINE q == Again(r, blocks, tries)
<1>1. NoFilter(q) /\ q.pc = FirstStep /\ q.batch = r.batch
  BY DEF Again, Idle, NoFilter
<1> HIDE DEF q
<1>2. \E p : p = q /\ NoFilter(p) /\ p.pc = FirstStep /\ p.batch = r.batch
  BY <1>1
<1> QED BY <1>2 DEF q

LEMMA RaisedMoves ==
  ASSUME NEW w \in Workers, Raised(w) \/ Fatal(w)
  PROVE  \E q : /\ worker' = [worker EXCEPT ![w] = q] /\ NoFilter(q)
                /\ \/ q = Idle /\ q.pc = "idle" /\ failed' = TRUE
                   \/ q.pc = FirstStep /\ q.batch = worker[w].batch /\ failed' = failed
<1> DEFINE r == worker[w]
<1>1. CASE worker' = [worker EXCEPT ![w] = Idle] /\ failed' = TRUE
  <2>1. NoFilter(Idle) /\ Idle.pc = "idle"
    BY DEF Idle, NoFilter
  <2> QED BY <1>1, <2>1
<1>2. ASSUME NEW blocks, NEW tries, worker' = [worker EXCEPT ![w] = Again(r, blocks, tries)], failed' = failed
      PROVE  \E q : worker' = [worker EXCEPT ![w] = q] /\ NoFilter(q) /\ q.pc = FirstStep /\ q.batch = r.batch
  <2>1. PICK q : q = Again(r, blocks, tries) /\ NoFilter(q) /\ q.pc = FirstStep /\ q.batch = r.batch
    BY AgainKeeps
  <2> QED BY <1>2, <2>1
<1>3. \/ worker' = [worker EXCEPT ![w] = Idle] /\ failed' = TRUE
      \/ /\ failed' = failed
         /\ \E blocks, tries : worker' = [worker EXCEPT ![w] = Again(r, blocks, tries)]
  BY DEF Raised, Fatal, Set
<1> QED BY <1>1, <1>2, <1>3

LEMMA ReturnedMoves ==
  ASSUME NEW w \in Workers, Returned(w, worker[w])
  PROVE  \E q : /\ worker' = [worker EXCEPT ![w] = q] /\ NoFilter(q) /\ q.batch = worker[w].batch
                /\ q.pc = FirstStep \/ (q.pc = "track" /\ q.ticks = Cardinality(q.batch))
<1> DEFINE r == worker[w]
           last == [Idle EXCEPT !.pc = "track", !.batch = r.batch, !.ticks = Cardinality(r.batch)]
<1>1. CASE r.rest # {}
  <2>1. PICK q : q = Again(r, r.rest, 1) /\ NoFilter(q) /\ q.pc = FirstStep /\ q.batch = r.batch
    BY AgainKeeps
  <2> QED BY <1>1, <2>1 DEF Returned, Set
<1>2. CASE r.rest = {}
  <2>1. NoFilter(last) /\ last.batch = r.batch /\ last.pc = "track" /\ last.ticks = Cardinality(last.batch)
    BY DEF Idle, NoFilter
  <2>2. worker' = [worker EXCEPT ![w] = last]
    BY <1>2 DEF Returned, Set
  <2> HIDE DEF last
  <2> QED BY <2>1, <2>2
<1> QED BY <1>1, <1>2

(* Where _fail_safe_execute goes on: block by block, from the first of those left *)
Interval(r) == \E lo, hi \in Covered : lo <= hi /\ hi - lo < BatchSize /\ r.batch = lo .. hi
Inside(r, lo, hi) == lo <= hi /\ lo .. hi \subseteq r.batch
Resumes(q, r, lo, hi, tries) ==
  /\ Looping(q) /\ q.batch = r.batch /\ q.attempt = {lo} /\ q.rest = lo + 1 .. hi
  /\ q.tries = tries /\ Ahead(q) = lo .. hi /\ q.pc = FirstStep

LEMMA GoesOn ==
  ASSUME NEW r, NEW lo \in Blocks, NEW hi \in Blocks, Inside(r, lo, hi), Interval(r),
         NEW tries \in 1 .. MaxRetries, job \in {"geth_traces", "token_transfers"}
  PROVE  Resumes(Again(r, lo .. hi, tries), r, lo, hi, tries)
<1> DEFINE q == Again(r, lo .. hi, tries)
<1>1. lo \in Int /\ hi \in Int /\ lo <= hi
  BY DEF Blocks, Inside
<1>2. First(lo .. hi) = lo /\ lo .. hi \ {lo} = lo + 1 .. hi
  BY <1>1, FirstOfInterval
<1>3. /\ q.batch = r.batch /\ q.attempt = {lo} /\ q.rest = lo + 1 .. hi /\ q.tries = tries
      /\ q.pc = FirstStep /\ q.ticks = 0
  BY <1>2 DEF Again, Idle
<1>4. q.pc \in Trying \cap Stages /\ q.pc # "export"
  BY <1>3 DEF FirstStep, Trying, Stages
<1>5. {lo} \cup lo + 1 .. hi = lo .. hi
  BY <1>1
<1> HIDE DEF q
<1>6. OneByOne(q)
  BY <1>1, <1>3 DEF OneByOne, Inside
<1>7. Looping(q)
  BY <1>3, <1>4, <1>6, JobsAssumption DEF Looping, Trying, Interval
<1>8. Ahead(q) = lo .. hi
  BY <1>3, <1>4, <1>5 DEF Ahead
<1>9. Resumes(q, r, lo, hi, tries)
  BY <1>3, <1>7, <1>8 DEF Resumes
<1> QED BY <1>9 DEF q

(* The blocks left form an interval. *)
LEMMA LeftOver ==
  ASSUME NEW r, Looping(r), r.pc \in Trying
  PROVE  /\ Interval(r)
         /\ r.tries = 0 => r.attempt = r.batch /\ r.rest = {}
         /\ r.tries > 0 => \E lo, hi \in Blocks : /\ lo <= hi /\ lo .. hi \subseteq r.batch
                                                  /\ r.attempt = {lo} /\ r.rest = lo + 1 .. hi
                                                  /\ r.attempt \cup r.rest = lo .. hi
<1>1. r.pc # "idle" /\ (WholeBatch(r) \/ OneByOne(r))
  BY DEF Looping, Trying
<1>2. ASSUME r.tries > 0 PROVE \E lo, hi \in Blocks : /\ lo <= hi /\ lo .. hi \subseteq r.batch
                                                  /\ r.attempt = {lo} /\ r.rest = lo + 1 .. hi
                                                  /\ r.attempt \cup r.rest = lo .. hi
  <2>1. PICK lo, hi \in Blocks : lo <= hi /\ lo .. hi \subseteq r.batch /\ r.attempt = {lo} /\ r.rest = lo + 1 .. hi
    BY <1>1, <1>2 DEF WholeBatch, OneByOne
  <2>2. {lo} \cup lo + 1 .. hi = lo .. hi
    BY <2>1 DEF Blocks
  <2> QED BY <2>1, <2>2
<1>3. r.tries = 0 => r.attempt = r.batch /\ r.rest = {}
  BY <1>1 DEF WholeBatch, OneByOne
<1>4. Interval(r)
  BY <1>1 DEF Looping, Interval
<1> QED BY <1>2, <1>3, <1>4

(* The handler raised before an attempt of a single block had exported it, or *)
(* in the transfers job, where it may have.                                   *)
LEMMA Retries ==
  ASSUME AnswerInv, Loops, Apart, Exports, taken \in Nat, NEW w \in Workers, Raised(w),
         worker[w].pc \in Trying, UNCHANGED <<job, taken, exported>>, failed \in BOOLEAN,
         job \in {"geth_traces", "token_transfers"},
         job = "geth_traces" /\ worker[w].tries > 0 => worker[w].attempt \subseteq Ahead(worker[w])
  PROVE  (Loops /\ Apart /\ Exports)'
<1> DEFINE r == worker[w]
<1>1. /\ Looping(r) /\ r.tries \in 0 .. MaxRetries /\ MaxRetries \in Nat /\ MaxRetries >= 1
      /\ Interval(r) /\ Bound \in Nat /\ Bound >= 2
  BY JobsAssumption, LeftOver DEF Loops, Looping, Bound
<1>2. \A b \in r.batch : b \in Blocks /\ Tried(r, b, exported[b]) /\ exported[b] \in Nat
  BY BatchInside DEF Exports
<1>3. CASE r.tries = MaxRetries
  <2>1. worker' = [worker EXCEPT ![w] = Idle] /\ failed' = TRUE
    BY <1>3 DEF Raised, Fatal, Set
  <2>2. \A b \in r.batch : exported[b] <= Bound
    BY <1>1, <1>2 DEF Tried
  <2> QED BY <2>1, <2>2, Leaves
<1>4. CASE r.tries # MaxRetries /\ r.tries = 0
  <2>1. worker' = [worker EXCEPT ![w] = Again(r, r.batch, 1)] /\ failed' = failed
    BY <1>1, <1>4 DEF Raised, Set
  <2>2. PICK lo, hi \in Covered : lo <= hi /\ hi - lo < BatchSize /\ r.batch = lo .. hi
    BY <1>1 DEF Interval
  <2>3. lo \in Blocks /\ hi \in Blocks
    BY <2>2, BatchInside
  <2>4. PICK one \in 1 .. MaxRetries : one = 1
    BY <1>1
  <2> DEFINE q == Again(r, lo .. hi, one)
  <2>5. Resumes(q, r, lo, hi, one)
    <3>1. Inside(r, lo, hi)
      BY <2>2 DEF Inside
    <3> QED BY <1>1, <2>3, <3>1, GoesOn
  <2>6. /\ Looping(q) /\ q.batch = r.batch /\ q.attempt = {lo} /\ q.rest = lo + 1 .. hi
        /\ q.tries = one /\ Ahead(q) = lo .. hi
    BY <2>5 DEF Resumes
  <2>7. \A b \in r.batch : exported[b] <= 1
    BY <1>1, <1>2, <1>4, LeftOver DEF Tried
  <2> HIDE DEF q
  <2>8. lo .. hi = {lo} \cup lo + 1 .. hi
    BY <2>2, <2>3 DEF Blocks
  <2>9. \A b \in q.batch : Tried(q, b, exported[b])
    BY <1>1, <1>2, <2>2, <2>6, <2>7, <2>8, <2>4 DEF Tried
  <2>10. worker' = [worker EXCEPT ![w] = q]
    BY <2>1, <2>2, <2>4 DEF q
  <2> QED BY <2>1, <2>6, <2>9, <2>10, Moves DEF Exports
<1>5. CASE r.tries # MaxRetries /\ r.tries # 0
  <2>1. worker' = [worker EXCEPT ![w] = Again(r, r.attempt \cup r.rest, r.tries + 1)] /\ failed' = failed
    BY <1>1, <1>5 DEF Raised, Set
  <2>2. PICK lo, hi \in Blocks : /\ lo <= hi /\ lo .. hi \subseteq r.batch
                                 /\ r.attempt = {lo} /\ r.rest = lo + 1 .. hi
                                 /\ r.attempt \cup r.rest = lo .. hi
    BY <1>1, <1>5, LeftOver
  <2> DEFINE q == Again(r, lo .. hi, r.tries + 1)
  <2>3. r.tries + 1 \in 1 .. MaxRetries
    BY <1>1, <1>5
  <2>4. /\ Looping(q) /\ q.batch = r.batch /\ q.attempt = {lo} /\ q.rest = lo + 1 .. hi
        /\ q.tries = r.tries + 1 /\ Ahead(q) = lo .. hi
    <3>1. Inside(r, lo, hi)
      BY <2>2 DEF Inside
    <3>2. Resumes(q, r, lo, hi, r.tries + 1)
      BY <1>1, <2>2, <2>3, <3>1, GoesOn
    <3> QED BY <3>2 DEF Resumes
  <2> HIDE DEF q
  <2>5. ASSUME NEW b \in r.batch PROVE Tried(q, b, exported[b])
    <3>1. CASE b \notin lo .. hi
      BY <1>2, <2>2, <2>4, <3>1 DEF Tried
    <3>2. CASE b \in lo + 1 .. hi
      <4>1. b \in lo .. hi /\ b # lo
        BY <2>2, <3>2 DEF Blocks
      <4> QED BY <1>1, <1>2, <1>5, <2>2, <2>3, <2>4, <3>2, <4>1 DEF Tried
    <3>3. CASE b = lo
      <4>1. lo \in r.attempt /\ lo \notin r.rest /\ lo \in lo .. hi /\ lo \notin lo + 1 .. hi
        BY <2>2 DEF Blocks
      <4>2. exported[b] <= Bound - 1 /\ exported[b] <= r.tries + 1
        <5>1. CASE job = "geth_traces"
          <6>1. b \in Ahead(r)
            BY <1>1, <1>5, <3>3, <4>1, <5>1
          <6> QED BY <1>1, <1>2, <1>5, <3>3, <4>1, <6>1 DEF Tried
        <5>2. CASE job = "token_transfers"
          <6>1. Bound = 1 + MaxRetries
            BY <5>2 DEF Bound
          <6> QED BY <1>1, <1>2, <1>5, <3>3, <4>1, <6>1 DEF Tried
        <5> QED BY <5>1, <5>2
      <4> QED BY <1>1, <1>2, <1>5, <2>3, <2>4, <3>3, <4>1, <4>2 DEF Tried
    <3> QED BY <2>2, <3>1, <3>2, <3>3 DEF Blocks
  <2>6. worker' = [worker EXCEPT ![w] = q]
    BY <2>1, <2>2 DEF q
  <2> QED BY <2>1, <2>4, <2>5, <2>6, Moves DEF Exports
<1> QED BY <1>3, <1>4, <1>5

LEMMA BatchCounted ==
  ASSUME NEW r, Looping(r), r.pc # "idle"
  PROVE  /\ IsFiniteSet(r.batch) /\ Cardinality(r.batch) \in 1 .. BatchSize
         /\ \E lo, hi \in Covered : /\ lo <= hi /\ r.batch = lo .. hi /\ First(r.batch) = lo
                                    /\ Cardinality(r.batch) = hi - lo + 1
<1>1. PICK lo, hi \in Covered : lo <= hi /\ hi - lo < BatchSize /\ r.batch = lo .. hi
  BY DEF Looping
<1>2. lo \in Int /\ hi \in Int
  BY DEF Covered
<1>3. IsFiniteSet(r.batch) /\ Cardinality(r.batch) = hi - lo + 1
  BY <1>1, <1>2, FS_Interval
<1> QED BY <1>1, <1>2, <1>3, FirstOfInterval, JobsAssumption

(* The handler returned: the next of the blocks, or the batch is done. *)
LEMMA Returns ==
  ASSUME AnswerInv, Loops, Apart, Exports, taken \in Nat, NEW w \in Workers, Returned(w, worker[w]),
         worker[w].pc = "export", worker[w].todo = {}, UNCHANGED <<job, taken, exported, failed>>,
         job \in {"geth_traces", "token_transfers"}
  PROVE  (Loops /\ Apart /\ Exports)'
<1> DEFINE r == worker[w]
<1>1. /\ Looping(r) /\ r.tries \in 0 .. MaxRetries /\ MaxRetries \in Nat /\ MaxRetries >= 1
      /\ Bound \in Nat /\ Bound >= 2 /\ r.pc \in Trying /\ r.pc # "idle" /\ Ahead(r) = r.rest
      /\ Interval(r)
  BY JobsAssumption, LeftOver DEF Loops, Looping, Bound, Trying, Ahead
<1>2. \A b \in r.batch : b \in Blocks /\ Tried(r, b, exported[b]) /\ exported[b] \in Nat
  BY BatchInside DEF Exports
<1>3. ASSUME NEW b \in r.batch \ r.rest PROVE exported[b] \in 1 .. Bound
  BY <1>1, <1>2, LeftOver DEF Tried
<1>4. CASE r.rest # {}
  <2>1. PICK lo, hi \in Blocks : lo <= hi /\ lo .. hi \subseteq r.batch /\ r.attempt = {lo} /\ r.rest = lo + 1 .. hi
    BY <1>1, <1>4, LeftOver
  <2>2. lo \in Int /\ hi \in Int /\ lo + 1 \in Blocks /\ lo + 1 <= hi /\ lo + 1 .. hi \subseteq r.batch
    <3>1. lo \in Int /\ hi \in Int /\ lo + 1 <= hi
      BY <1>4, <2>1 DEF Blocks
    <3> QED BY <2>1, <3>1, <1>2
  <2>3. PICK next \in Blocks : next = lo + 1
    BY <2>2
  <2>4. PICK one \in 1 .. MaxRetries : one = 1
    BY <1>1
  <2> DEFINE q == Again(r, next .. hi, one)
  <2>5. /\ Looping(q) /\ q.batch = r.batch /\ q.attempt = {next} /\ q.rest = next + 1 .. hi
        /\ q.tries = one /\ Ahead(q) = next .. hi
    <3>1. Inside(r, next, hi)
      BY <2>2, <2>3 DEF Inside
    <3>2. Resumes(q, r, next, hi, one)
      BY <1>1, <2>1, <3>1, GoesOn
    <3> QED BY <3>2 DEF Resumes
  <2>6. worker' = [worker EXCEPT ![w] = q]
    BY <1>4, <2>1, <2>3, <2>4 DEF Returned, Set
  <2> HIDE DEF q
  <2>7. ASSUME NEW b \in q.batch PROVE Tried(q, b, exported[b])
    <3>1. CASE b \notin next .. hi
      <4>1. b \notin r.rest /\ b \notin q.attempt \cup q.rest
        BY <2>1, <2>2, <2>3, <2>5, <3>1
      <4> QED BY <1>3, <2>5, <4>1 DEF Tried
    <3>2. CASE b \in next .. hi
      <4>1. b \in r.rest /\ r.tries > 0
        BY <1>1, <1>4, <2>1, <2>2, <2>3, <3>2, LeftOver
      <4>2. exported[b] <= 1 /\ exported[b] \in Nat
        BY <1>1, <1>2, <2>5, <4>1 DEF Tried
      <4>3. b = next \/ b \in q.rest
        BY <2>2, <2>3, <2>5, <3>2
      <4> QED BY <1>1, <2>4, <2>5, <3>2, <4>2, <4>3 DEF Tried
    <3> QED BY <3>1, <3>2
  <2> QED BY <2>5, <2>6, <2>7, Moves DEF Exports
<1>5. CASE r.rest = {}
  <2> DEFINE q == [Idle EXCEPT !.pc = "track", !.batch = r.batch, !.ticks = Cardinality(r.batch)]
  <2>1. /\ q.pc = "track" /\ q.batch = r.batch /\ q.attempt = {} /\ q.rest = {} /\ q.tries = 0
        /\ q.ticks = Cardinality(q.batch)
    BY DEF Idle
  <2>2. worker' = [worker EXCEPT ![w] = q]
    BY <1>5 DEF Returned, Set
  <2> HIDE DEF q
  <2>3. Cardinality(q.batch) \in 1 .. Cardinality(q.batch)
    BY <1>1, <2>1, BatchCounted
  <2>4. Looping(q)
    <3>1. \E lo, hi \in Covered : lo <= hi /\ hi - lo < BatchSize /\ q.batch = lo .. hi
      BY <1>1, <2>1 DEF Interval
    <3> QED BY <1>1, <2>1, <2>3, <3>1 DEF Looping, Trying, Stages
  <2>5. \A b \in q.batch : Tried(q, b, exported[b])
    BY <1>3, <1>5, <2>1 DEF Tried
  <2> QED BY <2>1, <2>2, <2>4, <2>5, Moves DEF Exports
<1> QED BY <1>4, <1>5

(* The next batch of the range: no thread has had a block of it. *)
LEMMA Takes ==
  ASSUME AnswerInv, Loops, Apart, Exports, taken \in Nat, taken < submitted, submitted \in 0 .. Batches,
         NEW w \in Workers, Take(w), job \in {"geth_traces", "token_transfers"}
  PROVE  /\ (Loops /\ Apart /\ Exports)' /\ Covered' = Covered \cup worker'[w].batch
         /\ worker'[w].batch \cap Covered = {} /\ worker'[w].pc = FirstStep
         /\ \E q : worker' = [worker EXCEPT ![w] = q] /\ ~q.filter
<1> DEFINE q == [Idle EXCEPT !.pc = FirstStep, !.batch = Batch(taken + 1), !.attempt = Batch(taken + 1)]
<1>1. /\ q.pc = FirstStep /\ q.batch = Batch(taken + 1) /\ q.attempt = q.batch /\ q.rest = {}
      /\ q.tries = 0 /\ q.ticks = 0 /\ q.filter = FALSE
  BY DEF Idle
<1>2. /\ worker' = [worker EXCEPT ![w] = q] /\ taken' = taken + 1 /\ worker[w].pc = "idle"
      /\ UNCHANGED <<job, failed, exported>>
  BY DEF Take, Set, At, unchangedMain
<1> HIDE DEF q
<1>3. worker'[w] = q /\ \A v \in Workers \ {w} : worker'[v] = worker[v]
  BY <1>2 DEF AnswerInv
<1>4. worker[w].batch = {}
  BY <1>2 DEF Loops, Looping, Idle
<1>5. /\ Top(taken) \in 0 .. LastBlock /\ Top(taken + 1) \in Top(taken) + 1 .. LastBlock
      /\ Top(taken + 1) - Top(taken) <= BatchSize /\ q.batch = Top(taken) + 1 .. Top(taken + 1)
  <2>1. taken < Batches
    BY LastBatch
  <2> QED BY <1>1, <2>1, NextBatch, TopInside
<1>6. /\ Covered = 1 .. Top(taken) /\ Covered' = 1 .. Top(taken + 1) /\ Bound' = Bound
  BY <1>2 DEF Covered, Bound, Top
<1>7. /\ Covered' = Covered \cup q.batch /\ q.batch \cap Covered = {} /\ q.batch \subseteq Blocks
      /\ Covered' \subseteq Blocks
  BY <1>5, <1>6, JobsAssumption DEF Blocks
<1>8. \A v \in Workers : worker[v].batch \cap q.batch = {}
  BY <1>7, BatchInside
<1>9. \A b \in q.batch : exported[b] = 0
  BY <1>7, <1>8 DEF Exports
<1>10. q.pc \in Trying \cap Stages /\ q.pc # "export"
  BY <1>1 DEF FirstStep, Trying, Stages
<1>11. Loops'
  <2>1. ASSUME NEW v \in Workers PROVE Looping(worker[v])'
    <3>1. CASE v = w
      <4>1. \E lo, hi \in Covered' : lo <= hi /\ hi - lo < BatchSize /\ q.batch = lo .. hi
        <5>1. PICK lo, hi \in 1 .. Top(taken + 1) : lo = Top(taken) + 1 /\ hi = Top(taken + 1)
          BY <1>5, JobsAssumption
        <5>2. lo <= hi /\ hi - lo < BatchSize /\ q.batch = lo .. hi
          BY <1>5, <5>1, JobsAssumption, SMTT(30)
        <5> QED BY <1>6, <5>1, <5>2, Zenon
      <4>2. WholeBatch(q)
        BY <1>1 DEF WholeBatch
      <4>3. Stages' = Stages
        BY <1>2 DEF Stages
      <4> QED BY <1>1, <1>3, <1>10, <3>1, <4>1, <4>2, <4>3, JobsAssumption DEF Looping, Trying, WholeBatch, OneByOne
    <3>2. CASE v # w
      <4>1. Looping(worker[v]) /\ worker'[v] = worker[v]
        BY <1>3, <3>2 DEF Loops
      <4> QED BY <1>2, <1>7, <4>1 DEF Looping, Stages, WholeBatch, OneByOne
    <3> QED BY <3>1, <3>2
  <2> QED BY <2>1 DEF Loops
<1>12. Apart'
  BY <1>3, <1>8 DEF Apart
<1>13. ASSUME NEW v \in Workers, NEW b \in worker'[v].batch PROVE Tried(worker[v], b, exported[b])'
  <2>1. CASE v = w
    <3>1. b \in q.attempt /\ q.tries = 0 /\ b \in Ahead(q) /\ exported[b] = 0
      BY <1>1, <1>3, <1>9, <1>10, <1>13, <2>1 DEF Ahead
    <3> QED BY <1>2, <1>3, <1>6, <2>1, <3>1 DEF Tried, Ahead
  <2>2. CASE v # w
    <3>1. Tried(worker[v], b, exported[b])
      BY <1>3, <1>13, <2>2 DEF Exports
    <3> QED BY <1>2, <1>3, <1>6, <2>2, <3>1 DEF Tried, Ahead
  <2> QED BY <2>1, <2>2
<1>14. ASSUME NEW b \in Blocks, \A v \in Workers : b \notin worker'[v].batch
       PROVE  IF b \in Covered' THEN exported[b] <= Bound /\ (failed \/ exported[b] > 0) ELSE exported[b] = 0
  <2>1. b \notin q.batch /\ \A v \in Workers : b \notin worker[v].batch
    BY <1>3, <1>4, <1>14
  <2> QED BY <1>7, <2>1 DEF Exports
<1>15. Exports'
  BY <1>2, <1>6, <1>13, <1>14 DEF Exports
<1> QED BY <1>1, <1>2, <1>3, <1>7, <1>11, <1>12, <1>15

(* One tick of the logger, or the last *)
LEMMA Ticks ==
  ASSUME AnswerInv, Loops, Apart, Exports, taken \in Nat, NEW w \in Workers, Track(w),
         job \in {"geth_traces", "token_transfers"}
  PROVE  (Loops /\ Apart /\ Exports)'
<1> DEFINE r == worker[w]
<1>1. /\ r.pc = "track" /\ Looping(r) /\ r.attempt = {} /\ r.rest = {} /\ r.tries = 0 /\ Ahead(r) = {}
      /\ r.ticks \in 1 .. Cardinality(r.batch) /\ Cardinality(r.batch) \in 1 .. BatchSize
      /\ IsThread(r) /\ BatchSize \in Nat
  BY BatchCounted, JobsAssumption DEF Track, At, Loops, Looping, Ahead, AnswerInv, ThreadInv
<1>2. UNCHANGED <<job, taken, failed, exported>>
  BY DEF Track, unchangedMain
<1>3. \A b \in r.batch : exported[b] \in 1 .. Bound
  BY <1>1 DEF Exports, Tried
<1>4. CASE r.ticks > 1
  <2> DEFINE q == [r EXCEPT !.ticks = r.ticks - 1]
  <2>1. /\ q.pc = "track" /\ q.batch = r.batch /\ q.attempt = {} /\ q.rest = {} /\ q.tries = 0
        /\ q.ticks = r.ticks - 1 /\ q.filter = r.filter
    BY <1>1 DEF IsThread
  <2>2. worker' = [worker EXCEPT ![w] = q]
    BY <1>4 DEF Track, Tracked, Set
  <2> HIDE DEF q
  <2>3. Looping(q)
    <3>1. q.ticks \in 1 .. Cardinality(q.batch)
      BY <1>1, <1>4, <2>1
    <3> QED BY <1>1, <2>1, <3>1 DEF Looping, Trying
  <2>4. \A b \in q.batch : Tried(q, b, exported[b])
    BY <1>3, <2>1 DEF Tried
  <2> QED BY <1>2, <2>1, <2>2, <2>3, <2>4, Moves DEF Exports
<1>5. CASE ~(r.ticks > 1)
  <2>1. worker' = [worker EXCEPT ![w] = Idle]
    BY <1>5 DEF Track, Tracked, Set
  <2>2. \A b \in r.batch : exported[b] <= Bound /\ exported[b] > 0
    BY <1>3, JobsAssumption DEF Bound
  <2> QED BY <1>2, <2>1, <2>2, Leaves
<1> QED BY <1>4, <1>5

(* The elements of an answer that is whole are those asked for. *)
LEMMA Answers ==
  ASSUME AnswerInv, NEW w \in Workers, Receive(w)
  PROVE  \E q : /\ worker' = [worker EXCEPT ![w] = q] /\ q.batch = worker[w].batch
                /\ q.attempt = worker[w].attempt /\ q.rest = worker[w].rest /\ q.tries = worker[w].tries
                /\ q.ticks = worker[w].ticks /\ q.filter = worker[w].filter
                /\ q.pc = "receive" \/ (q.pc = "export" /\ q.todo = worker[w].attempt)
<1> DEFINE r == worker[w]
           s == sock[w]
           raw == Append(r.raw, Head(s.incoming))
           whole == Len(raw) = 2 /\ raw[1].ids = raw[2].ids /\ raw[1].chunk = 1 /\ raw[2].chunk = 2
           q == IF whole THEN [r EXCEPT !.pc = "export", !.todo = raw[1].ids, !.raw = <<>>]
                         ELSE [r EXCEPT !.raw = raw]
<1>1. r.pc = "receive" /\ s.incoming # <<>> /\ worker' = [worker EXCEPT ![w] = q]
  BY DEF Receive, At, Set
<1>2. ThreadInv(r, s) /\ IsThread(r) /\ (Answered(r, s) \/ HalfRead(r, s))
  BY <1>1 DEF AnswerInv, ThreadInv, Exchanged, Quiet, Asked
<1>3. CASE ~whole
  <2>1. worker' = [worker EXCEPT ![w] = [r EXCEPT !.raw = raw]]
    BY <1>1, <1>3
  <2> DEFINE p == [r EXCEPT !.raw = raw]
  <2>2. /\ p.pc = "receive" /\ p.batch = r.batch /\ p.attempt = r.attempt /\ p.rest = r.rest
        /\ p.tries = r.tries /\ p.ticks = r.ticks /\ p.filter = r.filter
    BY <1>1, <1>2 DEF IsThread
  <2> HIDE DEF p
  <2>3. worker' = [worker EXCEPT ![w] = p]
    BY <2>1 DEF p
  <2> QED BY <2>2, <2>3
<1>4. CASE whole
  <2>1. raw[1].ids = r.attempt
    <3>1. CASE HalfRead(r, s)
      <4>1. raw[1] = Part(r.attempt, 1)
        BY <3>1, TwoParts DEF HalfRead
      <4> QED BY <4>1 DEF Part
    <3>2. CASE Answered(r, s)
      <4>1. Len(raw) = 1
        BY <3>2 DEF Answered
      <4> QED BY <1>4, <4>1
    <3> QED BY <1>2, <3>1, <3>2
  <2>2. worker' = [worker EXCEPT ![w] = [r EXCEPT !.pc = "export", !.todo = r.attempt, !.raw = <<>>]]
    BY <1>1, <1>4, <2>1
  <2> DEFINE p == [r EXCEPT !.pc = "export", !.todo = r.attempt, !.raw = <<>>]
  <2>3. /\ p.pc = "export" /\ p.todo = r.attempt /\ p.batch = r.batch /\ p.attempt = r.attempt
        /\ p.rest = r.rest /\ p.tries = r.tries /\ p.ticks = r.ticks /\ p.filter = r.filter
    BY <1>2 DEF IsThread
  <2> HIDE DEF p
  <2>4. worker' = [worker EXCEPT ![w] = p]
    BY <2>2 DEF p
  <2> QED BY <2>3, <2>4
<1> QED BY <1>3, <1>4

(* Every step of a thread and of the node keeps the places and the exports. *)
LEMMA PlaceStep ==
  ASSUME AnswerInv, JobInv, NEW w \in Workers, WorkerStep(w) \/ WorkerRaises(w) \/ Node(w)
  PROVE  (Loops /\ Apart /\ Exports)'
<1> DEFINE r == worker[w]
<1>1. /\ Loops /\ Apart /\ Exports /\ job \in {"geth_traces", "token_transfers"} /\ failed \in BOOLEAN
      /\ submitted \in 0 .. Batches /\ taken \in Nat /\ Looping(r) /\ IsThread(r)
  BY LastBatch DEF JobInv, Filters, Running, Loops, AnswerInv, ThreadInv
<1>2. CASE Take(w)
  BY <1>1, <1>2, Takes DEF Take
<1>3. CASE Send(w) \/ NewFilter(w) \/ GetLogs(w) \/ GetAllEntries(w)
  <2>1. PICK q : /\ worker' = [worker EXCEPT ![w] = q] /\ r.pc \in {"send", "filter", "entries"}
                 /\ q.batch = r.batch /\ q.attempt = r.attempt /\ q.rest = r.rest /\ q.tries = r.tries
                 /\ q.ticks = r.ticks /\ q.pc \in Trying \cap Stages /\ (q.pc = "export" => q.todo = r.attempt)
    <3>4. r.pc \in Stages
      BY <1>1 DEF Looping
    <3>1. CASE Send(w)
      <4> DEFINE q == [r EXCEPT !.pc = "receive"]
      <4>1. r.pc \in {"send"} /\ worker' = [worker EXCEPT ![w] = q]
        BY <3>1 DEF Send, At, Set
      <4>2. r.pc \in {"send", "filter", "entries"} /\ "receive" \in Trying \cap Stages
        BY <3>4, <4>1 DEF Stages, Trying
      <4>3. /\ q.pc = "receive" /\ q.batch = r.batch /\ q.attempt = r.attempt /\ q.rest = r.rest
            /\ q.tries = r.tries /\ q.ticks = r.ticks
        BY <1>1 DEF IsThread
      <4> HIDE DEF q
      <4> QED BY <4>1, <4>2, <4>3
    <3>2. CASE NewFilter(w)
      <4> DEFINE q == [r EXCEPT !.pc = "entries", !.filter = TRUE]
      <4>1. r.pc \in {"filter"} /\ worker' = [worker EXCEPT ![w] = q]
        BY <3>2 DEF NewFilter, At, Set
      <4>2. r.pc \in {"send", "filter", "entries"} /\ "entries" \in Trying \cap Stages
        BY <3>4, <4>1 DEF Stages, Trying
      <4>3. /\ q.pc = "entries" /\ q.batch = r.batch /\ q.attempt = r.attempt /\ q.rest = r.rest
            /\ q.tries = r.tries /\ q.ticks = r.ticks
        BY <1>1 DEF IsThread
      <4> HIDE DEF q
      <4> QED BY <4>1, <4>2, <4>3
    <3>3. CASE GetLogs(w) \/ GetAllEntries(w)
      <4> DEFINE q == [r EXCEPT !.pc = "export", !.todo = r.attempt]
      <4>1. r.pc \in {"filter", "entries"} /\ worker' = [worker EXCEPT ![w] = q]
        BY <3>3 DEF GetLogs, GetAllEntries, At, Set
      <4>2. r.pc \in {"send", "filter", "entries"} /\ "export" \in Trying \cap Stages
        BY <3>4, <4>1 DEF Stages, Trying
      <4>3. /\ q.pc = "export" /\ q.batch = r.batch /\ q.attempt = r.attempt /\ q.rest = r.rest
            /\ q.tries = r.tries /\ q.ticks = r.ticks /\ q.todo = r.attempt
        BY <1>1 DEF IsThread
      <4> HIDE DEF q
      <4> QED BY <4>1, <4>2, <4>3
    <3> QED BY <1>3, <3>1, <3>2, <3>3
  <2>2. Ahead(q) = Ahead(r) /\ r.pc \in Trying
    BY <2>1 DEF Ahead, Trying
  <2>3. UNCHANGED <<job, taken, exported, failed>>
    BY <1>3 DEF Send, NewFilter, GetLogs, GetAllEntries, unchangedMain
  <2> QED BY <1>1, <2>1, <2>2, <2>3, Proceeds
<1>4. CASE Receive(w)
  <2>1. PICK q : /\ worker' = [worker EXCEPT ![w] = q] /\ q.batch = r.batch /\ q.attempt = r.attempt
                 /\ q.rest = r.rest /\ q.tries = r.tries /\ q.ticks = r.ticks
                 /\ q.pc = "receive" \/ (q.pc = "export" /\ q.todo = r.attempt)
    BY <1>4, Answers
  <2>2. r.pc = "receive" /\ UNCHANGED <<job, taken, exported, failed>>
    BY <1>4 DEF Receive, At, unchangedMain
  <2>3. Ahead(q) = Ahead(r) /\ r.pc \in Trying /\ q.pc \in Trying \cap Stages
    BY <1>1, <2>1, <2>2 DEF Ahead, Trying, Stages, Looping
  <2> QED BY <1>1, <2>1, <2>2, <2>3, Proceeds
<1>5. CASE ExportItem(w)
  <2>1. PICK b \in r.todo : /\ exported' = [exported EXCEPT ![b] = @ + 1]
                            /\ worker' = [worker EXCEPT ![w] = [worker[w] EXCEPT !.todo = @ \ {b}]]
    BY <1>5 DEF ExportItem, Set
  <2>2. r.pc = "export" /\ UNCHANGED <<job, taken, failed>>
    BY <1>5 DEF ExportItem, At, unchangedMain
  <2> QED BY <1>1, <2>1, <2>2, Exporting
<1>6. CASE Uninstall(w) \/ Return(w)
  <2>1. Returned(w, r) /\ r.pc = "export" /\ r.todo = {} /\ UNCHANGED <<job, taken, exported, failed>>
    BY <1>6 DEF Uninstall, Return, At, unchangedMain
  <2> QED BY <1>1, <2>1, Returns
<1>7. CASE Track(w)
  BY <1>1, <1>7, Ticks
<1>8. CASE WorkerRaises(w)
  <2>1. r.pc \in Trying /\ UNCHANGED <<job, taken, exported>> /\ (Raised(w) \/ Fatal(w))
    BY <1>8 DEF WorkerRaises, SendRaises, Timeout, CallRaises, ItemRaises, At, Trying, unchangedMain
  <2>2. CASE Fatal(w)
    <3>1. \A b \in r.batch : exported[b] <= Bound
      <4>1. \A b \in r.batch : b \in Blocks /\ Tried(r, b, exported[b]) /\ exported[b] \in Nat
        BY <1>1, BatchInside DEF Exports
      <4>2. r.tries \in 0 .. MaxRetries /\ MaxRetries \in Nat /\ Bound \in Nat /\ Bound >= 2
        BY <1>1, JobsAssumption DEF Looping, Bound
      <4> QED BY <4>1, <4>2 DEF Tried
    <3> QED BY <1>1, <2>1, <2>2, <3>1, Leaves DEF Fatal, Set
  <2>3. CASE Raised(w)
    <3>1. job = "geth_traces" /\ r.tries > 0 => r.attempt \subseteq Ahead(r)
      <4>1. ASSUME job = "geth_traces", r.tries > 0, r.pc = "export" PROVE r.attempt \subseteq Ahead(r)
        <5>1. r.todo # {}
          BY <1>8, <4>1 DEF WorkerRaises, SendRaises, Timeout, CallRaises, ItemRaises, At
        <5>2. PICK lo : r.attempt = {lo}
          BY <1>1, <2>1, <4>1, LeftOver
        <5>3. r.todo \subseteq r.attempt
          BY DEF AnswerInv, ThreadInv
        <5> QED BY <4>1, <5>1, <5>2, <5>3 DEF Ahead
      <4> QED BY <4>1 DEF Ahead
    <3> QED BY <1>1, <2>1, <2>3, <3>1, Retries
  <2> QED BY <2>1, <2>2, <2>3
<1>9. CASE Node(w)
  <2>1. UNCHANGED <<job, taken, worker, exported, failed>>
    BY <1>9 DEF Node, Answer, Disconnect, unchangedMain
  <2> QED BY <1>1, <2>1 DEF Loops, Apart, Exports, Looping, Stages, WholeBatch, OneByOne, Covered, Bound, Tried, Ahead
<1> QED BY <1>2, <1>3, <1>4, <1>5, <1>6, <1>7, <1>8, <1>9 DEF WorkerStep

-----------------------------------------------------------------------------
(* The threads that hold a filter, when one of them moves *)
LEMMA HoldingMoves ==
  ASSUME AnswerInv, NEW w \in Workers, NEW q, worker' = [worker EXCEPT ![w] = q],
         q.filter \in BOOLEAN, worker[w].filter \in BOOLEAN
  PROVE  /\ Cardinality(Holding) \in Nat /\ Cardinality(Holding') \in Nat
         /\ q.filter = worker[w].filter => Cardinality(Holding') = Cardinality(Holding)
         /\ q.filter /\ ~worker[w].filter => Cardinality(Holding') = Cardinality(Holding) + 1
         /\ ~q.filter /\ worker[w].filter => Cardinality(Holding) = Cardinality(Holding') + 1
<1>1. worker'[w] = q /\ \A v \in Workers \ {w} : worker'[v] = worker[v]
  BY DEF AnswerInv
<1>2. Holding' = {v \in Workers : worker'[v].filter}
  BY DEF Holding
<1>3. Holding \subseteq Workers /\ Holding' \subseteq Workers /\ (w \in Holding <=> worker[w].filter)
  BY <1>2 DEF Holding
<1>4. IsFiniteSet(Holding) /\ IsFiniteSet(Holding')
  BY <1>3, FS_Subset, JobsAssumption
<1>5. IF q.filter THEN Holding' = Holding \cup {w} ELSE Holding' = Holding \ {w}
  BY <1>1, <1>2 DEF Holding
<1>6. Cardinality(Holding) \in Nat /\ Cardinality(Holding') \in Nat
  BY <1>4, FS_CardinalityType
<1>7. CASE q.filter
  <2>1. Cardinality(Holding') = IF w \in Holding THEN Cardinality(Holding) ELSE Cardinality(Holding) + 1
    BY <1>4, <1>5, <1>7, FS_AddElement
  <2> QED BY <1>3, <1>6, <1>7, <2>1
<1>8. CASE ~q.filter
  <2>1. Cardinality(Holding') = IF w \in Holding THEN Cardinality(Holding) - 1 ELSE Cardinality(Holding)
    BY <1>4, <1>5, <1>8, FS_RemoveElement
  <2> QED BY <1>3, <1>6, <1>8, <2>1
<1> QED BY <1>7, <1>8

LEMMA Holds ==
  ASSUME AnswerInv, Filters, NEW w \in Workers, NEW q, worker' = [worker EXCEPT ![w] = q],
         UNCHANGED <<job, implements>>, supports' \in BOOLEAN, ~supports' => FALSE \in implements,
         supports' => supports, q.filter \in BOOLEAN,
         q.filter => q.pc \in {"entries", "export"} /\ TRUE \in implements /\ job = "token_transfers",
         q.pc = "entries" => q.filter,
         q.pc = "export" /\ job = "token_transfers" /\ supports' => q.filter,
         faults \in Nat, faults' \in {faults, faults + 1},
         \/ q.filter = worker[w].filter /\ filters' = filters
         \/ q.filter /\ ~worker[w].filter /\ filters' = filters + 1 /\ faults' = faults
         \/ ~q.filter /\ ~worker[w].filter /\ filters' = filters + 1 /\ faults' = faults + 1
         \/ ~q.filter /\ worker[w].filter /\ filters' = filters - 1
         \/ /\ ~q.filter /\ worker[w].filter /\ filters' = filters
            /\ faults' = faults + 1 \/ implements = BOOLEAN
  PROVE  Filters'
<1>1. worker'[w] = q /\ \A v \in Workers \ {w} : worker'[v] = worker[v]
  BY DEF AnswerInv
<1>2. \A v \in Workers : HoldsRightly(worker[v])
  BY DEF Filters
<1>3. ASSUME NEW v \in Workers PROVE HoldsRightly(worker[v])'
  <2>1. CASE v = w
    <3>1. worker'[v] = q /\ implements' = implements /\ job' = job
      BY <1>1, <2>1
    <3> QED BY <3>1, ZenonT(30) DEF HoldsRightly
  <2>2. CASE v # w
    <3>1. worker'[v] = worker[v] /\ HoldsRightly(worker[v])
      BY <1>1, <1>2, <2>2
    <3> QED BY <3>1 DEF HoldsRightly
  <2> QED BY <2>1, <2>2
<1>4. worker[w].filter \in BOOLEAN
  BY <1>2 DEF HoldsRightly
<1> DEFINE held == Cardinality(Holding)
           held2 == Cardinality(Holding')
<1>5. /\ held \in Nat /\ held2 \in Nat
      /\ q.filter = worker[w].filter => held2 = held
      /\ q.filter /\ ~worker[w].filter => held2 = held + 1
      /\ ~q.filter /\ worker[w].filter => held = held2 + 1
  BY <1>4, HoldingMoves
<1>6. /\ filters \in Nat /\ held <= filters
      /\ implements # BOOLEAN => filters <= faults + held
  BY DEF Filters
<1> HIDE DEF held, held2
<1>7. /\ filters' \in Nat /\ held2 <= filters'
      /\ implements # BOOLEAN => filters' <= faults' + held2
  <2>1. CASE q.filter = worker[w].filter
    BY <1>4, <1>5, <1>6, <2>1
  <2>2. CASE q.filter # worker[w].filter
    BY <1>4, <1>5, <1>6, <2>2
  <2> QED BY <2>1, <2>2
<1> QED BY <1>3, <1>7 DEF Filters, held2

LEMMA FilterStep ==
  ASSUME AnswerInv, JobInv, NEW w \in Workers, WorkerStep(w) \/ WorkerRaises(w) \/ Node(w)
  PROVE  Filters'
<1> DEFINE r == worker[w]
<1>1. /\ Filters /\ HoldsRightly(r) /\ job \in {"geth_traces", "token_transfers"} /\ faults \in Nat
      /\ Looping(r) /\ r.pc \in Stages /\ IsThread(r) /\ supports \in BOOLEAN /\ r.filter \in BOOLEAN
      /\ (~supports => FALSE \in implements) /\ implements \in SUBSET BOOLEAN
  <2>1. faults \in Nat
    BY JobsAssumption DEF JobInv, Running
  <2>2. Filters /\ Looping(r) /\ r.pc \in Stages /\ IsThread(r)
    BY DEF JobInv, Loops, Looping, AnswerInv, ThreadInv
  <2>3. HoldsRightly(r)
    BY <2>2 DEF Filters
  <2>4. r.filter \in BOOLEAN
    BY <2>3 DEF HoldsRightly
  <2>5. /\ job \in {"geth_traces", "token_transfers"} /\ supports \in BOOLEAN
        /\ (~supports => FALSE \in implements) /\ implements \in SUBSET BOOLEAN
    BY <2>2 DEF Filters
  <2> QED BY <2>1, <2>2, <2>3, <2>4, <2>5
<1>2. UNCHANGED <<job, implements>>
  BY DEF WorkerStep, WorkerRaises, Node, Take, Send, Receive, NewFilter, GetLogs, GetAllEntries, ExportItem,
         Uninstall, Return, Track, SendRaises, Timeout, CallRaises, ItemRaises, Answer, Disconnect, unchangedMain
<1>3. FirstStep \notin {"entries", "export"}
  BY DEF FirstStep
<1>4. ASSUME NEW q, worker' = [worker EXCEPT ![w] = q], NoFilter(q), q.pc \notin {"entries", "export"},
             UNCHANGED <<filters, supports>>, NoFilter(r), faults' \in {faults, faults + 1}
      PROVE  Filters'
  <2>1. q.filter = r.filter /\ q.filter = FALSE
    BY <1>4 DEF NoFilter
  <2> QED BY <1>1, <1>2, <1>4, <2>1, Holds
<1>5. CASE Take(w) \/ Track(w)
  <2>1. NoFilter(r) /\ UNCHANGED <<filters, supports, faults>>
    BY <1>1, <1>5 DEF Take, Track, At, HoldsRightly, NoFilter, net
  <2>2. CASE Take(w)
    <3> DEFINE q == [Idle EXCEPT !.pc = FirstStep, !.batch = Batch(taken'), !.attempt = Batch(taken')]
    <3>1. worker' = [worker EXCEPT ![w] = q]
      BY <2>2 DEF Take, Set
    <3>2. NoFilter(q) /\ q.pc = FirstStep
      BY DEF Idle, NoFilter
    <3> HIDE DEF q
    <3> QED BY <1>1, <1>3, <1>4, <2>1, <3>1, <3>2
  <2>3. CASE Track(w)
    <3> DEFINE q == [r EXCEPT !.ticks = r.ticks - 1]
    <3>1. NoFilter(q) /\ q.pc = "track" /\ NoFilter(Idle) /\ Idle.pc = "idle"
      BY <1>1, <2>1, <2>3 DEF IsThread, NoFilter, Idle, Track, At
    <3>2. worker' = [worker EXCEPT ![w] = q] \/ worker' = [worker EXCEPT ![w] = Idle]
      BY <2>3 DEF Track, Tracked, Set
    <3> HIDE DEF q
    <3> QED BY <1>1, <1>4, <2>1, <3>1, <3>2
  <2> QED BY <1>5, <2>2, <2>3
<1>6. CASE Send(w)
  <2> DEFINE q == [r EXCEPT !.pc = "receive"]
  <2>1. r.pc = "send" /\ worker' = [worker EXCEPT ![w] = q] /\ UNCHANGED <<filters, supports, faults>>
    BY <1>6 DEF Send, At, Set
  <2>2. NoFilter(r) /\ NoFilter(q) /\ q.pc = "receive"
    BY <1>1, <2>1 DEF HoldsRightly, IsThread, NoFilter
  <2> HIDE DEF q
  <2> QED BY <1>1, <1>4, <2>1, <2>2
<1>7. CASE Receive(w)
  <2>1. PICK q : /\ worker' = [worker EXCEPT ![w] = q] /\ q.filter = r.filter
                 /\ q.pc \in {"receive", "export"}
    BY <1>7, Answers
  <2>2. r.pc = "receive" /\ UNCHANGED <<filters, supports, faults>>
    BY <1>7 DEF Receive, At
  <2>3. r.filter = FALSE /\ job = "geth_traces"
    BY <1>1, <2>2 DEF HoldsRightly, Stages
  <2> QED BY <1>1, <1>2, <2>1, <2>2, <2>3, Holds
<1>8. CASE NewFilter(w)
  <2> DEFINE q == [r EXCEPT !.pc = "entries", !.filter = TRUE]
  <2>1. /\ r.pc = "filter" /\ worker' = [worker EXCEPT ![w] = q] /\ UNCHANGED <<supports, faults>>
        /\ filters' = filters + 1 /\ TRUE \in implements
    BY <1>8 DEF NewFilter, At, Set
  <2>2. r.filter = FALSE /\ q.filter = TRUE /\ q.pc = "entries" /\ job = "token_transfers"
    BY <1>1, <2>1 DEF HoldsRightly, IsThread, Stages
  <2> HIDE DEF q
  <2> QED BY <1>1, <1>2, <2>1, <2>2, Holds
<1>9. CASE GetLogs(w) \/ GetAllEntries(w)
  <2> DEFINE q == [r EXCEPT !.pc = "export", !.todo = r.attempt]
  <2>1. /\ worker' = [worker EXCEPT ![w] = q] /\ UNCHANGED <<filters, faults>>
        /\ \/ r.pc = "filter" /\ supports' = FALSE /\ FALSE \in implements
           \/ r.pc = "entries" /\ supports' = supports
    BY <1>9 DEF GetLogs, GetAllEntries, At, Set, net
  <2>2. q.filter = r.filter /\ q.pc = "export"
    BY <1>1 DEF IsThread
  <2> HIDE DEF q
  <2>3. r.pc = "entries" => r.filter
    BY <1>1 DEF HoldsRightly
  <2>4. r.filter => r.pc = "entries" /\ TRUE \in implements /\ job = "token_transfers"
    BY <1>1, <2>1 DEF HoldsRightly
  <2>5. CASE r.pc = "filter" /\ supports' = FALSE /\ FALSE \in implements
    BY <1>1, <1>2, <2>1, <2>2, <2>4, <2>5, Holds
  <2>6. CASE r.pc = "entries" /\ supports' = supports
    BY <1>1, <1>2, <2>1, <2>2, <2>3, <2>4, <2>6, Holds
  <2> QED BY <2>1, <2>5, <2>6
<1>10. CASE ExportItem(w)
  <2>1. PICK b : worker' = [worker EXCEPT ![w] = [r EXCEPT !.todo = r.todo \ {b}]]
    BY <1>10 DEF ExportItem, Set
  <2> DEFINE q == [r EXCEPT !.todo = r.todo \ {b}]
  <2>2. q.filter = r.filter /\ q.pc = r.pc
    BY <1>1 DEF IsThread
  <2> HIDE DEF q
  <2>3. worker' = [worker EXCEPT ![w] = q] /\ UNCHANGED <<filters, supports, faults>>
    BY <1>10, <2>1 DEF ExportItem, net, q
  <2>4. /\ r.filter => r.pc \in {"entries", "export"} /\ TRUE \in implements /\ job = "token_transfers"
        /\ r.pc = "entries" => r.filter
        /\ r.pc = "export" /\ job = "token_transfers" /\ supports => r.filter
    BY <1>1 DEF HoldsRightly
  <2> QED BY <1>1, <1>2, <2>2, <2>3, <2>4, Holds
<1>11. CASE Uninstall(w) \/ Return(w)
  <2>1. PICK q : /\ worker' = [worker EXCEPT ![w] = q] /\ NoFilter(q)
                 /\ q.pc = FirstStep \/ q.pc = "track"
    BY <1>11, ReturnedMoves DEF Uninstall, Return
  <2>2. q.filter = FALSE /\ q.pc \notin {"entries", "export"}
    BY <1>3, <2>1 DEF NoFilter
  <2>3. UNCHANGED <<supports, faults>>
    BY <1>11 DEF Uninstall, Return, net
  <2>4. CASE Uninstall(w)
    <3>1. r.filter /\ filters' = filters - 1
      BY <2>4 DEF Uninstall
    <3> QED BY <1>1, <1>2, <2>1, <2>2, <2>3, <3>1, Holds
  <2>5. CASE Return(w)
    <3>1. filters' = filters /\ (r.filter => implements = BOOLEAN)
      <4>1. filters' = filters /\ (job = "geth_traces" \/ ~supports)
        BY <2>5 DEF Return, net
      <4>2. r.filter => TRUE \in implements /\ FALSE \in implements
        BY <1>1, <4>1 DEF HoldsRightly
      <4> QED BY <1>1, <4>1, <4>2
    <3> QED BY <1>1, <1>2, <2>1, <2>2, <2>3, <3>1, Holds
  <2> QED BY <1>11, <2>4, <2>5
<1>12. CASE WorkerRaises(w)
  <2>1. PICK q : worker' = [worker EXCEPT ![w] = q] /\ NoFilter(q) /\ q.pc \in {"idle", FirstStep}
    BY <1>12, RaisedMoves DEF WorkerRaises, SendRaises, Timeout, CallRaises, ItemRaises
  <2>2. q.filter = FALSE /\ q.pc \notin {"entries", "export"} /\ faults' \in {faults, faults + 1}
    BY <1>3, <1>12, <2>1
    DEF NoFilter, WorkerRaises, SendRaises, Timeout, TimesOut, CallRaises, ItemRaises, Fault
  <2>3. CASE SendRaises(w) \/ Timeout(w)
    <3>1. UNCHANGED <<filters, supports>> /\ r.pc \in {"send", "receive"}
      BY <2>3 DEF SendRaises, Timeout, At, net
    <3>2. NoFilter(r)
      BY <1>1, <3>1 DEF HoldsRightly, NoFilter
    <3> QED BY <1>4, <2>1, <2>2, <3>1, <3>2
  <2>4. CASE CallRaises(w)
    <3>1. /\ faults' = faults + 1 /\ job = "token_transfers"
          /\ \/ r.pc = "filter" /\ filters' \in {filters, filters + 1} /\ supports' = supports
             \/ r.pc = "filter" /\ FALSE \in implements /\ supports' = FALSE /\ filters' = filters
             \/ r.pc = "entries" /\ filters' = filters /\ supports' = supports
             \/ r.pc = "export" /\ supports /\ filters' \in {filters, filters - 1} /\ supports' = supports
      BY <2>4 DEF CallRaises, At, Fault
    <3>2. IF r.pc = "filter" THEN ~r.filter ELSE r.filter
      BY <1>1, <3>1 DEF HoldsRightly
    <3>3. CASE r.pc = "filter" /\ filters' \in {filters, filters + 1} /\ supports' = supports
      BY <1>1, <1>2, <2>1, <2>2, <3>1, <3>2, <3>3, Holds
    <3>4. CASE r.pc = "filter" /\ FALSE \in implements /\ supports' = FALSE /\ filters' = filters
      BY <1>1, <1>2, <2>1, <2>2, <3>1, <3>2, <3>4, Holds
    <3>5. CASE r.pc # "filter"
      BY <1>1, <1>2, <2>1, <2>2, <3>1, <3>2, <3>5, Holds
    <3> QED BY <3>1, <3>3, <3>4, <3>5
  <2>5. CASE ItemRaises(w)
    <3>1. UNCHANGED <<filters, supports>> /\ faults' = faults + 1
      BY <2>5 DEF ItemRaises, net, Fault
    <3>2. q.filter = FALSE /\ (r.filter = q.filter \/ r.filter)
      BY <1>1, <2>2
    <3> QED BY <1>1, <1>2, <2>1, <2>2, <3>1, <3>2, Holds
  <2> QED BY <1>12, <2>3, <2>4, <2>5 DEF WorkerRaises
<1>13. CASE Node(w)
  <2>1. UNCHANGED <<worker, filters, supports>> /\ faults' \in {faults, faults + 1}
    BY <1>13 DEF Node, Answer, Disconnect, Fault
  <2>2. worker' = [worker EXCEPT ![w] = r]
    BY <2>1 DEF AnswerInv
  <2>3. /\ r.filter => r.pc \in {"entries", "export"} /\ TRUE \in implements /\ job = "token_transfers"
        /\ r.pc = "entries" => r.filter
        /\ r.pc = "export" /\ job = "token_transfers" /\ supports => r.filter
    BY <1>1 DEF HoldsRightly
  <2> QED BY <1>1, <1>2, <2>1, <2>2, <2>3, Holds
<1> QED BY <1>5, <1>6, <1>7, <1>8, <1>9, <1>10, <1>11, <1>12, <1>13 DEF WorkerStep

-----------------------------------------------------------------------------
(* The blocks the progress logger has counted *)
LEMMA UncountedInBatch == ASSUME NEW r PROVE Uncounted(r) \subseteq r.batch
  BY DEF Uncounted

LEMMA CountedKept ==
  ASSUME AnswerInv, NEW w \in Workers, NEW q, worker' = [worker EXCEPT ![w] = q], UNCHANGED taken,
         Uncounted(q) = Uncounted(worker[w])
  PROVE  Counted' = Counted
<1>1. Covered' = Covered
  BY DEF Covered
<1>2. \A v \in Workers : Uncounted(worker'[v]) = Uncounted(worker[v])
  BY DEF AnswerInv
<1>3. UNION {Uncounted(worker'[v]) : v \in Workers} = UNION {Uncounted(worker[v]) : v \in Workers}
  BY <1>2
<1>4. Counted' = Covered' \ UNION {Uncounted(worker'[v]) : v \in Workers}
  BY DEF Counted, Uncounted
<1> QED BY <1>1, <1>3, <1>4 DEF Counted

LEMMA TryingMoves ==
  ASSUME AnswerInv, NEW w \in Workers,
         \/ Send(w) \/ Receive(w) \/ NewFilter(w) \/ GetLogs(w) \/ GetAllEntries(w) \/ ExportItem(w)
  PROVE  \E q : /\ worker' = [worker EXCEPT ![w] = q] /\ q.batch = worker[w].batch
                /\ q.pc \in Trying /\ worker[w].pc \in Trying
<1> DEFINE r == worker[w]
<1>1. IsThread(r)
  BY DEF AnswerInv, ThreadInv
<1>2. CASE Receive(w)
  <2>1. PICK q : /\ worker' = [worker EXCEPT ![w] = q] /\ q.batch = r.batch
                 /\ q.pc \in {"receive", "export"}
    BY <1>2, Answers
  <2> QED BY <1>2, <2>1 DEF Receive, At, Trying
<1>3. ASSUME NEW pc \in Trying, NEW todo, NEW f
      PROVE  \A q \in {[r EXCEPT !.pc = pc], [r EXCEPT !.pc = pc, !.filter = f],
                       [r EXCEPT !.pc = pc, !.todo = todo]} : q.batch = r.batch /\ q.pc \in Trying
  BY <1>1 DEF IsThread
<1>4. CASE Send(w)
  <2>1. r.pc = "send" /\ worker' = [worker EXCEPT ![w] = [r EXCEPT !.pc = "receive"]]
    BY <1>4 DEF Send, At, Set
  <2>2. "send" \in Trying /\ "receive" \in Trying
    BY DEF Trying
  <2> QED BY <1>3, <2>1, <2>2
<1>5. CASE NewFilter(w)
  <2>1. r.pc = "filter" /\ worker' = [worker EXCEPT ![w] = [r EXCEPT !.pc = "entries", !.filter = TRUE]]
    BY <1>5 DEF NewFilter, At, Set
  <2>2. "filter" \in Trying /\ "entries" \in Trying
    BY DEF Trying
  <2> QED BY <1>3, <2>1, <2>2
<1>6. CASE GetLogs(w) \/ GetAllEntries(w)
  <2>1. /\ r.pc \in {"filter", "entries"}
        /\ worker' = [worker EXCEPT ![w] = [r EXCEPT !.pc = "export", !.todo = r.attempt]]
    BY <1>6 DEF GetLogs, GetAllEntries, At, Set
  <2>2. r.pc \in Trying /\ "export" \in Trying
    BY <2>1 DEF Trying
  <2> QED BY <1>3, <2>1, <2>2
<1>7. CASE ExportItem(w)
  <2>1. PICK b : worker' = [worker EXCEPT ![w] = [r EXCEPT !.todo = r.todo \ {b}]]
    BY <1>7 DEF ExportItem, Set
  <2> DEFINE q == [r EXCEPT !.todo = r.todo \ {b}]
  <2>2. q.pc = r.pc /\ q.batch = r.batch /\ r.pc \in Trying
    BY <1>1, <1>7 DEF IsThread, ExportItem, At, Trying
  <2>3. worker' = [worker EXCEPT ![w] = q]
    BY <2>1
  <2> HIDE DEF q
  <2> QED BY <2>2, <2>3
<1> QED BY <1>2, <1>4, <1>5, <1>6, <1>7

LEMMA CountedFinite ==
  ASSUME taken \in Nat
  PROVE  /\ Counted \subseteq Covered /\ Covered \subseteq Blocks
         /\ IsFiniteSet(Blocks) /\ Cardinality(Blocks) = LastBlock
         /\ IsFiniteSet(Counted) /\ Cardinality(Counted) \in 0 .. LastBlock
         /\ Cardinality(Counted) = LastBlock => Counted = Blocks
<1>1. Counted \subseteq Covered /\ Covered \subseteq Blocks
  BY TopInside, JobsAssumption DEF Counted, Covered, Blocks
<1>2. IsFiniteSet(Blocks) /\ Cardinality(Blocks) = LastBlock
  BY FS_Interval, JobsAssumption DEF Blocks
<1>3. /\ IsFiniteSet(Counted) /\ Cardinality(Counted) <= LastBlock
      /\ Cardinality(Counted) = LastBlock => Counted = Blocks
  BY <1>1, <1>2, FS_Subset
<1> QED BY <1>1, <1>2, <1>3, FS_CardinalityType, JobsAssumption

(* One tick counts one block. *)
LEMMA OneMore ==
  ASSUME AnswerInv, Loops, Apart, taken \in Nat, NEW w \in Workers, Track(w)
  PROVE  /\ IsFiniteSet(Counted') /\ Cardinality(Counted') = Cardinality(Counted) + 1
         /\ worker[w].ticks > 1 => Counted' # Blocks
<1> DEFINE r == worker[w]
           q == worker'[w]
<1>1. r.pc = "track" /\ Looping(r) /\ r.pc # "idle" /\ IsThread(r)
  BY DEF Track, At, Loops, AnswerInv, ThreadInv
<1>2. PICK lo, hi \in Covered : /\ lo <= hi /\ r.batch = lo .. hi /\ First(r.batch) = lo
                                /\ Cardinality(r.batch) = hi - lo + 1
  BY <1>1, BatchCounted
<1>3. lo \in Int /\ hi \in Int /\ r.ticks \in 1 .. hi - lo + 1
  BY <1>1, <1>2 DEF Covered, Looping
<1> DEFINE x == lo + r.ticks - 1
<1>4. x \in Int /\ x \in r.batch /\ Uncounted(r) = {b \in r.batch : b <= x}
  BY <1>1, <1>2, <1>3, SMTT(30) DEF Uncounted, Trying
<1>5. Uncounted(q) = Uncounted(r) \ {x} /\ (r.ticks > 1 => lo \in Uncounted(q))
  <2>1. CASE r.ticks > 1
    <3>1. q = [r EXCEPT !.ticks = r.ticks - 1]
      BY <2>1 DEF Track, Tracked, Set, AnswerInv
    <3>2. q.pc = "track" /\ q.batch = r.batch /\ q.ticks = r.ticks - 1
      BY <1>1, <3>1 DEF IsThread
    <3> HIDE DEF q
    <3>3. Uncounted(q) = {b \in r.batch : b < x}
      BY <1>2, <1>3, <3>2 DEF Uncounted, Trying
    <3>4. lo < x /\ lo \in r.batch
      BY <1>2, <1>3, <2>1
    <3> QED BY <1>2, <1>3, <1>4, <3>3, <3>4
  <2>2. CASE ~(r.ticks > 1)
    <3>1. q = Idle
      BY <2>2 DEF Track, Tracked, Set, AnswerInv
    <3>2. Uncounted(q) = {}
      BY <3>1 DEF Uncounted, Idle, Trying
    <3>3. x = lo
      BY <1>3, <2>2
    <3>4. Uncounted(r) \subseteq {x}
      BY <1>2, <1>3, <1>4, <3>3
    <3> QED BY <2>2, <3>2, <3>4
  <2> QED BY <2>1, <2>2
<1>6. \A v \in Workers \ {w} : worker'[v] = worker[v] /\ x \notin Uncounted(worker[v])
  <2>1. \A v \in Workers \ {w} : worker'[v] = worker[v]
    BY DEF Track, Tracked, Set, AnswerInv
  <2> QED BY <1>4, <2>1, UncountedInBatch DEF Apart
<1>7. x \in Covered /\ Covered' = Covered
  <2>1. UNCHANGED taken
    BY DEF Track
  <2> QED BY <1>4, <2>1, BatchInside DEF Covered
<1>8. Counted' = Covered' \ UNION {Uncounted(worker'[v]) : v \in Workers}
  BY DEF Counted, Uncounted
<1> HIDE DEF x, q
<1>9. /\ \A c : c \in Counted' <=> c \in Covered /\ \A v \in Workers : c \notin Uncounted(worker'[v])
      /\ \A c : c \in Counted <=> c \in Covered /\ \A v \in Workers : c \notin Uncounted(worker[v])
  BY <1>7, <1>8 DEF Counted
<1>10. x \in Uncounted(r)
  BY <1>4
<1>11. Counted' = Counted \cup {x} /\ x \notin Counted
  <2>1. x \notin Counted
    BY <1>9, <1>10
  <2>2. ASSUME NEW c PROVE c \in Counted' <=> c \in Counted \/ c = x
    BY <1>5, <1>6, <1>7, <1>9 DEF q
  <2> QED BY <2>1, <2>2
<1>12. r.ticks > 1 => lo \in Blocks /\ lo \notin Counted'
  BY <1>5, <1>9, CountedFinite DEF q
<1> QED BY <1>11, <1>12, CountedFinite, FS_AddElement

LEMMA ThreadsRun ==
  ASSUME JobInv, NEW w \in Workers, WorkerStep(w) \/ WorkerRaises(w)
  PROVE  ~Ended /\ UNCHANGED <<main, exporter, submitted>>
<1>1. taken < submitted \/ worker[w].pc # "idle"
  BY DEF WorkerStep, WorkerRaises, Take, Send, Receive, NewFilter, GetLogs, GetAllEntries, ExportItem,
         Uninstall, Return, Track, SendRaises, Timeout, CallRaises, ItemRaises, At
<1>2. UNCHANGED <<main, exporter, submitted>>
  BY DEF WorkerStep, WorkerRaises, Take, Send, Receive, NewFilter, GetLogs, GetAllEntries, ExportItem,
         Uninstall, Return, Track, SendRaises, Timeout, CallRaises, ItemRaises, unchangedMain, mainVars
<1>3. Ended => taken = submitted /\ worker[w].pc = "idle"
  BY DEF JobInv, Running
<1>4. submitted \in Int
  BY LastBatch DEF JobInv, Running
<1> QED BY <1>1, <1>2, <1>3, <1>4

LEMMA CountStep ==
  ASSUME AnswerInv, JobInv, NEW w \in Workers, WorkerStep(w) \/ WorkerRaises(w)
  PROVE  Counts'
<1> DEFINE r == worker[w]
<1>1. /\ Loops /\ Apart /\ Exports /\ Counts /\ Looping(r) /\ IsThread(r) /\ taken \in Nat
      /\ submitted \in 0 .. Batches /\ failed \in BOOLEAN /\ job \in {"geth_traces", "token_transfers"}
  BY LastBatch DEF JobInv, Filters, Running, Loops, AnswerInv, ThreadInv
<1>2. ~Ended /\ UNCHANGED main
  BY ThreadsRun
<1>3. Ticked = counter /\ Ticked' = counter'
  BY <1>2 DEF Ticked, Ended
<1>4. /\ counter \in Nat /\ counter <= Cardinality(Counted) /\ (~failed => counter = Cardinality(Counted))
      /\ (counter = LastBlock /\ LastBlock > 0 => \E p \in reported : p.processed = LastBlock)
  BY <1>1, <1>3 DEF Counts
<1>5. ASSUME Counted' = Counted, UNCHANGED <<counter, reported>>, failed => failed' PROVE Counts'
  BY <1>3, <1>4, <1>5 DEF Counts
<1>6. CASE Take(w)
  <2>1. /\ Covered' = Covered \cup worker'[w].batch /\ worker'[w].batch \cap Covered = {}
        /\ worker'[w].pc = FirstStep
    BY <1>1, <1>6, Takes DEF Take
  <2>2. /\ Uncounted(worker[w]) = {} /\ Uncounted(worker'[w]) = worker'[w].batch
        /\ \A v \in Workers \ {w} : worker'[v] = worker[v]
    BY <1>6, <2>1 DEF Take, At, Set, Uncounted, Trying, FirstStep, AnswerInv
  <2>3. Counted' = Covered' \ UNION {Uncounted(worker'[v]) : v \in Workers}
    BY DEF Counted, Uncounted
  <2>4. Counted' = Counted
    BY <2>1, <2>2, <2>3 DEF Counted
  <2> QED BY <1>5, <1>6, <2>4 DEF Take, progress
<1>7. CASE Send(w) \/ Receive(w) \/ NewFilter(w) \/ GetLogs(w) \/ GetAllEntries(w) \/ ExportItem(w)
  <2>1. PICK q : /\ worker' = [worker EXCEPT ![w] = q] /\ q.batch = r.batch /\ q.pc \in Trying /\ r.pc \in Trying
    BY <1>7, TryingMoves
  <2>2. Uncounted(q) = Uncounted(r)
    BY <2>1 DEF Uncounted, Trying
  <2>3. UNCHANGED <<taken, failed, counter, reported>>
    BY <1>7 DEF Send, Receive, NewFilter, GetLogs, GetAllEntries, ExportItem, progress
  <2> QED BY <1>5, <2>1, <2>2, <2>3, CountedKept
<1>8. CASE Uninstall(w) \/ Return(w)
  <2>1. PICK q : /\ worker' = [worker EXCEPT ![w] = q] /\ q.batch = r.batch
                 /\ q.pc = FirstStep \/ (q.pc = "track" /\ q.ticks = Cardinality(q.batch))
    BY <1>8, ReturnedMoves DEF Uninstall, Return
  <2>2. r.pc = "export" /\ UNCHANGED <<taken, failed, counter, reported>>
    BY <1>8 DEF Uninstall, Return, At, progress
  <2>3. PICK lo, hi \in Covered : /\ lo <= hi /\ r.batch = lo .. hi /\ First(r.batch) = lo
                                  /\ Cardinality(r.batch) = hi - lo + 1
    BY <1>1, <2>2, BatchCounted
  <2>4. lo \in Int /\ hi \in Int /\ \A b \in r.batch : b < lo + (hi - lo + 1)
    BY <2>3 DEF Covered
  <2>5. Uncounted(r) = r.batch
    BY <2>2 DEF Uncounted, Trying
  <2>6. Uncounted(q) = r.batch
    <3>1. CASE q.pc = FirstStep
      BY <2>1, <3>1 DEF Uncounted, Trying, FirstStep
    <3>2. CASE q.pc = "track" /\ q.ticks = Cardinality(q.batch)
      BY <2>1, <2>3, <2>4, <3>2 DEF Uncounted, Trying
    <3> QED BY <2>1, <3>1, <3>2
  <2> QED BY <1>5, <2>1, <2>2, <2>5, <2>6, CountedKept
<1>9. CASE Track(w)
  <2>1. /\ IsFiniteSet(Counted') /\ Cardinality(Counted') = Cardinality(Counted) + 1
        /\ r.ticks > 1 => Counted' # Blocks
    BY <1>1, <1>9, OneMore
  <2>2. /\ counter' = counter + 1 /\ UNCHANGED <<taken, failed>>
        /\ ~(r.ticks > 1) => \E p \in reported' : p.processed = counter + 1
    <3>1. Tracked(w, counter + 1) /\ UNCHANGED <<taken, failed>>
      BY <1>9 DEF Track
    <3>2. counter' = counter + 1
      BY <3>1 DEF Tracked
    <3>3. ASSUME ~(r.ticks > 1) PROVE \E p \in reported' : p.processed = counter + 1
      <4>1. reported' = reported \cup {[before |-> (counter + 1) - Cardinality(worker[w].batch),
                                        processed |-> counter + 1]}
        BY <3>1, <3>3, Zenon DEF Tracked
      <4>2. \A before, n : [before |-> before, processed |-> n].processed = n
        OBVIOUS
      <4> QED BY <4>1, <4>2, Zenon
    <3> QED BY <3>1, <3>2, <3>3
  <2>3. Cardinality(Counted) \in Nat
    BY <1>1, CountedFinite
  <2>4. Cardinality(Counted') \in 0 .. LastBlock /\ (Cardinality(Counted') = LastBlock => Counted' = Blocks)
    <3>1. Covered' = Covered
      BY <2>2 DEF Covered
    <3>2. Counted' \subseteq Blocks
      BY <1>1, <3>1, CountedFinite DEF Counted
    <3>3. Cardinality(Counted') <= LastBlock /\ (Cardinality(Counted') = LastBlock => Counted' = Blocks)
      BY <1>1, <3>2, CountedFinite, FS_Subset
    <3> QED BY <2>1, <2>3, <3>3, JobsAssumption
  <2>5. ASSUME counter' = LastBlock PROVE ~(r.ticks > 1)
    BY <1>4, <2>1, <2>2, <2>3, <2>4, <2>5, JobsAssumption
  <2> HIDE DEF r
  <2> QED BY <1>3, <1>4, <2>1, <2>2, <2>3, <2>5 DEF Counts
<1>10. CASE WorkerRaises(w)
  <2>1. /\ Raised(w) \/ Fatal(w)
        /\ UNCHANGED <<taken, counter, reported>> /\ r.pc \in Trying
    BY <1>10 DEF WorkerRaises, SendRaises, Timeout, CallRaises, ItemRaises, At, Trying, progress
  <2>2. PICK q : /\ worker' = [worker EXCEPT ![w] = q]
                 /\ \/ q = Idle /\ q.pc = "idle" /\ failed' = TRUE
                    \/ q.pc = FirstStep /\ q.batch = worker[w].batch /\ failed' = failed
    BY <2>1, RaisedMoves
  <2>3. CASE q = Idle /\ failed' = TRUE
    <3>1. Uncounted(q) = {} /\ Covered' = Covered /\ \A v \in Workers \ {w} : worker'[v] = worker[v]
      BY <2>1, <2>2, <2>3 DEF Uncounted, Trying, Idle, Covered, AnswerInv
    <3>2. worker'[w] = q
      BY <2>2 DEF AnswerInv
    <3>3. Counted' = Covered' \ UNION {Uncounted(worker'[v]) : v \in Workers}
      BY DEF Counted, Uncounted
    <3>4. Counted \subseteq Counted'
      BY <3>1, <3>2, <3>3 DEF Counted
    <3>5. Counted' \subseteq Blocks
      BY <1>1, <3>1, <3>3, CountedFinite
    <3>6. IsFiniteSet(Counted') /\ Cardinality(Counted') \in Nat
      BY <1>1, <3>5, CountedFinite, FS_Subset, FS_CardinalityType
    <3>7. Cardinality(Counted) <= Cardinality(Counted') /\ Cardinality(Counted) \in Nat
      BY <1>1, <3>4, <3>6, CountedFinite, FS_Subset
    <3> QED BY <1>3, <1>4, <2>1, <2>3, <3>6, <3>7 DEF Counts
  <2>4. CASE q.pc = FirstStep /\ q.batch = r.batch /\ failed' = failed
    <3>1. Uncounted(q) = Uncounted(r)
      BY <2>1, <2>4 DEF Uncounted, Trying, FirstStep
    <3> QED BY <1>5, <2>1, <2>2, <2>4, <3>1, CountedKept
  <2> QED BY <2>2, <2>3, <2>4
<1> QED BY <1>6, <1>7, <1>8, <1>9, <1>10 DEF WorkerStep

LEMMA RunningStep ==
  ASSUME JobInv, NEW w \in Workers, WorkerStep(w) \/ WorkerRaises(w)
  PROVE  Running'
<1>1. Running /\ ~Ended /\ UNCHANGED <<main, exporter, submitted>>
  BY ThreadsRun DEF JobInv
<1>2. taken' \in 0 .. submitted
  <2>1. taken' = taken \/ (taken' = taken + 1 /\ taken < submitted)
    BY DEF WorkerStep, WorkerRaises, Take, Send, Receive, NewFilter, GetLogs, GetAllEntries, ExportItem,
           Uninstall, Return, Track, SendRaises, Timeout, CallRaises, ItemRaises
  <2> QED BY <1>1, <2>1, LastBatch DEF Running
<1>3. failed' \in BOOLEAN /\ (failed => failed')
  <2>1. failed' = failed \/ failed' = TRUE
    BY DEF WorkerStep, WorkerRaises, Take, Send, Receive, NewFilter, GetLogs, GetAllEntries, ExportItem,
           Uninstall, Return, Track, SendRaises, Timeout, CallRaises, ItemRaises, Raised, Fatal
  <2> QED BY <1>1, <2>1 DEF Running
<1>4. faults' \in 0 .. MaxFaults
  <2>1. faults' = faults \/ (faults < MaxFaults /\ faults' = faults + 1)
    BY DEF WorkerStep, WorkerRaises, Take, Send, Receive, NewFilter, GetLogs, GetAllEntries, ExportItem,
           Uninstall, Return, Track, SendRaises, Timeout, TimesOut, CallRaises, ItemRaises, Fault
  <2> QED BY <1>1, <2>1, JobsAssumption DEF Running
<1>5. ~Ended'
  BY <1>1 DEF Ended
<1> HIDE DEF Ended
<1> QED BY <1>1, <1>2, <1>3, <1>4, <1>5 DEF Running

LEMMA NodeStep ==
  ASSUME JobInv, NEW w \in Workers, Node(w)
  PROVE  Running' /\ Counts'
<1>1. /\ UNCHANGED <<main, exporter, submitted, taken, failed, worker, counter, reported>>
      /\ faults' = faults \/ (faults < MaxFaults /\ faults' = faults + 1)
  BY DEF Node, Answer, Disconnect, Fault, unchangedMain, mainVars, progress
<1>2. faults' \in 0 .. MaxFaults
  BY <1>1, JobsAssumption DEF JobInv, Running
<1>3. Running'
  BY <1>1, <1>2 DEF JobInv, Running, Ended
<1>4. Counted' = Counted /\ Ticked' = Ticked
  BY <1>1 DEF Counted, Covered, Uncounted, Ticked, Ended
<1>5. Counts'
  BY <1>1, <1>4 DEF JobInv, Counts
<1> QED BY <1>3, <1>5

(* The thread of run(): only the counter moves with it. *)
LEMMA MainKeeps ==
  ASSUME JobInv, MainStep \/ UNCHANGED vars
  PROVE  JobInv'
<1>1. UNCHANGED <<job, implements, taken, failed, worker, filters, supports, exported, reported>>
  BY DEF MainStep, Start, Submit, Join, Close, vars, net, mainVars, progress
<1>2. (Loops /\ Apart /\ Exports)'
  BY <1>1 DEF JobInv, Loops, Apart, Exports, Looping, Stages, WholeBatch, OneByOne, Covered, Bound, Tried, Ahead
<1>3. faults' \in faults .. MaxFaults /\ faults \in 0 .. MaxFaults
  <2>1. faults' = faults \/ (faults < MaxFaults /\ faults' = faults + 1)
    BY DEF MainStep, Start, Submit, Join, Close, Fault, vars
  <2> QED BY <2>1, JobsAssumption DEF JobInv, Running
<1>4. Filters'
  <2>1. Holding' = Holding /\ \A w \in Workers : HoldsRightly(worker[w])'
    BY <1>1 DEF JobInv, Filters, Holding, HoldsRightly
  <2>2. Cardinality(Holding) \in Nat
    BY FS_Subset, FS_CardinalityType, JobsAssumption DEF Holding
  <2>3. /\ filters \in Nat /\ Cardinality(Holding) <= filters
        /\ implements # BOOLEAN => filters <= faults' + Cardinality(Holding)
    BY <1>3, <2>2, JobsAssumption DEF JobInv, Filters
  <2> QED BY <1>1, <2>1, <2>3 DEF JobInv, Filters
<1>5. Running /\ Counts /\ taken \in Int /\ submitted \in Int
  BY LastBatch DEF JobInv, Running
<1>6. Running'
  <2>1. CASE Start
    BY <1>1, <1>3, <1>5, <2>1, JobsAssumption DEF Start, Running, Ended, mainVars
  <2>2. CASE Submit
    <3>1. submitted' \in 0 .. Batches /\ taken \in 0 .. submitted'
      BY <1>5, <2>2, LastBatch DEF Submit, Running
    <3> QED BY <1>1, <1>3, <1>5, <2>2, <3>1, JobsAssumption DEF Submit, Running, Ended
  <2>3. CASE Join
    BY <1>1, <1>3, <1>5, <2>3, JobsAssumption DEF Join, Running, Ended, At
  <2>4. CASE Close
    BY <1>1, <1>3, <1>5, <2>4, JobsAssumption DEF Close, Running, Ended
  <2>5. CASE UNCHANGED vars
    BY <1>1, <1>3, <1>5, <2>5 DEF vars, mainVars, Running, Ended
  <2> QED BY <2>1, <2>2, <2>3, <2>4, <2>5 DEF MainStep
<1>7. Counts'
  <2>1. Ticked' = Ticked /\ counter' \in Nat
    <3>1. CASE Join
      BY <1>5, <3>1 DEF Join, Ticked, Ended, Counts
    <3>2. CASE Start \/ Submit \/ Close \/ UNCHANGED vars
      BY <1>5, <3>2 DEF Start, Submit, Close, Ticked, Ended, Counts, progress, vars, mainVars
    <3> QED BY <3>1, <3>2 DEF MainStep
  <2>2. Counted' = Counted
    BY <1>1 DEF Counted, Covered, Uncounted
  <2> QED BY <1>1, <1>5, <2>1, <2>2 DEF Counts
<1> QED BY <1>2, <1>4, <1>6, <1>7 DEF JobInv

LEMMA StartsRight == Init => JobInv
<1> SUFFICES ASSUME Init PROVE JobInv
  OBVIOUS
<1>1. \A w \in Workers : worker[w] = Idle
  BY DEF Init
<1>2. /\ Idle.pc = "idle" /\ Idle.batch = {} /\ Idle.filter = FALSE /\ taken = 0 /\ main = "start"
      /\ Uncounted(Idle) = {} /\ counter = 0 /\ exported = [b \in Blocks |-> 0]
  BY DEF Init, Idle, Uncounted, Trying
<1>3. Loops
  BY <1>1, IdleLoops DEF Loops
<1>4. Apart
  BY <1>1, <1>2 DEF Apart
<1>5. Covered = {}
  <2>1. Top(0) = 0
    BY JobsAssumption DEF Top, Smaller
  <2> QED BY <1>2, <2>1 DEF Covered
<1>6. Exports
  BY <1>1, <1>2, <1>5 DEF Exports
<1>7. Running
  <2>1. submitted \in 0 .. Batches /\ taken \in 0 .. submitted /\ faults \in 0 .. MaxFaults
    BY LastBatch, JobsAssumption DEF Init
  <2>2. main = "start" /\ exporter = "new" /\ failed \in BOOLEAN
    BY DEF Init
  <2> QED BY <2>1, <2>2 DEF Running, Ended
<1>8. Counts
  <2>1. Counted = {} /\ Ticked = 0
    BY <1>2, <1>5 DEF Counted, Ticked, Ended
  <2> QED BY <1>2, <2>1, FS_EmptySet, JobsAssumption DEF Counts
<1>9. Filters
  <2>1. Holding = {} /\ \A w \in Workers : HoldsRightly(worker[w])
    BY <1>1, <1>2 DEF Holding, HoldsRightly
  <2>2. filters = 0 /\ faults = 0 /\ Cardinality(Holding) = 0
    BY <2>1, FS_EmptySet DEF Init
  <2>3. /\ supports = TRUE /\ implements \in (SUBSET BOOLEAN) \ {{}}
        /\ job \in {"geth_traces", "token_transfers"} /\ (job = "geth_traces" => implements = {TRUE})
    BY DEF Init
  <2>4. filters \in Nat /\ Cardinality(Holding) <= filters /\ filters <= faults + Cardinality(Holding)
    BY <2>2
  <2>5. supports \in BOOLEAN /\ (~supports => FALSE \in implements)
    BY <2>3
  <2> QED BY <2>1, <2>3, <2>4, <2>5 DEF Filters
<1> QED BY <1>3, <1>4, <1>6, <1>7, <1>8, <1>9 DEF JobInv

LEMMA JobNext ==
  ASSUME AnswerInv, JobInv, [Next]_vars
  PROVE  AnswerInv' /\ JobInv'
<1>1. AnswerInv'
  BY AnswerNext
<1>2. CASE MainStep \/ UNCHANGED vars
  BY <1>1, <1>2, MainKeeps
<1>3. ASSUME NEW w \in Workers, WorkerStep(w) \/ WorkerRaises(w) \/ Node(w) PROVE JobInv'
  <2>1. (Loops /\ Apart /\ Exports)' /\ Filters'
    BY <1>3, PlaceStep, FilterStep
  <2>2. Running' /\ Counts'
    BY <1>3, RunningStep, CountStep, NodeStep
  <2> QED BY <2>1, <2>2 DEF JobInv
<1> QED BY <1>1, <1>2, <1>3 DEF Next

(* However often a batch is tried, by itself and block by block, a block is  *)
(* exported twice at most by the traces job, and once more for each retry by *)
(* the transfers job; and a filter on the node is that of a batch in         *)
(* progress, or was left there by a call that failed.                        *)
THEOREM RetriesBoundedTheorem == Spec => []RetriesBounded
<1>1. AnswerInv /\ JobInv => RetriesBounded
  <2> SUFFICES ASSUME AnswerInv, JobInv PROVE ExportsBounded /\ FiltersAccounted
    BY DEF RetriesBounded
  <2>1. FiltersAccounted
    BY DEF JobInv, Filters, FiltersAccounted, Holding
  <2>2. ASSUME NEW b \in Blocks PROVE exported[b] <= Bound
    <3>1. exported[b] \in Nat /\ Bound \in Nat /\ Bound >= 2
      BY JobsAssumption DEF JobInv, Exports, Bound
    <3>2. ASSUME NEW w \in Workers, b \in worker[w].batch PROVE exported[b] <= Bound
      <4>1. Tried(worker[w], b, exported[b]) /\ worker[w].tries \in 0 .. MaxRetries
        BY <3>2 DEF JobInv, Exports, Loops, Looping
      <4> QED BY <3>1, <4>1, JobsAssumption DEF Tried
    <3>3. ASSUME \A w \in Workers : b \notin worker[w].batch PROVE exported[b] <= Bound
      <4>1. IF b \in Covered THEN exported[b] <= Bound /\ (failed \/ exported[b] > 0) ELSE exported[b] = 0
        BY <3>3 DEF JobInv, Exports
      <4> QED BY <3>1, <4>1
    <3> QED BY <3>2, <3>3
  <2> QED BY <2>1, <2>2 DEF ExportsBounded, Bound
<1> QED BY <1>1, StartsRight, AnswerStarts, JobNext, PTL DEF Spec

(* The job that ends without an error has exported every block of its range, *)
(* has counted each of them once, whatever the turns the threads take, and   *)
(* has reported the last; and an exporter that is closed holds them all.     *)
THEOREM EndedIsCompleteTheorem == Spec => []EndedIsComplete
<1>1. AnswerInv /\ JobInv => EndedIsComplete
  <2> SUFFICES ASSUME AnswerInv, JobInv PROVE EndedIsComplete
    OBVIOUS
  <2>1. /\ Loops /\ Exports /\ Running /\ Counts /\ Filters /\ taken \in 0 .. submitted
        /\ submitted \in 0 .. Batches /\ Batches \in Nat
    BY LastBatch DEF JobInv, Running
  <2>2. ASSUME Ended, exporter # "unopened"
        PROVE  /\ ~failed /\ Covered = Blocks /\ Counted = Blocks /\ \A w \in Workers : worker[w].batch = {}
    <3>1. /\ ~failed /\ taken = Batches /\ \A w \in Workers : worker[w].pc = "idle"
      BY <2>1, <2>2 DEF Running
    <3>2. \A w \in Workers : worker[w].batch = {} /\ Uncounted(worker[w]) = {}
      BY <2>1, <3>1 DEF Loops, Looping, Idle, Uncounted, Trying
    <3>3. Covered = Blocks
      BY <3>1, AllTaken DEF Covered, Blocks
    <3> QED BY <3>1, <3>2, <3>3 DEF Counted
  <2>3. ClosedIsComplete
    <3>1. exporter = "closed" => Ended
      BY <2>1 DEF Running, Ended
    <3>2. ASSUME exporter = "closed", NEW b \in Blocks PROVE exported[b] > 0
      BY <2>1, <2>2, <3>1, <3>2 DEF Exports
    <3> QED BY <3>2 DEF ClosedIsComplete
  <2>4. HundredReported
    <3>1. ASSUME main \in {"close", "ended"}, exporter \in {"open", "closed"}
          PROVE  counter - 1 = LastBlock /\ (LastBlock > 0 => \E r \in reported : r.processed = LastBlock)
      <4>1. Ended /\ ~failed /\ Counted = Blocks
        BY <2>2, <3>1 DEF Ended
      <4>2. Cardinality(Counted) = LastBlock
        BY <2>1, <4>1, CountedFinite
      <4> QED BY <2>1, <4>1, <4>2 DEF Counts, Ticked
    <3> QED BY <3>1 DEF HundredReported
  <2>5. TypeOK
    <3>1. ASSUME NEW w \in Workers
          PROVE  /\ worker[w].pc \in {"idle", "send", "receive", "filter", "entries", "export", "track"}
                 /\ worker[w].attempt \cup worker[w].rest \subseteq worker[w].batch
                 /\ worker[w].tries \in 0 .. MaxRetries /\ worker[w].ticks \in 0 .. BatchSize
                 /\ Len(sock[w].incoming) <= 2
      <4> DEFINE r == worker[w]
      <4>1. Looping(r)
        BY <2>1 DEF Loops
      <4>2. /\ r.pc \in {"idle", "send", "receive", "filter", "entries", "export", "track"}
            /\ r.tries \in 0 .. MaxRetries
        BY <4>1 DEF Looping, Stages
      <4>3. Len(sock[w].incoming) <= 2
        <5>1. Exchanged(r, sock[w])
          BY DEF AnswerInv, ThreadInv
        <5>2. /\ Len(<<>>) <= 2 /\ Len(<<Part(r.attempt, 2)>>) <= 2
              /\ Len(<<Part(r.attempt, 1), Part(r.attempt, 2)>>) <= 2
          OBVIOUS
        <5>3. \/ sock[w].incoming = <<>> \/ sock[w].incoming = <<Part(r.attempt, 2)>>
              \/ sock[w].incoming = <<Part(r.attempt, 1), Part(r.attempt, 2)>>
          BY <5>1 DEF Exchanged, Quiet, Asked, Answered, HalfRead
        <5> HIDE DEF r
        <5> QED BY <5>2, <5>3
      <4>4. CASE r.pc = "idle"
        <5>1. r.attempt = {} /\ r.rest = {} /\ r.ticks = 0
          BY <4>1, <4>4 DEF Looping, Idle
        <5> QED BY <4>2, <4>3, <5>1, JobsAssumption
      <4>5. CASE r.pc = "track"
        <5>1. /\ r.attempt = {} /\ r.rest = {} /\ r.ticks \in 1 .. Cardinality(r.batch)
              /\ Cardinality(r.batch) \in 1 .. BatchSize
          BY <4>1, <4>5, BatchCounted DEF Looping
        <5> QED BY <4>2, <4>3, <5>1, JobsAssumption
      <4>6. CASE r.pc \in Trying
        <5>1. r.ticks = 0 /\ r.attempt \cup r.rest \subseteq r.batch
          <6>1. r.ticks = 0 /\ r.tries \in Nat
            BY <4>1, <4>6, JobsAssumption DEF Looping
          <6>2. CASE r.tries = 0
            BY <4>1, <4>6, <6>1, <6>2, LeftOver
          <6>3. CASE r.tries > 0
            BY <4>1, <4>6, <6>1, <6>3, LeftOver
          <6> QED BY <6>1, <6>2, <6>3
        <5> QED BY <4>2, <4>3, <5>1, JobsAssumption
      <4> QED BY <4>2, <4>4, <4>5, <4>6 DEF Trying
    <3>2. counter \in 0 .. LastBlock + 1
      <4>1. Ticked \in 0 .. LastBlock /\ counter \in Nat
        BY <2>1, CountedFinite, JobsAssumption DEF Counts
      <4> QED BY <4>1, JobsAssumption DEF Ticked
    <3>3. exporter \in {"new", "unopened", "open", "closed"}
      BY <2>1 DEF Running
    <3> QED BY <2>1, <3>1, <3>2, <3>3 DEF TypeOK, Running, Filters
  <2> QED BY <2>3, <2>4, <2>5 DEF EndedIsComplete
<1> QED BY <1>1, StartsRight, AnswerStarts, JobNext, PTL DEF Spec
===============================================================================
