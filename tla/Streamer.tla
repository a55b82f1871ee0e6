------------------------------ MODULE Streamer ------------------------------
(***************************************************************************)
(* The `ethereumetl stream' process: the Streamer object of                *)
(* blockchainetl/streaming/streamer.py, its checkpoint file, its pid file, *)
(* the node it asks for the head of the chain and the sink it exports to.  *)
(*                                                                         *)
(* The process may be terminated (SIGTERM raises SystemExit in the main    *)
(* thread, so each `finally' on the way out runs) or killed between any two *)
(* steps, and is then launched again.  The checkpoint is written with open(file, 'w') followed *)
(* by write/close: the file is empty in between, which is a state of its   *)
(* own here.  Until `stable' is set the node, the sink and the disk may    *)
(* fail and the node may answer with an old head.                          *)
(*                                                                         *)
(* A definition X_Y, before X, is a faulty variant of X: each property is   *)
(* checked to tell one such variant from the code.                         *)
(***************************************************************************)
EXTENDS Integers

CONSTANTS StartBlock,      (* value of --start-block when it is given *)
          Lag,             (* --lag *)
          BlockBatchSize,  (* --block-batch-size *)
          EndBlock,        (* end_block, or NoEndBlock for None *)
          NoEndBlock,
          RetryErrors,     (* retry_errors *)
          MaxHead,         (* bound: the chain stops growing here *)
          Missing,         (* the checkpoint file does not exist *)
          Torn             (* the checkpoint file exists and is empty *)

ASSUME ParametersAssumption ==
  /\ StartBlock \in Nat
  /\ Lag \in Nat
  /\ BlockBatchSize \in Nat \ {0}
  /\ EndBlock \in Int \cup {NoEndBlock}
  /\ RetryErrors \in BOOLEAN
  /\ MaxHead \in Nat
ASSUME SentinelAssumption ==
  /\ NoEndBlock \notin Int
  /\ Missing \notin Int
  /\ Torn \notin Int
  /\ Missing # Torn

VARIABLES
  pc,         (* where the process is; "down" and "dead" when there is none *)
  last,       (* self.last_synced_block *)
  target,     (* target_block of the current cycle *)
  file,       (* last_synced_block.txt *)
  pidFile,    (* does the pid file exist *)
  head,       (* number of the newest block of the chain *)
  stable,     (* nothing fails any more *)
  delivered,  (* numbers of the blocks whose items reached the sink *)
  signal,     (* history: "none", or what became of the last SIGTERM of    *)
              (* this process: its SystemExit is "raised" or "replaced"    *)
  origin,     (* history: first block of the stream *)
  saved       (* history: last number the checkpoint file held *)

procVars == <<pc, last, target, signal>>
diskVars == <<file, saved, origin, pidFile>>
envVars  == <<head, stable, delivered>>
vars == <<procVars, diskVars, envVars>>

(* _do_stream, the constructor, the first statements of stream() and its finally *)
Streaming == {"loop", "cycle", "export", "save", "write", "sleep"}
Constructing == {"init_write", "read"}
Starting == {"start", "open"}
Finally == {"close", "delete"}
Stopped == {"down", "dead"}

Init == /\ pc = "down" /\ last = -1 /\ target = -1 /\ signal = "none"
        /\ file = Missing /\ saved = Missing /\ origin = Missing
        /\ pidFile = FALSE
        /\ head = 0 /\ stable = FALSE /\ delivered = {}

-----------------------------------------------------------------------------
(* _calculate_target_block *)
Smaller(a, b) == IF a <= b THEN a ELSE b

TargetBlock_NoBatch(current, synced) == current - Lag
TargetBlock_OneShort(current, synced) ==
  Smaller(current - Lag - 1, synced + BlockBatchSize)

TargetBlock(current, synced) ==
  LET batch == Smaller(current - Lag, synced + BlockBatchSize)
  IN  IF EndBlock = NoEndBlock THEN batch ELSE Smaller(batch, EndBlock)

(* The while condition of _do_stream. *)
Unfinished == EndBlock = NoEndBlock \/ last < EndBlock

-----------------------------------------------------------------------------
(* __init__ *)

(* The constructor refuses an existing file when --start-block is given, and *)
(* otherwise creates a missing one: open(file, 'w') leaves it empty.         *)
Launch(withStart) ==
  /\ pc \in Stopped
  /\ signal' = "none"
  /\ IF withStart \/ file = Missing
     THEN IF file # Missing
          THEN pc' = "dead" /\ UNCHANGED <<last, file>>
          ELSE /\ pc' = "init_write"
               /\ last' = (IF withStart THEN StartBlock ELSE 0) - 1
               /\ file' = Torn
     ELSE pc' = "read" /\ UNCHANGED <<last, file>>
  /\ UNCHANGED <<target, saved, origin, pidFile, envVars>>

InitWrite ==
  /\ pc = "init_write"
  /\ file' = last /\ saved' = last /\ origin' = last + 1
  /\ pc' = "read"
  /\ UNCHANGED <<last, target, signal, pidFile, envVars>>

(* read_last_synced_block: int('') raises ValueError out of the constructor. *)
ReadCheckpoint ==
  /\ pc = "read"
  /\ IF file = Torn
     THEN pc' = "dead" /\ UNCHANGED last
     ELSE pc' = "start" /\ last' = file
  /\ UNCHANGED <<target, signal, diskVars, envVars>>

-----------------------------------------------------------------------------
(* stream() *)

WritePidFile == /\ pc = "start"
                /\ pidFile' = TRUE
                /\ pc' = "open"
                /\ UNCHANGED <<last, target, signal, file, saved, origin, envVars>>

Open == /\ pc = "open"
        /\ pc' = "loop"
        /\ UNCHANGED <<last, target, signal, diskVars, envVars>>

CheckLoop == /\ pc = "loop"
             /\ pc' = IF Unfinished THEN "cycle" ELSE "close"
             /\ UNCHANGED <<last, target, signal, diskVars, envVars>>

Sleep == /\ pc = "sleep"
         /\ pc' = "loop"
         /\ UNCHANGED <<last, target, signal, diskVars, envVars>>

(* The finally of stream(): adapter.close(), then the pid file goes. *)
Close == /\ pc = "close"
         /\ pc' = "delete"
         /\ UNCHANGED <<last, target, signal, diskVars, envVars>>

(* delete_file swallows an OSError. *)
DeletePidFile == /\ pc = "delete"
                 /\ pidFile' \in (IF stable THEN {FALSE} ELSE {FALSE, pidFile})
                 /\ pc' = "down"
                 /\ UNCHANGED <<last, target, signal, file, saved, origin, envVars>>

-----------------------------------------------------------------------------
(* _sync_cycle *)

(* get_current_block_number; the node may be behind the chain's head. *)
GetTarget(current) ==
  /\ pc = "cycle"
  /\ stable => current = head
  /\ target' = TargetBlock(current, last)
  /\ pc' = IF target' > last THEN "export" ELSE "sleep"
  /\ UNCHANGED <<last, signal, diskVars, envVars>>

(* In the middle of export_all the items of some leading blocks are sent. *)
ExportSome(n) ==
  /\ pc = "export"
  /\ n \in last .. target
  /\ delivered' = delivered \cup (last + 1 .. n)
  /\ UNCHANGED <<procVars, diskVars, head, stable>>

ExportAll ==
  /\ pc = "export"
  /\ delivered' = delivered \cup (last + 1 .. target)
  /\ pc' = "save"
  /\ UNCHANGED <<last, target, signal, diskVars, head, stable>>

(* write_last_synced_block: open truncates, the number arrives at close. *)
TruncateCheckpoint ==
  /\ pc = "save"
  /\ file' = Torn
  /\ pc' = "write"
  /\ UNCHANGED <<last, target, signal, saved, origin, pidFile, envVars>>

WriteCheckpoint ==
  /\ pc = "write"
  /\ file' = target /\ saved' = target
  /\ last' = target
  /\ pc' = "loop"
  /\ UNCHANGED <<target, signal, origin, pidFile, envVars>>

-----------------------------------------------------------------------------
(* Failures.  A handler raises an Exception: it is logged and retried after *)
(* the sleep, or re-raised.                                                 *)
AfterException == IF RetryErrors THEN "sleep" ELSE "close"

CycleRaises ==
  /\ ~stable
  /\ pc \in {"cycle", "save", "write"}
  /\ pc' = AfterException
  /\ UNCHANGED <<last, target, signal, diskVars, envVars>>

ExportRaises_Swallowed ==
  /\ ~stable
  /\ pc = "export"
  /\ pc' = "save"
  /\ UNCHANGED <<last, target, signal, diskVars, envVars>>

ExportRaises ==
  /\ ~stable
  /\ pc = "export"
  /\ pc' = AfterException
  /\ UNCHANGED <<last, target, signal, diskVars, envVars>>

(* Writing the pid file or adapter.open() raises inside the try. *)
StartRaises ==
  /\ ~stable
  /\ pc \in Starting
  /\ pidFile' \in (IF pc = "start" THEN {pidFile, TRUE} ELSE {pidFile})
  /\ pc' = "close"
  /\ UNCHANGED <<last, target, signal, file, saved, origin, envVars>>

(* adapter.close() raises out of the finally: the pid file stays. *)
CloseRaises ==
  /\ ~stable
  /\ pc = "close"
  /\ pc' = "dead"
  /\ UNCHANGED <<last, target, signal, diskVars, envVars>>

Terminate_Retried ==
  /\ ~stable
  /\ \/ pc \in Streaming \cup Starting /\ pc' = AfterException
     \/ pc \in Constructing \cup {"start"} \cup Finally /\ pc' = "dead"
  /\ signal' = "raised"
  /\ UNCHANGED <<last, target, diskVars, envVars>>

(* SIGTERM: SystemExit is not an Exception, so _do_stream does not catch it.  *)
(* Before the try and in the finally it ends the process.  In smart_open the   *)
(* file is closed on the way, with or without the number (WriteCheckpoint).    *)
Terminate ==
  /\ ~stable
  /\ \/ pc \in Streaming \cup Starting /\ pc' = "close"
     \/ pc \in Constructing \cup {"start"} \cup Finally /\ pc' = "dead"
  /\ signal' = "raised"
  /\ UNCHANGED <<last, target, diskVars, envVars>>

(* A finally that the SystemExit passes raises an Exception in its place: the  *)
(* _end of a job whose shutdown finds a failed batch, or the close of the file. *)
SignalReplaced ==
  /\ ~stable
  /\ pc \in {"export", "write"}
  /\ pc' = AfterException
  /\ signal' = "replaced"
  /\ UNCHANGED <<last, target, diskVars, envVars>>

(* SIGKILL or a crash of the host: no finally. *)
Kill ==
  /\ ~stable
  /\ pc \notin Stopped
  /\ pc' = "dead"
  /\ UNCHANGED <<last, target, signal, diskVars, envVars>>

-----------------------------------------------------------------------------
(* The chain and the end of the faulty period. *)
Grow == /\ head < MaxHead
        /\ head' = head + 1
        /\ UNCHANGED <<procVars, diskVars, stable, delivered>>

Stabilise == /\ ~stable
             /\ stable' = TRUE
             /\ UNCHANGED <<procVars, diskVars, head, delivered>>

-----------------------------------------------------------------------------
Step == \/ InitWrite \/ ReadCheckpoint \/ WritePidFile \/ Open \/ CheckLoop \/ Sleep
        \/ \E current \in 0 .. head : GetTarget(current)
        \/ \E n \in last .. target : ExportSome(n)
        \/ ExportAll \/ TruncateCheckpoint \/ WriteCheckpoint \/ Close \/ DeletePidFile

Fault == \/ CycleRaises \/ ExportRaises \/ StartRaises \/ CloseRaises
         \/ Terminate \/ SignalReplaced \/ Kill

Next == \/ \E withStart \in BOOLEAN : Launch(withStart)
        \/ Step \/ Fault \/ Grow \/ Stabilise

Spec == Init /\ [][Next]_vars

(* The process runs, it is relaunched without --start-block after it stops  *)
(* (a supervisor or the operator), and faults end eventually.               *)
LiveSpec == Spec /\ WF_vars(Step) /\ WF_vars(Launch(FALSE)) /\ WF_vars(Stabilise)

-----------------------------------------------------------------------------
TypeOK ==
  /\ pc \in Stopped \cup Constructing \cup Starting \cup Streaming \cup Finally
  /\ signal \in {"none", "raised", "replaced"}
  /\ last \in Int /\ target \in Int
  /\ file \in Int \cup {Missing, Torn}
  /\ saved \in Int \cup {Missing}
  /\ origin \in Nat \cup {Missing}
  /\ head \in Nat
  /\ pidFile \in BOOLEAN /\ stable \in BOOLEAN
  /\ delivered \in SUBSET Nat

(* Whatever crashed, failed or was retried before, every block from the      *)
(* first one of the stream up to the number in the checkpoint file has       *)
(* reached the sink: a restart never skips a block.                          *)
NoGap == /\ file \in Int => file = saved
         /\ saved # Missing => origin .. saved \subseteq delivered

(* A restart repeats at most one batch: no block beyond the last durable     *)
(* checkpoint plus BlockBatchSize has been sent.                             *)
BoundedReplay ==
  saved # Missing => delivered \subseteq origin .. saved + BlockBatchSize

(* No block closer than Lag to the head of the chain is ever exported, even  *)
(* when the node answers with an old head (docs: "lag behind the network").  *)
LagRespected == \A b \in delivered : b <= head - Lag

(* Nothing beyond end_block is exported. *)
EndRespected == EndBlock # NoEndBlock => \A b \in delivered : b <= EndBlock

(* What the sink has seen keeps to the user's bounds after any crash, retry   *)
(* or old answer: one batch to repeat, the lag, and the end block.            *)
BoundsRespected == TypeOK /\ BoundedReplay /\ LagRespected /\ EndRespected

(* configure_signals: wherever in a cycle SIGTERM arrives, the retry loop does *)
(* not keep its SystemExit: from then on nothing is exported and the checkpoint *)
(* stays as it is, and unless the finally fails too, the pid file is gone when  *)
(* the process is.                                                             *)
SignalObeyed ==
  [][signal = "raised" /\ signal' = "raised"
       => /\ UNCHANGED <<delivered, file, saved>>
          /\ (stable /\ pc \notin Stopped /\ pc' \in Stopped) => ~pidFile']_vars

(* streaming_utils.py:10: the handler of SIGTERM "Raises SystemExit(0)".  A      *)
(* process that was sent SIGTERM exports nothing more.                         *)
SigtermStops ==
  [][signal # "none" /\ signal' # "none" => UNCHANGED <<delivered, saved>>]_vars

(* The checkpoint never moves back, even when the node's answer does. *)
CheckpointAdvances == [][saved # Missing => saved' >= saved]_vars

(* Every block the lag and the end block allow is eventually exported, unless *)
(* a process that starts up finds the checkpoint file empty.                  *)
Due(b) == /\ origin # Missing /\ origin <= b /\ b <= head - Lag
          /\ EndBlock = NoEndBlock \/ b <= EndBlock

EventuallyDelivered ==
  \A b \in 0 .. MaxHead :
    Due(b) ~> (b \in delivered \/ (pc = "dead" /\ file = Torn))

(* docs/commands.md:222: "The command saves its state to last_synced_block.txt *)
(* file where the last synced block number is saved periodically."  When the   *)
(* process is gone, the file of a stream that has begun holds that number.     *)
CheckpointSurvives == pc \in Stopped /\ saved # Missing => file \in Int

Stream == INSTANCE BlockStream
            WITH Window <- BlockBatchSize, Unset <- Missing, mark <- saved

(* The process is a resumable at-least-once block stream. *)
ImplementsStream == Stream!StreamSpec
==============================================================================
