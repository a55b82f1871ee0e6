--------------------------- MODULE StreamerProofs ---------------------------
(***************************************************************************)
(* Proofs about Streamer, for every choice of its constants: the inductive  *)
(* invariant, the safety properties it implies, the monotone checkpoint and *)
(* the refinement of BlockStream.                                           *)
(***************************************************************************)
EXTENDS Streamer, TLAPS

(* The checkpoint file, the number it last held and the first block.  Before *)
(* the first number is written nothing has been sent, and no process gets    *)
(* past the constructor.                                                     *)
DiskInv ==
  /\ file \in Int => saved = file
  /\ file = Missing => saved = Missing
  /\ saved = Missing <=> origin = Missing
  /\ saved = Missing => /\ delivered = {}
                        /\ pc \in Stopped \cup {"init_write", "read"}
                        /\ pc = "read" => file = Torn
  /\ saved # Missing => saved >= origin - 1
  /\ pc = "init_write" => saved = Missing /\ last >= -1
  /\ pc = "read" => file # Missing

(* What the process holds in memory agrees with the disk. *)
ProcInv ==
  /\ pc \in Streaming \cup Starting => saved # Missing /\ last = saved
  /\ pc \in {"export", "save", "write"} =>
       /\ last < target
       /\ target <= last + BlockBatchSize
       /\ target <= head - Lag
       /\ EndBlock # NoEndBlock => target <= EndBlock
  /\ pc \in {"save", "write"} => last + 1 .. target \subseteq delivered

IInv == /\ TypeOK /\ DiskInv /\ ProcInv
        /\ NoGap /\ BoundedReplay /\ LagRespected /\ EndRespected

(* TargetBlock: the three bounds of _calculate_target_block hold of its result. *)
LEMMA TargetBounds ==
  ASSUME NEW current \in Int, NEW synced \in Int
  PROVE  /\ TargetBlock(current, synced) \in Int
         /\ TargetBlock(current, synced) <= current - Lag
         /\ TargetBlock(current, synced) <= synced + BlockBatchSize
         /\ EndBlock # NoEndBlock => TargetBlock(current, synced) <= EndBlock
BY ParametersAssumption DEF TargetBlock, Smaller

LEMMA InitIInv == Init => IInv
<1> SUFFICES ASSUME Init PROVE IInv
  OBVIOUS
<1>1. TypeOK
  <2>1. pidFile \in BOOLEAN /\ stable \in BOOLEAN
    BY Zenon DEF Init
  <2> QED BY <2>1 DEF Init, TypeOK, Stopped
<1>2. DiskInv
  BY SentinelAssumption DEF Init, DiskInv, Stopped
<1>3. ProcInv
  BY DEF Init, ProcInv, Streaming, Starting
<1>4. NoGap /\ BoundedReplay /\ LagRespected /\ EndRespected
  BY SentinelAssumption
  DEF Init, NoGap, BoundedReplay, LagRespected, EndRespected
<1> QED BY <1>1, <1>2, <1>3, <1>4 DEF IInv

LEMMA NextIInv == IInv /\ [Next]_vars => IInv'
<1> SUFFICES ASSUME IInv, [Next]_vars PROVE IInv'
  OBVIOUS
<1> USE ParametersAssumption, SentinelAssumption
    DEF IInv, TypeOK, DiskInv, ProcInv, NoGap, BoundedReplay, LagRespected,
        EndRespected, Stopped, Constructing, Starting, Finally, Streaming,
        procVars, diskVars, envVars
<1>1. ASSUME NEW withStart \in BOOLEAN, Launch(withStart) PROVE IInv'
  BY <1>1 DEF Launch
<1>2. CASE InitWrite
  BY <1>2 DEF InitWrite
<1>3. CASE ReadCheckpoint
  BY <1>3 DEF ReadCheckpoint
<1>4. CASE WritePidFile \/ Open
  BY <1>4 DEF WritePidFile, Open
<1>5. CASE CheckLoop
  BY <1>5 DEF CheckLoop
<1>6. CASE Sleep
  BY <1>6 DEF Sleep
<1>7. CASE Close \/ DeletePidFile
  BY <1>7 DEF Close, DeletePidFile
<1>8. ASSUME NEW current \in 0 .. head, GetTarget(current) PROVE IInv'
  <2>1. target' \in Int /\ target' <= head - Lag
        /\ target' <= last + BlockBatchSize
        /\ (EndBlock # NoEndBlock => target' <= EndBlock)
    <3>1. current \in Int /\ current <= head
      BY <1>8
    <3>2. target' = TargetBlock(current, last)
      BY <1>8 DEF GetTarget
    <3>3. /\ TargetBlock(current, last) \in Int
          /\ TargetBlock(current, last) <= current - Lag
          /\ TargetBlock(current, last) <= last + BlockBatchSize
          /\ EndBlock # NoEndBlock => TargetBlock(current, last) <= EndBlock
      BY <3>1, TargetBounds
    <3> QED BY <3>1, <3>2, <3>3
  <2> QED BY <1>8, <2>1 DEF GetTarget
<1>9. CASE ExportAll
  BY <1>9 DEF ExportAll
<1>10. CASE TruncateCheckpoint
  BY <1>10 DEF TruncateCheckpoint
<1>11. CASE WriteCheckpoint
  BY <1>11 DEF WriteCheckpoint
<1>12. CASE CycleRaises
  BY <1>12 DEF CycleRaises, AfterException
<1>13. CASE StartRaises \/ CloseRaises
  BY <1>13 DEF StartRaises, CloseRaises
<1>14. CASE Terminate \/ SignalReplaced
  BY <1>14 DEF Terminate, SignalReplaced, AfterException
<1>15. CASE Kill
  BY <1>15 DEF Kill
<1>16. ASSUME NEW n \in last .. target, ExportSome(n) PROVE IInv'
  BY <1>16 DEF ExportSome
<1>17. CASE ExportRaises
  BY <1>17 DEF ExportRaises, AfterException
<1>18. CASE Grow
  BY <1>18 DEF Grow
<1>19. CASE Stabilise
  BY <1>19 DEF Stabilise
<1>20. CASE UNCHANGED vars
  BY <1>20 DEF vars
<1> QED
  BY <1>1, <1>2, <1>3, <1>4, <1>5, <1>6, <1>7, <1>8, <1>9, <1>10, <1>11, <1>12,
     <1>13, <1>14, <1>15, <1>16, <1>17, <1>18, <1>19, <1>20 DEF Next, Step, Fault

(* The strengthened invariant holds throughout. *)
THEOREM Invariant == Spec => []IInv
BY InitIInv, NextIInv, PTL DEF Spec

(* The variables of the streaming process keep their types. *)
THEOREM TypeCorrect == Spec => []TypeOK
BY Invariant, PTL DEF IInv

(* A restart never skips a block: all blocks up to the checkpoint were sent. *)
THEOREM NoGapTheorem == Spec => []NoGap
BY Invariant, PTL DEF IInv

(* A restart repeats at most one batch of blocks, and no exported block is   *)
(* closer than Lag to the head of the chain or beyond end_block.             *)
THEOREM BoundsTheorem == Spec => []BoundsRespected
<1>1. IInv => BoundsRespected
  BY DEF IInv, BoundsRespected
<1> QED BY <1>1, Invariant, PTL

-----------------------------------------------------------------------------
(* A raised SystemExit is on its way out: the process is in the finally or gone. *)
SignalInv == /\ signal \in {"none", "raised", "replaced"}
             /\ signal = "raised" => pc \in Finally \cup Stopped

LEMMA NextSignalInv == SignalInv /\ [Next]_vars => SignalInv'
BY DEF SignalInv, Next, Step, Fault, vars, procVars, diskVars, envVars,
       Launch, InitWrite, ReadCheckpoint, WritePidFile, Open, CheckLoop, Sleep, Close,
       DeletePidFile, GetTarget, ExportSome, ExportAll, TruncateCheckpoint, WriteCheckpoint,
       CycleRaises, ExportRaises, StartRaises, CloseRaises, Terminate, SignalReplaced, Kill,
       Grow, Stabilise, AfterException, Streaming, Constructing, Starting, Finally, Stopped

(* In the finally the process has three things to do, none of which exports. *)
LEMMA SignalStep ==
  ASSUME SignalInv, [Next]_vars, signal = "raised", signal' = "raised"
  PROVE  /\ UNCHANGED <<delivered, file, saved>>
         /\ (stable /\ pc \notin Stopped /\ pc' \in Stopped) => ~pidFile'
BY DEF SignalInv, Next, Step, Fault, vars, procVars, diskVars, envVars,
       Launch, InitWrite, ReadCheckpoint, WritePidFile, Open, CheckLoop, Sleep, Close,
       DeletePidFile, GetTarget, ExportSome, ExportAll, TruncateCheckpoint, WriteCheckpoint,
       CycleRaises, ExportRaises, StartRaises, CloseRaises, Terminate, SignalReplaced, Kill,
       Grow, Stabilise, Finally, Stopped

(* The SystemExit of a SIGTERM leaves the retry loop wherever it is raised:     *)
(* nothing is exported or saved from then on.                                  *)
THEOREM SignalObeyedTheorem == Spec => SignalObeyed
<1>1. Init => SignalInv
  BY DEF Init, SignalInv
<1>2. SignalInv /\ [Next]_vars =>
        [signal = "raised" /\ signal' = "raised"
           => /\ UNCHANGED <<delivered, file, saved>>
              /\ (stable /\ pc \notin Stopped /\ pc' \in Stopped) => ~pidFile']_vars
  BY SignalStep
<1> QED BY <1>1, <1>2, NextSignalInv, PTL DEF Spec, SignalObeyed

-----------------------------------------------------------------------------
(* Only these two actions touch the number the file holds. *)
LEMMA SavedChanges ==
  ASSUME [Next]_vars
  PROVE  InitWrite \/ WriteCheckpoint \/ UNCHANGED <<saved, origin>>
BY DEF Next, Step, Fault, vars, procVars, diskVars, envVars,
       Launch, InitWrite, ReadCheckpoint, WritePidFile, Open, CheckLoop, Sleep, Close,
       DeletePidFile, GetTarget, ExportSome, ExportAll, TruncateCheckpoint, WriteCheckpoint,
       CycleRaises, ExportRaises, StartRaises, CloseRaises, Terminate, SignalReplaced, Kill,
       Grow, Stabilise

(* Only these two actions reach the sink. *)
LEMMA DeliveredChanges ==
  ASSUME [Next]_vars
  PROVE  \/ ExportAll
         \/ \E n \in last .. target : ExportSome(n)
         \/ UNCHANGED delivered
BY DEF Next, Step, Fault, vars, procVars, diskVars, envVars,
       Launch, InitWrite, ReadCheckpoint, WritePidFile, Open, CheckLoop, Sleep, Close,
       DeletePidFile, GetTarget, ExportSome, ExportAll, TruncateCheckpoint, WriteCheckpoint,
       CycleRaises, ExportRaises, StartRaises, CloseRaises, Terminate, SignalReplaced, Kill,
       Grow, Stabilise

(* A step never moves the checkpoint back. *)
LEMMA SavedGrows ==
  ASSUME IInv, [Next]_vars
  PROVE  saved # Missing => saved' >= saved
<1>1. CASE InitWrite
  BY <1>1 DEF InitWrite, IInv, DiskInv
<1>2. CASE WriteCheckpoint
  BY <1>2 DEF WriteCheckpoint, IInv, TypeOK, ProcInv, Streaming
<1>3. CASE UNCHANGED <<saved, origin>>
  BY <1>3, SentinelAssumption DEF IInv, TypeOK
<1> QED BY <1>1, <1>2, <1>3, SavedChanges

(* The checkpoint never moves back. *)
THEOREM CheckpointAdvancesTheorem == Spec => CheckpointAdvances
<1>1. IInv /\ [Next]_vars => [saved # Missing => saved' >= saved]_vars
  BY SavedGrows
<1> QED BY <1>1, Invariant, PTL DEF Spec, CheckpointAdvances

-----------------------------------------------------------------------------
(* Each step is a step of the abstract stream or leaves it unchanged:        *)
(* creating the checkpoint begins the stream, exporting delivers, writing    *)
(* the checkpoint commits.                                                   *)
LEMMA StreamStep ==
  ASSUME IInv, [Next]_vars
  PROVE  [Stream!StreamNext]_(Stream!streamVars)
<1> USE DEF Stream!StreamNext, Stream!streamVars
<1>1. CASE InitWrite
  <2>1. UNCHANGED delivered
    BY <1>1 DEF InitWrite, envVars
  <2>2. origin = Missing /\ origin' \in Nat /\ saved' = origin' - 1
    BY <1>1 DEF InitWrite, IInv, TypeOK, DiskInv
  <2> QED BY <2>1, <2>2 DEF Stream!Begin
<1>2. CASE WriteCheckpoint
  <2>1. UNCHANGED <<delivered, origin>>
    BY <1>2 DEF WriteCheckpoint, envVars
  <2>2. /\ saved # Missing
        /\ saved' \in Int /\ saved' > saved
        /\ saved + 1 .. saved' \subseteq delivered
    BY <1>2 DEF WriteCheckpoint, IInv, TypeOK, ProcInv, Streaming
  <2> QED BY <2>1, <2>2 DEF Stream!Commit
<1>3. CASE UNCHANGED <<saved, origin>>
  <2>1. ASSUME NEW n \in last .. target, pc = "export",
               delivered' = delivered \cup (last + 1 .. n)
        PROVE  Stream!Deliver
    <3>1. saved # Missing /\ last = saved /\ n \in saved .. saved + BlockBatchSize
      BY <2>1, ParametersAssumption, SentinelAssumption
      DEF IInv, TypeOK, ProcInv, Streaming
    <3> QED BY <1>3, <2>1, <3>1 DEF Stream!Deliver
  <2>2. CASE ExportAll
    <3>1. target \in last .. target
      BY <2>2 DEF ExportAll, IInv, TypeOK, ProcInv
    <3> QED BY <2>1, <2>2, <3>1 DEF ExportAll
  <2>3. ASSUME NEW n \in last .. target, ExportSome(n)
        PROVE  Stream!Deliver
    BY <2>1, <2>3 DEF ExportSome
  <2>4. CASE UNCHANGED delivered
    BY <1>3, <2>4
  <2> QED BY <2>2, <2>3, <2>4, DeliveredChanges
<1> QED BY <1>1, <1>2, <1>3, SavedChanges

(* The streaming process, with its crashes, retries and torn files, is a      *)
(* resumable at-least-once block stream.                                      *)
THEOREM Refinement == Spec => ImplementsStream
<1>1. Init => Stream!StreamInit
  BY DEF Init, Stream!StreamInit
<1>2. IInv /\ [Next]_vars => [Stream!StreamNext]_(Stream!streamVars)
  BY StreamStep
<1> QED BY <1>1, <1>2, Invariant, PTL DEF Spec, ImplementsStream, Stream!StreamSpec
=============================================================================
