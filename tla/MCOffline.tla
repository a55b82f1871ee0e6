------------------------------ MODULE MCOffline ------------------------------
(***************************************************************************)
(* The parts that share nothing with another: the extraction to files and   *)
(* what is computed from them, and the detector with its experiments.  Each *)
(* behaviour is one part's, the others being idle.                          *)
(***************************************************************************)
EXTENDS Traces, FileExporter, ExportAll, RingTimeliness, Training, StreamEval, Simulator,
        Cascade, TLC

CONSTANTS n1, n2, n3,
          CascadeTime   (* bound: timestamps of the cascade, less than the index's *)

VARIABLE on   (* the part that runs *)

Kind(type, error) == [type |-> type, error |-> error]
ThreeKinds == {Kind("call", FALSE), Kind("call", TRUE), Kind("create", FALSE)}

ThreeAccounts == {n1, n2, n3}
NoneOrAll == {{}, ThreeAccounts}
AccountsAlike == Permutations(ThreeAccounts)

(* Two days of two blocks, the first with one in its last second, an empty day *)
(* and a block of the day after; token A moves on both days.                    *)
InBlock(day, ends, creates, tokens) == [day |-> day, ends |-> ends, creates |-> creates, tokens |-> tokens]
SomeDays == 0 :> InBlock(0, FALSE, {}, {"A"}) @@ 1 :> InBlock(0, TRUE, {"c"}, {})
            @@ 2 :> InBlock(1, FALSE, {}, {"A"}) @@ 3 :> InBlock(1, FALSE, {"d"}, {"B"})
            @@ 4 :> InBlock(3, FALSE, {}, {})
Arguments(kind, from, to, size, filters) ==
  [kind |-> kind, first |-> from, last |-> to, size |-> size, filters |-> filters]
BlocksAndDates == {Arguments("block", 0, 2, 2, TRUE), Arguments("block", 1, 3, 2, FALSE),
                   Arguments("date", 0, 1, 0, FALSE), Arguments("date", 1, 2, 0, TRUE)}

LoopOf(by, epochs, every, patience, swallows) ==
  [by |-> by, epochs |-> epochs, every |-> every, patience |-> patience, swallows |-> swallows]
ThreeLoops == {LoopOf("auc", 4, 1, 2, TRUE), LoopOf("auc", 6, 2, 2, FALSE), LoopOf("loss", 3, 1, 0, TRUE)}

(* Two nodes with vectors of different lengths: Tier 2 may raise. *)
TwoLengths == {<<0, 16>>, <<2, 32>>}

OfflineInit ==
  /\ on \in {"traces", "files", "export", "rings", "training", "eval", "simulator", "index", "cascade"}
  /\ IF on = "traces" THEN TracesInit ELSE TracesOff
  /\ IF on = "files" THEN FilesInit ELSE FilesOff
  /\ IF on = "export" THEN ExportInit ELSE ExportOff
  /\ IF on = "rings" THEN RingsInit ELSE RingsOff
  /\ IF on = "training" THEN TrainingInit ELSE TrainingOff
  /\ IF on = "eval" THEN StreamEvalInit ELSE StreamEvalOff
  /\ SimInit /\ Init

data == <<tracesVars, filesVars, exportVars>>
experiments == <<ringsVars, trainVars, streamEvalVars, simVars>>

(* For the size of the run: the transactions of the cascade have timestamps up   *)
(* to CascadeTime, and the last of them brings no new vector and is no transfer  *)
(* of an account to itself.                                                      *)
ShortStream(e, given) ==
  /\ e.t <= CascadeTime
  /\ count = MaxEdges - 1 => given = {} /\ e.src # e.dst

OfflineNext ==
  /\ \/ /\ on = "traces" /\ TracesNext
        /\ UNCHANGED <<filesVars, exportVars, experiments, vars>>
     \/ /\ on = "files" /\ FilesNext
        /\ UNCHANGED <<tracesVars, exportVars, experiments, vars>>
     \/ /\ on = "export" /\ ExportNext
        /\ UNCHANGED <<tracesVars, filesVars, experiments, vars>>
     \/ /\ on = "rings" /\ RingsNext
        /\ UNCHANGED <<data, trainVars, streamEvalVars, simVars, vars>>
     \/ /\ on = "training" /\ TrainingNext
        /\ UNCHANGED <<data, ringsVars, streamEvalVars, simVars, vars>>
     \/ /\ on = "eval" /\ StreamEvalNext
        /\ UNCHANGED <<data, ringsVars, trainVars, simVars, vars>>
     \/ /\ on = "simulator" /\ SimNext
        /\ UNCHANGED <<data, ringsVars, trainVars, streamEvalVars, vars>>
     \/ /\ on = "index" /\ IndexNext
        /\ UNCHANGED <<data, experiments, state, pc, tx, ledger>>
     \/ /\ on = "cascade"
        /\ \/ /\ pc = "idle" /\ count < MaxEdges
              /\ \E e \in Edge, given \in Given : ShortStream(e, given) /\ Receive(e, given)
           \/ Tiers
        /\ UNCHANGED <<data, experiments>>
  /\ UNCHANGED on

OfflineSpec == OfflineInit /\ [][OfflineNext]_<<data, experiments, vars, on>>
=============================================================================
