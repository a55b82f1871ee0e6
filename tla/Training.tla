------------------------------- MODULE Training -------------------------------
(***************************************************************************)
(* The training loops of the experiments: train_lstm and train_model stop  *)
(* early on the validation AUC, tier2_diagnostic validates every few       *)
(* epochs, and the streaming experiments keep the epoch of least loss.     *)
(* A model's parameters are the number of optimizer steps they have taken; *)
(* its scores and losses are any numbers, the same for the same parameters.*)
(***************************************************************************)
EXTENDS Integers, Sequences

CONSTANTS Loops,     (* [by, epochs, every, patience, swallows] *)
          Batches,   (* the batches of an epoch *)
          MaxScore   (* bound: scores and losses are 0 .. MaxScore *)

(* A patience of 0 would stop before anything is trained. *)
ASSUME TrainingAssumption ==
  /\ Loops \subseteq [by : {"auc", "loss"}, epochs : Nat \ {0}, every : Nat \ {0},
                      patience : Nat, swallows : BOOLEAN]
  /\ \A l \in Loops : l.by = "auc" => l.patience > 0
  /\ Batches \in Nat /\ MaxScore \in Nat

VARIABLES
  tnPhase,    (* "off", "batches", "validate" or "done" *)
  loop,       (* which loop this is *)
  validates,  (* the validation set exists and has both classes *)
  epoch, batch,
  params,     (* the live parameters *)
  loss,       (* epoch_loss *)
  best,       (* best_val_auc, or best_loss with Infinite for no loss yet *)
  bestState,  (* best_state: {} or the one copy that is kept *)
  patienceCounter,
  history     (* [params, score] of each epoch that was scored *)

trainVars == <<tnPhase, loop, validates, epoch, batch, params, loss, best, bestState, patienceCounter, history>>

Infinite == Batches * MaxScore + 1
Live == -1   (* a reference to the parameters instead of a copy *)
Entry(score) == [params |-> params, score |-> score]
Scores == 0 .. MaxScore

TrainingOff == /\ tnPhase = "off" /\ loop = 0 /\ validates = FALSE /\ epoch = 0 /\ batch = 0 /\ params = 0
               /\ loss = 0 /\ best = 0 /\ bestState = {} /\ patienceCounter = 0 /\ history = <<>>

TrainingInit == /\ tnPhase = "batches" /\ loop \in Loops /\ validates \in BOOLEAN
                /\ epoch = 0 /\ batch = 0 /\ params = 0 /\ loss = 0
                /\ best = IF loop.by = "loss" THEN Infinite ELSE 0
                /\ bestState = {} /\ patienceCounter = 0 /\ history = <<>>

-----------------------------------------------------------------------------
(* One batch: a step of the optimizer, or an exception that is swallowed. *)
StepBatch ==
  /\ tnPhase = "batches" /\ batch < Batches
  /\ batch' = batch + 1 /\ params' = params + 1
  /\ IF loop.by = "loss" THEN \E l \in Scores : loss' = loss + l ELSE loss' = loss
  /\ UNCHANGED <<tnPhase, loop, validates, epoch, best, bestState, patienceCounter, history>>

BatchRaises ==
  /\ tnPhase = "batches" /\ batch < Batches /\ loop.swallows
  /\ batch' = batch + 1
  /\ UNCHANGED <<tnPhase, loop, validates, epoch, params, loss, best, bestState, patienceCounter, history>>

EpochTrained ==
  /\ tnPhase = "batches" /\ batch = Batches
  /\ tnPhase' = "validate"
  /\ UNCHANGED <<loop, validates, epoch, batch, params, loss, best, bestState, patienceCounter, history>>

(* The end of the loop or its break: the best parameters are put back. *)
Restored == IF bestState' \in {{}, {Live}} THEN params ELSE CHOOSE p \in bestState' : TRUE

Leave(stop) ==
  IF stop \/ epoch + 1 = loop.epochs
  THEN tnPhase' = "done" /\ params' = Restored /\ UNCHANGED <<epoch, batch, loss>>
  ELSE tnPhase' = "batches" /\ epoch' = epoch + 1 /\ batch' = 0 /\ loss' = 0 /\ UNCHANGED params

(* copy.deepcopy of state_dict, whose tensors the optimizer changes in place *)
Keep_Alias(score) ==
  /\ best' = score /\ bestState' = {Live} /\ patienceCounter' = 0

Keep(score) ==
  /\ best' = score /\ bestState' = {params} /\ patienceCounter' = 0

NotBetter == patienceCounter' = patienceCounter + 1 /\ UNCHANGED <<best, bestState>>

(* Deterministic in eval mode: unchanged parameters get the same score. *)
CanScore(score) == \A i \in DOMAIN history : history[i].params = params => history[i].score = score

Validate ==
  /\ tnPhase = "validate" /\ loop.by = "auc"
  /\ validates /\ (epoch + 1) % loop.every = 0
  /\ \E score \in Scores :
       /\ CanScore(score)
       /\ history' = Append(history, Entry(score))
       /\ IF score > best THEN Keep(score) ELSE NotBetter
  /\ Leave(patienceCounter' >= loop.patience)
  /\ UNCHANGED <<loop, validates>>

(* No validation in this epoch, one class only, or an exception swallowed. *)
NoScore ==
  /\ tnPhase = "validate" /\ loop.by = "auc"
  /\ ~validates \/ (epoch + 1) % loop.every # 0 \/ loop.swallows
  /\ UNCHANGED <<best, bestState, patienceCounter, history>>
  /\ Leave(FALSE)
  /\ UNCHANGED <<loop, validates>>

(* _train_tier3_streaming: the summed loss of the batches that did not raise *)
CompareLoss ==
  /\ tnPhase = "validate" /\ loop.by = "loss"
  /\ history' = Append(history, Entry(loss))
  /\ IF loss < best THEN Keep(loss) ELSE UNCHANGED <<best, bestState, patienceCounter>>
  /\ Leave(FALSE)
  /\ UNCHANGED <<loop, validates>>

TrainingNext == StepBatch \/ BatchRaises \/ EpochTrained \/ Validate \/ NoScore \/ CompareLoss

TrainingSpec == TrainingInit /\ [][TrainingNext]_trainVars

-----------------------------------------------------------------------------
Better(i, j) == IF loop.by = "loss" THEN history[i].score < history[j].score
                                    ELSE history[i].score > history[j].score
FirstBest == CHOOSE i \in DOMAIN history :
               \A j \in DOMAIN history : Better(i, j) \/ (~Better(j, i) /\ i <= j)

(* The model that is evaluated on the test set is the one of the epoch that   *)
(* scored best, the first of equals, however the parameters moved afterwards. *)
BestIsRestored ==
  tnPhase = "done" /\ (\E i \in DOMAIN history : loop.by = "loss" \/ history[i].score > 0) =>
    params = history[FirstBest].params /\ best = history[FirstBest].score

(* Training stops before its last epoch exactly when the last `patience'      *)
(* scored epochs were all no better than one before them, or than no skill.  *)
Stale ==
  LET n == Len(history)
  IN  /\ n >= loop.patience
      /\ \A i \in n - loop.patience + 1 .. n :
           \/ history[i].score <= 0
           \/ \E j \in 1 .. n - loop.patience : history[i].score <= history[j].score

StopsWhenStale ==
  tnPhase # "off" /\ loop.by = "auc" =>
    /\ tnPhase = "done" /\ epoch + 1 < loop.epochs => Stale
    /\ tnPhase # "done" => ~Stale

(* Early stopping as documented: no epoch too many or too few, and the best one kept. *)
EarlyStopping == BestIsRestored /\ StopsWhenStale
===============================================================================
