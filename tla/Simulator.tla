----------------------------- MODULE Simulator -----------------------------
(***************************************************************************)
(* StreamSimulator.run (streamring/src/streaming/stream_simulator.py):      *)
(* replays transactions in timestamp order, at the pace of their            *)
(* timestamps, and evaluates those that follow a warm-up.                   *)
(*                                                                         *)
(* Time is counted in units of simulated time at replay_speed; process_fn   *)
(* returns or raises.  load_transactions sorts the events, some of whose    *)
(* addresses are not in addr_to_id.                                         *)
(*                                                                         *)
(* A definition X_Y, before X, is a faulty variant of X: each property is   *)
(* checked to tell one such variant from the code.                         *)
(***************************************************************************)
EXTENDS Integers, Sequences

CONSTANTS MaxEvents,     (* bound: rows of the DataFrame *)
          LastTimestamp, (* bound: timestamps are 0 .. LastTimestamp *)
          Warmup,        (* warmup_transactions *)
          MaxDelay,      (* the 10 seconds of a delay *)
          Replay,        (* replay_speed > 0 *)
          Labelled       (* labels is not None *)

ASSUME SimulatorAssumption ==
  /\ MaxEvents \in Nat /\ LastTimestamp \in Nat /\ Warmup \in Nat /\ MaxDelay \in Nat
  /\ Replay \in BOOLEAN /\ Labelled \in BOOLEAN

VARIABLES simPhase,   (* "running", "returned" or "raised" *)
          rows,       (* rows read *)
          last,       (* timestamp of the last row *)
          prev,       (* prev_sim_time, -1 for None *)
          processed,  (* processed *)
          isWarmup,   (* is_warmup *)
          latencies,  (* the transactions whose latency is recorded *)
          results,    (* the transactions whose result is recorded *)
          times,      (* history: the timestamps of the processed transactions *)
          slept       (* history: the time slept before them, in all *)

simVars == <<simPhase, rows, last, prev, processed, isWarmup, latencies, results,
             times, slept>>

SimInit == /\ simPhase = "running" /\ rows = 0 /\ last = 0 /\ prev = -1
           /\ processed = 0 /\ isWarmup = TRUE
           /\ latencies = <<>> /\ results = <<>>
           /\ times = <<>> /\ slept = 0

-----------------------------------------------------------------------------
NextRow(t) == /\ simPhase = "running" /\ rows < MaxEvents
              /\ t >= last
              /\ rows' = rows + 1 /\ last' = t

(* An address that is not in addr_to_id *)
Skip(t) == /\ NextRow(t)
           /\ UNCHANGED <<simPhase, prev, processed, isWarmup, latencies, results,
                          times, slept>>

(* The real-time delay before a transaction of time t *)
Paced == Replay /\ prev # -1 /\ ~isWarmup

Delay(t) == IF Paced THEN t - prev ELSE 0

Pause(t) == IF Delay(t) > 0 /\ Delay(t) < MaxDelay THEN Delay(t) ELSE 0

Wait_FromStart(t) == /\ prev' = IF prev = -1 THEN t ELSE prev
                     /\ slept' = slept + Pause(t)

Wait(t) == /\ prev' = t
           /\ slept' = slept + Pause(t)

Record_BeforeFlip(n) ==
  IF ~isWarmup
  THEN /\ latencies' = Append(latencies, n)
       /\ results' = IF Labelled THEN Append(results, n) ELSE results
  ELSE UNCHANGED <<latencies, results>>

Record(n) ==
  IF ~isWarmup'
  THEN /\ latencies' = Append(latencies, n)
       /\ results' = IF Labelled THEN Append(results, n) ELSE results
  ELSE UNCHANGED <<latencies, results>>

Process(t) ==
  /\ NextRow(t)
  /\ Wait(t)
  /\ processed' = processed + 1
  /\ isWarmup' = (isWarmup /\ processed' # Warmup)
  /\ Record(processed')
  /\ times' = Append(times, t)
  /\ UNCHANGED simPhase

(* process_fn raises, and so does run. *)
ProcessRaises(t) ==
  /\ NextRow(t)
  /\ Wait(t)
  /\ simPhase' = "raised"
  /\ UNCHANGED <<processed, isWarmup, latencies, results, times>>

Return == /\ simPhase = "running"
          /\ simPhase' = "returned"
          /\ UNCHANGED <<rows, last, prev, processed, isWarmup, latencies, results,
                         times, slept>>

SimNext == (\E t \in 0 .. LastTimestamp : Skip(t) \/ Process(t) \/ ProcessRaises(t)) \/ Return

SimSpec == SimInit /\ [][SimNext]_simVars

-----------------------------------------------------------------------------
SimTypeOK ==
  /\ simPhase \in {"running", "returned", "raised"}
  /\ rows \in 0 .. MaxEvents /\ last \in 0 .. LastTimestamp
  /\ prev \in -1 .. LastTimestamp
  /\ processed \in 0 .. MaxEvents /\ isWarmup \in BOOLEAN
  /\ latencies \in Seq(1 .. MaxEvents) /\ results \in Seq(1 .. MaxEvents)
  /\ times \in Seq(0 .. LastTimestamp)
  /\ slept \in Nat

(* What is evaluated: the code counts the Warmup-th transaction itself, the one *)
(* that ends the warm-up, as evaluated, and after it every processed one, in   *)
(* order, whichever rows were skipped; a Warmup of 0 never ends, and nothing   *)
(* is evaluated.  Each has a label compared when labels are given.             *)
EvaluatesTheRest ==
  /\ latencies = [i \in 1 .. (IF Warmup = 0 \/ processed < Warmup THEN 0
                              ELSE processed - Warmup + 1) |-> Warmup + i - 1]
  /\ Labelled => results = latencies

(* "warmup_transactions: Number of initial transactions to process before      *)
(* starting evaluation" (lines 26-27): so many transactions are processed, and *)
(* none of them is evaluated.                                                  *)
WarmupFirst == \A i \in DOMAIN latencies : latencies[i] > Warmup

(* The replay never lags the stream by its own delays: from the Warmup-th     *)
(* transaction on, they add up to no more than the time that passed in it.    *)
NeverSlower ==
  SimTypeOK /\ ((Warmup > 0 /\ processed >= Warmup) => slept <= last - times[Warmup])
==============================================================================
