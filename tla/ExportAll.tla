------------------------------- MODULE ExportAll -------------------------------
(***************************************************************************)
(* export_all: the partitions of a block or date range, and for each one   *)
(* the jobs that write its files, each reading what an earlier one wrote;  *)
(* an exception or a kill ends the run with files half written, and the    *)
(* command is run again.  A date is a day of the chain; the blocks of its  *)
(* two ends are looked up one after the other while the chain grows, each  *)
(* in one step here (BlockRange has the steps of a lookup).                *)
(***************************************************************************)
EXTENDS Integers, Sequences, FiniteSetsExt

CONSTANTS Chain,     (* block -> [day, ends, creates, tokens]; ends: its time is the last     *)
                     (* second of the day.  A block has one transaction, itself.              *)
          Requests,  (* the arguments: [kind, first, last, size, filters] *)
          MaxRuns,   (* bound: how often the command is run *)
          MaxTorn    (* bound: how many files of a run lose their end at close *)

(* Blocks are numbered from 0 and their timestamps increase; the genesis block, *)
(* whose time is 0, is counted with the first block.                            *)
ASSUME ExportAssumption ==
  /\ DOMAIN Chain \subseteq Nat /\ \A b \in DOMAIN Chain : 0 .. b \subseteq DOMAIN Chain
  /\ \A b \in DOMAIN Chain : Chain[b].day \in Int
  /\ \A b, c \in DOMAIN Chain : b <= c => Chain[b].day <= Chain[c].day
  /\ \A b, c \in DOMAIN Chain : b < c /\ Chain[b].ends => Chain[b].day < Chain[c].day
  /\ 1 \in DOMAIN Chain => Chain[0].day = Chain[1].day
  /\ Requests \subseteq [kind : {"block", "date"}, first : Nat, last : Nat, size : Nat, filters : BOOLEAN]
  /\ \A r \in Requests : r.kind = "block" => r.size > 0
  /\ MaxRuns \in Nat /\ MaxTorn \in Nat

VARIABLES
  eaPhase,   (* "off", "next", "lookup", "jobs", "finished" or "failed" *)
  request,   (* the arguments, the same in every run *)
  newest,    (* the last block the node has *)
  todo,      (* the partitions left, as days or first blocks: the least is next *)
  part,      (* the partition being exported: [dir, first, last] *)
  step,      (* the jobs that wrote their file, 0 .. *)
  files,     (* [kind, dir, first, last] -> what the file holds *)
  complete,  (* the partitions that reached their end, whole, and were not reopened *)
  torn,      (* the files of this run that lost their end at close *)
  runs

exportVars == <<eaPhase, request, newest, todo, part, step, files, complete, torn, runs>>

BlocksOfChain == DOMAIN Chain
NoFiles == [f \in {} |-> {}]
NoPart == [dir |-> -1, first |-> 0, last |-> -1]
BlocksIn(p) == {b \in BlocksOfChain : p.first <= b /\ b <= p.last /\ b <= newest}
ByBlock == request.kind = "block"

(* is_log_filter_supported: without it no transfers and no tokens *)
JobFiles == IF request.filters
         THEN <<"transactions", "transfers", "hashes", "receipts", "addresses", "contracts",
                "token_addresses", "tokens">>
         ELSE <<"transactions", "hashes", "receipts", "addresses", "contracts">>
Temporary == {"hashes", "addresses", "token_addresses"}

File(kind, p) == [kind |-> kind, dir |-> p.dir, first |-> p.first, last |-> p.last]

(* get_partitions: the first blocks of batches, or the days *)
Partitions ==
  IF ByBlock THEN {b \in request.first .. request.last :
                     \E k \in 0 .. request.last : b = request.first + k * request.size}
             ELSE request.first .. request.last

(* The range of a batch *)
RangeOf(x) ==
  [dir |-> x, first |-> x,
   last |-> IF x + request.size - 1 > request.last THEN request.last ELSE x + request.size - 1]

(* get_block_range_for_date.  The bounds of midnight: OutOfBoundsError, if no  *)
(* block is as late, gives genesis; so does block 1.                           *)
Later(x) == {b \in 1 .. newest : Chain[b].day >= x}
FirstOf(x) == IF Later(x) = {} \/ Min(Later(x)) = 1 THEN 0 ELSE Min(Later(x))

(* The bounds of the last second of the day: they exist once a block is as late. *)
LastOf(x) == Max({b \in 1 .. newest : Chain[b].day <= x})

Covered_Running(x) == Chain[1].day <= x

Covered(x) == /\ Chain[1].day <= x
              /\ \E b \in 1 .. newest : Chain[b].day > x \/ (Chain[b].day = x /\ Chain[b].ends)
HasBlocks(x) == \E b \in 1 .. newest : Chain[b].day = x

ExportOff == /\ eaPhase = "off" /\ request = NoPart /\ newest = -1 /\ todo = {} /\ part = NoPart
             /\ step = 0 /\ files = NoFiles /\ complete = {} /\ torn = {} /\ runs = 0

ExportInit == /\ eaPhase = "failed" /\ request \in Requests /\ newest \in BlocksOfChain /\ todo = {}
              /\ part = NoPart /\ step = 0 /\ files = NoFiles /\ complete = {} /\ torn = {} /\ runs = 0

Mine == /\ eaPhase # "off" /\ newest + 1 \in BlocksOfChain
        /\ newest' = newest + 1
        /\ UNCHANGED <<eaPhase, request, todo, part, step, files, complete, torn, runs>>

(* The command, for the first time or again: from the first partition. *)
Run == /\ eaPhase \in {"failed", "finished"} /\ runs < MaxRuns
       /\ eaPhase' = "next" /\ runs' = runs + 1
       /\ todo' = Partitions /\ part' = NoPart /\ step' = 0 /\ torn' = {}
       /\ UNCHANGED <<request, newest, files, complete>>

(* The next partition is the least that is left: a batch, *)
Take(x) == /\ eaPhase = "next" /\ x \in todo /\ \A y \in todo : x <= y
           /\ todo' = todo \ {x} /\ step' = 0

NextBatch == /\ ByBlock
             /\ \E x \in todo : Take(x) /\ part' = RangeOf(x)
             /\ eaPhase' = "jobs" /\ complete' = complete \ {part'}
             /\ UNCHANGED <<request, newest, files, torn, runs>>

(* or a day, whose first block is looked up; there must be a block 1. *)
LookupStart ==
  /\ ~ByBlock
  /\ \E x \in todo : Take(x) /\ part' = [dir |-> x, first |-> FirstOf(x), last |-> -1]
  /\ eaPhase' = IF newest >= 1 THEN "lookup" ELSE "failed"
  /\ UNCHANGED <<request, newest, files, complete, torn, runs>>

(* Then its last one.  ValueError: both ends are between the same two blocks. *)
LookupEnd ==
  /\ eaPhase = "lookup" /\ Covered(part.dir) /\ (part.first = 0 \/ HasBlocks(part.dir))
  /\ part' = [part EXCEPT !.last = LastOf(part.dir)]
  /\ eaPhase' = "jobs" /\ complete' = complete \ {part'}
  /\ UNCHANGED <<request, newest, todo, step, files, torn, runs>>

LookupRaises ==
  /\ eaPhase = "lookup" /\ ~(Covered(part.dir) /\ (part.first = 0 \/ HasBlocks(part.dir)))
  /\ eaPhase' = "failed"
  /\ UNCHANGED <<request, newest, todo, part, step, files, complete, torn, runs>>

(* What a job writes, from the chain or from the file it reads. *)
Read(kind) == files[File(kind, part)]

Written(kind) ==
  CASE kind = "transactions" -> BlocksIn(part)
    [] kind = "transfers"    -> {b \in BlocksIn(part) : Chain[b].tokens # {}}
    [] kind = "hashes"       -> Read("transactions")
    [] kind = "receipts"     -> Read("hashes")
    [] kind = "addresses"    -> UNION {Chain[b].creates : b \in Read("receipts")}
    [] kind = "contracts"    -> Read("addresses")
    [] kind = "token_addresses" -> UNION {Chain[b].tokens : b \in Read("transfers")}
    [] kind = "tokens"       -> Read("token_addresses")

Write(kind, what) ==
  files' = [f \in DOMAIN files \cup {File(kind, part)} |-> IF f = File(kind, part) THEN what ELSE files[f]]

(* A job: open empties the file, the executor fills it, close. *)
Job_Resumes ==
  /\ eaPhase = "jobs" /\ step < Len(JobFiles)
  /\ LET kind == JobFiles[step + 1]
     IN  /\ kind \in {"transactions", "transfers"} => part.last <= newest
         /\ IF File(kind, part) \in DOMAIN files THEN files' = files ELSE Write(kind, Written(kind))
  /\ step' = step + 1
  /\ UNCHANGED <<eaPhase, request, newest, todo, part, complete, torn, runs>>

Job ==
  /\ eaPhase = "jobs" /\ step < Len(JobFiles)
  /\ LET kind == JobFiles[step + 1]
     IN  /\ kind \in {"transactions", "transfers"} => part.last <= newest
         /\ Write(kind, Written(kind))
  /\ step' = step + 1
  /\ UNCHANGED <<eaPhase, request, newest, todo, part, complete, torn, runs>>

(* The same, but the last flush fails and close_silently swallows it.  A file *)
(* of extract_csv_column_unique is closed by `with', which raises.            *)
JobTruncates ==
  /\ eaPhase = "jobs" /\ step < Len(JobFiles) /\ Cardinality(torn) < MaxTorn
  /\ LET kind == JobFiles[step + 1]
     IN  /\ kind \notin Temporary
         /\ kind \in {"transactions", "transfers"} => part.last <= newest
         /\ \E what \in SUBSET Written(kind) : what # Written(kind) /\ Write(kind, what)
  /\ step' = step + 1 /\ torn' = torn \cup {File(JobFiles[step + 1], part)}
  /\ UNCHANGED <<eaPhase, request, newest, todo, part, complete, runs>>

(* The job raises, or the process is killed: part of the file is there. *)
JobStops ==
  /\ eaPhase = "jobs" /\ step < Len(JobFiles)
  /\ LET kind == JobFiles[step + 1]
     IN  \E what \in SUBSET Written(kind) : Write(kind, what)
  /\ eaPhase' = "failed"
  /\ UNCHANGED <<request, newest, todo, part, step, complete, torn, runs>>

(* The process is killed between two jobs, or a job fails before its open. *)
Killed == /\ eaPhase \in {"next", "lookup", "jobs"} /\ eaPhase' = "failed"
          /\ UNCHANGED <<request, newest, todo, part, step, files, complete, torn, runs>>

Whole(p) == \A f \in torn : f.dir # p.dir

(* rmtree of the partition's directory under .tmp *)
Clean ==
  /\ eaPhase = "jobs" /\ step = Len(JobFiles)
  /\ files' = [f \in {g \in DOMAIN files : g.dir # part.dir \/ g.kind \notin Temporary} |-> files[f]]
  /\ complete' = complete \cup {p \in {part} : Whole(p)}
  /\ eaPhase' = "next"
  /\ UNCHANGED <<request, newest, todo, part, step, torn, runs>>

Finish == /\ eaPhase = "next" /\ todo = {}
          /\ eaPhase' = "finished"
          /\ UNCHANGED <<request, newest, todo, part, step, files, complete, torn, runs>>

ExportNext == Mine \/ Run \/ NextBatch \/ LookupStart \/ LookupEnd \/ LookupRaises
              \/ Job \/ JobTruncates \/ JobStops \/ Killed \/ Clean \/ Finish

ExportSpec == ExportInit /\ [][ExportNext]_exportVars

-----------------------------------------------------------------------------
Files(kind) == {f \in DOMAIN files : f.kind = kind}

(* However often an earlier run stopped in the middle of a file: a partition  *)
(* that reached its end holds the receipt of each of its transactions, the    *)
(* contracts those created and the tokens its transfers name, and no more;    *)
(* unless a job of it went on although its last flush had failed.             *)
PartitionsComplete ==
  \A p \in complete :
    /\ files[File("transactions", p)] = BlocksIn(p)
    /\ files[File("receipts", p)] = BlocksIn(p)
    /\ files[File("contracts", p)] = UNION {Chain[b].creates : b \in BlocksIn(p)}
    /\ request.filters => files[File("tokens", p)] = UNION {Chain[b].tokens : b \in BlocksIn(p)}

(* After a run that finished, every block asked for is in a file, if none lost *)
(* its end at close.  A block is in two files only when one of them begins at  *)
(* genesis although that is of an earlier day: the first block of the day came *)
(* between the two lookups.                                                    *)
Early(f) == ~ByBlock /\ f.first = 0 /\ Chain[0].day # f.dir

EachBlockOnce ==
  eaPhase = "finished" =>
    /\ torn = {} => \A b \in BlocksOfChain :
         (IF ByBlock THEN b ELSE Chain[b].day) \in request.first .. request.last =>
           \E f \in Files("transactions") : b \in files[f]
    /\ \A f, g \in Files("transactions") :
         f # g /\ files[f] \cap files[g] # {} => Early(f) \/ Early(g)

(* A run that finished leaves nothing under .tmp, of itself or of runs that   *)
(* stopped, although those may have looked the day up with another beginning. *)
NothingTemporary ==
  eaPhase = "finished" => \A f \in DOMAIN files : f.kind \notin Temporary

(* What a run that finished leaves on disk, whatever runs stopped before it. *)
DiskIsClean == EachBlockOnce /\ NothingTemporary
=============================================================================
