----------------------------- MODULE FileExporter -----------------------------
(***************************************************************************)
(* A CSV file of CompositeItemExporter, written by the pool threads of a   *)
(* job: the double-checked lock that writes the header once, the rows, the *)
(* counter and the total that close reports.  A row is the thread and the  *)
(* number of the item; its columns are left out.  The file is buffered:    *)
(* `written' is what its writer accepted, of which the file has the first  *)
(* `flushed' lines (a torn last line counts as missing).                   *)
(***************************************************************************)
EXTENDS Integers, Sequences, FiniteSets

CONSTANTS Threads,
          Share     (* the number of items each thread exports *)

ASSUME ShareAssumption == Share \in Nat
ASSUME ThreadsAssumption == IsFiniteSet(Threads)

VARIABLES
  written,     (* the lines given to the buffered file *)
  flushed,     (* how many of them are in the file *)
  notWritten,  (* _headers_not_written *)
  holder,      (* the thread that holds _write_headers_lock, if any *)
  place,       (* thread -> where it is in export_item *)
  left,        (* thread -> items it still exports *)
  counter,     (* counter_mapping's counter *)
  reported     (* what close logged, -1 before *)

filesVars == <<written, flushed, notWritten, holder, place, left, counter, reported>>

Header == <<"header">>
Row(t) == <<"row", t, left[t]>>
InLock == {"recheck", "header", "clear"}
Places == InLock \cup {"idle", "lock", "row", "count"}

FilesInit ==
  /\ written = <<>> /\ flushed = 0 /\ notWritten = TRUE /\ holder = {}
  /\ place = [t \in Threads |-> "idle"] /\ left = [t \in Threads |-> Share]
  /\ counter = 0 /\ reported = -1

FilesOff ==
  /\ written = <<>> /\ flushed = 0 /\ notWritten = FALSE /\ holder = {} /\ place = <<>> /\ left = <<>>
  /\ counter = 0 /\ reported = -2

Go(t, from, to) == place[t] = from /\ place' = [place EXCEPT ![t] = to]

(* export_item is called and looks at the flag without the lock. *)
Look(t) ==
  /\ left[t] > 0 /\ reported = -1
  /\ Go(t, "idle", IF notWritten THEN "lock" ELSE "row")
  /\ UNCHANGED <<written, flushed, notWritten, holder, left, counter, reported>>

Lock(t) ==
  /\ holder = {} /\ holder' = {t}
  /\ Go(t, "lock", "recheck")
  /\ UNCHANGED <<written, flushed, notWritten, left, counter, reported>>

Recheck_Trusts(t) ==
  /\ Go(t, "recheck", "header")
  /\ UNCHANGED <<written, flushed, notWritten, holder, left, counter, reported>>

Recheck(t) ==
  /\ Go(t, "recheck", IF notWritten THEN "header" ELSE "row")
  /\ holder' = IF notWritten THEN holder ELSE {}
  /\ UNCHANGED <<written, flushed, notWritten, left, counter, reported>>

(* A line goes to the buffer; a full buffer is first written out.             *)
PutLine(line) == /\ written' = Append(written, line)
                 /\ flushed' \in {flushed, Len(written)}

WriteHeader(t) ==
  /\ Go(t, "header", "clear")
  /\ PutLine(Header)
  /\ UNCHANGED <<notWritten, holder, left, counter, reported>>

ClearFlag(t) ==
  /\ Go(t, "clear", "row")
  /\ notWritten' = FALSE /\ holder' = {}
  /\ UNCHANGED <<written, flushed, left, counter, reported>>

WriteRow(t) ==
  /\ Go(t, "row", "count")
  /\ PutLine(Row(t))
  /\ UNCHANGED <<notWritten, holder, left, counter, reported>>

Count(t) ==
  /\ Go(t, "count", "idle")
  /\ left' = [left EXCEPT ![t] = @ - 1]
  /\ counter' = counter + 1
  /\ UNCHANGED <<written, flushed, notWritten, holder, reported>>

(* The disk takes part of a full buffer and raises: the line is not accepted, *)
(* `with' gives the lock back and the flag stays.                             *)
WriteRaises(t) ==
  /\ place[t] \in {"header", "row"} /\ place' = [place EXCEPT ![t] = "idle"]
  /\ holder' = holder \ {t}
  /\ left' = [left EXCEPT ![t] = @ - 1]
  /\ flushed' \in flushed .. Len(written)
  /\ UNCHANGED <<written, notWritten, counter, reported>>

(* close: _end calls it after the executor has waited for its threads.        *)
(* close_silently swallows the OSError of the last flush; the total is logged *)
(* all the same.                                                              *)
Close ==
  /\ reported = -1
  /\ \A t \in Threads : place[t] = "idle" /\ left[t] = 0
  /\ flushed' \in flushed .. Len(written)
  /\ reported' = counter
  /\ UNCHANGED <<written, notWritten, holder, place, left, counter>>

FilesNext ==
  \/ \E t \in Threads : \/ Look(t) \/ Lock(t) \/ Recheck(t) \/ WriteHeader(t) \/ ClearFlag(t)
                        \/ WriteRow(t) \/ Count(t) \/ WriteRaises(t)
  \/ Close

FilesSpec == FilesInit /\ [][FilesNext]_filesVars

-----------------------------------------------------------------------------
(* `Double-checked locking (safe in Python because of GIL)': whichever thread *)
(* comes first and whatever the disk refuses, the first line of the file is   *)
(* the header and no other line is, so that csv.DictReader names the columns. *)
InFile == 1 .. flushed
HeaderFirst == \A i \in InFile : written[i] = Header <=> i = 1

(* The total that close reports is never less than the rows in the file: it   *)
(* is their number when the last flush succeeded, and counts the rows that    *)
(* are lost when close_silently swallowed its error.                          *)
TotalBoundsRows ==
  reported >= 0 => LET rows == {i \in InFile : written[i] # Header}
                   IN  /\ Cardinality(rows) <= reported
                       /\ flushed = Len(written) => Cardinality(rows) = reported

(* The file agrees with what was reported of it, as far as it was flushed.    *)
FileIsWhole == HeaderFirst /\ TotalBoundsRows

(* What makes HeaderFirst inductive: who may be where while the flag is up.   *)
FilesTypeOK ==
  /\ written \in Seq({Header} \cup ({"row"} \X Threads \X Nat))
  /\ flushed \in 0 .. Len(written)
  /\ notWritten \in BOOLEAN
  /\ holder = {} \/ \E t \in Threads : holder = {t}
  /\ place \in [Threads -> Places]
  /\ left \in [Threads -> Nat]
MutualExclusion == \A t \in Threads : place[t] \in InLock <=> holder = {t}
FlagUp == notWritten => \/ written = <<>>
                        \/ written = <<Header>> /\ \E t \in Threads : place[t] = "clear"
FlagDown == ~notWritten => Len(written) > 0
RowsAfterFlag == \A t \in Threads : place[t] \in {"row", "count"} => ~notWritten
HeaderAlone == \A t \in Threads : /\ place[t] = "header" => notWritten /\ written = <<>>
                                  /\ place[t] = "clear" => notWritten /\ written = <<Header>>
Counting == \A t \in Threads : place[t] # "idle" => left[t] > 0
OneHeader == \A i \in DOMAIN written : written[i] = Header <=> i = 1
HeaderInv == /\ FilesTypeOK /\ MutualExclusion /\ FlagUp /\ FlagDown /\ RowsAfterFlag
             /\ HeaderAlone /\ Counting /\ OneHeader

(* What makes TotalBoundsRows inductive: a row is counted, or its thread is about *)
(* to count it.                                                               *)
AtCount == {t \in Threads : place[t] = "count"}
Rows == IF written = <<>> THEN 0 ELSE Len(written) - 1
TotalInv == /\ counter \in Nat /\ reported \in Int
            /\ counter + Cardinality(AtCount) = Rows
            /\ reported # -1 => /\ \A t \in Threads : place[t] = "idle" /\ left[t] = 0
                                /\ reported = counter
==============================================================================
