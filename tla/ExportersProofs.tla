--------------------------- MODULE ExportersProofs ---------------------------
(***************************************************************************)
(* Proofs about FileExporter, for any number of threads and items; about   *)
(* ItemExporters, for any list of outputs, batch and chunk size; and about *)
(* Traces, for any trees of calls and any answer.                          *)
(*                                                                         *)
(* FileIsWhole.  HeaderInv says which lines exist while the flag is up:    *)
(* none, or the header of the thread that is about to clear it; a row is   *)
(* only written once it is down.  TotalInv says that the counter lacks the *)
(* rows that threads are about to count; when close reads it, there is no  *)
(* such thread.                                                            *)
(*                                                                         *)
(* NothingSkipped and NothingHalf.  SinksInv follows the exporters of one  *)
(* cycle: those before `at' have dealt with every item of the range, and   *)
(* the running one with all but `todo'.  Only for Pub/Sub that is not yet  *)
(* the same as having sent them (Taken), until its futures have returned;  *)
(* and an exception that leaves messages to a client leaves no item of     *)
(* blocks that the checkpoint passed.                                      *)
(*                                                                         *)
(* StatusesDecide and IdsIdentifyTraces.  TracesInv says that the calls    *)
(* come in the order of the tree (Ordered: what is still to come is after  *)
(* all that has come), so that none comes twice (Distinct), whatever the   *)
(* answer's order; and that the status of a visited call is final.         *)
(***************************************************************************)
EXTENDS FileExporter, ItemExporters, Traces, FiniteSetTheorems, TLAPS

-----------------------------------------------------------------------------
(* The CSV file *)

Lines == {Header} \cup ({"row"} \X Threads \X Nat)

(* Appending a line keeps the lines already there at their places. *)
LEMMA AppendedLine ==
  ASSUME NEW s \in Seq(Lines), NEW line \in Lines
  PROVE  /\ Append(s, line) \in Seq(Lines)
         /\ Len(Append(s, line)) = Len(s) + 1 /\ Len(s) \in Nat
         /\ DOMAIN Append(s, line) = 1 .. Len(s) + 1 /\ DOMAIN s = 1 .. Len(s)
         /\ \A i \in 1 .. Len(s) : Append(s, line)[i] = s[i]
         /\ Append(s, line)[Len(s) + 1] = line
  OBVIOUS

LEMMA EmptySeqLen == ASSUME NEW s \in Seq(Lines) PROVE s = <<>> <=> Len(s) = 0
  OBVIOUS

(* A row is never taken for a header. *)
LEMMA RowsDiffer == ASSUME NEW t \in Threads, NEW n \in Nat PROVE <<"row", t, n>> # Header
  BY DEF Header

LEMMA HeaderInit == FilesInit => HeaderInv
<1> SUFFICES ASSUME FilesInit PROVE HeaderInv
  OBVIOUS
<1>1. FilesTypeOK
  BY ShareAssumption DEF FilesInit, FilesTypeOK, Places, InLock
<1>2. MutualExclusion /\ FlagUp /\ FlagDown /\ RowsAfterFlag /\ HeaderAlone /\ Counting
  BY DEF FilesInit, MutualExclusion, FlagUp, FlagDown, RowsAfterFlag, HeaderAlone, Counting, InLock
<1>3. OneHeader
  BY DEF FilesInit, OneHeader
<1> QED BY <1>1, <1>2, <1>3 DEF HeaderInv

LEMMA HeaderNext == HeaderInv /\ [FilesNext]_filesVars => HeaderInv'
<1> SUFFICES ASSUME HeaderInv, [FilesNext]_filesVars PROVE HeaderInv'
  OBVIOUS
<1> USE DEF HeaderInv, FilesTypeOK, MutualExclusion, FlagUp, FlagDown, RowsAfterFlag, HeaderAlone, Counting
<1>1. ASSUME NEW t \in Threads, Look(t) PROVE HeaderInv'
  BY <1>1 DEF Look, Go, Places, InLock, OneHeader
<1>2. ASSUME NEW t \in Threads, Lock(t) PROVE HeaderInv'
  BY <1>2 DEF Lock, Go, Places, InLock, OneHeader
<1>3. ASSUME NEW t \in Threads, Recheck(t) PROVE HeaderInv'
  BY <1>3 DEF Recheck, Go, Places, InLock, OneHeader
<1>4. ASSUME NEW t \in Threads, WriteHeader(t) PROVE HeaderInv'
  <2>1. written = <<>> /\ notWritten /\ written' = <<Header>>
    <3>1. written = <<>> /\ notWritten
      BY <1>4 DEF WriteHeader, Go
    <3>2. Append(<<>>, Header) = <<Header>>
      OBVIOUS
    <3> QED BY <1>4, <3>1, <3>2 DEF WriteHeader, PutLine
  <2>2. <<Header>> \in Seq(Lines) /\ Len(<<Header>>) = 1 /\ DOMAIN <<Header>> = {1} /\ <<Header>>[1] = Header
    BY DEF Lines
  <2>3. FilesTypeOK' /\ MutualExclusion' /\ Counting' /\ FlagUp'
    BY <1>4, <2>1, <2>2 DEF WriteHeader, PutLine, Go, Places, InLock, Lines
  <2>4. RowsAfterFlag' /\ HeaderAlone' /\ FlagDown'
    BY <1>4, <2>1, <2>2 DEF WriteHeader, PutLine, Go, Places, InLock
  <2>5. OneHeader'
    BY <2>1, <2>2 DEF OneHeader
  <2> QED BY <2>3, <2>4, <2>5
<1>5. ASSUME NEW t \in Threads, ClearFlag(t) PROVE HeaderInv'
  <2>1. written' = <<Header>> /\ Len(<<Header>>) = 1 /\ written' = written
    BY <1>5 DEF ClearFlag, Go
  <2>2. FilesTypeOK' /\ MutualExclusion' /\ Counting'
    BY <1>5, <2>1 DEF ClearFlag, Go, Places, InLock
  <2>3. FlagUp' /\ RowsAfterFlag' /\ FlagDown'
    BY <1>5, <2>1 DEF ClearFlag, Go, InLock
  <2>4. HeaderAlone'
    BY <1>5, <2>1 DEF ClearFlag, Go, InLock
  <2>5. OneHeader'
    BY <2>1 DEF OneHeader
  <2> QED BY <2>2, <2>3, <2>4, <2>5
<1>6. ASSUME NEW t \in Threads, WriteRow(t) PROVE HeaderInv'
  <2>1. ~notWritten /\ Len(written) > 0 /\ left[t] \in Nat
    BY <1>6 DEF WriteRow, Go
  <2>2. written \in Seq(Lines) /\ Row(t) \in Lines /\ Row(t) # Header
    BY <2>1, RowsDiffer DEF Lines, Row
  <2>3. written' = Append(written, Row(t))
    BY <1>6 DEF WriteRow, PutLine
  <2>4. FilesTypeOK' /\ MutualExclusion' /\ Counting'
    BY <1>6, <2>2, <2>3, AppendedLine DEF WriteRow, PutLine, Go, Places, InLock, Lines
  <2>5. FlagUp' /\ RowsAfterFlag' /\ HeaderAlone' /\ FlagDown'
    BY <1>6, <2>1, <2>2, <2>3, AppendedLine DEF WriteRow, Go, InLock
  <2>6. OneHeader'
    BY <2>1, <2>2, <2>3, AppendedLine DEF OneHeader
  <2> QED BY <2>4, <2>5, <2>6
<1>7. ASSUME NEW t \in Threads, Count(t) PROVE HeaderInv'
  BY <1>7 DEF Count, Go, Places, InLock, OneHeader
<1>8. ASSUME NEW t \in Threads, WriteRaises(t) PROVE HeaderInv'
  <2>1. FilesTypeOK' /\ Counting' /\ place' = [place EXCEPT ![t] = "idle"]
    <3>1. place[t] # "idle" /\ left[t] \in Nat /\ left[t] > 0
      BY <1>8 DEF WriteRaises
    <3>2. place' \in [Threads -> Places] /\ left' \in [Threads -> Nat]
      BY <1>8, <3>1 DEF WriteRaises, Places
    <3>3. FilesTypeOK'
      BY <1>8, <3>2 DEF WriteRaises
    <3>4. Counting'
      BY <1>8, <3>1 DEF WriteRaises
    <3> QED BY <1>8, <3>3, <3>4 DEF WriteRaises
  <2>2. MutualExclusion'
    <3>1. CASE holder = {t}
      BY <1>8, <2>1, <3>1 DEF WriteRaises, InLock
    <3>2. CASE holder # {t}
      <4>1. place[t] \notin InLock /\ place[t] = "row"
        BY <1>8, <3>2 DEF WriteRaises, InLock
      <4>2. t \notin holder /\ holder' = holder
        BY <1>8, <3>2, <4>1 DEF WriteRaises
      <4>3. ASSUME NEW u \in Threads PROVE (place'[u] \in InLock <=> holder' = {u})
        BY <1>8, <2>1, <4>1, <4>2, <4>3 DEF WriteRaises, InLock
      <4> QED BY <4>3
    <3> QED BY <3>1, <3>2
  <2>3. FlagUp' /\ RowsAfterFlag' /\ FlagDown' /\ HeaderAlone'
    BY <1>8, <2>1 DEF WriteRaises, InLock
  <2>4. OneHeader'
    BY <1>8 DEF WriteRaises, OneHeader
  <2> QED BY <2>1, <2>2, <2>3, <2>4
<1>9. ASSUME Close PROVE HeaderInv'
  BY <1>9 DEF Close, Places, InLock, OneHeader
<1>10. ASSUME UNCHANGED filesVars PROVE HeaderInv'
  BY <1>10 DEF filesVars, Places, InLock, OneHeader
<1> HIDE DEF HeaderInv
<1>11. ASSUME NEW t \in Threads,
              \/ Look(t) \/ Lock(t) \/ Recheck(t) \/ WriteHeader(t) \/ ClearFlag(t)
              \/ WriteRow(t) \/ Count(t) \/ WriteRaises(t)
       PROVE  HeaderInv'
  BY <1>11, <1>1, <1>2, <1>3, <1>4, <1>5, <1>6, <1>7, <1>8, Zenon
<1> QED BY <1>9, <1>10, <1>11, Zenon DEF FilesNext

-----------------------------------------------------------------------------
LEMMA TotalInit == FilesInit => TotalInv
<1> SUFFICES ASSUME FilesInit PROVE TotalInv
  OBVIOUS
<1>1. AtCount = {}
  BY DEF FilesInit, AtCount
<1>2. Cardinality(AtCount) = 0
  BY <1>1, FS_EmptySet
<1> QED BY <1>2 DEF FilesInit, TotalInv, Rows

(* A step that adds no row and counts none, by a thread that is not done. *)
LEMMA TotalKept ==
  ASSUME TotalInv, AtCount' = AtCount, Rows' = Rows, counter' = counter, reported' = reported,
         reported = -1
  PROVE  TotalInv'
BY DEF TotalInv

LEMMA TotalNext == HeaderInv /\ TotalInv /\ [FilesNext]_filesVars => TotalInv'
<1> SUFFICES ASSUME HeaderInv, TotalInv, [FilesNext]_filesVars PROVE TotalInv'
  OBVIOUS
<1>a. /\ IsFiniteSet(AtCount) /\ Cardinality(AtCount) \in Nat
      /\ written \in Seq(Lines) /\ place \in [Threads -> Places] /\ left \in [Threads -> Nat]
  BY ThreadsAssumption, FS_Subset, FS_CardinalityType DEF AtCount, HeaderInv, FilesTypeOK, Lines
<1>b. ASSUME NEW t \in Threads, place[t] # "idle" PROVE reported = -1
  BY <1>b DEF TotalInv
<1>1. ASSUME NEW t \in Threads, Look(t) PROVE TotalInv'
  <2>1. AtCount' = AtCount
    BY <1>1, <1>a DEF Look, Go, AtCount
  <2> QED BY <1>1, <2>1, TotalKept DEF Look, Rows
<1>2. ASSUME NEW t \in Threads, Lock(t) \/ Recheck(t) \/ ClearFlag(t) PROVE TotalInv'
  <2>1. AtCount' = AtCount
    BY <1>2, <1>a DEF Lock, Recheck, ClearFlag, Go, AtCount
  <2>2. place[t] # "idle"
    BY <1>2 DEF Lock, Recheck, ClearFlag, Go
  <2> QED BY <1>2, <1>b, <2>1, <2>2, TotalKept DEF Lock, Recheck, ClearFlag, Rows
<1>3. ASSUME NEW t \in Threads, WriteHeader(t) PROVE TotalInv'
  <2>1. AtCount' = AtCount
    BY <1>3, <1>a DEF WriteHeader, Go, AtCount
  <2>2. written = <<>> /\ place[t] # "idle"
    BY <1>3 DEF WriteHeader, Go, HeaderInv, HeaderAlone
  <2>3. written' = <<Header>>
    BY <1>3, <2>2 DEF WriteHeader, PutLine
  <2>4. Rows' = Rows
    BY <2>2, <2>3 DEF Rows
  <2> QED BY <1>3, <1>b, <2>1, <2>2, <2>4, TotalKept DEF WriteHeader
<1>4. ASSUME NEW t \in Threads, WriteRow(t) PROVE TotalInv'
  <2>1. AtCount' = AtCount \cup {t} /\ t \notin AtCount
    BY <1>4, <1>a DEF WriteRow, Go, AtCount
  <2>2. Cardinality(AtCount') = Cardinality(AtCount) + 1
    BY <1>a, <2>1, FS_AddElement
  <2>3. /\ reported = -1 /\ ~notWritten /\ left[t] \in Nat
        /\ written' = Append(written, Row(t)) /\ counter' = counter /\ reported' = reported
    BY <1>4, <1>a, <1>b DEF WriteRow, PutLine, Go, HeaderInv, RowsAfterFlag
  <2>4. Row(t) \in Lines /\ Len(written) \in Nat /\ Len(written) > 0
    BY <1>a, <2>3 DEF Lines, Row, HeaderInv, FlagDown
  <2>5. Len(written') = Len(written) + 1
    BY <1>a, <2>3, <2>4, AppendedLine
  <2>6. Rows = Len(written) - 1 /\ Rows' = Len(written)
    BY <2>4, <2>5 DEF Rows
  <2> QED BY <1>a, <2>2, <2>3, <2>4, <2>6 DEF TotalInv
<1>5. ASSUME NEW t \in Threads, Count(t) PROVE TotalInv'
  <2>1. AtCount' = AtCount \ {t} /\ t \in AtCount
    BY <1>5, <1>a DEF Count, Go, AtCount
  <2>2. Cardinality(AtCount') = Cardinality(AtCount) - 1
    BY <1>a, <2>1, FS_RemoveElement
  <2>3. reported = -1 /\ counter' = counter + 1 /\ reported' = reported /\ Rows' = Rows
    BY <1>5, <1>b DEF Count, Go, Rows
  <2> QED BY <1>a, <2>2, <2>3 DEF TotalInv
<1>6. ASSUME NEW t \in Threads, WriteRaises(t) PROVE TotalInv'
  <2>1. AtCount' = AtCount /\ place[t] # "idle"
    BY <1>6, <1>a DEF WriteRaises, AtCount
  <2> QED BY <1>6, <1>b, <2>1, TotalKept DEF WriteRaises, Rows
<1>7. ASSUME Close PROVE TotalInv'
  BY <1>7 DEF Close, TotalInv, AtCount, Rows
<1>8. ASSUME UNCHANGED filesVars PROVE TotalInv'
  BY <1>8 DEF filesVars, TotalInv, AtCount, Rows
<1>9. ASSUME NEW t \in Threads,
             \/ Look(t) \/ Lock(t) \/ Recheck(t) \/ WriteHeader(t) \/ ClearFlag(t)
             \/ WriteRow(t) \/ Count(t) \/ WriteRaises(t)
      PROVE  TotalInv'
  BY <1>9, <1>1, <1>2, <1>3, <1>4, <1>5, <1>6, Zenon
<1> QED BY <1>7, <1>8, <1>9, Zenon DEF FilesNext

(* When close has read the counter, no thread is about to count.  Of any      *)
(* prefix of the lines, all but the header are rows.                          *)
LEMMA TotalInvHolds == ASSUME HeaderInv, TotalInv PROVE FileIsWhole
<1>1. written \in Seq(Lines) /\ DOMAIN written = 1 .. Len(written) /\ Len(written) \in Nat
  BY DEF HeaderInv, FilesTypeOK, Lines
<1>2. flushed \in Nat /\ flushed <= Len(written) /\ InFile = 1 .. flushed
  BY <1>1 DEF HeaderInv, FilesTypeOK, InFile
<1>3. HeaderFirst
  BY <1>1, <1>2 DEF HeaderInv, OneHeader, HeaderFirst
<1> DEFINE rows == {i \in InFile : written[i] # Header}
<1>4. rows = 2 .. flushed
  BY <1>2, <1>3 DEF HeaderFirst
<1>5. Cardinality(2 .. flushed) = IF 2 > flushed THEN 0 ELSE flushed - 2 + 1
  BY <1>2, FS_Interval
<1> HIDE DEF rows
<1>6. Cardinality(rows) = IF flushed = 0 THEN 0 ELSE flushed - 1
  BY <1>2, <1>4, <1>5
<1>7. ASSUME reported >= 0
      PROVE  Cardinality(rows) <= reported /\ (flushed = Len(written) => Cardinality(rows) = reported)
  <2>1. reported # -1 /\ reported = counter /\ counter \in Nat
    BY <1>7 DEF TotalInv
  <2>2. AtCount = {}
    BY <2>1 DEF AtCount, TotalInv
  <2>3. counter = Rows
    BY <2>1, <2>2, FS_EmptySet DEF TotalInv
  <2>4. Rows = IF Len(written) = 0 THEN 0 ELSE Len(written) - 1
    <3>1. written = <<>> <=> Len(written) = 0
      BY <1>1, EmptySeqLen
    <3> QED BY <3>1, Zenon DEF Rows
  <2>5. reported = IF Len(written) = 0 THEN 0 ELSE Len(written) - 1
    BY <2>1, <2>3, <2>4
  <2>6. Len(written) \in Nat /\ flushed \in Nat /\ flushed <= Len(written)
    BY <1>1, <1>2
  <2>7. flushed = Len(written) => Cardinality(rows) = reported
    BY <1>6, <2>5, <2>6
  <2>8. Cardinality(rows) <= reported
    BY <1>6, <2>5, <2>6
  <2> QED BY <2>7, <2>8
<1>8. TotalBoundsRows
  BY <1>7 DEF TotalBoundsRows, rows
<1> QED BY <1>3, <1>8 DEF FileIsWhole

(* Whatever the threads, the items and the failures, the header is the first  *)
(* line of the file and the only one; the number that close logs is that of   *)
(* the other lines if the last flush succeeded, and more than it if not: the  *)
(* double-checked lock of CsvItemExporter.export_item, the counter of         *)
(* CompositeItemExporter.export_item and the close_silently of its close.     *)
THEOREM FileIsWholeTheorem == FilesSpec => []FileIsWhole
<1>1. FilesInit => HeaderInv /\ TotalInv
  BY HeaderInit, TotalInit
<1>2. (HeaderInv /\ TotalInv) /\ [FilesNext]_filesVars => (HeaderInv /\ TotalInv)'
  BY HeaderNext, TotalNext
<1>3. HeaderInv /\ TotalInv => FileIsWhole
  BY TotalInvHolds
<1> QED BY <1>1, <1>2, <1>3, PTL DEF FilesSpec

-----------------------------------------------------------------------------
(* The sinks.  The inductive invariant *)

Messages == [item : Items, orphan : BOOLEAN]
InFlightItems(e) == {m.item : m \in inFlight[e]}

(* TypeOK, with what the code's loops know: the exporters before `at' are done *)
(* with the range of the cycle, and only Kafka's and Pub/Sub's clients buffer. *)
ShapeOK ==
  /\ output \in Outputs /\ output \in Seq(Kinds)
  /\ pc \in {"cycle", "export", "save"}
  /\ synced \in 0 .. LastBlock /\ failures \in 0 .. MaxFailures
  /\ sink \in [Exporters -> SUBSET Items] /\ given_up \in [Exporters -> SUBSET Items]
  /\ inFlight \in [Exporters -> SUBSET Messages]
  /\ \A e \in Exporters : output[e] \notin {"kafka", "pubsub"} => inFlight[e] = {}
CycleOK ==
  /\ pc = "cycle" => at = 0
  /\ pc # "cycle" => synced < LastBlock /\ at \in Exporters
  /\ pc # "export" => todo = {}
  /\ pc = "save" => at = Len(output)
  /\ todo \subseteq AllItems

(* The exporter has dealt with the item: its sink has it, if the exporter looks *)
(* at answers, and else no item is gone without a refusal by the client.        *)
Dealt(e, i) ==
  Stored(e, i) =>
    IF output[e] \in {"pubsub", "postgres", "gcs"} THEN i \in sink[e]
    ELSE i \in sink[e] \cup given_up[e] \cup InFlightItems(e)
(* ... while its call runs: Pub/Sub's client may have it, of this call. *)
Taken(e, i) ==
  Stored(e, i) =>
    \/ Dealt(e, i)
    \/ output[e] = "pubsub" /\ \E m \in inFlight[e] : m.item = i /\ m.orphan = FALSE

PassedOK == \A e \in Exporters : \A i \in Passed : Dealt(e, i)
DoneOK ==
  pc # "cycle" =>
    \A e \in Exporters : (e < at \/ pc = "save") => \A i \in AllItems : Dealt(e, i)
RunningOK == pc = "export" => \A i \in AllItems \ todo : Taken(at, i)

SinksInv == ShapeOK /\ CycleOK /\ PassedOK /\ DoneOK /\ RunningOK /\ RowsHaveBlocks /\ BundlesWhole

-----------------------------------------------------------------------------
(* What no step takes back *)

(* What a sink has, a client refused or buffered stays known. *)
Kept == \A e \in Exporters :
  /\ sink[e] \subseteq sink'[e] /\ given_up[e] \subseteq given_up'[e]
  /\ InFlightItems(e) \subseteq sink'[e] \cup given_up'[e] \cup InFlightItems(e)'

LEMMA DealtStays ==
  ASSUME Kept, output' = output, NEW e \in Exporters, NEW i, Dealt(e, i)
  PROVE  Dealt(e, i)'
BY DEF Kept, Dealt, Stored

LEMMA PassedStays ==
  ASSUME Kept, output' = output, synced' = synced, PassedOK
  PROVE  PassedOK'
<1>1. Passed' = Passed /\ Exporters' = Exporters
  BY DEF Passed, Items, Exporters
<1> QED
  BY <1>1, DealtStays DEF PassedOK

LEMMA DoneStays ==
  ASSUME Kept, UNCHANGED <<output, synced, pc, at>>, DoneOK
  PROVE  DoneOK'
<1>1. AllItems' = AllItems /\ Exporters' = Exporters
  BY DEF AllItems, Target, Exporters
<1> QED
  BY <1>1, DealtStays DEF DoneOK

(* Only their own calls change what tables and buckets hold. *)
LEMMA HalvesStay ==
  ASSUME RowsHaveBlocks, BundlesWhole, output' = output,
         \A e \in Exporters : output[e] \in {"postgres", "gcs"} => sink'[e] = sink[e]
  PROVE  RowsHaveBlocks' /\ BundlesWhole'
BY DEF RowsHaveBlocks, BundlesWhole, Exporters

(* The items of a cycle are items of the stream, above the checkpoint. *)
LEMMA RangeItems ==
  ASSUME ShapeOK
  PROVE  /\ AllItems \subseteq Items
         /\ Target \in 0 .. LastBlock
         /\ \A i \in Items : i.block <= Target => i \in Passed \/ i \in AllItems
<1>1. synced \in Nat /\ LastBlock \in Nat /\ BlockBatchSize \in Nat /\ synced <= LastBlock
  BY ExportersAssumption DEF ShapeOK
<1>2. Target \in Nat /\ Target <= LastBlock
  BY <1>1 DEF Target, Smaller
<1>3. \A b \in synced + 1 .. Target : b \in 1 .. LastBlock
  BY <1>1, <1>2
<1>4. \A b \in 1 .. LastBlock : b <= Target => b <= synced \/ b \in synced + 1 .. Target
  BY <1>1, <1>2
<1>5. \A i \in Items : i.block \in 1 .. LastBlock /\ i.type \in Types
  BY DEF Items
<1>6. \A i \in Items : i.block <= Target => i \in Passed \/ i \in AllItems
  BY <1>4, <1>5 DEF Items, Passed, AllItems
<1>7. AllItems \subseteq Items
  BY <1>3 DEF Items, AllItems
<1> QED
  BY <1>1, <1>2, <1>6, <1>7

-----------------------------------------------------------------------------
(* The cycle *)

LEMMA StartCycleOK ==
  ASSUME SinksInv, StartCycle
  PROVE  SinksInv'
<1> USE DEF SinksInv
<1>1. /\ pc = "cycle" /\ pc' = "export" /\ at' = 1 /\ todo' = AllItems /\ synced < LastBlock
      /\ UNCHANGED <<output, synced, inFlight, sink, given_up, failures>>
  BY DEF StartCycle
<1>2. Kept
  BY <1>1 DEF Kept, InFlightItems
<1>3. ShapeOK'
  BY <1>1 DEF ShapeOK, Exporters
<1>4. 1 \in Exporters /\ \A e \in Exporters : e \in Nat /\ e >= 1
  BY ExportersAssumption DEF ShapeOK, Exporters
<1>5. AllItems' = AllItems /\ Exporters' = Exporters
  BY <1>1 DEF AllItems, Target, Exporters
<1>6. CycleOK'
  BY <1>1, <1>4, <1>5 DEF CycleOK
<1>7. DoneOK'
  BY <1>1, <1>4, <1>5 DEF DoneOK
<1>8. RunningOK'
  BY <1>1, <1>5 DEF RunningOK
<1> QED
  BY <1>1, <1>2, <1>3, <1>6, <1>7, <1>8, PassedStays, HalvesStay

(* An export_items that returned has dealt with every item: what Pub/Sub's *)
(* futures of this call held is in the sink.                               *)
LEMMA ReturnedDealt ==
  ASSUME SinksInv, pc = "export", Published
  PROVE  \A i \in AllItems : Dealt(at, i)
<1>1. todo = {} /\ (output[at] = "pubsub" => \A m \in inFlight[at] : m.orphan)
  BY DEF Published, Kind
<1> SUFFICES ASSUME NEW i \in AllItems
             PROVE  Dealt(at, i)
  OBVIOUS
<1>2. Taken(at, i)
  BY <1>1 DEF SinksInv, RunningOK
<1> QED
  BY <1>1, <1>2 DEF Taken, Dealt

LEMMA NextExporterOK ==
  ASSUME SinksInv, NextExporter
  PROVE  SinksInv'
<1> USE DEF SinksInv
<1>1. /\ pc = "export" /\ Published
      /\ UNCHANGED <<output, synced, inFlight, sink, given_up, failures>>
      /\ \/ at = Len(output) /\ pc' = "save" /\ at' = at /\ todo' = todo
         \/ at # Len(output) /\ at' = at + 1 /\ todo' = AllItems /\ pc' = pc
  BY DEF NextExporter
<1>2. Kept
  BY <1>1 DEF Kept, InFlightItems
<1>3. ShapeOK'
  BY <1>1 DEF ShapeOK, Exporters
<1>4. AllItems' = AllItems /\ Exporters' = Exporters
  BY <1>1 DEF AllItems, Target, Exporters
<1>6. Exporters = 1 .. Len(output) /\ Len(output) \in Nat /\ at \in 1 .. Len(output)
  BY <1>1 DEF ShapeOK, Exporters, CycleOK
<1>7. \A e \in Exporters : e < at \/ e = at => \A i \in AllItems : Dealt(e, i)
  BY <1>1, ReturnedDealt DEF DoneOK
<1>8. \A e, i : Dealt(e, i)' = Dealt(e, i)
  BY <1>1 DEF Dealt, Stored, InFlightItems
<1>9. CASE at = Len(output) /\ pc' = "save" /\ at' = at /\ todo' = todo
  <2>1. todo = {}
    BY <1>1 DEF Published
  <2>2. CycleOK'
    BY <1>1, <1>4, <1>9, <2>1 DEF CycleOK
  <2>3. \A e \in Exporters : e < at \/ e = at
    BY <1>6, <1>9
  <2>4. DoneOK'
    BY <1>4, <1>7, <1>8, <2>3 DEF DoneOK
  <2>5. RunningOK'
    BY <1>9 DEF RunningOK
  <2> QED
    BY <1>1, <1>2, <1>3, <2>2, <2>4, <2>5, PassedStays, HalvesStay
<1>10. CASE at # Len(output) /\ at' = at + 1 /\ todo' = AllItems /\ pc' = pc
  <2>1. at + 1 \in Exporters
    BY <1>6, <1>10
  <2>2. CycleOK'
    BY <1>1, <1>4, <1>10, <2>1 DEF CycleOK
  <2>3. \A e \in Exporters : e < at + 1 => e < at \/ e = at
    BY <1>6
  <2>4. DoneOK'
    BY <1>1, <1>4, <1>7, <1>8, <1>10, <2>3 DEF DoneOK
  <2>5. RunningOK'
    BY <1>4, <1>10 DEF RunningOK
  <2> QED
    BY <1>1, <1>2, <1>3, <2>2, <2>4, <2>5, PassedStays, HalvesStay
<1> QED
  BY <1>1, <1>9, <1>10

LEMMA SaveOK ==
  ASSUME SinksInv, Save
  PROVE  SinksInv'
<1> USE DEF SinksInv
<1>1. /\ pc = "save" /\ pc' = "cycle" /\ at' = 0 /\ synced' = Target /\ todo' = todo
      /\ UNCHANGED <<output, inFlight, sink, given_up, failures>>
  BY DEF Save
<1>2. ShapeOK'
  BY <1>1, RangeItems DEF ShapeOK, Exporters
<1>3. CycleOK'
  BY <1>1 DEF CycleOK
<1>4. \A e, i : Dealt(e, i)' = Dealt(e, i)
  BY <1>1 DEF Dealt, Stored, InFlightItems
<1>5. PassedOK'
  <2>1. \A i \in Passed' : i \in Passed \/ i \in AllItems
    BY <1>1, RangeItems DEF Passed
  <2>2. Exporters' = Exporters
    BY <1>1 DEF Exporters
  <2> QED
    BY <1>1, <1>4, <2>1, <2>2 DEF PassedOK, DoneOK
<1>6. DoneOK' /\ RunningOK'
  BY <1>1 DEF DoneOK, RunningOK
<1> QED
  BY <1>1, <1>2, <1>3, <1>5, <1>6, HalvesStay

-----------------------------------------------------------------------------
(* export_items of the exporters *)

(* A step of a running call takes items of `todo', each into its sink, its     *)
(* client's buffer or among the refused.                                       *)
LEMMA CallStep ==
  ASSUME SinksInv, pc = "export", ShapeOK', Kept, todo' \subseteq todo,
         UNCHANGED <<output, pc, synced, at>>,
         \A i \in AllItems \ todo : Taken(at, i) => Taken(at, i)',
         \A i \in todo \ todo' : Taken(at, i)',
         RowsHaveBlocks', BundlesWhole'
  PROVE  SinksInv'
<1> USE DEF SinksInv
<1>1. AllItems' = AllItems /\ Exporters' = Exporters
  BY DEF AllItems, Target, Exporters
<1>2. CycleOK'
  BY <1>1 DEF CycleOK
<1>3. RunningOK'
  BY <1>1 DEF RunningOK
<1> QED
  BY <1>2, <1>3, PassedStays, DoneStays

LEMMA SendOneOK ==
  ASSUME SinksInv, SendOne
  PROVE  SinksInv'
<1> USE DEF SinksInv
<1>1. PICK i \in todo :
        /\ inFlight' = [inFlight EXCEPT ![at] = @ \cup {[item |-> i, orphan |-> FALSE]}]
        /\ todo' = todo \ {i}
  BY DEF SendOne
<1>2. /\ pc = "export" /\ output[at] \in {"kafka", "pubsub"}
      /\ UNCHANGED <<output, pc, synced, at, sink, given_up, failures>>
  BY DEF SendOne, Kind
<1>3. at \in Exporters /\ i \in Items
  BY <1>2, RangeItems DEF CycleOK
<1>4. inFlight' \in [Exporters -> SUBSET Messages]
  <2>1. [item |-> i, orphan |-> FALSE] \in Messages
    BY <1>3 DEF Messages
  <2> QED
    BY <1>1, <1>3, <2>1 DEF ShapeOK
<1>5. /\ inFlight'[at] = inFlight[at] \cup {[item |-> i, orphan |-> FALSE]}
      /\ \A e \in Exporters : e # at => inFlight'[e] = inFlight[e]
  BY <1>1, <1>3 DEF ShapeOK
<1>6. ShapeOK'
  <2>1. Exporters' = Exporters
    BY <1>2 DEF Exporters
  <2>2. \A e \in Exporters : output[e] \notin {"kafka", "pubsub"} => inFlight'[e] = {}
    BY <1>2, <1>5 DEF ShapeOK
  <2> QED
    BY <1>2, <1>4, <2>1, <2>2 DEF ShapeOK
<1>7. \A e \in Exporters : InFlightItems(e) \subseteq InFlightItems(e)'
  BY <1>5 DEF InFlightItems
<1>8. Kept
  BY <1>2, <1>7 DEF Kept
<1>9. \A j : Taken(at, j) => Taken(at, j)'
  BY <1>2, <1>3, <1>5, <1>8, DealtStays DEF Taken, Stored
<1>10. Taken(at, i)'
  <2>1. \E m \in inFlight'[at] : m.item = i /\ m.orphan = FALSE
    <3>1. [item |-> i, orphan |-> FALSE] \in inFlight'[at]
      BY <1>5
    <3>2. /\ [item |-> i, orphan |-> FALSE].item = i
          /\ [item |-> i, orphan |-> FALSE].orphan = FALSE
      OBVIOUS
    <3> QED
      BY <3>1, <3>2, Zenon
  <2>2. i \in InFlightItems(at)'
    BY <1>2, <2>1 DEF InFlightItems
  <2> QED
    BY <1>2, <2>1, <2>2 DEF Taken, Dealt
<1>11. RowsHaveBlocks' /\ BundlesWhole'
  BY <1>2, HalvesStay
<1> QED
  BY <1>1, <1>2, <1>6, <1>8, <1>9, <1>10, <1>11, CallStep

LEMMA PutRecordsOK ==
  ASSUME SinksInv, PutRecords
  PROVE  SinksInv'
<1> USE DEF SinksInv
<1>12. PICK chunk \in SUBSET todo : \E accepted \in SUBSET chunk :
        /\ accepted # chunk => failures < MaxFailures
        /\ failures' = IF accepted = chunk THEN failures ELSE failures + 1
        /\ sink' = [sink EXCEPT ![at] = @ \cup accepted]
        /\ given_up' = [given_up EXCEPT ![at] = @ \cup (chunk \ accepted)]
        /\ todo' = todo \ chunk
  BY DEF PutRecords
<1>1. PICK accepted \in SUBSET chunk :
        /\ accepted # chunk => failures < MaxFailures
        /\ failures' = IF accepted = chunk THEN failures ELSE failures + 1
        /\ sink' = [sink EXCEPT ![at] = @ \cup accepted]
        /\ given_up' = [given_up EXCEPT ![at] = @ \cup (chunk \ accepted)]
        /\ todo' = todo \ chunk
  BY <1>12
<1>2. /\ pc = "export" /\ output[at] = "kinesis"
      /\ UNCHANGED <<output, pc, synced, at, inFlight>>
  BY DEF PutRecords, Kind
<1>3. at \in Exporters /\ chunk \subseteq Items
  BY <1>2, RangeItems DEF CycleOK
<1>4. /\ sink' \in [Exporters -> SUBSET Items] /\ given_up' \in [Exporters -> SUBSET Items]
      /\ sink'[at] = sink[at] \cup accepted
      /\ given_up'[at] = given_up[at] \cup (chunk \ accepted)
      /\ \A e \in Exporters : e # at => sink'[e] = sink[e] /\ given_up'[e] = given_up[e]
  BY <1>1, <1>3 DEF ShapeOK
<1>5. failures' \in 0 .. MaxFailures
  BY <1>1, ExportersAssumption DEF ShapeOK
<1>6. ShapeOK'
  <2>1. Exporters' = Exporters
    BY <1>2 DEF Exporters
  <2> QED
    BY <1>2, <1>4, <1>5, <2>1 DEF ShapeOK
<1>7. Kept
  BY <1>2, <1>4 DEF Kept, InFlightItems
<1>8. \A j : Taken(at, j) => Taken(at, j)'
  BY <1>2, <1>3, <1>7, DealtStays DEF Taken, Stored
<1>9. \A i \in chunk : Taken(at, i)'
  BY <1>2, <1>4 DEF Taken, Dealt
<1>10. RowsHaveBlocks' /\ BundlesWhole'
  BY <1>2, <1>4, HalvesStay
<1>11. \A i \in todo \ todo' : i \in chunk
  BY <1>1
<1> QED
  BY <1>1, <1>2, <1>6, <1>7, <1>8, <1>9, <1>10, <1>11, CallStep

(* Statements and uploads: the sink takes all of `group' that it stores. *)
LEMMA StoreStep ==
  ASSUME SinksInv, pc = "export", output[at] \in {"postgres", "gcs"},
         NEW group \in SUBSET todo, todo' = todo \ group,
         sink' = [sink EXCEPT ![at] = @ \cup {i \in group : Stored(at, i)}],
         UNCHANGED <<output, pc, synced, at, inFlight, given_up, failures>>,
         RowsHaveBlocks', BundlesWhole'
  PROVE  SinksInv'
<1> USE DEF SinksInv
<1>1. at \in Exporters /\ group \subseteq Items
  BY RangeItems DEF CycleOK
<1>2. /\ sink' \in [Exporters -> SUBSET Items]
      /\ sink'[at] = sink[at] \cup {i \in group : Stored(at, i)}
      /\ \A e \in Exporters : e # at => sink'[e] = sink[e]
  BY <1>1 DEF ShapeOK
<1>3. ShapeOK'
  BY <1>2 DEF ShapeOK, Exporters
<1>4. Kept
  BY <1>2 DEF Kept, InFlightItems
<1>5. \A j : Taken(at, j) => Taken(at, j)'
  BY <1>1, <1>4, DealtStays DEF Taken, Stored
<1>6. \A i \in group : Taken(at, i)'
  <2>1. \A i : Stored(at, i)' = Stored(at, i)
    BY DEF Stored
  <2> QED
    BY <1>2, <2>1 DEF Taken, Dealt
<1>7. \A i \in todo \ todo' : i \in group
  OBVIOUS
<1> QED
  BY <1>3, <1>4, <1>5, <1>6, <1>7, CallStep

(* Of the range of a running call, what is stored and not in `todo' is in the *)
(* tables or the bucket.                                                      *)
LEMMA StoredAlready ==
  ASSUME SinksInv, pc = "export", output[at] \in {"postgres", "gcs"},
         NEW i \in AllItems, i \notin todo, Stored(at, i)
  PROVE  i \in sink[at]
BY DEF SinksInv, RunningOK, Taken, Dealt

LEMMA InsertGroupOK ==
  ASSUME SinksInv, InsertGroup
  PROVE  SinksInv'
<1>1. PICK k \in DOMAIN TableOrder :
        /\ \A j \in 1 .. k - 1 : OfType(TableOrder[j]) = {}
        /\ sink' = [sink EXCEPT ![at] = @ \cup OfType(TableOrder[k])]
        /\ todo' = todo \ OfType(TableOrder[k])
  BY DEF InsertGroup
<1> DEFINE group == OfType(TableOrder[k])
<1>2. /\ pc = "export" /\ output[at] = "postgres"
      /\ UNCHANGED <<output, pc, synced, at, inFlight, given_up, failures>>
  BY DEF InsertGroup, Kind
<1>3. at \in Exporters /\ todo \subseteq AllItems /\ sink \in [Exporters -> SUBSET Items]
  BY <1>2 DEF SinksInv, CycleOK, ShapeOK
<1>4. group \subseteq todo /\ \A i \in group : i.type = TableOrder[k]
  BY DEF OfType
<1>5. \A i : Stored(at, i)
  BY <1>2 DEF Stored
<1>6. sink' = [sink EXCEPT ![at] = @ \cup {i \in group : Stored(at, i)}]
  <2>1. group = {i \in group : Stored(at, i)}
    BY <1>5
  <2> QED
    BY <1>1, <2>1
<1>7. sink'[at] = sink[at] \cup group /\ \A e \in Exporters : e # at => sink'[e] = sink[e]
  BY <1>1, <1>3
<1>8. RowsHaveBlocks'
  <2> SUFFICES ASSUME "block" \in Types, NEW i \in group
               PROVE  Item(i.block, "block") \in sink'[at]
    BY <1>2, <1>7 DEF RowsHaveBlocks, Exporters, SinksInv
  <2>1. i \in AllItems /\ Item(i.block, "block") \in AllItems
    BY <1>3, <1>4 DEF AllItems, Item
  <2>2. CASE Item(i.block, "block") \notin todo
    <3>1. Item(i.block, "block") \in sink[at]
      BY <1>2, <1>5, <2>1, <2>2, StoredAlready
    <3> QED
      BY <1>7, <3>1
  <2>3. CASE Item(i.block, "block") \in todo
    <3>1. Item(i.block, "block") \in OfType(TableOrder[1])
      BY <2>3, BlocksFirst DEF OfType, Item
    <3>2. 1 \in 1 .. k - 1 \/ k = 1
      BY ExportersAssumption
    <3> QED
      BY <1>1, <1>7, <3>1, <3>2
  <2> QED
    BY <2>2, <2>3
<1>9. BundlesWhole'
  BY <1>2, <1>7 DEF BundlesWhole, Exporters, SinksInv
<1> HIDE DEF group
<1> QED
  BY <1>1, <1>2, <1>4, <1>6, <1>8, <1>9, StoreStep DEF group

LEMMA UploadOK ==
  ASSUME SinksInv, Upload
  PROVE  SinksInv'
<1>1. PICK first \in todo :
        LET of == {i \in todo : i.block = first.block}
        IN  /\ sink' = [sink EXCEPT ![at] = @ \cup {i \in of : Stored(at, i)}]
            /\ todo' = todo \ of
  BY DEF Upload
<1> DEFINE group == {i \in todo : i.block = first.block}
<1>2. /\ pc = "export" /\ output[at] = "gcs"
      /\ UNCHANGED <<output, pc, synced, at, inFlight, given_up, failures>>
  BY DEF Upload, Kind
<1>3. at \in Exporters /\ todo \subseteq AllItems /\ sink \in [Exporters -> SUBSET Items]
  BY <1>2 DEF SinksInv, CycleOK, ShapeOK
<1>4. /\ sink' = [sink EXCEPT ![at] = @ \cup {i \in group : Stored(at, i)}]
      /\ todo' = todo \ group /\ group \subseteq todo
  BY <1>1
<1>5. /\ sink'[at] = sink[at] \cup {i \in group : Stored(at, i)}
      /\ \A e \in Exporters : e # at => sink'[e] = sink[e]
  BY <1>3, <1>4
<1>6. BundlesWhole'
  <2> SUFFICES ASSUME NEW i \in group, Stored(at, i), NEW type \in Bundled
               PROVE  Item(i.block, type) \in sink'[at]
    BY <1>2, <1>5 DEF BundlesWhole, Exporters, SinksInv
  <2>1. Item(i.block, type) \in AllItems /\ Item(i.block, type).block = first.block
    BY <1>3, ExportersAssumption DEF AllItems, Item
  <2>2. Stored(at, Item(i.block, type))
    BY <1>2 DEF Stored, Item
  <2>3. CASE Item(i.block, type) \in todo
    BY <1>5, <2>1, <2>2, <2>3
  <2>4. CASE Item(i.block, type) \notin todo
    <3>1. Item(i.block, type) \in sink[at]
      BY <1>2, <2>1, <2>2, <2>4, StoredAlready
    <3> QED
      BY <1>5, <3>1
  <2> QED
    BY <2>3, <2>4
<1>7. RowsHaveBlocks'
  BY <1>2, <1>5 DEF RowsHaveBlocks, Exporters, SinksInv
<1> HIDE DEF group
<1> QED
  BY <1>2, <1>4, <1>6, <1>7, StoreStep

-----------------------------------------------------------------------------
(* The clients, failures and crashes *)

(* A step of a client's thread, as long as it does not end the cycle. *)
LEMMA ClientStep ==
  ASSUME SinksInv, ShapeOK', Kept, UNCHANGED <<output, pc, synced, at, todo>>,
         pc = "export" => \A i \in AllItems \ todo : Taken(at, i)',
         \A e \in Exporters : output[e] \in {"postgres", "gcs"} => sink'[e] = sink[e]
  PROVE  SinksInv'
<1> USE DEF SinksInv
<1>1. AllItems' = AllItems /\ Exporters' = Exporters
  BY DEF AllItems, Target, Exporters
<1>2. CycleOK'
  BY <1>1 DEF CycleOK
<1>3. RunningOK'
  BY <1>1 DEF RunningOK
<1> QED
  BY <1>2, <1>3, PassedStays, DoneStays, HalvesStay

LEMMA DeliverOK ==
  ASSUME SinksInv, NEW e \in Exporters, NEW m \in inFlight[e], Deliver(e, m)
  PROVE  SinksInv'
<1> USE DEF SinksInv
<1>1. /\ inFlight' = [inFlight EXCEPT ![e] = @ \ {m}]
      /\ sink' = [sink EXCEPT ![e] = @ \cup {m.item}]
      /\ UNCHANGED <<output, pc, synced, at, todo, given_up, failures>>
  BY DEF Deliver, Without
<1>2. /\ inFlight'[e] = inFlight[e] \ {m} /\ sink'[e] = sink[e] \cup {m.item}
      /\ \A x \in Exporters : x # e => inFlight'[x] = inFlight[x] /\ sink'[x] = sink[x]
  BY <1>1 DEF ShapeOK
<1>3. ShapeOK'
  <2>1. m.item \in Items
    BY DEF ShapeOK, Messages
  <2>2. inFlight' \in [Exporters -> SUBSET Messages] /\ sink' \in [Exporters -> SUBSET Items]
    BY <1>1, <2>1 DEF ShapeOK
  <2>3. \A x \in Exporters : output[x] \notin {"kafka", "pubsub"} => inFlight'[x] = {}
    BY <1>2 DEF ShapeOK
  <2>4. Exporters' = Exporters
    BY <1>1 DEF Exporters
  <2> QED
    BY <1>1, <2>2, <2>3, <2>4 DEF ShapeOK
<1>4. Kept
  <2>1. InFlightItems(e) \subseteq sink'[e] \cup InFlightItems(e)'
    BY <1>2 DEF InFlightItems
  <2> QED
    BY <1>1, <1>2, <2>1 DEF Kept, InFlightItems
<1>5. ASSUME pc = "export", NEW i, Taken(at, i)
      PROVE  Taken(at, i)'
  <2>1. at \in Exporters
    BY <1>5 DEF CycleOK
  <2>2. CASE Stored(at, i) => Dealt(at, i)
    BY <1>1, <1>4, <2>1, <2>2, DealtStays DEF Taken, Stored, Dealt
  <2>3. CASE output[at] = "pubsub" /\ \E n \in inFlight[at] : n.item = i /\ n.orphan = FALSE
    <3>1. PICK n \in inFlight[at] : n.item = i /\ n.orphan = FALSE
      BY <2>3
    <3>2. CASE at = e /\ n = m
      <4>1. i \in sink'[at]
        BY <1>2, <3>1, <3>2
      <4> QED
        BY <1>1, <2>3, <4>1 DEF Taken, Dealt
    <3>3. CASE ~(at = e /\ n = m)
      <4>1. n \in inFlight'[at]
        BY <1>2, <2>1, <3>3
      <4>2. output'[at'] = "pubsub" /\ \E o \in inFlight'[at'] : o.item = i /\ o.orphan = FALSE
        BY <1>1, <2>3, <3>1, <4>1
      <4> QED
        BY <4>2 DEF Taken
    <3> QED
      BY <3>2, <3>3
  <2> QED
    BY <1>5, <2>2, <2>3 DEF Taken
<1>6. \A x \in Exporters : output[x] \in {"postgres", "gcs"} => sink'[x] = sink[x]
  BY <1>2 DEF ShapeOK
<1> QED
  BY <1>1, <1>3, <1>4, <1>5, <1>6, ClientStep DEF RunningOK

(* GiveUp leaves the items of the messages as they are. *)
LEMMA Orphans ==
  ASSUME NEW buffers \in [Exporters -> SUBSET Messages], GiveUp(buffers)
  PROVE  /\ inFlight' \in [Exporters -> SUBSET Messages]
         /\ \A e \in Exporters : {m.item : m \in inFlight'[e]} = {m.item : m \in buffers[e]}
         /\ \A e \in Exporters : buffers[e] = {} => inFlight'[e] = {}
<1>1. inFlight' = [e \in Exporters |-> {[m EXCEPT !.orphan = TRUE] : m \in buffers[e]}]
  BY DEF GiveUp
<1>2. \A m \in Messages :
        [m EXCEPT !.orphan = TRUE] \in Messages /\ [m EXCEPT !.orphan = TRUE].item = m.item
  BY DEF Messages
<1>3. \A e \in Exporters : buffers[e] \subseteq Messages
  OBVIOUS
<1>4. inFlight' \in [Exporters -> SUBSET Messages]
  BY <1>1, <1>2, <1>3
<1>5. ASSUME NEW e \in Exporters
      PROVE  {m.item : m \in inFlight'[e]} = {m.item : m \in buffers[e]}
  <2>1. inFlight'[e] = {[m EXCEPT !.orphan = TRUE] : m \in buffers[e]}
    BY <1>1
  <2>2. \A n \in inFlight'[e] : \E m \in buffers[e] : n.item = m.item
    BY <1>2, <1>3, <2>1
  <2>3. \A m \in buffers[e] : \E n \in inFlight'[e] : n.item = m.item
    BY <1>2, <1>3, <2>1
  <2> QED
    BY <2>2, <2>3
<1>6. \A e \in Exporters : buffers[e] = {} => inFlight'[e] = {}
  BY <1>1
<1> QED
  BY <1>4, <1>5, <1>6

(* Every end of a cycle by an exception or a crash. *)
LEMMA EndStep ==
  ASSUME SinksInv, NEW buffers \in [Exporters -> SUBSET Messages], GiveUp(buffers),
         \A e \in Exporters : buffers[e] \subseteq inFlight[e],
         \A e \in Exporters : \A m \in inFlight[e] \ buffers[e] : m.item \in given_up'[e],
         given_up' \in [Exporters -> SUBSET Items],
         \A e \in Exporters : given_up[e] \subseteq given_up'[e],
         failures' \in 0 .. MaxFailures, UNCHANGED <<output, synced, sink>>
  PROVE  SinksInv'
<1> USE DEF SinksInv
<1>1. pc' = "cycle" /\ at' = 0 /\ todo' = {}
  BY DEF GiveUp
<1>2. ShapeOK'
  <2>1. Exporters' = Exporters
    BY DEF Exporters
  <2>2. \A e \in Exporters : output[e] \notin {"kafka", "pubsub"} => buffers[e] = {}
    BY DEF ShapeOK
  <2>3. \A e \in Exporters : output[e] \notin {"kafka", "pubsub"} => inFlight'[e] = {}
    BY <2>2, Orphans
  <2>4. inFlight' \in [Exporters -> SUBSET Messages]
    BY Orphans
  <2> QED
    BY <1>1, <2>1, <2>3, <2>4 DEF ShapeOK
<1>3. CycleOK'
  BY <1>1 DEF CycleOK
<1>4. Kept
  <2>1. \A e \in Exporters : InFlightItems(e)' = {m.item : m \in buffers[e]}
    BY Orphans DEF InFlightItems
  <2> QED
    BY <2>1 DEF Kept, InFlightItems
<1>5. DoneOK' /\ RunningOK'
  BY <1>1 DEF DoneOK, RunningOK
<1> QED
  BY <1>2, <1>3, <1>4, <1>5, PassedStays, HalvesStay

LEMMA DeliveryFailsOK ==
  ASSUME SinksInv, NEW e \in Exporters, NEW m \in inFlight[e], DeliveryFails(e, m)
  PROVE  SinksInv'
<1> USE DEF SinksInv
<1>1. /\ failures < MaxFailures /\ failures' = failures + 1
      /\ given_up' = [given_up EXCEPT ![e] = @ \cup {m.item}]
      /\ UNCHANGED <<output, synced, sink>>
      /\ IF output[e] = "pubsub" /\ ~m.orphan THEN GiveUp(Without(e, m))
         ELSE inFlight' = Without(e, m) /\ UNCHANGED <<pc, at, todo>>
  BY DEF DeliveryFails
<1>2. Without(e, m) \in [Exporters -> SUBSET Messages]
  BY DEF Without, ShapeOK
<1>3. /\ Without(e, m)[e] = inFlight[e] \ {m}
      /\ \A x \in Exporters : x # e => Without(e, m)[x] = inFlight[x]
  BY DEF Without, ShapeOK
<1>4. m.item \in Items
  BY DEF ShapeOK, Messages
<1>5. /\ given_up' \in [Exporters -> SUBSET Items] /\ given_up'[e] = given_up[e] \cup {m.item}
      /\ \A x \in Exporters : x # e => given_up'[x] = given_up[x]
  BY <1>1, <1>4 DEF ShapeOK
<1>6. failures' \in 0 .. MaxFailures
  BY <1>1, ExportersAssumption DEF ShapeOK
<1>7. CASE output[e] = "pubsub" /\ ~m.orphan
  <2>1. \A x \in Exporters : Without(e, m)[x] \subseteq inFlight[x]
    BY <1>3
  <2>2. \A x \in Exporters : \A n \in inFlight[x] \ Without(e, m)[x] : n.item \in given_up'[x]
    BY <1>3, <1>5
  <2>3. \A x \in Exporters : given_up[x] \subseteq given_up'[x]
    BY <1>5
  <2> QED
    BY <1>1, <1>2, <1>5, <1>6, <1>7, <2>1, <2>2, <2>3, EndStep
<1>8. CASE ~(output[e] = "pubsub" /\ ~m.orphan)
  <2>1. inFlight' = Without(e, m) /\ UNCHANGED <<pc, at, todo>>
    BY <1>1, <1>8
  <2>2. ShapeOK'
    <3>1. Exporters' = Exporters
      BY <1>1 DEF Exporters
    <3>2. \A x \in Exporters : output[x] \notin {"kafka", "pubsub"} => inFlight'[x] = {}
      BY <1>3, <2>1 DEF ShapeOK
    <3> QED
      BY <1>1, <1>2, <1>5, <1>6, <2>1, <3>1, <3>2 DEF ShapeOK
  <2>3. Kept
    <3>1. InFlightItems(e) \subseteq given_up'[e] \cup InFlightItems(e)'
      BY <1>3, <1>5, <2>1 DEF InFlightItems
    <3> QED
      BY <1>1, <1>3, <1>5, <2>1, <3>1 DEF Kept, InFlightItems
  <2>4. ASSUME pc = "export", NEW i, Taken(at, i)
        PROVE  Taken(at, i)'
    <3>1. at \in Exporters
      BY <2>4 DEF CycleOK
    <3>2. CASE Stored(at, i) => Dealt(at, i)
      BY <1>1, <2>1, <2>3, <3>1, <3>2, DealtStays DEF Taken, Stored, Dealt
    <3>3. CASE output[at] = "pubsub" /\ \E n \in inFlight[at] : n.item = i /\ n.orphan = FALSE
      <4>1. PICK n \in inFlight[at] : n.item = i /\ n.orphan = FALSE
        BY <3>3
      <4>2. at # e \/ n # m
        BY <1>8, <3>3, <4>1
      <4>3. n \in inFlight'[at]
        BY <1>3, <2>1, <3>1, <4>2
      <4>4. output'[at'] = "pubsub" /\ \E o \in inFlight'[at'] : o.item = i /\ o.orphan = FALSE
        BY <1>1, <2>1, <3>3, <4>1, <4>3
      <4> QED
        BY <4>4 DEF Taken
    <3> QED
      BY <2>4, <3>2, <3>3 DEF Taken
  <2> QED
    BY <1>1, <2>1, <2>2, <2>3, <2>4, ClientStep DEF RunningOK
<1> QED
  BY <1>7, <1>8

LEMMA RaiseOK ==
  ASSUME SinksInv, Raise
  PROVE  SinksInv'
<1>1. /\ failures < MaxFailures /\ failures' = failures + 1 /\ GiveUp(inFlight)
      /\ UNCHANGED <<output, synced, sink, given_up>>
  BY DEF Raise
<1>2. failures' \in 0 .. MaxFailures
  BY <1>1, ExportersAssumption DEF SinksInv, ShapeOK
<1>3. inFlight \in [Exporters -> SUBSET Messages] /\ given_up' \in [Exporters -> SUBSET Items]
  BY <1>1 DEF SinksInv, ShapeOK
<1> QED
  BY <1>1, <1>2, <1>3, EndStep

LEMMA StopOK ==
  ASSUME SinksInv, Stop
  PROVE  SinksInv'
<1> DEFINE none == [e \in Exporters |-> {}]
<1>1. /\ failures < MaxFailures /\ failures' = failures + 1 /\ GiveUp(none)
      /\ given_up' = [e \in Exporters |-> given_up[e] \cup {m.item : m \in inFlight[e]}]
      /\ UNCHANGED <<output, synced, sink>>
  BY DEF Stop
<1>2. failures' \in 0 .. MaxFailures
  BY <1>1, ExportersAssumption DEF SinksInv, ShapeOK
<1>3. none \in [Exporters -> SUBSET Messages] /\ \A e \in Exporters : none[e] = {}
  OBVIOUS
<1>4. \A e \in Exporters : \A m \in inFlight[e] : m.item \in Items
  BY DEF SinksInv, ShapeOK, Messages
<1>5. \A e \in Exporters : given_up'[e] = given_up[e] \cup {m.item : m \in inFlight[e]}
  BY <1>1
<1>6. \A e \in Exporters : given_up[e] \cup {m.item : m \in inFlight[e]} \subseteq Items
  BY <1>4 DEF SinksInv, ShapeOK
<1>7. given_up' \in [Exporters -> SUBSET Items]
  BY <1>1, <1>6
<1> HIDE DEF none
<1>8. \A e \in Exporters : \A m \in inFlight[e] \ none[e] : m.item \in given_up'[e]
  BY <1>5
<1>9. \A e \in Exporters : none[e] \subseteq inFlight[e] /\ given_up[e] \subseteq given_up'[e]
  BY <1>3, <1>5
<1> QED
  BY <1>1, <1>2, <1>3, <1>7, <1>8, <1>9, EndStep

-----------------------------------------------------------------------------
(* The theorems *)

LEMMA SinksInit == Init => SinksInv
<1> SUFFICES ASSUME Init
             PROVE  SinksInv
  OBVIOUS
<1>1. /\ output \in Outputs /\ pc = "cycle" /\ synced = 0 /\ at = 0 /\ todo = {}
      /\ inFlight = [e \in Exporters |-> {}] /\ sink = [e \in Exporters |-> {}]
      /\ given_up = [e \in Exporters |-> {}] /\ failures = 0
  BY DEF Init
<1>2. ShapeOK
  <2>1. 0 \in 0 .. LastBlock /\ 0 \in 0 .. MaxFailures
    BY ExportersAssumption
  <2> QED
    BY <1>1, <2>1, ExportersAssumption DEF ShapeOK
<1>3. CycleOK
  BY <1>1 DEF CycleOK
<1>4. Passed = {}
  BY <1>1 DEF Passed, Items
<1>5. PassedOK /\ DoneOK /\ RunningOK
  BY <1>1, <1>4 DEF PassedOK, DoneOK, RunningOK
<1>6. RowsHaveBlocks /\ BundlesWhole
  BY <1>1 DEF RowsHaveBlocks, BundlesWhole
<1> QED
  BY <1>2, <1>3, <1>5, <1>6 DEF SinksInv

LEMMA SinksStutter ==
  ASSUME SinksInv, UNCHANGED vars
  PROVE  SinksInv'
BY DEF vars, SinksInv, ShapeOK, CycleOK, PassedOK, DoneOK, RunningOK, RowsHaveBlocks, BundlesWhole,
   Exporters, AllItems, Target, Passed, Dealt, Taken, Stored, InFlightItems

LEMMA SinksNext ==
  ASSUME SinksInv, [Next]_vars
  PROVE  SinksInv'
<1>1. CASE StartCycle \/ NextExporter \/ Save
  BY <1>1, StartCycleOK, NextExporterOK, SaveOK
<1>2. CASE SendOne \/ PutRecords \/ InsertGroup \/ Upload
  BY <1>2, SendOneOK, PutRecordsOK, InsertGroupOK, UploadOK
<1>3. CASE Sent
  BY <1>3, DeliverOK DEF Sent
<1>4. CASE Fails
  BY <1>4, DeliveryFailsOK DEF Fails
<1>5. CASE Raise \/ Stop
  BY <1>5, RaiseOK, StopOK
<1>6. CASE UNCHANGED vars
  BY <1>6, SinksStutter
<1> QED
  BY <1>1, <1>2, <1>3, <1>4, <1>5, <1>6 DEF Next, Step

LEMMA SinksAlways == Spec => []SinksInv
<1>1. SinksInv /\ [Next]_vars => SinksInv'
  BY SinksNext
<1> QED
  BY SinksInit, <1>1, PTL DEF Spec

(* The exporters of the streaming command, in any --output list: a block that *)
(* the checkpoint passed is in every Pub/Sub topic, table and bundle, and of  *)
(* what Kafka and Kinesis do not have, nothing is lost that their clients did *)
(* not refuse or still buffer; whatever was raised, timed out or crashed.     *)
THEOREM NothingSkippedTheorem == Spec => []NothingSkipped
<1>1. SinksInv => NothingSkipped
  <2> SUFFICES ASSUME SinksInv
               PROVE  NothingSkipped
    OBVIOUS
  <2> USE DEF SinksInv
  <2>1. at \in 0 .. Len(output)
    BY DEF CycleOK, ShapeOK, Exporters
  <2>2. \A e \in Exporters : \A m \in inFlight[e] : m.item \in Items /\ m.orphan \in BOOLEAN
    BY DEF ShapeOK, Messages
  <2>3. TypeOK
    BY <2>1, <2>2 DEF TypeOK, ShapeOK, CycleOK
  <2>4. AcceptedBeforeCheckpoint
    BY DEF AcceptedBeforeCheckpoint, PassedOK, Dealt
  <2>5. NothingElseLost
    BY DEF NothingElseLost, PassedOK, Dealt, InFlightItems
  <2> QED
    BY <2>3, <2>4, <2>5 DEF NothingSkipped
<1> QED
  BY <1>1, SinksAlways, PTL

(* Whatever fails in between, no table has a row whose block row is missing,  *)
(* and no bundle in the bucket lacks items of its block.                      *)
THEOREM NothingHalfTheorem == Spec => []NothingHalf
<1>1. SinksInv => NothingHalf
  BY DEF SinksInv, NothingHalf
<1> QED
  BY <1>1, SinksAlways, PTL

-----------------------------------------------------------------------------
(* Traces *)

Addresses == Seq(Nat)
PrefixOf(a, b) == Len(a) <= Len(b) /\ \A m \in 1 .. Len(a) : a[m] = b[m]
EarlierBranch(a, b) ==
  \E k \in (DOMAIN a) \cap (DOMAIN b) : (\A m \in 1 .. k - 1 : a[m] = b[m]) /\ a[k] < b[k]

(* The order in which a tree of calls is gone through *)
ComesBefore(a, b) == (PrefixOf(a, b) /\ Len(a) < Len(b)) \/ EarlierBranch(a, b)

LEMMA AddressIs ==
  ASSUME NEW a \in Addresses
  PROVE  /\ Len(a) \in Nat /\ DOMAIN a = 1 .. Len(a) /\ \A m \in 1 .. Len(a) : a[m] \in Nat
BY DEF Addresses

LEMMA PrefixIs ==
  ASSUME NEW a \in Addresses, NEW b \in Addresses
  PROVE  /\ IsPrefix(a, b) <=> PrefixOf(a, b)
         /\ PrefixOf(a, b) /\ Len(a) = Len(b) => a = b
<1>1. a \in Seq(Nat) /\ b \in Seq(Nat)
  BY DEF Addresses
<1>2. IsPrefix(a, b) <=> PrefixOf(a, b)
  <2>1. CASE Len(a) <= Len(b)
    <3>1. /\ Len(SubSeq(a, 1, Len(a))) = Len(a) /\ Len(SubSeq(b, 1, Len(a))) = Len(a)
          /\ \A m \in 1 .. Len(a) : SubSeq(a, 1, Len(a))[m] = a[m] /\ SubSeq(b, 1, Len(a))[m] = b[m]
          /\ SubSeq(a, 1, Len(a)) \in Seq(Nat) /\ SubSeq(b, 1, Len(a)) \in Seq(Nat)
      BY <1>1, <2>1
    <3> QED
      BY <1>1, <2>1, <3>1 DEF IsPrefix, PrefixOf
  <2>2. CASE ~(Len(a) <= Len(b))
    BY <2>2 DEF IsPrefix, PrefixOf
  <2> QED
    BY <2>1, <2>2
<1>3. PrefixOf(a, b) /\ Len(a) = Len(b) => a = b
  <2>1. \A x, y \in Seq(Nat) : Len(x) = Len(y) /\ (\A m \in 1 .. Len(x) : x[m] = y[m]) => x = y
    OBVIOUS
  <2> QED
    BY <1>1, <2>1 DEF PrefixOf
<1> QED
  BY <1>2, <1>3

LEMMA ChildIs ==
  ASSUME NEW a \in Addresses, NEW c \in Nat
  PROVE  /\ Append(a, c) \in Addresses /\ Len(Append(a, c)) = Len(a) + 1 /\ Len(a) \in Nat
         /\ DOMAIN Append(a, c) = 1 .. Len(a) + 1
         /\ Append(a, c)[Len(a) + 1] = c /\ \A m \in 1 .. Len(a) : Append(a, c)[m] = a[m]
         /\ Front(Append(a, c)) = a
<1>1. a \in Seq(Nat) /\ Append(a, c) \in Seq(Nat)
  BY DEF Addresses
<1>2. /\ Len(Append(a, c)) = Len(a) + 1 /\ Append(a, c)[Len(a) + 1] = c /\ Len(a) \in Nat
      /\ DOMAIN Append(a, c) = 1 .. Len(a) + 1
      /\ \A m \in 1 .. Len(a) : Append(a, c)[m] = a[m]
  BY <1>1
<1>3. Front(Append(a, c)) = a
  BY <1>1 DEF Front
<1> QED
  BY <1>1, <1>2, <1>3 DEF Addresses

LEMMA BeforeDiffers ==
  ASSUME NEW a \in Addresses, NEW b \in Addresses, ComesBefore(a, b)
  PROVE  a # b
BY AddressIs DEF ComesBefore, EarlierBranch

LEMMA BeforeBelow ==
  ASSUME NEW a \in Addresses, NEW b \in Addresses, NEW c \in Nat, ComesBefore(a, b)
  PROVE  ComesBefore(a, Append(b, c))
<1>1. CASE PrefixOf(a, b) /\ Len(a) < Len(b)
  <2>1. Len(Append(b, c)) = Len(b) + 1 /\ Len(b) \in Nat /\ Len(a) \in Nat
    BY AddressIs, ChildIs
  <2>2. \A m \in 1 .. Len(b) : Append(b, c)[m] = b[m]
    BY ChildIs
  <2>3. PrefixOf(a, Append(b, c)) /\ Len(a) < Len(Append(b, c))
    BY <1>1, <2>1, <2>2 DEF PrefixOf
  <2> QED
    BY <2>3 DEF ComesBefore
<1>2. CASE EarlierBranch(a, b)
  <2>1. PICK k \in (DOMAIN a) \cap (DOMAIN b) : (\A m \in 1 .. k - 1 : a[m] = b[m]) /\ a[k] < b[k]
    BY <1>2 DEF EarlierBranch
  <2>2. k \in 1 .. Len(b) /\ Len(b) \in Nat
    BY AddressIs
  <2>3. k \in DOMAIN Append(b, c) /\ \A m \in 1 .. k : Append(b, c)[m] = b[m]
    <3>1. DOMAIN Append(b, c) = 1 .. Len(b) + 1 /\ \A m \in 1 .. Len(b) : Append(b, c)[m] = b[m]
      BY ChildIs
    <3> QED
      BY <2>2, <3>1
  <2>4. EarlierBranch(a, Append(b, c))
    BY <2>1, <2>2, <2>3 DEF EarlierBranch
  <2> QED
    BY <2>4 DEF ComesBefore
<1> QED
  BY <1>1, <1>2 DEF ComesBefore

LEMMA EarlierBranchBelow ==
  ASSUME NEW a \in Addresses, NEW b \in Addresses, NEW c \in Nat, EarlierBranch(a, b)
  PROVE  EarlierBranch(Append(a, c), b)
<1>1. PICK k \in (DOMAIN a) \cap (DOMAIN b) : (\A m \in 1 .. k - 1 : a[m] = b[m]) /\ a[k] < b[k]
  BY DEF EarlierBranch
<1>2. k \in 1 .. Len(a) /\ Len(a) \in Nat
  BY AddressIs
<1>3. k \in DOMAIN Append(a, c) /\ \A m \in 1 .. k : Append(a, c)[m] = a[m]
  <2>1. DOMAIN Append(a, c) = 1 .. Len(a) + 1 /\ \A m \in 1 .. Len(a) : Append(a, c)[m] = a[m]
    BY ChildIs
  <2> QED
    BY <1>2, <2>1
<1> QED
  BY <1>1, <1>2, <1>3 DEF EarlierBranch

LEMMA CallsInOrder ==
  ASSUME NEW a \in Addresses, NEW c \in Nat, NEW d \in Nat
  PROVE  /\ ComesBefore(a, Append(a, c))
         /\ c < d => EarlierBranch(Append(a, c), Append(a, d))
<1>1. ComesBefore(a, Append(a, c))
  <2>1. Len(Append(a, c)) = Len(a) + 1 /\ Len(a) \in Nat /\ \A m \in 1 .. Len(a) : Append(a, c)[m] = a[m]
    BY ChildIs
  <2>2. PrefixOf(a, Append(a, c)) /\ Len(a) < Len(Append(a, c))
    BY <2>1 DEF PrefixOf
  <2> QED
    BY <2>2 DEF ComesBefore
<1>2. ASSUME c < d
      PROVE  EarlierBranch(Append(a, c), Append(a, d))
  <2> DEFINE k == Len(a) + 1
  <2>1. k \in (DOMAIN Append(a, c)) \cap (DOMAIN Append(a, d))
    BY AddressIs, ChildIs
  <2>2. \A m \in 1 .. k - 1 : Append(a, c)[m] = Append(a, d)[m]
    BY AddressIs, ChildIs
  <2>3. Append(a, c)[k] < Append(a, d)[k]
    BY <1>2, ChildIs
  <2> QED
    BY <2>1, <2>2, <2>3 DEF EarlierBranch
<1> QED
  BY <1>1, <1>2

-----------------------------------------------------------------------------
Trace == [tx : Nat, address : Addresses, type : {"call", "create", "suicide", "reward"},
          error : BOOLEAN, key : Int]
Address(i) == traces[i].address

TracesTypeOK ==
  /\ trPhase \in {"calls", "statuses", "visit", "ids", "contracts", "done", "raised"}
  /\ source \in {"parity", "geth"}
  /\ transaction \in Nat /\ toIterate \in Seq(Addresses) /\ traces \in Seq(Trace)
  /\ \A i \in Positions : traces[i].type = "reward" <=> ~Scoped(i)
  /\ trPhase # "calls" => status \in [Positions -> Int]
  /\ visited \subseteq Positions
  /\ trPhase \in {"calls", "statuses"} => visited = {}
  /\ toIterate # <<>> => trPhase = "calls" /\ transaction > 0
  /\ trPhase # "done" => contracts = {}

(* No call is twice in an answer. *)
Distinct ==
  \A i, j \in Positions : Scoped(i) /\ traces[i].tx = traces[j].tx /\ Address(i) = Address(j) => i = j

Ordered ==
  \A i, j \in Positions : Scoped(i) /\ traces[i].tx = traces[j].tx /\ i < j => ComesBefore(Address(i), Address(j))

(* What is still to come is after all that has come, and no call of it is     *)
(* below another.                                                             *)
Walk ==
  /\ \A i \in Positions : traces[i].tx <= transaction
  /\ \A i \in Positions, k \in DOMAIN toIterate : traces[i].tx = transaction => ComesBefore(Address(i), toIterate[k])
  /\ \A k, l \in DOMAIN toIterate : k < l => EarlierBranch(toIterate[k], toIterate[l])

(* The status of what has been visited is final. *)
Final(i) == status[i] = 0 <=> \E j \in Above(i) : traces[j].error

StatusesOK ==
  /\ trPhase = "visit" =>
       \A i \in Positions : Scoped(i) => IF i \in visited THEN Final(i) ELSE (status[i] = 0 <=> traces[i].error)
  /\ source = "parity" /\ trPhase \in {"ids", "contracts", "done"} => \A i \in Positions : Scoped(i) => Final(i)
  /\ source = "parity" /\ trPhase \in {"contracts", "done"} => ids = [i \in Positions |-> TraceId(i)]
  /\ trPhase = "done" => contracts = {i \in Positions : traces[i].type = "create" /\ status[i] = 1}

GethOK ==
  source = "geth" => /\ trPhase \in {"calls", "contracts", "done"} /\ \A i \in Positions : Scoped(i)
                     /\ trPhase # "calls" => \A i \in Positions : status[i] = None

TracesInv ==
  /\ TracesTypeOK /\ Distinct /\ StatusesOK /\ GethOK
  /\ trPhase = "calls" \/ source = "geth" => Ordered
  /\ trPhase = "calls" => Walk

LEMMA TracesAre ==
  ASSUME TracesTypeOK
  PROVE  /\ Len(traces) \in Nat /\ Positions = 1 .. Len(traces)
         /\ \A i \in Positions : /\ traces[i] \in Trace /\ Address(i) \in Addresses /\ Depth(i) \in Nat
                                 /\ traces[i].tx \in Nat /\ traces[i].key \in Int
<1>1. traces \in Seq(Trace)
  BY DEF TracesTypeOK
<1>2. \A t \in Trace : t.tx \in Nat /\ t.key \in Int /\ t.address \in Addresses
  BY DEF Trace
<1>3. /\ Len(traces) \in Nat /\ Positions = 1 .. Len(traces)
      /\ \A i \in Positions : traces[i] \in Trace
  BY <1>1 DEF Positions
<1>4. \A i \in Positions : /\ traces[i].address \in Addresses /\ traces[i].tx \in Nat /\ traces[i].key \in Int
  BY <1>2, <1>3
<1>5. \A a \in Addresses : Len(a) \in Nat
  BY AddressIs
<1> QED
  BY <1>3, <1>4, <1>5 DEF Address, Depth

LEMMA OrderedDistinct == TracesTypeOK /\ Ordered => Distinct
<1> SUFFICES ASSUME TracesTypeOK, Ordered, NEW i \in Positions, NEW j \in Positions,
                    Scoped(i), traces[i].tx = traces[j].tx,
                    Address(i) = Address(j)
             PROVE  i = j
  BY DEF Distinct
<1>1. Address(i) \in Addresses /\ Address(j) \in Addresses /\ i \in Int /\ j \in Int /\ Scoped(j)
  BY TracesAre DEF Scoped
<1>2. ~(i < j)
  BY <1>1, BeforeDiffers DEF Ordered
<1>3. ~(j < i)
  BY <1>1, BeforeDiffers DEF Ordered
<1> QED
  BY <1>1, <1>2, <1>3

(* The stack after a call has been gone through *)
LEMMA StackIs ==
  ASSUME NEW T \in Seq(Addresses), T # <<>>, NEW n \in Nat, NEW U,
         U = [c \in 1 .. n |-> Append(Head(T), c - 1)] \o Tail(T)
  PROVE  /\ U \in Seq(Addresses) /\ Head(T) \in Addresses /\ Head(T) = T[1] /\ Len(T) \in Nat
         /\ DOMAIN T = 1 .. Len(T) /\ 1 \in DOMAIN T /\ \A k \in DOMAIN T : T[k] \in Addresses
         /\ \A k \in DOMAIN U : \/ k \in 1 .. n /\ k - 1 \in Nat /\ U[k] = Append(T[1], k - 1)
                                \/ k > n /\ k \in Nat /\ k - n + 1 \in 2 .. Len(T) /\ U[k] = T[k - n + 1]
<1> DEFINE K == [c \in 1 .. n |-> Append(Head(T), c - 1)]
<1>1. /\ Head(T) \in Addresses /\ Head(T) = T[1] /\ Len(T) \in Nat /\ Len(T) > 0
      /\ Tail(T) \in Seq(Addresses) /\ Len(Tail(T)) = Len(T) - 1
      /\ \A k \in 1 .. Len(T) - 1 : Tail(T)[k] = T[k + 1]
      /\ DOMAIN T = 1 .. Len(T) /\ \A k \in DOMAIN T : T[k] \in Addresses
  <2> HIDE DEF Addresses
  <2> QED
    OBVIOUS
<1>2. \A c \in 1 .. n : c - 1 \in Nat /\ Append(Head(T), c - 1) \in Addresses
  BY <1>1, ChildIs
<1>3. K \in Seq(Addresses) /\ Len(K) = n /\ \A k \in 1 .. n : K[k] = Append(Head(T), k - 1)
  BY <1>2
<1>4. U = K \o Tail(T)
  OBVIOUS
<1> HIDE DEF K
<1>5. /\ U \in Seq(Addresses) /\ DOMAIN U = 1 .. n + (Len(T) - 1)
      /\ \A k \in 1 .. n : U[k] = K[k]
      /\ \A k \in n + 1 .. n + (Len(T) - 1) : U[k] = Tail(T)[k - n]
  <2>1. Len(U) = n + (Len(T) - 1) /\ U \in Seq(Addresses)
    <3>1. \A X, Y \in Seq(Addresses) : X \o Y \in Seq(Addresses) /\ Len(X \o Y) = Len(X) + Len(Y)
      OBVIOUS
    <3> QED
      BY <1>1, <1>3, <1>4, <3>1
  <2>2. \A k \in 1 .. n : U[k] = K[k]
    BY <1>1, <1>3, <1>4
  <2>3. \A k \in n + 1 .. n + (Len(T) - 1) : U[k] = Tail(T)[k - n]
    BY <1>1, <1>3, <1>4
  <2> QED
    BY <2>1, <2>2, <2>3
<1>6. ASSUME NEW k \in DOMAIN U
      PROVE  \/ k \in 1 .. n /\ k - 1 \in Nat /\ U[k] = Append(T[1], k - 1)
             \/ k > n /\ k \in Nat /\ k - n + 1 \in 2 .. Len(T) /\ U[k] = T[k - n + 1]
  <2>1. CASE k \in 1 .. n
    BY <1>1, <1>2, <1>3, <1>5, <2>1
  <2>2. CASE k \in n + 1 .. n + (Len(T) - 1)
    <3>1. k - n \in 1 .. Len(T) - 1 /\ k > n /\ k \in Nat /\ k - n + 1 \in 2 .. Len(T)
      BY <1>1, <2>2
    <3>2. U[k] = Tail(T)[k - n] /\ Tail(T)[k - n] = T[(k - n) + 1]
      BY <1>1, <1>5, <2>2, <3>1
    <3> QED
      BY <3>1, <3>2
  <2>3. k \in 1 .. n \/ k \in n + 1 .. n + (Len(T) - 1)
    BY <1>1, <1>5
  <2> QED
    BY <2>1, <2>2, <2>3
<1>7. 1 \in DOMAIN T
  BY <1>1
<1> QED
  BY <1>1, <1>5, <1>6, <1>7

LEMMA TracesInitOK == TracesInit => TracesInv
<1> SUFFICES ASSUME TracesInit
             PROVE  TracesInv
  OBVIOUS
<1>1. /\ trPhase = "calls" /\ source \in {"parity", "geth"} /\ transaction = 0 /\ toIterate = <<>>
      /\ traces = <<>> /\ visited = {} /\ contracts = {} /\ Positions = {} /\ DOMAIN toIterate = {}
  BY DEF TracesInit, Positions
<1>2. TracesTypeOK
  BY <1>1 DEF TracesTypeOK
<1>3. Distinct /\ StatusesOK /\ GethOK /\ Ordered /\ Walk
  BY <1>1 DEF Distinct, StatusesOK, GethOK, Ordered, Walk
<1> QED
  BY <1>2, <1>3 DEF TracesInv

(* A trace that is appended *)
LEMMA AppendedTrace ==
  ASSUME TracesTypeOK, NEW t \in Trace, traces' = Append(traces, t)
  PROVE  /\ traces' \in Seq(Trace) /\ Len(traces) \in Nat
         /\ Positions = 1 .. Len(traces) /\ Positions' = 1 .. Len(traces) + 1
         /\ traces'[Len(traces) + 1] = t /\ \A i \in Positions : traces'[i] = traces[i]
         /\ \A i \in Positions' : i \in Positions \/ i = Len(traces) + 1
<1>1. traces \in Seq(Trace)
  BY DEF TracesTypeOK
<1> HIDE DEF Trace
<1> QED
  BY <1>1 DEF Positions

LEMMA IterateCallOK == TracesInv /\ IterateCall => TracesInv'
<1> SUFFICES ASSUME TracesInv, IterateCall
             PROVE  TracesInv'
  OBVIOUS
<1>1. /\ trPhase = "calls" /\ toIterate # <<>>
      /\ UNCHANGED <<trPhase, source, transaction, status, visited, ids, contracts>>
      /\ TracesTypeOK /\ Ordered /\ Walk /\ GethOK
  BY DEF IterateCall, TracesInv
<1>2. PICK kind \in CallKinds, n \in Nat :
        /\ traces' = Append(traces, Call(transaction, Head(toIterate), kind))
        /\ toIterate' = [c \in 1 .. n |-> Append(Head(toIterate), c - 1)] \o Tail(toIterate)
  <2>1. PICK kind \in CallKinds, n \in 0 .. MaxTraces - Len(traces) - Len(toIterate) :
          /\ traces' = Append(traces, Call(transaction, Head(toIterate), kind))
          /\ toIterate' = [c \in 1 .. n |-> Append(Head(toIterate), c - 1)] \o Tail(toIterate)
    BY DEF IterateCall
  <2>2. n \in Nat
    OBVIOUS
  <2> QED
    BY <2>1, <2>2
<1>3. toIterate \in Seq(Addresses) /\ transaction \in Nat /\ transaction > 0
  BY <1>1 DEF TracesTypeOK
<1> DEFINE T == toIterate
           U == toIterate'
           t == Call(transaction, Head(T), kind)
<1>4. /\ U \in Seq(Addresses) /\ Head(T) \in Addresses /\ Head(T) = T[1] /\ Len(T) \in Nat
      /\ DOMAIN T = 1 .. Len(T) /\ 1 \in DOMAIN T /\ \A k \in DOMAIN T : T[k] \in Addresses
      /\ \A k \in DOMAIN U : \/ k \in 1 .. n /\ k - 1 \in Nat /\ U[k] = Append(T[1], k - 1)
                             \/ k > n /\ k \in Nat /\ k - n + 1 \in 2 .. Len(T) /\ U[k] = T[k - n + 1]
  <2>1. \A V : V = [c \in 1 .. n |-> Append(Head(toIterate), c - 1)] \o Tail(toIterate) =>
          /\ V \in Seq(Addresses) /\ Head(T) \in Addresses /\ Head(T) = T[1] /\ Len(T) \in Nat
          /\ DOMAIN T = 1 .. Len(T) /\ 1 \in DOMAIN T /\ \A k \in DOMAIN T : T[k] \in Addresses
          /\ \A k \in DOMAIN V : \/ k \in 1 .. n /\ k - 1 \in Nat /\ V[k] = Append(T[1], k - 1)
                                 \/ k > n /\ k \in Nat /\ k - n + 1 \in 2 .. Len(T) /\ V[k] = T[k - n + 1]
    BY <1>1, <1>3, StackIs
  <2> QED
    BY <1>2, <2>1
<1>5. /\ t \in Trace /\ t.tx = transaction /\ t.address = T[1] /\ t.type # "reward"
  <2>1. kind.type \in {"call", "create", "suicide"} /\ kind.error \in BOOLEAN
    BY TracesAssumption
  <2> QED
    BY <1>3, <1>4, <2>1 DEF Call, Trace
<1>6. traces' = Append(traces, t)
  BY <1>2
<1> HIDE DEF t
<1>7a. PICK last : last = Len(traces) + 1
  OBVIOUS
<1>7. /\ traces' \in Seq(Trace) /\ Len(traces) \in Nat /\ last = Len(traces) + 1
      /\ Positions = 1 .. Len(traces) /\ Positions' = 1 .. last
      /\ traces'[last] = t /\ \A i \in Positions : traces'[i] = traces[i]
      /\ \A i \in Positions' : i \in Positions \/ i = last
  BY <1>1, <1>5, <1>6, <1>7a, AppendedTrace
<1>8. \A i \in Positions : /\ Scoped(i)' = Scoped(i) /\ Address(i)' = Address(i)
                           /\ Address(i) \in Addresses /\ traces[i].tx \in Nat /\ i \in Int
  BY <1>1, <1>7, TracesAre DEF Scoped, Address
<1>9. /\ Scoped(last)' /\ Address(last)' = T[1] /\ traces'[last].tx = transaction /\ T[1] \in Addresses
      /\ last \in Int /\ last \notin Positions /\ \A i \in Positions : i < last
  BY <1>3, <1>4, <1>5, <1>7 DEF Scoped, Address, Block
<1>10. TracesTypeOK'
  <2>1. \A i \in Positions' : traces'[i].type = "reward" <=> ~Scoped(i)'
    BY <1>1, <1>5, <1>7, <1>8, <1>9 DEF TracesTypeOK
  <2>2. visited' \subseteq Positions' /\ visited' = {}
    BY <1>1 DEF TracesTypeOK
  <2> QED
    BY <1>1, <1>3, <1>4, <1>7, <2>1, <2>2 DEF TracesTypeOK
<1>11. Ordered'
  <2> SUFFICES ASSUME NEW i \in Positions', NEW j \in Positions', Scoped(i)',
                      traces'[i].tx = traces'[j].tx, i < j
               PROVE  ComesBefore(Address(i)', Address(j)')
    BY DEF Ordered
  <2>1. i \in Positions
    BY <1>7, <1>9
  <2>2. CASE j \in Positions
    BY <1>1, <1>7, <1>8, <2>1, <2>2 DEF Ordered
  <2>3. CASE j = last
    <3>1. traces[i].tx = transaction
      BY <1>7, <1>9, <2>1, <2>3
    <3>2. ComesBefore(Address(i), T[1])
      BY <1>1, <1>4, <2>1, <3>1 DEF Walk
    <3> QED
      BY <1>8, <1>9, <2>1, <2>3, <3>2
  <2> QED
    BY <1>7, <2>2, <2>3
<1>12. Walk'
  <2>1. ASSUME NEW i \in Positions'
        PROVE  traces'[i].tx <= transaction'
    BY <1>1, <1>3, <1>7, <1>8, <1>9 DEF Walk
  <2>2. ASSUME NEW i \in Positions', NEW k \in DOMAIN U, traces'[i].tx = transaction'
        PROVE  ComesBefore(Address(i)', U[k])
    <3>1. CASE i \in Positions
      <4>1. \A l \in DOMAIN T : ComesBefore(Address(i), T[l])
        BY <1>1, <1>7, <2>2, <3>1 DEF Walk
      <4>2. CASE k \in 1 .. n /\ k - 1 \in Nat /\ U[k] = Append(T[1], k - 1)
        BY <1>4, <1>8, <1>9, <3>1, <4>1, <4>2, BeforeBelow
      <4>3. CASE k - n + 1 \in 2 .. Len(T) /\ U[k] = T[k - n + 1]
        <5>1. k - n + 1 \in DOMAIN T
          BY <1>4, <4>3
        <5> QED
          BY <1>8, <3>1, <4>1, <4>3, <5>1
      <4> QED
        BY <1>4, <4>2, <4>3
    <3>2. CASE i = last
      <4>1. CASE k \in 1 .. n /\ k - 1 \in Nat /\ U[k] = Append(T[1], k - 1)
        BY <1>9, <3>2, <4>1, CallsInOrder
      <4>2. CASE k - n + 1 \in 2 .. Len(T) /\ U[k] = T[k - n + 1]
        <5>1. k - n + 1 \in DOMAIN T /\ 1 < k - n + 1
          BY <1>4, <4>2
        <5>2. EarlierBranch(T[1], T[k - n + 1])
          BY <1>1, <1>4, <5>1 DEF Walk
        <5> QED
          BY <1>9, <3>2, <4>2, <5>2 DEF ComesBefore
      <4> QED
        BY <1>4, <4>1, <4>2
    <3> QED
      BY <1>7, <3>1, <3>2
  <2>3. ASSUME NEW k \in DOMAIN U, NEW l \in DOMAIN U, k < l
        PROVE  EarlierBranch(U[k], U[l])
    <3>1. CASE k \in 1 .. n /\ k - 1 \in Nat /\ U[k] = Append(T[1], k - 1)
      <4>1. CASE l \in 1 .. n /\ l - 1 \in Nat /\ U[l] = Append(T[1], l - 1)
        <5>1. k - 1 < l - 1
          BY <2>3, <3>1, <4>1
        <5> QED
          BY <1>9, <3>1, <4>1, <5>1, CallsInOrder
      <4>2. CASE l - n + 1 \in 2 .. Len(T) /\ U[l] = T[l - n + 1]
        <5>1. l - n + 1 \in DOMAIN T /\ 1 < l - n + 1
          BY <1>4, <4>2
        <5>2. EarlierBranch(T[1], T[l - n + 1])
          BY <1>1, <1>4, <5>1 DEF Walk
        <5> QED
          BY <1>4, <1>9, <3>1, <4>2, <5>1, <5>2, EarlierBranchBelow
      <4> QED
        BY <1>4, <4>1, <4>2
    <3>2. CASE k > n /\ k \in Nat /\ k - n + 1 \in 2 .. Len(T) /\ U[k] = T[k - n + 1]
      <4>1. l > n /\ l \in Nat /\ l - n + 1 \in 2 .. Len(T) /\ U[l] = T[l - n + 1]
        BY <1>4, <2>3, <3>2
      <4>2. k - n + 1 < l - n + 1 /\ k - n + 1 \in DOMAIN T /\ l - n + 1 \in DOMAIN T
        BY <1>4, <2>3, <3>2, <4>1, SMTT(30)
      <4> QED
        BY <1>1, <3>2, <4>1, <4>2 DEF Walk
    <3> QED
      BY <1>4, <3>1, <3>2
  <2> QED
    BY <2>1, <2>2, <2>3 DEF Walk
<1>13. Distinct'
  BY <1>10, <1>11, OrderedDistinct, PTL
<1>14. StatusesOK' /\ GethOK'
  BY <1>1, <1>7, <1>8, <1>9 DEF StatusesOK, GethOK
<1> QED
  BY <1>10, <1>11, <1>12, <1>13, <1>14 DEF TracesInv

(* What a step that leaves the traces alone keeps *)
LEMMA TracesSame ==
  ASSUME traces' = traces
  PROVE  /\ Positions' = Positions /\ Distinct' = Distinct /\ Ordered' = Ordered
         /\ \A i : /\ Scoped(i)' = Scoped(i) /\ Address(i)' = Address(i) /\ Above(i)' = Above(i)
                   /\ TraceId(i)' = TraceId(i)
<1>1. Positions' = Positions
  BY DEF Positions
<1>2. \A i : Scoped(i)' = Scoped(i) /\ Address(i)' = Address(i)
  BY DEF Scoped, Address
<1>3. Distinct' = Distinct /\ Ordered' = Ordered
  BY <1>1, <1>2 DEF Distinct, Ordered
<1>4. \A i : Above(i)' = Above(i) /\ Rank(i)' = Rank(i)
  BY <1>1, <1>2 DEF Above, Rank
<1>5. \A i : TraceId(i)' = TraceId(i)
  BY <1>2, <1>4 DEF TraceId
<1> QED
  BY <1>1, <1>2, <1>3, <1>4, <1>5

LEMMA BeginTransactionOK == TracesInv /\ BeginTransaction => TracesInv'
<1> SUFFICES ASSUME TracesInv, BeginTransaction
             PROVE  TracesInv'
  OBVIOUS
<1>1. /\ trPhase = "calls" /\ transaction' = transaction + 1 /\ toIterate' = <<(<<>>)>>
      /\ UNCHANGED <<trPhase, source, traces, status, visited, ids, contracts>>
      /\ TracesTypeOK /\ Ordered /\ Walk /\ GethOK /\ Distinct
  BY DEF BeginTransaction, TracesInv
<1>2. <<>> \in Addresses
  BY DEF Addresses
<1>3. toIterate' \in Seq(Addresses) /\ DOMAIN toIterate' = {1}
  BY <1>1, <1>2
<1>4. Positions' = Positions /\ Distinct' /\ Ordered' /\ \A i : Scoped(i)' = Scoped(i)
  BY <1>1, TracesSame
<1>5. transaction \in Nat /\ \A i \in Positions : traces[i].tx \in Nat
  BY <1>1, TracesAre DEF TracesTypeOK
<1>6. TracesTypeOK'
  BY <1>1, <1>3, <1>4, <1>5 DEF TracesTypeOK
<1>7. Walk'
  <2>1. \A i \in Positions : traces[i].tx <= transaction
    BY <1>1 DEF Walk
  <2>2. \A i \in Positions' : traces'[i].tx <= transaction' /\ traces'[i].tx # transaction'
    BY <1>1, <1>4, <1>5, <2>1
  <2>3. \A k, l \in DOMAIN toIterate' : ~(k < l)
    BY <1>3
  <2> QED
    BY <2>2, <2>3 DEF Walk
<1>8. StatusesOK' /\ GethOK'
  BY <1>1, <1>4 DEF StatusesOK, GethOK
<1> QED
  BY <1>4, <1>6, <1>7, <1>8 DEF TracesInv

LEMMA AddRewardOK == TracesInv /\ AddReward => TracesInv'
<1> SUFFICES ASSUME TracesInv, AddReward
             PROVE  TracesInv'
  OBVIOUS
<1>1. /\ trPhase = "calls" /\ toIterate = <<>> /\ source = "parity"
      /\ UNCHANGED <<trPhase, source, transaction, toIterate, status, visited, ids, contracts>>
      /\ TracesTypeOK /\ Ordered /\ Walk
  BY DEF AddReward, TracesInv
<1>2. PICK key \in RewardKeys : traces' = Append(traces, Reward(key))
  BY DEF AddReward
<1>3. Reward(key) \in Trace /\ Reward(key).tx = Block /\ Reward(key).type = "reward"
  <2>1. key \in Int /\ <<>> \in Addresses
    BY TracesAssumption DEF Addresses
  <2> QED
    BY <2>1 DEF Reward, Trace, Block
<1>4. PICK last : last = Len(traces) + 1
  OBVIOUS
<1>5. /\ traces' \in Seq(Trace) /\ Positions' = 1 .. last
      /\ traces'[last] = Reward(key) /\ \A i \in Positions : traces'[i] = traces[i]
      /\ \A i \in Positions' : i \in Positions \/ i = last
  BY <1>1, <1>2, <1>3, <1>4, AppendedTrace
<1>6. /\ ~Scoped(last)' /\ traces'[last].tx = Block
      /\ \A i \in Positions : Scoped(i)' = Scoped(i) /\ Address(i)' = Address(i)
  BY <1>3, <1>5 DEF Scoped, Address
<1>7. TracesTypeOK'
  <2>1. \A i \in Positions' : traces'[i].type = "reward" <=> ~Scoped(i)'
    BY <1>1, <1>3, <1>5, <1>6 DEF TracesTypeOK
  <2>2. visited' \subseteq Positions' /\ visited' = {}
    BY <1>1 DEF TracesTypeOK
  <2> QED
    BY <1>1, <1>5, <2>1, <2>2 DEF TracesTypeOK
<1>8. Ordered'
  <2> SUFFICES ASSUME NEW i \in Positions', NEW j \in Positions', Scoped(i)',
                      traces'[i].tx = traces'[j].tx, i < j
               PROVE  ComesBefore(Address(i)', Address(j)')
    BY DEF Ordered
  <2>1. i \in Positions /\ j \in Positions
    BY <1>5, <1>6 DEF Scoped
  <2> QED
    BY <1>1, <1>5, <1>6, <2>1 DEF Ordered
<1>9. Walk'
  <2>1. DOMAIN toIterate' = {}
    BY <1>1
  <2>2. ASSUME NEW i \in Positions'
        PROVE  traces'[i].tx <= transaction'
    <3>1. Block <= transaction
      BY <1>1 DEF TracesTypeOK, Block
    <3> QED
      BY <1>1, <1>5, <1>6, <3>1 DEF Walk
  <2> QED
    BY <2>1, <2>2 DEF Walk
<1>10. Distinct'
  BY <1>7, <1>8, OrderedDistinct, PTL
<1>11. StatusesOK' /\ GethOK'
  BY <1>1 DEF StatusesOK, GethOK
<1> QED
  BY <1>7, <1>8, <1>9, <1>10, <1>11 DEF TracesInv

LEMMA AnswerOK == TracesInv /\ Answer => TracesInv'
<1> SUFFICES ASSUME TracesInv, Answer
             PROVE  TracesInv'
  OBVIOUS
<1>1. /\ trPhase = "calls" /\ trPhase' = "statuses" /\ toIterate = <<>> /\ source = "parity"
      /\ UNCHANGED <<source, transaction, toIterate, visited, ids, contracts>>
      /\ TracesTypeOK /\ Distinct
  BY DEF Answer, TracesInv
<1>2. PICK order \in Orders(Len(traces)) :
        /\ traces' = [i \in DOMAIN order |-> traces[order[i]]]
        /\ status' = [i \in DOMAIN order |-> None]
  BY DEF Answer
<1>3. PICK m \in Nat : /\ order \in [1 .. m -> Positions]
                       /\ \A i, j \in 1 .. m : order[i] = order[j] => i = j
  <2>1. Len(traces) \in Nat /\ Positions = 1 .. Len(traces)
    BY <1>1, TracesAre
  <2>2. PICK m \in 0 .. Len(traces) : order \in [1 .. m -> 1 .. Len(traces)]
    BY DEF Orders
  <2>3. IsInjective(order)
    BY DEF Orders
  <2> QED
    BY <2>1, <2>2, <2>3 DEF IsInjective
<1>4. /\ traces' \in Seq(Trace) /\ Positions' = 1 .. m
      /\ \A i \in 1 .. m : order[i] \in Positions /\ traces'[i] = traces[order[i]] /\ traces[order[i]] \in Trace
  <2>1. \A i \in 1 .. m : order[i] \in Positions /\ traces[order[i]] \in Trace
    BY <1>1, <1>3, TracesAre
  <2>2. traces' = [i \in 1 .. m |-> traces[order[i]]]
    BY <1>2, <1>3
  <2> HIDE DEF Trace
  <2> QED
    BY <1>3, <2>1, <2>2 DEF Positions
<1>5. \A i \in Positions' : Scoped(i)' = Scoped(order[i]) /\ Address(i)' = Address(order[i])
  BY <1>4 DEF Scoped, Address
<1>6. TracesTypeOK'
  <2>1. \A i \in Positions' : traces'[i].type = "reward" <=> ~Scoped(i)'
    BY <1>1, <1>4, <1>5 DEF TracesTypeOK
  <2>2. status' \in [Positions' -> Int]
    BY <1>2, <1>3, <1>4 DEF None
  <2>3. visited' \subseteq Positions' /\ visited' = {}
    BY <1>1 DEF TracesTypeOK
  <2> QED
    BY <1>1, <1>4, <2>1, <2>2, <2>3 DEF TracesTypeOK
<1>7. Distinct'
  <2> SUFFICES ASSUME NEW i \in Positions', NEW j \in Positions', Scoped(i)',
                      traces'[i].tx = traces'[j].tx, Address(i)' = Address(j)'
               PROVE  i = j
    BY DEF Distinct
  <2>1. order[i] = order[j]
    BY <1>1, <1>4, <1>5 DEF Distinct
  <2> QED
    BY <1>3, <1>4, <2>1
<1>8. StatusesOK' /\ GethOK'
  BY <1>1 DEF StatusesOK, GethOK
<1> QED
  BY <1>1, <1>6, <1>7, <1>8 DEF TracesInv

LEMMA ExtractedOK == TracesInv /\ Extracted => TracesInv'
<1> SUFFICES ASSUME TracesInv, Extracted
             PROVE  TracesInv'
  OBVIOUS
<1>1. /\ trPhase = "calls" /\ trPhase' = "contracts" /\ toIterate = <<>> /\ source = "geth"
      /\ status' = [i \in Positions |-> None]
      /\ UNCHANGED <<source, transaction, toIterate, traces, visited, ids, contracts>>
      /\ TracesTypeOK /\ Distinct /\ Ordered /\ GethOK
  BY DEF Extracted, TracesInv
<1>2. Positions' = Positions /\ Distinct' /\ Ordered' /\ \A i : Scoped(i)' = Scoped(i)
  BY <1>1, TracesSame
<1>3. TracesTypeOK'
  BY <1>1, <1>2 DEF TracesTypeOK, None
<1>4. StatusesOK' /\ GethOK'
  BY <1>1, <1>2 DEF StatusesOK, GethOK
<1> QED
  BY <1>1, <1>2, <1>3, <1>4 DEF TracesInv

-----------------------------------------------------------------------------
(* The statuses *)

LEMMA DefaultsOK == TracesInv /\ Defaults => TracesInv'
<1> SUFFICES ASSUME TracesInv, Defaults
             PROVE  TracesInv'
  OBVIOUS
<1>1. /\ trPhase = "statuses" /\ trPhase' = "visit"
      /\ status' = [i \in Positions |-> IF traces[i].error THEN 0 ELSE 1]
      /\ UNCHANGED <<source, transaction, toIterate, traces, visited, ids, contracts>>
      /\ TracesTypeOK /\ Distinct /\ GethOK
  BY DEF Defaults, TracesInv
<1>2. Positions' = Positions /\ Distinct' /\ \A i : Scoped(i)' = Scoped(i)
  BY <1>1, TracesSame
<1>3. visited = {} /\ source # "geth"
  BY <1>1 DEF TracesTypeOK, GethOK
<1>4. TracesTypeOK'
  BY <1>1, <1>2, <1>3 DEF TracesTypeOK
<1>5. StatusesOK' /\ GethOK'
  <2>1. \A i \in Positions' : status'[i] = 0 <=> traces'[i].error
    BY <1>1, <1>2
  <2> QED
    BY <1>1, <1>3, <2>1 DEF StatusesOK, GethOK
<1> QED
  BY <1>1, <1>2, <1>3, <1>4, <1>5 DEF TracesInv

LEMMA SmallestNumber ==
  ASSUME NEW T \in SUBSET Nat, T # {}
  PROVE  \E x \in T : \A y \in T : x <= y
<1>1. PICK x \in T : \A y \in T : ~ (<<y, x>> \in OpToRel(<, Nat))
  BY NatLessThanWellFounded, WFMin
<1>2. \A y \in T : ~(y < x)
  BY <1>1 DEF OpToRel
<1> QED
  BY <1>2

LEMMA NextTraceIs ==
  ASSUME TracesTypeOK, visited # Positions
  PROVE  NextTrace \in Positions \ visited /\ \A j \in Positions \ visited : Depth(NextTrace) <= Depth(j)
<1> DEFINE rest == Positions \ visited
<1>1. rest # {} /\ \A j \in rest : j \in Nat /\ Depth(j) \in Nat
  <2>1. visited \subseteq Positions
    BY DEF TracesTypeOK
  <2>2. \A j \in Positions : j \in Nat /\ Depth(j) \in Nat
    BY TracesAre
  <2> QED
    BY <2>1, <2>2
<1>2. PICK d \in {Depth(j) : j \in rest} : \A e \in {Depth(j) : j \in rest} : d <= e
  <2>1. {Depth(j) : j \in rest} \in SUBSET Nat /\ {Depth(j) : j \in rest} # {}
    BY <1>1
  <2> QED
    BY <2>1, SmallestNumber
<1>3. PICK i \in {j \in rest : Depth(j) = d} : \A j \in {k \in rest : Depth(k) = d} : i <= j
  <2>1. {j \in rest : Depth(j) = d} \in SUBSET Nat /\ {j \in rest : Depth(j) = d} # {}
    BY <1>1, <1>2
  <2> QED
    BY <2>1, SmallestNumber
<1>4. \A j \in rest : Depth(i) < Depth(j) \/ (Depth(i) = Depth(j) /\ i <= j)
  BY <1>1, <1>2, <1>3
<1>5. /\ NextTrace \in rest
      /\ \A j \in rest : \/ Depth(NextTrace) < Depth(j)
                         \/ Depth(NextTrace) = Depth(j) /\ NextTrace <= j
  BY <1>3, <1>4 DEF NextTrace
<1>6. \A j \in rest : Depth(NextTrace) <= Depth(j)
  BY <1>1, <1>5
<1> QED
  BY <1>5, <1>6

LEMMA HeadOfSequence ==
  ASSUME NEW a \in Seq(Nat), NEW n \in 0 .. Len(a)
  PROVE  /\ Len(SubSeq(a, 1, n)) = n
         /\ \A m \in 1 .. n : SubSeq(a, 1, n)[m] = a[m]
         /\ SubSeq(a, 1, n) \in Seq(Nat)
<1>1. n \in Int /\ n <= Len(a) /\ 1 <= n + 1 /\ Len(a) \in Nat
  OBVIOUS
<1>2. Len(SubSeq(a, 1, n)) = n
  <2>1. CASE n = 0
    BY <1>1, <2>1
  <2>2. CASE n > 0
    BY <1>1, <2>2
  <2> QED
    BY <2>1, <2>2
<1>3. \A m \in 1 .. n : SubSeq(a, 1, n)[m] = a[m]
  BY <1>1
<1>4. SubSeq(a, 1, n) \in Seq(Nat)
  <2>1. CASE n = 0
    BY <1>1, <2>1
  <2>2. CASE n > 0
    BY <1>1, <2>2
  <2> QED
    BY <1>1, <2>1, <2>2
<1> QED
  BY <1>2, <1>3, <1>4

(* What is above a call: itself, and what is above its parent. *)
LEMMA AboveIs ==
  ASSUME TracesTypeOK, Distinct, NEW i \in Positions, Scoped(i)
  PROVE  /\ Depth(i) = 0 => Above(i) = {i}
         /\ \A p \in Parents(i) : Depth(i) > 0 =>
              Above(i) = {i} \cup Above(p) /\ Depth(p) < Depth(i) /\ Scoped(p) /\ p \in Positions
<1>1. \A j \in Positions : Address(j) \in Addresses /\ Len(Address(j)) = Depth(j) /\ Depth(j) \in Nat
  BY TracesAre DEF Address, Depth
<1>2. \A j : j \in Above(i) <=> /\ j \in Positions /\ traces[j].tx = traces[i].tx
                                /\ PrefixOf(Address(j), Address(i))
  BY <1>1, PrefixIs DEF Above, Address
<1>3. i \in Above(i)
  BY <1>1, <1>2, AddressIs DEF PrefixOf
<1>4. \A j \in Above(i) : Depth(j) = Depth(i) => j = i
  BY <1>1, <1>2, PrefixIs DEF Distinct
<1>5. \A j \in Above(i) : Depth(j) <= Depth(i)
  BY <1>1, <1>2 DEF PrefixOf
<1>6. ASSUME Depth(i) = 0
      PROVE  Above(i) = {i}
  BY <1>1, <1>2, <1>3, <1>4, <1>5, <1>6
<1>7. ASSUME NEW p \in Parents(i), Depth(i) > 0
      PROVE  Above(i) = {i} \cup Above(p) /\ Depth(p) < Depth(i) /\ Scoped(p) /\ p \in Positions
  <2>1. p \in Positions /\ traces[p].tx = traces[i].tx /\ Address(p) = Front(Address(i))
    BY DEF Parents, Address
  <2>2. Depth(p) = Depth(i) - 1 /\ \A m \in 1 .. Depth(i) - 1 : Address(p)[m] = Address(i)[m]
    <3>1. Address(i) \in Seq(Nat)
      BY <1>1 DEF Addresses
    <3>0. Len(Address(i)) - 1 \in 0 .. Len(Address(i))
      BY <1>1, <1>7
    <3>2. Len(Front(Address(i))) = Len(Address(i)) - 1
      BY <3>0, <3>1, HeadOfSequence DEF Front
    <3>3. \A m \in 1 .. Len(Address(i)) - 1 : Front(Address(i))[m] = Address(i)[m]
      BY <3>0, <3>1, HeadOfSequence DEF Front
    <3> QED
      BY <1>1, <2>1, <3>2, <3>3
  <2>3. \A j : j \in Above(p) <=> /\ j \in Positions /\ traces[j].tx = traces[i].tx
                                  /\ PrefixOf(Address(j), Address(p))
    BY <1>1, <2>1, PrefixIs DEF Above, Address
  <2>4. ASSUME NEW j \in Positions
        PROVE  PrefixOf(Address(j), Address(p))
                 <=> PrefixOf(Address(j), Address(i)) /\ Depth(j) # Depth(i)
    <3>1. /\ Len(Address(j)) = Depth(j) /\ Depth(j) \in Nat /\ Depth(i) \in Nat
          /\ Len(Address(i)) = Depth(i) /\ Len(Address(p)) = Depth(i) - 1
      BY <1>1, <2>1, <2>2
    <3>2. PrefixOf(Address(j), Address(p)) => PrefixOf(Address(j), Address(i)) /\ Depth(j) # Depth(i)
      BY <2>2, <3>1 DEF PrefixOf
    <3>3. PrefixOf(Address(j), Address(i)) /\ Depth(j) # Depth(i) => PrefixOf(Address(j), Address(p))
      BY <2>2, <3>1 DEF PrefixOf
    <3> QED
      BY <3>2, <3>3
  <2>5. \A j : j \in Above(i) <=> j = i \/ j \in Above(p)
    BY <1>2, <1>3, <1>4, <2>3, <2>4
  <2>6. Scoped(p) /\ Depth(p) < Depth(i)
    BY <1>1, <2>1, <2>2 DEF Scoped
  <2> QED
    BY <2>1, <2>5, <2>6
<1> QED
  BY <1>6, <1>7

LEMMA VisitOK == TracesInv /\ Visit => TracesInv'
<1> SUFFICES ASSUME TracesInv, Visit
             PROVE  TracesInv'
  OBVIOUS
<1>1. /\ trPhase = "visit" /\ visited # Positions
      /\ UNCHANGED <<trPhase, source, transaction, toIterate, traces, ids, contracts>>
      /\ TracesTypeOK /\ Distinct /\ StatusesOK /\ GethOK /\ source # "geth"
  BY DEF Visit, TracesInv, GethOK
<1>2. PICK i : i = NextTrace
  OBVIOUS
<1> DEFINE below == Scoped(i) /\ Depth(i) > 0
<1>3. /\ below => Parents(i) # {}
      /\ visited' = visited \cup {i}
      /\ status' = IF below /\ \E p \in Parents(i) : status[p] = 0
                   THEN [status EXCEPT ![i] = 0] ELSE status
  BY <1>2 DEF Visit
<1>4. i \in Positions \ visited /\ \A j \in Positions \ visited : Depth(i) <= Depth(j)
  BY <1>1, <1>2, NextTraceIs
<1>5. /\ Positions' = Positions /\ Distinct' /\ \A j : Scoped(j)' = Scoped(j) /\ Above(j)' = Above(j)
  BY <1>1, TracesSame
<1>6. status \in [Positions -> Int] /\ status' \in [Positions -> Int]
  <2>1. status \in [Positions -> Int]
    BY <1>1 DEF TracesTypeOK
  <2>2. [status EXCEPT ![i] = 0] \in [Positions -> Int]
    <3>1. \A f \in [Positions -> Int] : [f EXCEPT ![i] = 0] \in [Positions -> Int]
      BY <1>4
    <3> QED
      BY <2>1, <3>1
  <2>3. status' = [status EXCEPT ![i] = 0] \/ status' = status
    BY <1>3
  <2> QED
    BY <2>1, <2>2, <2>3
<1>7. TracesTypeOK'
  BY <1>1, <1>3, <1>4, <1>5, <1>6 DEF TracesTypeOK
<1>8. \A j \in Positions : j # i => status'[j] = status[j]
  BY <1>3, <1>6
<1>9. ASSUME Scoped(i)
      PROVE  status'[i] = 0 <=> \E j \in Above(i) : traces[j].error
  <2>1. status[i] = 0 <=> traces[i].error
    BY <1>1, <1>4, <1>9 DEF StatusesOK
  <2>2. CASE Depth(i) = 0
    <3>1. Above(i) = {i}
      BY <1>1, <1>4, <1>9, <2>2, AboveIs
    <3>2. status' = status
      BY <1>3, <2>2
    <3> QED
      BY <2>1, <3>1, <3>2
  <2>3. CASE Depth(i) # 0
    <3>1. Depth(i) > 0
      BY <1>1, <1>4, <2>3, TracesAre
    <3>2. \A p \in Parents(i) : /\ Above(i) = {i} \cup Above(p) /\ p \in Positions
                                /\ status[p] = 0 <=> \E j \in Above(p) : traces[j].error
      <4> SUFFICES ASSUME NEW p \in Parents(i)
                   PROVE  /\ Above(i) = {i} \cup Above(p) /\ p \in Positions
                          /\ status[p] = 0 <=> \E j \in Above(p) : traces[j].error
        OBVIOUS
      <4>1. Above(i) = {i} \cup Above(p) /\ Depth(p) < Depth(i) /\ Scoped(p) /\ p \in Positions
        BY <1>1, <1>4, <1>9, <3>1, AboveIs
      <4>2. p \in visited
        BY <1>1, <1>4, <4>1, TracesAre
      <4> QED
        BY <1>1, <4>1, <4>2 DEF StatusesOK, Final
    <3>3. PICK p \in Parents(i) : TRUE
      BY <1>3, <1>9, <3>1
    <3>4. CASE \E q \in Parents(i) : status[q] = 0
      <4>1. status'[i] = 0
        BY <1>3, <1>4, <1>6, <1>9, <3>1, <3>4
      <4> QED
        BY <3>2, <3>4, <4>1
    <3>5. CASE ~(\E q \in Parents(i) : status[q] = 0)
      <4>1. status'[i] = status[i]
        BY <1>3, <3>5
      <4>2. Above(i) = {i} \cup Above(p) /\ ~(\E j \in Above(p) : traces[j].error)
        BY <3>2, <3>5
      <4> QED
        BY <2>1, <4>1, <4>2
    <3> QED
      BY <3>4, <3>5
  <2> QED
    BY <2>2, <2>3
<1>10. StatusesOK'
  <2>1. ASSUME NEW j \in Positions, Scoped(j)
        PROVE  IF j \in visited' THEN Final(j)' ELSE (status'[j] = 0 <=> traces'[j].error)
    <3>1. CASE j = i
      BY <1>1, <1>3, <1>5, <1>9, <2>1, <3>1 DEF Final
    <3>2. CASE j # i
      <4>1. status'[j] = status[j] /\ (j \in visited' <=> j \in visited)
        BY <1>3, <1>8, <3>2
      <4> QED
        BY <1>1, <1>5, <2>1, <4>1 DEF StatusesOK, Final
    <3> QED
      BY <3>1, <3>2
  <2> QED
    BY <1>1, <1>5, <2>1 DEF StatusesOK
<1> QED
  BY <1>1, <1>5, <1>7, <1>10 DEF TracesInv, GethOK

LEMMA AllVisitedOK == TracesInv /\ (AllVisited \/ ParentMissing) => TracesInv'
<1> SUFFICES ASSUME TracesInv, AllVisited \/ ParentMissing
             PROVE  TracesInv'
  OBVIOUS
<1>1. /\ trPhase = "visit" /\ trPhase' \in {"ids", "raised"} /\ (trPhase' = "ids" => visited = Positions)
      /\ UNCHANGED <<source, transaction, toIterate, traces, status, visited, ids, contracts>>
      /\ TracesTypeOK /\ Distinct /\ StatusesOK /\ source # "geth"
  BY DEF AllVisited, ParentMissing, TracesInv, GethOK
<1>2. /\ Positions' = Positions /\ Distinct' /\ \A j : Scoped(j)' = Scoped(j) /\ Above(j)' = Above(j)
  BY <1>1, TracesSame
<1>3. TracesTypeOK'
  BY <1>1, <1>2 DEF TracesTypeOK
<1>4. StatusesOK'
  BY <1>1, <1>2 DEF StatusesOK, Final
<1> QED
  BY <1>1, <1>2, <1>3, <1>4 DEF TracesInv, GethOK

LEMMA CalculateIdsOK == TracesInv /\ CalculateIds => TracesInv'
<1> SUFFICES ASSUME TracesInv, CalculateIds
             PROVE  TracesInv'
  OBVIOUS
<1>1. /\ trPhase = "ids" /\ trPhase' = "contracts" /\ ids' = [i \in Positions |-> TraceId(i)]
      /\ UNCHANGED <<source, transaction, toIterate, traces, status, visited, contracts>>
      /\ TracesTypeOK /\ Distinct /\ StatusesOK /\ source = "parity"
  BY DEF CalculateIds, TracesInv, GethOK, TracesTypeOK
<1>2. /\ Positions' = Positions /\ Distinct'
      /\ \A j : Scoped(j)' = Scoped(j) /\ Above(j)' = Above(j) /\ TraceId(j)' = TraceId(j)
  BY <1>1, TracesSame
<1>3. TracesTypeOK'
  BY <1>1, <1>2 DEF TracesTypeOK
<1>4. StatusesOK'
  <2>1. ids' = [i \in Positions' |-> TraceId(i)']
    BY <1>1, <1>2
  <2>2. \A i \in Positions' : Scoped(i)' => Final(i)'
    BY <1>1, <1>2 DEF StatusesOK, Final
  <2> QED
    BY <1>1, <2>1, <2>2 DEF StatusesOK
<1> QED
  BY <1>1, <1>2, <1>3, <1>4 DEF TracesInv, GethOK

LEMMA ExtractContractsOK == TracesInv /\ ExtractContracts => TracesInv'
<1> SUFFICES ASSUME TracesInv, ExtractContracts
             PROVE  TracesInv'
  OBVIOUS
<1>1. /\ trPhase = "contracts" /\ trPhase' = "done"
      /\ contracts' = {i \in Positions : traces[i].type = "create" /\ status[i] = 1}
      /\ UNCHANGED <<source, transaction, toIterate, traces, status, visited, ids>>
      /\ TracesTypeOK /\ Distinct /\ StatusesOK /\ GethOK
      /\ source = "geth" => Ordered
  BY DEF ExtractContracts, TracesInv
<1>2. /\ Positions' = Positions /\ Distinct' /\ Ordered' = Ordered
      /\ \A j : Scoped(j)' = Scoped(j) /\ Above(j)' = Above(j) /\ TraceId(j)' = TraceId(j)
  BY <1>1, TracesSame
<1>3. TracesTypeOK'
  BY <1>1, <1>2 DEF TracesTypeOK
<1>4. StatusesOK' /\ GethOK'
  <2>1. source = "parity" => ids' = [i \in Positions' |-> TraceId(i)']
    BY <1>1, <1>2 DEF StatusesOK
  <2>2. source = "parity" => \A i \in Positions' : Scoped(i)' => Final(i)'
    BY <1>1, <1>2 DEF StatusesOK, Final
  <2>3. contracts' = {i \in Positions' : traces'[i].type = "create" /\ status'[i] = 1}
    BY <1>1, <1>2
  <2>4. GethOK'
    BY <1>1, <1>2 DEF GethOK
  <2> QED
    BY <1>1, <2>1, <2>2, <2>3, <2>4 DEF StatusesOK
<1> QED
  BY <1>1, <1>2, <1>3, <1>4 DEF TracesInv

LEMMA TracesNextOK == TracesInv /\ [TracesNext]_tracesVars => TracesInv'
<1> SUFFICES ASSUME TracesInv, [TracesNext]_tracesVars
             PROVE  TracesInv'
  OBVIOUS
<1>1. CASE UNCHANGED tracesVars
  <2>1. UNCHANGED <<trPhase, source, transaction, toIterate, traces, status, visited, ids, contracts>>
    BY <1>1 DEF tracesVars
  <2>2. /\ Positions' = Positions /\ Distinct' = Distinct /\ Ordered' = Ordered
        /\ \A j : Scoped(j)' = Scoped(j) /\ Above(j)' = Above(j) /\ TraceId(j)' = TraceId(j)
                  /\ Address(j)' = Address(j)
    BY <2>1, TracesSame
  <2>3. TracesTypeOK' /\ GethOK'
    BY <2>1, <2>2 DEF TracesInv, TracesTypeOK, GethOK
  <2>4. Walk' = Walk
    BY <2>1, <2>2 DEF Walk
  <2>5. \A j : Final(j)' = Final(j)
    BY <2>1, <2>2 DEF Final
  <2>6. StatusesOK'
    <3>1. [i \in Positions' |-> TraceId(i)'] = [i \in Positions |-> TraceId(i)]
      BY <2>2
    <3> QED
      BY <2>1, <2>2, <2>5, <3>1 DEF TracesInv, StatusesOK
  <2> QED
    BY <2>1, <2>2, <2>3, <2>4, <2>6 DEF TracesInv
<1> QED
  BY <1>1, BeginTransactionOK, IterateCallOK, ExtractedOK, AddRewardOK, AnswerOK, DefaultsOK, VisitOK,
     AllVisitedOK, CalculateIdsOK, ExtractContractsOK DEF TracesNext

LEMMA StatusesDecideOK == TracesInv => StatusesDecide
<1> SUFFICES ASSUME TracesInv
             PROVE  StatusesDecide
  OBVIOUS
<1>1. TracesTypeOK /\ StatusesOK /\ GethOK /\ (source = "geth" => Ordered)
  BY DEF TracesInv
<1>2. FailureIsInherited
  BY <1>1 DEF FailureIsInherited, StatusesOK, Final
<1>3. ContractsExist
  <2> SUFFICES ASSUME NEW i \in contracts
               PROVE  traces[i].type = "create" /\ \A j \in Above(i) : ~traces[j].error
    BY DEF ContractsExist
  <2>1. trPhase = "done" /\ i \in Positions /\ traces[i].type = "create" /\ status[i] = 1
    BY <1>1 DEF TracesTypeOK, StatusesOK
  <2>2. source = "parity"
    BY <1>1, <2>1 DEF TracesTypeOK, GethOK, None
  <2>3. Scoped(i)
    BY <1>1, <2>1 DEF TracesTypeOK
  <2>4. Final(i)
    BY <1>1, <2>1, <2>2, <2>3 DEF StatusesOK
  <2> QED
    BY <2>1, <2>4 DEF Final
<1>4. FlattenedInOrder
  <2> SUFFICES ASSUME source = "geth", NEW i \in Positions, NEW j \in Positions,
                      traces[i].tx = traces[j].tx, i < j
               PROVE  \/ IsStrictPrefix(traces[i].address, traces[j].address)
                      \/ \E k \in DOMAIN traces[i].address \cap DOMAIN traces[j].address :
                           /\ SubSeq(traces[i].address, 1, k - 1) = SubSeq(traces[j].address, 1, k - 1)
                           /\ traces[i].address[k] < traces[j].address[k]
    BY DEF FlattenedInOrder
  <2> DEFINE a == traces[i].address
             b == traces[j].address
  <2>1. a \in Addresses /\ b \in Addresses /\ ComesBefore(a, b)
    BY <1>1, TracesAre DEF GethOK, Ordered, Address
  <2> HIDE DEF a, b
  <2>2. CASE PrefixOf(a, b) /\ Len(a) < Len(b)
    <3>1. IsPrefix(a, b) /\ a # b
      BY <2>1, <2>2, PrefixIs, AddressIs
    <3> QED
      BY <3>1 DEF IsStrictPrefix, a, b
  <2>3. CASE EarlierBranch(a, b)
    <3>1. PICK k \in (DOMAIN a) \cap (DOMAIN b) : (\A m \in 1 .. k - 1 : a[m] = b[m]) /\ a[k] < b[k]
      BY <2>3 DEF EarlierBranch
    <3>2. k - 1 \in 0 .. Len(a) /\ k - 1 \in 0 .. Len(b) /\ a \in Seq(Nat) /\ b \in Seq(Nat)
      BY <2>1, AddressIs DEF Addresses
    <3>3. SubSeq(a, 1, k - 1) = SubSeq(b, 1, k - 1)
      <4>1. /\ Len(SubSeq(a, 1, k - 1)) = k - 1 /\ \A m \in 1 .. k - 1 : SubSeq(a, 1, k - 1)[m] = a[m]
            /\ Len(SubSeq(b, 1, k - 1)) = k - 1 /\ \A m \in 1 .. k - 1 : SubSeq(b, 1, k - 1)[m] = b[m]
        BY <3>2, HeadOfSequence
      <4>2. SubSeq(a, 1, k - 1) \in Seq(Nat) /\ SubSeq(b, 1, k - 1) \in Seq(Nat)
        BY <3>2, HeadOfSequence
      <4> QED
        BY <3>1, <4>1, <4>2
    <3> QED
      BY <3>1, <3>3 DEF a, b
  <2> QED
    BY <2>1, <2>2, <2>3 DEF ComesBefore
<1> QED
  BY <1>2, <1>3, <1>4 DEF StatusesDecide

(* THEOREM: for any trees of calls, and any answer of Parity in any order and *)
(* with any traces missing, the statuses are inherited along the trees, only  *)
(* creations that were not rolled back are exported as contracts, and geth's  *)
(* trees are flattened in their order.                                        *)
THEOREM StatusesDecideTheorem == TracesSpec => []StatusesDecide
BY StatusesDecideOK, TracesInitOK, TracesNextOK, PTL DEF TracesSpec

-----------------------------------------------------------------------------
(* The ids *)

(* The rewards before a reward in the sorted order *)
Ahead(i) ==
  {j \in Positions : ~Scoped(j) /\
     (traces[j].key < traces[i].key \/ (traces[j].key = traces[i].key /\ j < i))}

LEMMA RankIs ==
  ASSUME TracesTypeOK
  PROVE  /\ \A i : Rank(i) = Cardinality(Ahead(i))
         /\ \A ns \in SUBSET Positions : IsFiniteSet(ns) /\ Cardinality(ns) \in Nat
<1>1. \A i : Rank(i) = Cardinality(Ahead(i))
  BY DEF Rank, Ahead
<1>2. IsFiniteSet(Positions)
  <2>1. Len(traces) \in Nat /\ Positions = 1 .. Len(traces)
    BY TracesAre
  <2>2. IsFiniteSet(1 .. Len(traces))
    BY <2>1, FS_Interval
  <2> QED
    BY <2>1, <2>2
<1> QED
  BY <1>1, <1>2, FS_Subset, FS_CardinalityType

(* A set within another that has one more has a smaller number of members. *)
LEMMA FewerMembers ==
  ASSUME TracesTypeOK, NEW ns \in SUBSET Positions, NEW ms \in SUBSET Positions, ns \subseteq ms,
         NEW x \in ms, x \notin ns
  PROVE  Cardinality(ns) < Cardinality(ms)
<1>1. IsFiniteSet(ms) /\ Cardinality(ms) \in Nat /\ Cardinality(ns) \in Nat
  BY RankIs
<1>2. Cardinality(ns) <= Cardinality(ms) /\ Cardinality(ms) # Cardinality(ns)
  BY <1>1, FS_Subset
<1> QED
  BY <1>1, <1>2

LEMMA IdsIdentifyOK == TracesInv => IdsIdentifyTraces
<1> SUFFICES ASSUME TracesInv, trPhase = "done", source = "parity"
             PROVE  IdsIdentifyTraces
  BY DEF IdsIdentifyTraces
<1>1. TracesTypeOK /\ Distinct /\ ids = [i \in Positions |-> TraceId(i)]
  BY DEF TracesInv, StatusesOK
<1>2. \A i \in Positions : i \in Int /\ traces[i].key \in Int
  BY <1>1, TracesAre
<1>3. ASSUME NEW i \in Positions, NEW j \in Positions, ~Scoped(i), ~Scoped(j), Rank(i) = Rank(j)
      PROVE  i = j
  <2>1. ASSUME NEW x \in Positions, NEW y \in Positions, x \in Ahead(y)
        PROVE  Cardinality(Ahead(x)) < Cardinality(Ahead(y))
    <3>1. Ahead(x) \in SUBSET Positions /\ Ahead(y) \in SUBSET Positions
      BY DEF Ahead
    <3>2. Ahead(x) \subseteq Ahead(y)
      <4> SUFFICES ASSUME NEW z \in Ahead(x)
                   PROVE  z \in Ahead(y)
        OBVIOUS
      <4>1. z \in Positions
        BY DEF Ahead
      <4> QED
        BY <1>2, <2>1, <4>1 DEF Ahead
    <3>3. x \notin Ahead(x)
      BY <1>2 DEF Ahead
    <3> QED
      BY <1>1, <2>1, <3>1, <3>2, <3>3, FewerMembers
  <2>2. i # j => i \in Ahead(j) \/ j \in Ahead(i)
    BY <1>2, <1>3 DEF Ahead
  <2>3. Cardinality(Ahead(i)) = Cardinality(Ahead(j)) /\ Cardinality(Ahead(i)) \in Nat
    <3>1. Ahead(i) \in SUBSET Positions
      BY DEF Ahead
    <3> QED
      BY <1>1, <1>3, <3>1, RankIs
  <2> QED
    BY <2>1, <2>2, <2>3
<1>4. ASSUME NEW i \in Positions, NEW j \in Positions, ids[i] = ids[j]
      PROVE  i = j
  <2>1. TraceId(i) = TraceId(j)
    BY <1>1, <1>4
  <2>2. /\ traces[i].tx = traces[j].tx /\ Address(i) = Address(j)
        /\ (IF Scoped(i) THEN 0 ELSE Rank(i)) = (IF Scoped(j) THEN 0 ELSE Rank(j))
    BY <2>1 DEF TraceId, Address
  <2>3. CASE Scoped(i)
    BY <1>1, <2>2, <2>3 DEF Distinct
  <2>4. CASE ~Scoped(i)
    <3>1. ~Scoped(j)
      BY <2>2, <2>4 DEF Scoped
    <3> QED
      BY <1>3, <2>2, <2>4, <3>1
  <2> QED
    BY <2>3, <2>4
<1>5. ASSUME NEW i \in Positions, ~Scoped(i)
      PROVE  ids[i].rank \in Cardinality({j \in Positions : ~Scoped(j) /\ traces[j].key < traces[i].key})
                .. Cardinality({j \in Positions : ~Scoped(j) /\ traces[j].key <= traces[i].key}) - 1
  <2> DEFINE less == {j \in Positions : ~Scoped(j) /\ traces[j].key < traces[i].key}
             upTo == {j \in Positions : ~Scoped(j) /\ traces[j].key <= traces[i].key}
  <2>1. ids[i].rank = Cardinality(Ahead(i))
    <3>1. ids[i] = TraceId(i) /\ TraceId(i).rank = Rank(i)
      BY <1>1, <1>5 DEF TraceId
    <3> QED
      BY <1>1, <3>1, RankIs
  <2>2. /\ less \in SUBSET Positions /\ upTo \in SUBSET Positions /\ Ahead(i) \in SUBSET Positions
        /\ less \subseteq Ahead(i) /\ Ahead(i) \subseteq upTo /\ i \in upTo /\ i \notin Ahead(i)
    BY <1>2, <1>5 DEF Ahead
  <2> HIDE DEF less, upTo
  <2>3. /\ Cardinality(less) \in Nat /\ Cardinality(upTo) \in Nat /\ Cardinality(Ahead(i)) \in Nat
        /\ IsFiniteSet(Ahead(i))
    BY <1>1, <2>2, RankIs
  <2>4. Cardinality(less) <= Cardinality(Ahead(i))
    BY <2>2, <2>3, FS_Subset
  <2>5. Cardinality(Ahead(i)) < Cardinality(upTo)
    BY <1>1, <2>2, FewerMembers
  <2>6. Cardinality(Ahead(i)) \in Cardinality(less) .. Cardinality(upTo) - 1
    BY <2>3, <2>4, <2>5
  <2> QED
    BY <2>1, <2>6 DEF less, upTo
<1> QED
  BY <1>4, <1>5 DEF IdsIdentifyTraces

(* THEOREM: no two traces of a block have the same trace_id, and that of a    *)
(* reward changes with the order of the answer only among rewards that are    *)
(* equal in all they are sorted by.                                           *)
THEOREM IdsIdentifyTracesTheorem == TracesSpec => []IdsIdentifyTraces
BY IdsIdentifyOK, TracesInitOK, TracesNextOK, PTL DEF TracesSpec
=============================================================================
