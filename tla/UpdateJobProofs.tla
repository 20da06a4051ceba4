-------------------------- MODULE UpdateJobProofs --------------------------
(***************************************************************************)
(* Theorems about UpdateJob, for every clock, look-back, set of orders and *)
(* number of failures.                                                     *)
(*                                                                         *)
(* That uploads only add to the bucket is not inductive by itself: it      *)
(* depends on the disk holding, when the upload starts, at least what the  *)
(* bucket holds (CloudInv), which the download establishes file by file.   *)
(* Which torn files can be uploaded depends on the order in which the run  *)
(* parses its files (ParsedInv).                                           *)
(***************************************************************************)
EXTENDS UpdateJob, TLAPS

AbsentIsEmpty == \A f \in Files : stored[f].state = "absent" => stored[f].rows = {}

\* The steps of a run that follow the parse or the writing of a file.
Behind(f) ==
    CASE f = "equity_curve" -> {"balance", "trades", "orders", "positions", "summary", "sync"}
      [] f = "balance" -> {"trades", "orders", "positions", "summary", "sync"}
      [] f = "trades" -> {"orders", "positions", "summary", "sync"}
      [] f = "orders" -> {"positions", "summary", "sync"}
      [] f = "summary" -> {"sync"}
      [] OTHER -> {}

\* The files the run has parsed, or written whole, are not torn; on cloud_run
\* none is.
ParsedInv ==
    /\ \A f \in Files : pc \in Behind(f) => Readable(f)
    /\ deployment = "cloud_run" => \A f \in Files : Readable(f)

\* The disk has every row the bucket has of this file.
Holds(f) == Ids(stored[f]) \subseteq Ids(disk[f])

CloudInv ==
    deployment = "cloud_run" =>
        /\ pc = "idle" => disk = NoFiles
        /\ pc = "download" => \A i \in 1 .. cursor - 1 : Holds(SyncFiles[i])
        /\ pc \notin {"idle", "download"} => \A f \in Files : Holds(f)

\* The files one execution takes from the exchange alone have no rows.
Snapshots == {"positions", "balance", "summary"}

SnapshotInv == \A f \in Snapshots : disk[f].rows = {} /\ stored[f].rows = {}

CoreInv ==
    /\ TypeOK
    /\ OnlyCarriedFilesTear
    /\ AbsentIsEmpty
    /\ ParsedInv
    /\ CloudInv
    /\ pc = "idle" => cursor = 1

IInv == CoreInv /\ SnapshotInv

-----------------------------------------------------------------------------
\* The eight synchronised files: each has one position.
LEMMA SyncOrder ==
    /\ Len(SyncFiles) = 8
    /\ \A i \in 1 .. 8 : SyncFiles[i] \in Files
    /\ \A f \in Files : \E i \in 1 .. 8 : f = SyncFiles[i]
    /\ \A i, j \in 1 .. 8 : SyncFiles[i] = SyncFiles[j] => i = j
<1>1. /\ Len(SyncFiles) = 8
      /\ SyncFiles[1] = "equity_curve" /\ SyncFiles[2] = "orders" /\ SyncFiles[3] = "trades"
      /\ SyncFiles[4] = "positions" /\ SyncFiles[5] = "balance" /\ SyncFiles[6] = "summary"
      /\ SyncFiles[7] = "transfers" /\ SyncFiles[8] = "bills_ledger"
  BY DEF SyncFiles
<1>2. \A i, j \in 1 .. 8 : SyncFiles[i] = SyncFiles[j] => i = j
  BY <1>1
<1> QED BY <1>1, <1>2 DEF Files

\* The files by name.
LEMMA FileNames ==
    Files = {"equity_curve", "orders", "trades", "positions", "balance", "summary",
             "transfers", "bills_ledger"}
<1>1. /\ SyncFiles[1] = "equity_curve" /\ SyncFiles[2] = "orders" /\ SyncFiles[3] = "trades"
      /\ SyncFiles[4] = "positions" /\ SyncFiles[5] = "balance" /\ SyncFiles[6] = "summary"
      /\ SyncFiles[7] = "transfers" /\ SyncFiles[8] = "bills_ledger"
  BY DEF SyncFiles
<1>2. \A i \in 1 .. 8 : i \in {1, 2, 3, 4, 5, 6, 7, 8}
  OBVIOUS
<1>3. \A f \in Files : \E i \in {1, 2, 3, 4, 5, 6, 7, 8} : f = SyncFiles[i]
  BY <1>2 DEF Files
<1>4. \A i \in {1, 2, 3, 4, 5, 6, 7, 8} : SyncFiles[i] \in Files
  BY DEF Files
<1> QED BY <1>1, <1>3, <1>4

LEMMA NoFilesIsFiles == NoFiles \in [Files -> File] /\ \A f \in Files : NoFiles[f] = Absent
BY DEF NoFiles, File, Absent

\* What the exchange returns, and the days of the curve, are rows.
LEMMA FetchedRows ==
    ASSUME TypeOK
    PROVE  /\ RecentTrades \subseteq Row
           /\ RecentOrders \subseteq Row
           /\ [id : 0 .. Day(clock), status : {"closed"}] \subseteq Row
<1>1. Ticks \subseteq Nat
  BY DEF Ticks
<1>2. RecentTrades \subseteq Row
  BY <1>1 DEF RecentTrades, Row
<1>3. RecentOrders \subseteq Row
  <2>1. \A u \in Ticks : book[u] # "none" => book[u] \in {"open", "closed"}
    BY DEF TypeOK
  <2>2. QED
    BY <1>1, <2>1 DEF RecentOrders, Row
<1>4. [id : 0 .. Day(clock), status : {"closed"}] \subseteq Row
  BY DEF Row
<1>5. QED
  BY <1>2, <1>3, <1>4

\* Extending a readable file keeps its rows and leaves it readable.
LEMMA ExtendedFile ==
    ASSUME NEW f \in Files, disk[f] \in File, Readable(f),
           NEW got, got \subseteq Row
    PROVE  /\ Extended(f, got) \in File
           /\ Extended(f, got).state # "torn"
           /\ disk[f].rows \subseteq Extended(f, got).rows
<1>1. New(f, got) \subseteq Row
  BY DEF New
<1>2. CASE New(f, got) = {}
  BY <1>2 DEF Extended, Readable
<1>3. CASE New(f, got) # {}
  BY <1>1, <1>3 DEF Extended, Whole, File
<1>4. QED
  BY <1>2, <1>3

\* An execution that ends leaves a typed disk, and an empty one on cloud_run.
LEMMA ExitKeepsInv ==
    ASSUME IInv, NEW left, left \in [Files -> File], Exit(left),
           UNCHANGED world, faults' \in 0 .. MaxFaults,
           stored' \in [Files -> File], OnlyCarriedFilesTear', AbsentIsEmpty'
    PROVE  CoreInv'
<1>1. disk' \in [Files -> File]
  BY NoFilesIsFiles DEF Exit
<1>2. TypeOK'
  BY <1>1, SyncOrder DEF IInv, CoreInv, TypeOK, Exit, world
<1>3. ParsedInv' /\ CloudInv' /\ cursor' = 1
  BY NoFilesIsFiles DEF ParsedInv, CloudInv, Exit, world, Behind, Readable, Absent
<1>4. QED
  BY <1>2, <1>3 DEF IInv, CoreInv

LEMMA InitIInv == Init => IInv
<1> SUFFICES ASSUME Init PROVE IInv
  OBVIOUS
<1>1. Backfilled \in [Files -> File] /\ \A f \in Files : Backfilled[f].state = "whole"
  BY DEF Backfilled, File, Row, Whole
<1>2. stored \in [Files -> File] /\ disk \in [Files -> File]
  BY <1>1, NoFilesIsFiles DEF Init
<1>3. TypeOK
  BY <1>2, SyncOrder, TickAssumption, JobAssumption DEF Init, TypeOK, Ticks
<1>4. OnlyCarriedFilesTear /\ AbsentIsEmpty
  BY <1>1, NoFilesIsFiles DEF Init, OnlyCarriedFilesTear, AbsentIsEmpty, Absent
<1>5. ParsedInv /\ CloudInv
  BY NoFilesIsFiles DEF Init, ParsedInv, CloudInv, Behind, Readable, Absent
<1>6. SnapshotInv
  BY NoFilesIsFiles, FileNames DEF Init, SnapshotInv, Snapshots, Backfilled, Whole, Absent
<1>7. QED
  BY <1>3, <1>4, <1>5, <1>6 DEF IInv, CoreInv, Init

\* Every step keeps the invariant but for the snapshots.
LEMMA StepCoreInv == IInv /\ [Next]_vars => CoreInv'
<1> SUFFICES ASSUME IInv, [Next]_vars PROVE CoreInv'
  OBVIOUS
<1> USE DEF IInv, CoreInv
<1>1. ASSUME Tick \/ PlaceOrder \/ (\E t \in Ticks : FillOrder(t)) PROVE CoreInv'
  <2>1. /\ UNCHANGED <<deployment, stored, disk, run, faults>>
        /\ clock' \in Ticks
        /\ book' \in [Ticks -> {"none", "open", "closed"}]
        /\ filledAt' \in [Ticks -> Ticks]
    <3>1. CASE Tick
      BY <3>1, TickAssumption DEF Tick, TypeOK, Ticks
    <3>2. CASE PlaceOrder
      BY <3>2 DEF PlaceOrder, TypeOK
    <3>3. CASE \E t \in Ticks : FillOrder(t)
      BY <3>3 DEF FillOrder, TypeOK
    <3>4. QED
      BY <1>1, <3>1, <3>2, <3>3
  <2>2. TypeOK'
    BY <2>1 DEF TypeOK, run
  <2>3. /\ OnlyCarriedFilesTear' /\ AbsentIsEmpty'
        /\ (ParsedInv /\ (pc = "idle" => cursor = 1))'
    BY <2>1 DEF OnlyCarriedFilesTear, AbsentIsEmpty, ParsedInv, Readable, run
  <2>4. CloudInv'
    BY <2>1 DEF CloudInv, Holds, Ids, run
  <2>5. QED
    BY <2>2, <2>3, <2>4
<1>2. CASE LoseDisk
  <2>1. /\ UNCHANGED <<world, stored, run>> /\ disk' = NoFiles
        /\ faults' \in 0 .. MaxFaults /\ deployment = "host" /\ pc = "idle"
    BY <1>2, JobAssumption DEF LoseDisk, Fault, TypeOK
  <2>2. TypeOK'
    BY <2>1, NoFilesIsFiles DEF TypeOK, world, run
  <2>3. /\ OnlyCarriedFilesTear' /\ AbsentIsEmpty' /\ ParsedInv' /\ CloudInv'
        /\ (pc = "idle" => cursor = 1)'
    BY <2>1 DEF OnlyCarriedFilesTear, AbsentIsEmpty, ParsedInv, CloudInv, world, run, Behind
  <2>4. QED
    BY <2>2, <2>3
<1>3. ASSUME NEW w \in Windows, Start(w) PROVE CoreInv'
  <2>1. /\ UNCHANGED <<world, stored, disk, cursor, faults>> /\ window' = w
        /\ pc = "idle" /\ pc' \in {"curve", "download"}
        /\ Exists(disk["equity_curve"]) => pc' = "curve"
        /\ ~Exists(disk["equity_curve"]) => pc' = "download"
    BY <1>3 DEF Start
  <2>2. TypeOK'
    BY <2>1 DEF TypeOK, world
  <2>3. OnlyCarriedFilesTear' /\ AbsentIsEmpty' /\ ParsedInv'
    BY <2>1 DEF OnlyCarriedFilesTear, AbsentIsEmpty, ParsedInv, Behind, Readable, world
  <2>4. CloudInv'
    <3>1. CASE deployment = "cloud_run"
      <4>1. pc' = "download" /\ cursor' = 1
        BY <2>1, <3>1, NoFilesIsFiles, FileNames DEF CloudInv, Exists, Absent
      <4>2. QED
        BY <4>1 DEF CloudInv
    <3>2. CASE deployment # "cloud_run"
      BY <2>1, <3>2 DEF CloudInv, world
    <3>3. QED
      BY <3>1, <3>2
  <2>5. QED
    BY <2>1, <2>2, <2>3, <2>4
<1>4. CASE Download
  <2> DEFINE f == SyncFiles[cursor]
  <2>1. /\ pc = "download" /\ disk' = [disk EXCEPT ![f] = Downloaded(f)]
        /\ UNCHANGED <<world, stored, window, faults>>
    BY <1>4 DEF Download
  <2>2. \/ cursor = 8 /\ pc' = "curve" /\ cursor' = 1
        \/ cursor \in 1 .. 7 /\ pc' = "download" /\ cursor' = cursor + 1
    BY <1>4, SyncOrder DEF Download, TypeOK
  <2>3. f \in Files
    BY SyncOrder DEF TypeOK
  <2>4. disk' \in [Files -> File]
    BY <2>1, <2>3 DEF TypeOK, Downloaded
  <2>5. TypeOK'
    BY <2>1, <2>2, <2>4, SyncOrder DEF TypeOK, world
  <2>6. OnlyCarriedFilesTear' /\ AbsentIsEmpty' /\ ParsedInv' /\ (pc = "idle" => cursor = 1)'
    <3>1. OnlyCarriedFilesTear' /\ AbsentIsEmpty' /\ (pc = "idle" => cursor = 1)'
      BY <2>1, <2>2 DEF OnlyCarriedFilesTear, AbsentIsEmpty, world
    <3>2. \A g \in Files : pc' \notin Behind(g)
      BY <2>2 DEF Behind
    <3>3. ASSUME deployment = "cloud_run", NEW g \in Files PROVE disk'[g].state # "torn"
      <4>1. disk[g].state # "torn" /\ stored[g].state # "torn"
        BY <3>3 DEF ParsedInv, Readable, OnlyCarriedFilesTear
      <4> QED BY <2>1, <2>3, <4>1 DEF TypeOK, Downloaded
    <3> QED BY <2>1, <3>1, <3>2, <3>3 DEF ParsedInv, Readable, world
  <2> DEFINE HoldsNext(g) == Ids(stored'[g]) \subseteq Ids(disk'[g])
  <2>7. HoldsNext(f)
    <3>1. disk'[f] = Downloaded(f) /\ stored' = stored
      BY <2>1, <2>3 DEF TypeOK
    <3>2. Exists(stored[f]) => HoldsNext(f)
      BY <3>1 DEF Downloaded
    <3>3. ~Exists(stored[f]) => Ids(stored[f]) = {}
      BY <2>3 DEF Ids, Exists, AbsentIsEmpty
    <3>4. QED
      BY <3>1, <3>2, <3>3
  <2>8. ASSUME NEW g \in Files, g # f, Holds(g) PROVE HoldsNext(g)
    <3>1. disk'[g] = disk[g] /\ stored' = stored
      BY <2>1, <2>8 DEF TypeOK
    <3>2. QED
      BY <2>8, <3>1 DEF Holds
  <2>9. CloudInv'
    <3> SUFFICES ASSUME deployment = "cloud_run"
                 PROVE  /\ pc' = "download" =>
                             \A i \in 1 .. cursor' - 1 : HoldsNext(SyncFiles[i])
                        /\ pc' = "curve" => \A g \in Files : HoldsNext(g)
      BY <2>1, <2>2 DEF CloudInv, Holds, world
    <3>1. \A i \in 1 .. cursor : HoldsNext(SyncFiles[i])
      <4> TAKE i \in 1 .. cursor
      <4>1. CASE i = cursor
        BY <2>7, <4>1
      <4>2. CASE i # cursor
        <5>1. i \in 1 .. cursor - 1 /\ i \in 1 .. 8 /\ cursor \in 1 .. 8
          BY <4>2, <2>2, SyncOrder DEF TypeOK
        <5>2. Holds(SyncFiles[i])
          BY <2>1, <5>1 DEF CloudInv
        <5>3. SyncFiles[i] \in Files /\ SyncFiles[i] # f
          BY <4>2, <5>1, SyncOrder
        <5>4. QED
          BY <2>8, <5>2, <5>3
      <4>3. QED
        BY <4>1, <4>2
    <3>2. ASSUME pc' = "download" PROVE \A i \in 1 .. cursor' - 1 : HoldsNext(SyncFiles[i])
      BY <2>2, <3>1, <3>2
    <3>3. ASSUME pc' = "curve", NEW g \in Files PROVE HoldsNext(g)
      <4>1. cursor = 8
        BY <2>2, <3>3
      <4>2. \E i \in 1 .. 8 : g = SyncFiles[i]
        BY SyncOrder
      <4>3. QED
        BY <3>1, <4>1, <4>2
    <3>4. QED
      BY <3>2, <3>3
  <2>10. QED
    BY <2>5, <2>6, <2>9
<1>5. CASE DownloadFails \/ ExchangeRefuses \/ CannotRead \/ SyncFails
  <2>1. Exit(disk) /\ UNCHANGED <<world, stored>> /\ faults' \in 0 .. MaxFaults
    BY <1>5, JobAssumption
       DEF DownloadFails, ExchangeRefuses, CannotRead, SyncFails, Fault, TypeOK
  <2>2. disk \in [Files -> File] /\ stored' \in [Files -> File]
        /\ OnlyCarriedFilesTear' /\ AbsentIsEmpty'
    BY <2>1 DEF TypeOK, OnlyCarriedFilesTear, AbsentIsEmpty, world
  <2>3. QED
    BY <2>1, <2>2, ExitKeepsInv
<1>6. CASE Crash
  <2>1. UNCHANGED <<world, stored>> /\ faults' \in 0 .. MaxFaults
    BY <1>6, JobAssumption DEF Crash, Fault, TypeOK
  <2>2. stored' \in [Files -> File] /\ OnlyCarriedFilesTear' /\ AbsentIsEmpty'
    BY <2>1 DEF TypeOK, OnlyCarriedFilesTear, AbsentIsEmpty, world
  <2>3. PICK left \in [Files -> File] : Exit(left)
    <3>1. CASE Exit(disk)
      BY <3>1 DEF TypeOK
    <3>2. ASSUME NEW f \in BeingWritten,
                 Exit([disk EXCEPT ![f] = [state |-> "torn", rows |-> {}]])
          PROVE  \E left \in [Files -> File] : Exit(left)
      <4>1. [disk EXCEPT ![f] = [state |-> "torn", rows |-> {}]] \in [Files -> File]
        BY DEF TypeOK, File
      <4>2. QED
        BY <3>2, <4>1
    <3>3. QED
      BY <1>6, <3>1, <3>2 DEF Crash
  <2>4. QED
    BY <2>1, <2>2, <2>3, ExitKeepsInv
<1>7. ASSUME NEW f \in Files, NEW file \in File,
             pc \in {"curve", "balance", "trades", "orders", "positions", "summary"},
             disk' = [disk EXCEPT ![f] = file],
             disk[f].rows \subseteq file.rows, file.state # "torn",
             pc' = After,
             f = IF pc = "curve" THEN "equity_curve" ELSE pc,
             UNCHANGED <<world, stored, cursor, window>>,
             faults' \in 0 .. MaxFaults
      PROVE  CoreInv'
  <2>1. disk' \in [Files -> File] /\ disk'[f] = file
        /\ \A g \in Files : g # f => disk'[g] = disk[g]
    BY <1>7 DEF TypeOK
  <2>2. /\ pc' \in {"balance", "trades", "orders", "positions", "summary", "sync"}
        /\ \A g \in Files : pc' \in Behind(g) => pc \in Behind(g) \/ g = f
    BY <1>7 DEF After, Behind
  <2>3. TypeOK'
    BY <1>7, <2>1, <2>2 DEF TypeOK, world
  <2>4. OnlyCarriedFilesTear' /\ AbsentIsEmpty' /\ (pc = "idle" => cursor = 1)'
    BY <1>7, <2>2 DEF OnlyCarriedFilesTear, AbsentIsEmpty, world
  <2>5. ParsedInv'
    <3>1. \A g \in Files : Readable(g) \/ g = f => disk'[g].state # "torn"
      BY <1>7, <2>1 DEF Readable
    <3> QED BY <1>7, <2>2, <3>1 DEF ParsedInv, Readable, world
  <2>6. CloudInv'
    <3>1. ASSUME NEW g \in Files, Holds(g) PROVE Holds(g)'
      <4>1. disk[g].rows \subseteq disk'[g].rows /\ stored' = stored
        BY <1>7, <2>1
      <4>2. QED
        BY <3>1, <4>1 DEF Holds, Ids
    <3>2. QED
      BY <1>7, <2>2, <3>1 DEF CloudInv, world
  <2>7. QED
    BY <2>3, <2>4, <2>5, <2>6
<1>8. CASE RefreshCurve
  <2> DEFINE days == [id : 0 .. Day(clock), status : {"closed"}]
             file == [disk["equity_curve"] EXCEPT !.rows = @ \cup days]
  <2>1. disk["equity_curve"] \in File /\ disk["equity_curve"].state = "whole"
        /\ days \subseteq Row
    BY <1>8, FetchedRows, FileNames DEF RefreshCurve, TypeOK
  <2>2. file \in File /\ file.state = "whole"
        /\ disk["equity_curve"].rows \subseteq file.rows
    BY <2>1 DEF File
  <2>3. /\ pc = "curve" /\ pc' = After
        /\ disk' = [disk EXCEPT !["equity_curve"] = file]
        /\ UNCHANGED <<world, stored, cursor, window>> /\ faults' \in 0 .. MaxFaults
    BY <1>8 DEF RefreshCurve, TypeOK
  <2> HIDE DEF file
  <2>4. QED
    BY <2>2, <2>3, <1>7, FileNames
<1>9. ASSUME NEW got \in SUBSET RecentTrades, UpdateTrades(got) PROVE CoreInv'
  <2> DEFINE file == Extended("trades", got)
  <2>1. /\ pc = "trades" /\ pc' = After /\ Readable("trades")
        /\ disk' = [disk EXCEPT !["trades"] = file]
        /\ UNCHANGED <<world, stored, cursor, window>> /\ faults' \in 0 .. MaxFaults
    BY <1>9, JobAssumption DEF UpdateTrades, Fetched, Fault, TypeOK
  <2>2. disk["trades"] \in File /\ got \subseteq Row
    BY FetchedRows, FileNames DEF TypeOK
  <2>3. file \in File /\ file.state # "torn" /\ disk["trades"].rows \subseteq file.rows
    BY <2>1, <2>2, ExtendedFile, FileNames
  <2> HIDE DEF file
  <2>4. QED
    BY <2>1, <2>3, <1>7, FileNames
<1>10. ASSUME NEW got \in SUBSET RecentOrders, UpdateOrders(got) PROVE CoreInv'
  <2> DEFINE file == Extended("orders", got)
  <2>1. /\ pc = "orders" /\ pc' = After /\ Readable("orders")
        /\ disk' = [disk EXCEPT !["orders"] = file]
        /\ UNCHANGED <<world, stored, cursor, window>> /\ faults' \in 0 .. MaxFaults
    BY <1>10, JobAssumption DEF UpdateOrders, Fetched, Fault, TypeOK
  <2>2. disk["orders"] \in File /\ got \subseteq Row
    BY FetchedRows, FileNames DEF TypeOK
  <2>3. file \in File /\ file.state # "torn" /\ disk["orders"].rows \subseteq file.rows
    BY <2>1, <2>2, ExtendedFile, FileNames
  <2> HIDE DEF file
  <2>4. QED
    BY <2>1, <2>3, <1>7, FileNames
<1>11. CASE Upload
  <2> DEFINE f == SyncFiles[cursor]
  <2>1. /\ pc = "sync" /\ stored' = [stored EXCEPT ![f] = Uploaded(f)]
        /\ UNCHANGED <<world, faults>>
    BY <1>11 DEF Upload
  <2>2. f \in Files
    BY SyncOrder DEF TypeOK
  <2>3. /\ Uploaded(f) \in File
        /\ Uploaded(f).state = "torn" => deployment = "host" /\ f \in Carried
        /\ Uploaded(f).state = "absent" => Uploaded(f).rows = {}
    <3>1. disk[f].state = "torn" => f \in Carried
      <4>1. f \notin Carried => pc \in Behind(f)
        BY <2>1, <2>2, FileNames DEF Behind, Carried
      <4> QED BY <2>2, <4>1 DEF ParsedInv, Readable
    <3>2. disk[f].state = "torn" => deployment = "host"
      BY <2>2, JobAssumption DEF ParsedInv, Readable, TypeOK
    <3> QED
      BY <2>2, <3>1, <3>2 DEF Uploaded, Exists, TypeOK, OnlyCarriedFilesTear, AbsentIsEmpty
  <2>4. stored' \in [Files -> File] /\ OnlyCarriedFilesTear' /\ AbsentIsEmpty'
    BY <2>1, <2>2, <2>3 DEF TypeOK, OnlyCarriedFilesTear, AbsentIsEmpty, world
  <2>5. CASE Exit(disk)
    BY <2>1, <2>4, <2>5, ExitKeepsInv DEF TypeOK
  <2>6. CASE UNCHANGED <<disk, pc, window>> /\ cursor' = cursor + 1 /\ cursor # Len(SyncFiles)
    <3>1. TypeOK'
      BY <2>1, <2>4, <2>6, SyncOrder DEF TypeOK, world
    <3>2. ParsedInv' /\ (pc = "idle" => cursor = 1)'
      BY <2>1, <2>6 DEF ParsedInv, Readable, world
    <3>3. CloudInv'
      <4>1. ASSUME NEW g \in Files, Holds(g) PROVE Holds(g)'
        <5>1. stored'[g] = stored[g] \/ stored'[g] = disk[g]
          BY <2>1, <2>2 DEF TypeOK, Uploaded
        <5>2. QED
          BY <2>6, <4>1, <5>1 DEF Holds, Ids
      <4>2. QED
        BY <2>1, <2>6, <4>1 DEF CloudInv, world
    <3>4. QED
      BY <2>4, <3>1, <3>2, <3>3
  <2>7. QED
    BY <1>11, <2>5, <2>6 DEF Upload
<1>12. CASE WriteBalance \/ PersistPositions \/ UpdateSummary
  <2> DEFINE file == [state |-> "whole", rows |-> {}]
  <2>1. /\ pc \in {"balance", "positions", "summary"} /\ pc \in Files /\ pc' = After
        /\ disk' = [disk EXCEPT ![pc] = file]
        /\ UNCHANGED <<world, stored, cursor, window>> /\ faults' \in 0 .. MaxFaults
    BY <1>12, FileNames DEF WriteBalance, PersistPositions, UpdateSummary, Whole, TypeOK
  <2>2. file \in File /\ file.state # "torn"
    BY DEF File
  <2>3. disk[pc].rows = {}
    BY <2>1 DEF SnapshotInv, Snapshots
  <2> HIDE DEF file
  <2>4. QED
    BY <2>1, <2>2, <2>3, <1>7
<1>14. CASE UNCHANGED vars
  <2>1. TypeOK'
    BY <1>14 DEF vars, world, run, TypeOK
  <2>2. OnlyCarriedFilesTear' /\ AbsentIsEmpty' /\ ParsedInv' /\ (pc = "idle" => cursor = 1)'
    BY <1>14 DEF vars, world, run, OnlyCarriedFilesTear, AbsentIsEmpty, ParsedInv, Readable
  <2>3. CloudInv'
    BY <1>14 DEF vars, world, run, CloudInv, Holds, Ids
  <2>4. QED
    BY <2>1, <2>2, <2>3
<1>13. CASE PositionsFail
  <2>1. /\ UNCHANGED <<world, stored, disk, cursor, window>> /\ faults' \in 0 .. MaxFaults
        /\ pc = "positions" /\ pc' = "summary"
    BY <1>13, JobAssumption DEF PositionsFail, Fault, After, TypeOK
  <2>2. TypeOK' /\ (pc = "idle" => cursor = 1)'
    BY <2>1 DEF TypeOK, world
  <2>3. OnlyCarriedFilesTear' /\ AbsentIsEmpty'
    BY <2>1 DEF OnlyCarriedFilesTear, AbsentIsEmpty, world
  <2>4. \A g \in Files : pc' \in Behind(g) => pc \in Behind(g)
    BY <2>1 DEF Behind
  <2>5. ParsedInv' /\ CloudInv'
    BY <2>1, <2>4 DEF ParsedInv, CloudInv, Readable, Holds, Ids, world
  <2> QED BY <2>2, <2>3, <2>5
<1>15. QED
  BY <1>1, <1>2, <1>3, <1>4, <1>5, <1>6, <1>8, <1>9, <1>10, <1>11, <1>12, <1>13, <1>14 DEF Next

\* Every step keeps the snapshots without rows.
LEMMA StepSnapshotInv == IInv /\ [Next]_vars => SnapshotInv'
<1> SUFFICES ASSUME IInv, [Next]_vars PROVE SnapshotInv'
  OBVIOUS
<1>a. TypeOK /\ SnapshotInv /\ Snapshots \subseteq Files
  BY FileNames DEF IInv, CoreInv, Snapshots
<1> DEFINE Bare(files) == \A f \in Snapshots : files[f].rows = {}
<1>b. Bare(disk) /\ Bare(stored) /\ Bare(NoFiles)
  BY <1>a, NoFilesIsFiles DEF SnapshotInv, Absent
<1>c. ASSUME NEW left, Bare(left), Exit(left), stored' = stored PROVE SnapshotInv'
  BY <1>b, <1>c DEF Exit, SnapshotInv
<1>d. ASSUME NEW f \in Files, NEW file, disk' = [disk EXCEPT ![f] = file], stored' = stored,
             f \in Snapshots => file.rows = {}
      PROVE  SnapshotInv'
  <2>1. \A g \in Files : disk'[g] = IF g = f THEN file ELSE disk[g]
    BY <1>a, <1>d DEF TypeOK
  <2> QED BY <1>a, <1>b, <1>d, <2>1 DEF SnapshotInv
<1>1. CASE UNCHANGED <<stored, disk>>
  BY <1>1, <1>a DEF SnapshotInv
<1>2. CASE Tick \/ PlaceOrder \/ (\E t \in Ticks : FillOrder(t)) \/ PositionsFail
  BY <1>1, <1>2 DEF Tick, PlaceOrder, FillOrder, PositionsFail
<1>3. CASE \E w \in Windows : Start(w)
  BY <1>1, <1>3 DEF Start
<1>4. CASE LoseDisk
  BY <1>b, <1>4 DEF LoseDisk, SnapshotInv
<1>5. CASE Download
  <2>1. SyncFiles[cursor] \in Files
    BY <1>a, SyncOrder DEF TypeOK
  <2>2. SyncFiles[cursor] \in Snapshots => Downloaded(SyncFiles[cursor]).rows = {}
    BY <1>b DEF Downloaded
  <2>3. disk' = [disk EXCEPT ![SyncFiles[cursor]] = Downloaded(SyncFiles[cursor])] /\ stored' = stored
    BY <1>5 DEF Download
  <2> QED BY <1>d, <2>1, <2>2, <2>3
<1>6. CASE DownloadFails \/ ExchangeRefuses \/ CannotRead \/ SyncFails
  BY <1>b, <1>c, <1>6 DEF DownloadFails, ExchangeRefuses, CannotRead, SyncFails
<1>7. CASE Crash
  <2>1. stored' = stored
    BY <1>7 DEF Crash
  <2>2. CASE Exit(disk)
    BY <1>b, <1>c, <2>1, <2>2
  <2>3. ASSUME NEW f \in BeingWritten,
               Exit([disk EXCEPT ![f] = [state |-> "torn", rows |-> {}]])
        PROVE  SnapshotInv'
    <3> DEFINE torn == [state |-> "torn", rows |-> {}]
               left == [disk EXCEPT ![f] = torn]
    <3>1. \A g \in Files : left[g] = torn \/ left[g] = disk[g]
      BY <1>a DEF TypeOK
    <3>2. Bare(left)
      BY <1>a, <1>b, <3>1
    <3> QED BY <1>c, <2>1, <2>3, <3>2
  <2> QED BY <1>7, <2>2, <2>3 DEF Crash
<1>8. CASE RefreshCurve
  BY <1>8, <1>d, FileNames DEF RefreshCurve, Snapshots
<1>9. CASE \/ \E got \in SUBSET RecentTrades : UpdateTrades(got)
           \/ \E got \in SUBSET RecentOrders : UpdateOrders(got)
  BY <1>9, <1>d, FileNames DEF UpdateTrades, UpdateOrders, Snapshots
<1>10. CASE WriteBalance \/ PersistPositions \/ UpdateSummary
  BY <1>10, <1>d, FileNames DEF WriteBalance, PersistPositions, UpdateSummary, Whole
<1>11. CASE Upload
  <2>1. SyncFiles[cursor] \in Files /\ stored' = [stored EXCEPT ![SyncFiles[cursor]] = Uploaded(SyncFiles[cursor])]
    BY <1>11, <1>a, SyncOrder DEF Upload, TypeOK
  <2>2. \A g \in Files : stored'[g] = stored[g] \/ stored'[g] = disk[g]
    BY <1>a, <2>1 DEF TypeOK, Uploaded
  <2>3. Bare(stored')
    BY <1>a, <1>b, <2>2
  <2>4. Bare(disk')
    BY <1>b, <1>11 DEF Upload, Exit
  <2> QED BY <2>3, <2>4 DEF SnapshotInv
<1> QED
  BY <1>1, <1>2, <1>3, <1>4, <1>5, <1>6, <1>7, <1>8, <1>9, <1>10, <1>11 DEF Next, vars

LEMMA StepIInv == IInv /\ [Next]_vars => IInv'
BY StepCoreInv, StepSnapshotInv DEF IInv

\* The inductive invariant holds in every reachable state.
THEOREM Inductive == Spec => []IInv
<1>1. Init => IInv
  BY InitIInv
<1>2. IInv /\ [Next]_vars => IInv'
  BY StepIInv
<1>3. QED
  BY <1>1, <1>2, PTL DEF Spec

\* Every variable has its type in every reachable state (TypeOK).
THEOREM TypeCorrect == Spec => []TypeOK
<1>1. IInv => TypeOK
  BY DEF IInv, CoreInv
<1>2. QED
  BY <1>1, Inductive, PTL

\* What a crash left half-written reaches the bucket only from a host, and only
\* as a file the job never parses (OnlyCarriedFilesTear): _sync_to_gcs follows
\* the parse or the writing of every other file, and on cloud_run the disk goes
\* with the execution.
THEOREM WholeFiles == Spec => []OnlyCarriedFilesTear
<1>1. IInv => OnlyCarriedFilesTear
  BY DEF IInv, CoreInv
<1>2. QED
  BY <1>1, Inductive, PTL

\* On cloud_run the bucket never loses a row (CloudStorageOnlyGrows): what
\* _sync_to_gcs uploads contains what _download_from_gcs found.
THEOREM StorageGrows == Spec => CloudStorageOnlyGrows
<1> DEFINE Grows == deployment = "cloud_run" => KeepsStored
<1>1. ASSUME IInv, [Next]_vars PROVE [Grows]_vars
  <2>1. CASE Upload
    <3> SUFFICES ASSUME deployment = "cloud_run", NEW g \in Files
                 PROVE  Ids(stored[g]) \subseteq Ids(stored'[g])
      BY DEF KeepsStored
    <3>1. /\ pc = "sync" /\ SyncFiles[cursor] \in Files
          /\ stored' = [stored EXCEPT ![SyncFiles[cursor]] = Uploaded(SyncFiles[cursor])]
      BY <2>1, SyncOrder, <1>1 DEF Upload, IInv, CoreInv, TypeOK
    <3>2. Holds(g)
      BY <1>1, <3>1 DEF IInv, CoreInv, CloudInv
    <3>3. stored'[g] = stored[g] \/ stored'[g] = disk[g]
      BY <1>1, <3>1 DEF IInv, CoreInv, TypeOK, Uploaded
    <3>4. QED
      BY <3>2, <3>3 DEF Holds
  <2>2. CASE ~Upload
    <3>1. stored' = stored
      BY <1>1, <2>2 DEF Next, Tick, PlaceOrder, FillOrder, LoseDisk, Start, Download,
         DownloadFails, RefreshCurve, ExchangeRefuses, UpdateTrades, UpdateOrders,
         CannotRead, SyncFails, Crash, WriteBalance, PersistPositions, PositionsFail,
         UpdateSummary, vars
    <3>2. QED
      BY <3>1 DEF KeepsStored
  <2>3. QED
    BY <2>1, <2>2
<1>2. QED
  BY <1>1, Inductive, PTL DEF Spec, CloudStorageOnlyGrows

-----------------------------------------------------------------------------
(* One row per order, trade and day.                                       *)

\* One row per id; the days of a curve are closed, so that a refresh finds
\* each day it writes as it is.
GoodFile(f, file) ==
    /\ \A r, q \in file.rows : r.id = q.id => r = q
    /\ f = "equity_curve" => \A r \in file.rows : r.status = "closed"

RowsInv == \A f \in Files : GoodFile(f, disk[f]) /\ GoodFile(f, stored[f])

\* What one execution fetches has one row per id: the status of an order is
\* read once.
LEMMA FetchedOnce ==
    ASSUME NEW got, got \subseteq RecentTrades \/ got \subseteq RecentOrders
    PROVE  \A r, q \in got : r.id = q.id => r = q
<1>1. \A r, q \in RecentTrades : r.id = q.id => r = q
  BY DEF RecentTrades
<1>2. \A r, q \in RecentOrders : r.id = q.id => r = q
  BY DEF RecentOrders
<1>3. QED
  BY <1>1, <1>2

\* The rows a merge adds have ids the file does not know.
LEMMA ExtendedIsGood ==
    ASSUME NEW f \in {"trades", "orders"}, GoodFile(f, disk[f]),
           NEW got, \A r, q \in got : r.id = q.id => r = q
    PROVE  GoodFile(f, Extended(f, got))
<1>1. CASE New(f, got) = {}
  BY <1>1 DEF Extended
<1>2. CASE New(f, got) # {}
  <2>1. Extended(f, got).rows = disk[f].rows \cup New(f, got)
    BY <1>2 DEF Extended, Whole
  <2>2. New(f, got) \subseteq got /\ \A r \in New(f, got) : r.id \notin Ids(disk[f])
    BY DEF New
  <2>3. \A r \in disk[f].rows : r.id \in Ids(disk[f])
    BY DEF Ids
  <2>4. QED
    BY <2>1, <2>2, <2>3 DEF GoodFile
<1>3. QED
  BY <1>1, <1>2

\* An execution that ends leaves good files, or none.
LEMMA ExitIsGood ==
    ASSUME NEW left, \A f \in Files : GoodFile(f, left[f]), Exit(left)
    PROVE  \A f \in Files : GoodFile(f, disk'[f])
<1>1. \A f \in Files : GoodFile(f, NoFiles[f])
  BY NoFilesIsFiles DEF GoodFile, Absent
<1>2. QED
  BY <1>1 DEF Exit

LEMMA InitRowsInv == Init => RowsInv
<1>1. \A f \in Files : GoodFile(f, NoFiles[f])
  BY NoFilesIsFiles DEF GoodFile, Absent
<1>2. ASSUME NEW f \in Files PROVE GoodFile(f, Backfilled[f])
  <2>1. \/ Backfilled[f].rows = [id : {0}, status : {"closed"}]
        \/ f # "equity_curve" /\ Backfilled[f].rows = {}
    BY DEF Backfilled, Whole
  <2>2. \A r, q \in [id : {0}, status : {"closed"}] : r = q /\ r.status = "closed"
    OBVIOUS
  <2>3. QED
    BY <2>1, <2>2 DEF GoodFile
<1>3. QED
  BY <1>1, <1>2 DEF Init, RowsInv

LEMMA StepRowsInv == IInv /\ RowsInv /\ [Next]_vars => RowsInv'
<1> SUFFICES ASSUME IInv, RowsInv, [Next]_vars PROVE RowsInv'
  OBVIOUS
<1>0. \A f \in Files : GoodFile(f, disk[f]) /\ GoodFile(f, stored[f])
  BY DEF RowsInv
<1>a. TypeOK
  BY DEF IInv, CoreInv
<1>b. ASSUME NEW left, \A f \in Files : GoodFile(f, left[f]), Exit(left), stored' = stored
      PROVE  RowsInv'
  BY <1>0, <1>b, ExitIsGood DEF RowsInv
<1>c. ASSUME NEW f \in Files, NEW file, GoodFile(f, file),
             disk' = [disk EXCEPT ![f] = file], stored' = stored
      PROVE  RowsInv'
  <2>1. \A g \in Files : disk'[g] = IF g = f THEN file ELSE disk[g]
    BY <1>a, <1>c DEF TypeOK
  <2>2. QED
    BY <1>0, <1>c, <2>1 DEF RowsInv
<1>1. CASE UNCHANGED <<stored, disk>>
  BY <1>1, <1>0 DEF RowsInv
<1>2. CASE Tick \/ PlaceOrder \/ (\E t \in Ticks : FillOrder(t)) \/ PositionsFail
  BY <1>1, <1>2 DEF Tick, PlaceOrder, FillOrder, PositionsFail
<1>3. CASE \E w \in Windows : Start(w)
  BY <1>1, <1>3 DEF Start
<1>4. CASE LoseDisk
  <2>1. \A f \in Files : GoodFile(f, NoFiles[f])
    BY NoFilesIsFiles DEF GoodFile, Absent
  <2>2. QED
    BY <1>0, <1>4, <2>1 DEF LoseDisk, RowsInv
<1>5. CASE Download
  <2> DEFINE f == SyncFiles[cursor]
  <2>1. f \in Files
    BY <1>a, SyncOrder DEF TypeOK
  <2>2. GoodFile(f, Downloaded(f))
    BY <1>0, <2>1 DEF Downloaded
  <2>3. disk' = [disk EXCEPT ![f] = Downloaded(f)] /\ stored' = stored
    BY <1>5 DEF Download
  <2> HIDE DEF f
  <2>4. QED
    BY <1>c, <2>1, <2>2, <2>3
<1>6. CASE DownloadFails \/ ExchangeRefuses \/ CannotRead \/ SyncFails
  BY <1>0, <1>b, <1>6 DEF DownloadFails, ExchangeRefuses, CannotRead, SyncFails
<1>7. CASE Crash
  <2>1. stored' = stored
    BY <1>7 DEF Crash
  <2>2. CASE Exit(disk)
    BY <1>0, <1>b, <2>1, <2>2
  <2>3. ASSUME NEW f \in BeingWritten,
               Exit([disk EXCEPT ![f] = [state |-> "torn", rows |-> {}]])
        PROVE  RowsInv'
    <3> DEFINE torn == [state |-> "torn", rows |-> {}]
               left == [disk EXCEPT ![f] = torn]
    <3>1. \A g \in Files : left[g] = torn \/ left[g] = disk[g]
      BY <1>a DEF TypeOK
    <3>2. \A g \in Files : GoodFile(g, torn)
      BY DEF GoodFile
    <3>3. \A g \in Files : GoodFile(g, left[g])
      BY <1>0, <3>1, <3>2
    <3>4. QED
      BY <1>b, <2>1, <2>3, <3>3
  <2>4. QED
    BY <1>7, <2>2, <2>3 DEF Crash
<1>8. CASE RefreshCurve
  <2> DEFINE days == [id : 0 .. Day(clock), status : {"closed"}]
             file == [disk["equity_curve"] EXCEPT !.rows = @ \cup days]
  <2>1. disk["equity_curve"] \in File /\ days \subseteq Row
        /\ GoodFile("equity_curve", disk["equity_curve"])
    BY <1>0, <1>a, FetchedRows, FileNames DEF TypeOK
  <2>2. file.rows = disk["equity_curve"].rows \cup days
    BY <2>1 DEF File
  <2>3. \A r \in file.rows : r \in Row /\ r.status = "closed"
    BY <2>1, <2>2 DEF GoodFile, File
  <2>4. \A r, q \in file.rows : r.id = q.id => r = q
    BY <2>3 DEF Row
  <2>5. GoodFile("equity_curve", file)
    BY <2>3, <2>4 DEF GoodFile
  <2>6. disk' = [disk EXCEPT !["equity_curve"] = file] /\ stored' = stored
    BY <1>8 DEF RefreshCurve
  <2> HIDE DEF file
  <2>7. QED
    BY <1>c, <2>5, <2>6, FileNames
<1>9. ASSUME NEW got \in SUBSET RecentTrades, UpdateTrades(got) PROVE RowsInv'
  <2>1. GoodFile("trades", Extended("trades", got))
    BY <1>0, FetchedOnce, ExtendedIsGood, FileNames
  <2>2. disk' = [disk EXCEPT !["trades"] = Extended("trades", got)] /\ stored' = stored
    BY <1>9 DEF UpdateTrades
  <2>3. QED
    BY <1>c, <2>1, <2>2, FileNames
<1>10. ASSUME NEW got \in SUBSET RecentOrders, UpdateOrders(got) PROVE RowsInv'
  <2>1. GoodFile("orders", Extended("orders", got))
    BY <1>0, FetchedOnce, ExtendedIsGood, FileNames
  <2>2. disk' = [disk EXCEPT !["orders"] = Extended("orders", got)] /\ stored' = stored
    BY <1>10 DEF UpdateOrders
  <2>3. QED
    BY <1>c, <2>1, <2>2, FileNames
<1>11. CASE Upload
  <2> DEFINE f == SyncFiles[cursor]
  <2>1. f \in Files /\ stored' = [stored EXCEPT ![f] = Uploaded(f)]
    BY <1>11, <1>a, SyncOrder DEF Upload, TypeOK
  <2>2. GoodFile(f, Uploaded(f))
    BY <1>0, <2>1 DEF Uploaded
  <2>3. \A g \in Files : stored'[g] = IF g = f THEN Uploaded(f) ELSE stored[g]
    BY <1>a, <2>1 DEF TypeOK
  <2>4. \A g \in Files : GoodFile(g, disk'[g])
    BY <1>0, <1>11, ExitIsGood DEF Upload
  <2> HIDE DEF f
  <2>5. QED
    BY <1>0, <2>2, <2>3, <2>4 DEF RowsInv
<1>12. CASE WriteBalance \/ PersistPositions \/ UpdateSummary
  <2>1. \A f \in {"balance", "positions", "summary"} : f \in Files /\ GoodFile(f, Whole({}))
    BY FileNames DEF GoodFile, Whole
  <2> QED
    BY <1>c, <1>12, <2>1 DEF WriteBalance, PersistPositions, UpdateSummary
<1>13. CASE UNCHANGED vars
  BY <1>1, <1>13 DEF vars
<1>14. QED
  BY <1>2, <1>3, <1>4, <1>5, <1>6, <1>7, <1>8, <1>9, <1>10, <1>11, <1>12, <1>13 DEF Next

\* An order, a trade or a day has one row in every file, on the disk and in
\* the bucket (OneRowPerId), whatever statuses the executions of the job found
\* and wherever they were interrupted (_update_order_history).
THEOREM RowsAreUnique == Spec => []OneRowPerId
<1>1. IInv /\ RowsInv /\ [Next]_vars => RowsInv'
  BY StepRowsInv
<1>2. RowsInv => OneRowPerId
  BY DEF RowsInv, GoodFile, OneRowPerId
<1>3. QED
  BY <1>1, <1>2, InitRowsInv, Inductive, PTL DEF Spec
=============================================================================
