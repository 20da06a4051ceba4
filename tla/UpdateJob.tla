----------------------------- MODULE UpdateJob -----------------------------
(***************************************************************************)
(* The files of one client across executions of the update job             *)
(* (cli/update_command.py, cli/gcs_sync.py, cli/trades_and_orders.py): the *)
(* disk the job works on, the storage bucket it is bootstrapped from and   *)
(* uploads to, and the account's orders and trades at the exchange.        *)
(*                                                                         *)
(* Two deployments run this code.  On "cloud_run" every execution starts   *)
(* with an empty disk; on a "host" (cron) the disk survives the execution  *)
(* and may be lost as a whole.  One execution runs at a time.              *)
(*                                                                         *)
(* A file is a set of rows, a row has an id and a status: a day of the     *)
(* curve, an order or a trade.  The snapshots of one execution (balance,   *)
(* positions, summary) have no rows; the transfers and the bills, which    *)
(* the job only carries to and fro, have one.  Time is a count of ticks.   *)
(***************************************************************************)
EXTENDS Integers, Sequences

CONSTANTS
    MaxTick,      \* bound: the clock stops at this tick
    OrderTicks,   \* bound: the ticks at which the account places an order
    TicksPerDay,  \* ticks in one day of the equity curve
    MaxFaults,    \* bound: refused or failed requests, crashes, lost disks
    Windows,      \* look-back of the hourly and of the --full job, in ticks
    Deployments   \* subset of {"cloud_run", "host"}

ASSUME TickAssumption == MaxTick \in Nat /\ TicksPerDay \in Nat \ {0}
ASSUME JobAssumption ==
    /\ OrderTicks \subseteq Nat /\ MaxFaults \in Nat
    /\ Windows \subseteq Nat
    /\ Deployments \subseteq {"cloud_run", "host"}

VARIABLES
    deployment,
    clock,
    book,      \* the exchange's orders: status of the order placed at a tick
    filledAt,  \* the tick at which an order was filled
    stored,    \* the files in the bucket
    disk,      \* the files on the disk of the job
    pc, cursor, window,
    faults     \* failures so far

world == <<deployment, clock, book, filledAt>>
run   == <<pc, cursor, window>>
vars  == <<world, stored, disk, run, faults>>

Ticks == 0 .. MaxTick

Day(t) == t \div TicksPerDay

\* _SYNC_FILES, in its order
SyncFiles == <<"equity_curve", "orders", "trades", "positions", "balance", "summary",
               "transfers", "bills_ledger">>

Files == {SyncFiles[i] : i \in 1 .. 8}

\* The files an execution may upload without having read or rewritten them:
\* a backfill wrote the last two, and the positions stay as they are if the
\* exchange does not tell them.
Carried == {"positions", "transfers", "bills_ledger"}

Row == [id : Nat, status : {"open", "closed"}]

File == [state : {"absent", "torn", "whole"}, rows : SUBSET Row]

Absent == [state |-> "absent", rows |-> {}]

Whole(rows) == [state |-> "whole", rows |-> rows]

Exists(file) == file.state # "absent"

Ids(file) == { r.id : r \in file.rows }

-----------------------------------------------------------------------------
(* The clock, the exchange and the machine.                                *)

Tick ==
    /\ clock < MaxTick
    /\ clock' = clock + 1
    /\ UNCHANGED <<deployment, book, filledAt, stored, disk, run, faults>>

PlaceOrder ==
    /\ clock \in OrderTicks /\ book[clock] = "none"
    /\ book' = [book EXCEPT ![clock] = "open"]
    /\ UNCHANGED <<deployment, clock, filledAt, stored, disk, run, faults>>

\* The order is executed by one trade, which takes the order's id here.
FillOrder(t) ==
    /\ book[t] = "open"
    /\ book' = [book EXCEPT ![t] = "closed"]
    /\ filledAt' = [filledAt EXCEPT ![t] = clock]
    /\ UNCHANGED <<deployment, clock, stored, disk, run, faults>>

Fault == faults < MaxFaults /\ faults' = faults + 1

NoFiles == [f \in Files |-> Absent]

\* A new machine, or a restarted container, on a host deployment.
LoseDisk ==
    /\ Fault
    /\ deployment = "host" /\ pc = "idle"
    /\ disk' = NoFiles
    /\ UNCHANGED <<world, stored, run>>

-----------------------------------------------------------------------------
(* One execution of the job.                                               *)

\* The execution is over; the container takes its disk with it.
Exit(left) ==
    /\ pc' = "idle" /\ cursor' = 1 /\ window' = 0
    /\ disk' = IF deployment = "cloud_run" THEN NoFiles ELSE left

\* _load_existing_equity_curve looks for a local curve first.
Start(w) ==
    /\ pc = "idle"
    /\ window' = w
    /\ pc' = IF Exists(disk["equity_curve"]) THEN "curve" ELSE "download"
    /\ UNCHANGED <<world, stored, disk, cursor, faults>>

Downloaded(f) == IF Exists(stored[f]) THEN stored[f] ELSE disk[f]

DownloadPastTheEnd ==
    /\ pc = "download"
    /\ disk' = [disk EXCEPT ![SyncFiles[cursor]] = Downloaded(SyncFiles[cursor])]
    /\ cursor' = cursor + 1
    /\ UNCHANGED <<world, stored, pc, window, faults>>

\* One turn of the loop of _download_from_gcs.
Download ==
    /\ pc = "download"
    /\ disk' = [disk EXCEPT ![SyncFiles[cursor]] = Downloaded(SyncFiles[cursor])]
    /\ IF cursor = Len(SyncFiles)
       THEN pc' = "curve" /\ cursor' = 1
       ELSE pc' = pc /\ cursor' = cursor + 1
    /\ UNCHANGED <<world, stored, window, faults>>

DownloadFailureIgnored ==
    /\ pc = "download"
    /\ pc' = "curve" /\ cursor' = 1
    /\ UNCHANGED <<world, stored, disk, window, faults>>

\* Any exception ends the download and the update of this client; what was
\* downloaded so far stays on the disk.
DownloadFails ==
    /\ Fault
    /\ pc = "download"
    /\ Exit(disk)
    /\ UNCHANGED <<world, stored>>

\* The step after the present one.
After ==
    CASE pc = "curve" -> "balance"
      [] pc = "balance" -> "trades"
      [] pc = "trades" -> "orders"
      [] pc = "orders" -> "positions"
      [] pc = "positions" -> "summary"
      [] pc = "summary" -> "sync"

\* The curve is loaded, the balance fetched and the curve written with a
\* point for every day up to today (module EquityUpdate has the detail).
RefreshCurve ==
    /\ pc = "curve"
    /\ disk["equity_curve"].state = "whole"
    /\ disk' = [disk EXCEPT !["equity_curve"].rows =
                    @ \cup [id : 0 .. Day(clock), status : {"closed"}]]
    /\ pc' = After
    /\ UNCHANGED <<world, stored, cursor, window, faults>>

\* No credentials, or the balance call fails: nothing has been written yet.
ExchangeRefuses ==
    /\ Fault
    /\ pc = "curve" /\ disk["equity_curve"].state = "whole"
    /\ Exit(disk)
    /\ UNCHANGED <<world, stored>>

\* _persist_balance_snapshot, from the balance fetched before.
WriteBalance ==
    /\ pc = "balance"
    /\ disk' = [disk EXCEPT !["balance"] = Whole({})]
    /\ pc' = After
    /\ UNCHANGED <<world, stored, cursor, window, faults>>

Readable(f) == disk[f].state # "torn"

AppendedTwice(f, got) == got \ disk[f].rows

\* Rows whose id the file does not have yet.
New(f, got) == { r \in got : r.id \notin Ids(disk[f]) }

\* A file is rewritten only when there is something new to put in it.
Extended(f, got) ==
    IF New(f, got) = {} THEN disk[f] ELSE Whole(disk[f].rows \cup New(f, got))

RecentTrades ==
    { [id |-> t, status |-> "closed"] :
        t \in { u \in Ticks : book[u] = "closed" /\ filledAt[u] >= clock - window } }

RecentOrders ==
    { [id |-> t, status |-> book[t]] :
        t \in { u \in Ticks : book[u] # "none" /\ u >= clock - window } }

\* A symbol whose request fails contributes nothing.
Fetched(got, recent) ==
    IF got = recent THEN UNCHANGED faults ELSE Fault

\* _update_recent_trades
UpdateTrades(got) ==
    /\ pc = "trades" /\ Readable("trades")
    /\ Fetched(got, RecentTrades)
    /\ disk' = [disk EXCEPT !["trades"] = Extended("trades", got)]
    /\ pc' = After
    /\ UNCHANGED <<world, stored, cursor, window>>

\* _update_order_history
UpdateOrders(got) ==
    /\ pc = "orders" /\ Readable("orders")
    /\ Fetched(got, RecentOrders)
    /\ disk' = [disk EXCEPT !["orders"] = Extended("orders", got)]
    /\ pc' = After
    /\ UNCHANGED <<world, stored, cursor, window>>

\* _persist_positions: written unseen, or left alone if the call fails.
PersistPositions ==
    /\ pc = "positions"
    /\ disk' = [disk EXCEPT !["positions"] = Whole({})]
    /\ pc' = After
    /\ UNCHANGED <<world, stored, cursor, window, faults>>

PositionsFail ==
    /\ Fault
    /\ pc = "positions"
    /\ pc' = After
    /\ UNCHANGED <<world, stored, disk, cursor, window>>

\* _update_summary
UpdateSummary ==
    /\ pc = "summary" /\ Readable("summary")
    /\ disk' = [disk EXCEPT !["summary"] = Whole({})]
    /\ pc' = After
    /\ UNCHANGED <<world, stored, cursor, window, faults>>

UnreadableSkipped ==
    /\ pc \in {"trades", "orders", "summary"} /\ ~Readable(pc)
    /\ pc' = After
    /\ UNCHANGED <<world, stored, disk, cursor, window, faults>>

\* Without a curve the update of this client ends; json.load raises on a torn
\* file, nothing catches it, and the whole job ends.
CannotRead ==
    /\ \/ pc = "curve" /\ disk["equity_curve"].state # "whole"
       \/ pc \in {"trades", "orders", "summary"} /\ ~Readable(pc)
    /\ Exit(disk)
    /\ UNCHANGED <<world, stored, faults>>

UploadedOnce(f) == IF Exists(disk[f]) /\ ~Exists(stored[f]) THEN disk[f] ELSE stored[f]

Uploaded(f) == IF Exists(disk[f]) THEN disk[f] ELSE stored[f]

\* One turn of the loop of _sync_to_gcs.
Upload ==
    /\ pc = "sync"
    /\ stored' = [stored EXCEPT ![SyncFiles[cursor]] = Uploaded(SyncFiles[cursor])]
    /\ IF cursor = Len(SyncFiles)
       THEN Exit(disk)
       ELSE cursor' = cursor + 1 /\ UNCHANGED <<disk, pc, window>>
    /\ UNCHANGED <<world, faults>>

\* The sync is best-effort: it stops at the first exception and the update
\* still succeeds.
SyncFails ==
    /\ Fault
    /\ pc = "sync"
    /\ Exit(disk)
    /\ UNCHANGED <<world, stored>>

\* The file a write is under way for, if any.
BeingWritten ==
    CASE pc = "download" -> { f \in {SyncFiles[cursor]} : Exists(stored[f]) }
      [] pc = "curve"    -> { f \in {"equity_curve"} : disk[f].state = "whole" }
      [] pc \in {"balance", "positions"} -> {pc}
      [] pc = "summary"  -> { f \in {"summary"} : Readable(f) }
      [] pc = "trades"   -> { f \in {"trades"} : Readable(f) /\ New(f, RecentTrades) # {} }
      [] pc = "orders"   -> { f \in {"orders"} : Readable(f) /\ New(f, RecentOrders) # {} }
      [] OTHER           -> {}

\* The process is killed (task timeout, reboot), between two steps or inside
\* a write that had truncated its file.
Crash ==
    /\ Fault
    /\ pc # "idle"
    /\ \/ Exit(disk)
       \/ \E f \in BeingWritten :
            Exit([disk EXCEPT ![f] = [state |-> "torn", rows |-> {}]])
    /\ UNCHANGED <<world, stored>>

-----------------------------------------------------------------------------
Backfilled ==
    [f \in Files |-> Whole(IF f \in {"equity_curve", "transfers", "bills_ledger"}
                           THEN [id : {0}, status : {"closed"}] ELSE {})]

\* A backfill has written the files to the host's disk; for cloud_run they
\* have been put in the bucket.
Init ==
    /\ deployment \in Deployments
    /\ clock = 0
    /\ book = [t \in Ticks |-> "none"]
    /\ filledAt = [t \in Ticks |-> 0]
    /\ \/ deployment = "cloud_run" /\ stored = Backfilled /\ disk = NoFiles
       \/ deployment = "host" /\ stored = NoFiles /\ disk = Backfilled
    /\ pc = "idle" /\ cursor = 1 /\ window = 0
    /\ faults = 0

Next ==
    \/ Tick
    \/ PlaceOrder
    \/ \E t \in Ticks : FillOrder(t)
    \/ LoseDisk
    \/ \E w \in Windows : Start(w)
    \/ Download
    \/ DownloadFails
    \/ RefreshCurve
    \/ ExchangeRefuses
    \/ WriteBalance
    \/ \E got \in SUBSET RecentTrades : UpdateTrades(got)
    \/ \E got \in SUBSET RecentOrders : UpdateOrders(got)
    \/ PersistPositions
    \/ PositionsFail
    \/ UpdateSummary
    \/ CannotRead
    \/ Upload
    \/ SyncFails
    \/ Crash

Spec == Init /\ [][Next]_vars

\* Time passes, the scheduler starts the job again and again and a started
\* execution goes on to its end; failures stop at some point.
Fairness ==
    /\ WF_vars(Tick)
    /\ WF_vars(\E w \in Windows : Start(w))
    /\ WF_vars(Download)
    /\ WF_vars(RefreshCurve)
    /\ WF_vars(WriteBalance)
    /\ WF_vars(UpdateTrades(RecentTrades))
    /\ WF_vars(UpdateOrders(RecentOrders))
    /\ WF_vars(PersistPositions)
    /\ WF_vars(UpdateSummary)
    /\ WF_vars(CannotRead)
    /\ WF_vars(Upload)

FairSpec == Spec /\ Fairness

-----------------------------------------------------------------------------
(* Properties.                                                             *)

TypeOK ==
    /\ deployment \in Deployments
    /\ clock \in Ticks
    /\ book \in [Ticks -> {"none", "open", "closed"}]
    /\ filledAt \in [Ticks -> Ticks]
    /\ stored \in [Files -> File]
    /\ disk \in [Files -> File]
    /\ pc \in {"idle", "download", "curve", "balance", "trades", "orders",
              "positions", "summary", "sync"}
    /\ cursor \in 1 .. Len(SyncFiles)
    /\ window \in Windows \cup {0}
    /\ faults \in 0 .. MaxFaults

KeepsStored == \A f \in Files : Ids(stored[f]) \subseteq Ids(stored'[f])

\* On cloud_run nothing ever leaves the bucket, although every upload
\* replaces whole files: a failed or interrupted download never leads to an
\* upload of a history it did not read (_download_from_gcs, _sync_to_gcs).
CloudStorageOnlyGrows == [][deployment = "cloud_run" => KeepsStored]_vars

\* "once collected, data persists permanently"
\* (docs/CLIENT_OPERATIONS_GUIDE.md): the same on every deployment.  On a
\* host an interrupted download leaves the curve without the histories; the
\* next execution finds the curve, skips the download and uploads a history
\* that holds its own window only.
StorageOnlyGrows == [][KeepsStored]_vars

\* A file a crash left half-written reaches the bucket only from a host's
\* disk, and only one that the job carries without parsing it (transfers,
\* bills, positions): the curve, the trades, the orders and the summary are
\* parsed in every execution before anything is uploaded, the balance is
\* rewritten, and on cloud_run the container takes the torn file with it
\* (_update_client, _download_from_gcs, _sync_to_gcs).
OnlyCarriedFilesTear ==
    \A f \in Files : stored[f].state = "torn" => deployment = "host" /\ f \in Carried

\* An order or trade that several executions fetch, with whatever status,
\* has one row ("merge with existing, deduplicate by order ID").
OneRowPerId ==
    \A f \in Files, file \in {stored, disk} :
        \A r, q \in file[f].rows : r.id = q.id => r = q

\* The rows of the bucket that are within the reach of every later execution.
WithinReach(t) == \A w \in Windows : t >= MaxTick - w

CaughtUp ==
    /\ 0 .. Day(MaxTick) \subseteq Ids(stored["equity_curve"])
    /\ \A t \in Ticks :
        /\ book[t] # "none" /\ WithinReach(t) => t \in Ids(stored["orders"])
        /\ book[t] = "closed" /\ WithinReach(filledAt[t]) => t \in Ids(stored["trades"])

\* On cloud_run the bucket recovers: after any number of failed downloads,
\* refused exchange calls, interrupted syncs and crashes, the whole curve and
\* every recent order and trade are in it in the end.
CloudCatchesUp == (deployment = "cloud_run") => <>[]CaughtUp

\* "orders.json - Full order history (filled, cancelled, rejected)"
\* (docs/CLIENT_OPERATIONS_GUIDE.md): the bucket's row of an order ends up
\* with the status the order has at the exchange.  An order first seen open
\* is skipped ever after, because its id is known.
FinalStatusRecorded ==
    <>[](\A r \in stored["orders"].rows : r.status = book[r.id])
=============================================================================
