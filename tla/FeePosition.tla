---------------------------- MODULE FeePosition ----------------------------
(***************************************************************************)
(* What a client owes now, as the fee dashboards, the portals and invoice  *)
(* generation compute it (core/invoice_state.py): a high-water mark kept   *)
(* in the source, the equity of the last point of the client's curve, kept *)
(* in memory for the life of the process, and the transfers since the      *)
(* mark's date, read from the curve each time.                             *)
(*                                                                         *)
(* The update job rewrites the curve in place while requests are served by *)
(* a pool of threads. A request reads the file up to three times and no    *)
(* lock or version ties the reads together.                                *)
(*                                                                         *)
(* Amounts are integers in the account's own currency. A point carries, in *)
(* "gain" and "flow", what the account had really earned and received when *)
(* it was taken: history, which no action of the program reads.            *)
(***************************************************************************)
EXTENDS Integers, Sequences

CONSTANTS
    Callers,        \* requests served at the same time
    MaxDay,         \* days after the seed date
    InitialEquity,  \* equity on the seed date, which is the first mark
    RecoverySeed,   \* amount a "pnl_based" client has to recover
    MinJump,        \* balance changes up to this are noise to the recovery
    PnlAmounts,     \* what a trade may earn or lose
    FlowAmounts,    \* what a deposit or withdrawal may move
    MaxEvents,      \* trades, deposits and withdrawals
    MaxWrites,      \* executions of the update job
    MaxInvoices     \* invoices issued

Classes == {"at_hwm", "underwater", "pnl_based"}

\* _SEED_TIMESTAMP; days are counted from it
SeedDate == 0

\* What was not read: no cache entry, no whole file.
None == -1

ASSUME FeeAssumption ==
    /\ MaxDay \in Nat /\ MaxEvents \in Nat /\ MaxWrites \in Nat
    /\ MaxInvoices \in Nat
    /\ InitialEquity \in Nat /\ RecoverySeed \in Nat /\ MinJump \in Nat
    /\ PnlAmounts \subseteq Int /\ FlowAmounts \subseteq Int

VARIABLES
    class,    \* how the registry and the seed classify the client
    account,  \* the account at the exchange: day, gain, flow, events so far
    curve,    \* equity_curve.json when it is whole
    pending,  \* what the job is writing; while it does, the file is torn
    version,  \* completed writes of the file (history)
    mark,     \* the high-water mark; gain, flow and date are history
    cache,    \* _live_equity_cache
    req,      \* the request each caller has in progress, or its last answer
    hist      \* what happened, for the properties

vars == <<class, account, curve, pending, version, mark, cache, req, hist>>

-----------------------------------------------------------------------------
(* The file *)

Max0(x) == IF x > 0 THEN x ELSE 0

LastOf(points) == points[Len(points)]

Whole == pending = <<>>

\* The balance of a pnl_based client was swept when tracking started.
Base == IF class = "pnl_based" THEN 0 ELSE InitialEquity

PointNow ==
    [date     |-> account.day,
     equity   |-> Base + account.gain + account.flow,
     transfer |-> account.flow - LastOf(curve).flow,
     gain     |-> account.gain,
     flow     |-> account.flow]

\* A missed day repeats the last point, without its transfer.
Filled(last, days) ==
    [date |-> last.date + days, equity |-> last.equity, transfer |-> 0,
     gain |-> last.gain, flow |-> last.flow]

\* Today's point replaces an earlier one of today; days the job missed are
\* filled.
Rewritten ==
    LET last == LastOf(curve)
        kept == IF last.date = account.day
                THEN SubSeq(curve, 1, Len(curve) - 1) ELSE curve
        missed == IF last.date = account.day THEN 0
                  ELSE account.day - last.date - 1
        filled == [i \in 1..missed |-> Filled(last, i)]
    IN  kept \o filled \o <<PointNow>>

\* compute_deposits_since_hwm: transfers dated after the seed date
DepositsSince(points) ==
    LET sum[i \in 0..Len(points)] ==
            IF i = 0 THEN 0
            ELSE sum[i - 1] + IF points[i].date > SeedDate
                              THEN points[i].transfer ELSE 0
    IN  sum[Len(points)]

UsdtMovedAnyDay(points) == points[Len(points)].equity - points[1].equity

\* _net_usdt_moved_after: balance jumps of the days that carry a transfer
UsdtMoved(points) ==
    LET jump(i) == points[i].equity - points[i - 1].equity
        moved(i) == /\ points[i].date > SeedDate
                    /\ points[i].transfer # 0
                    /\ jump(i) > MinJump \/ jump(i) < -MinJump
        sum[i \in 1..Len(points)] ==
            IF i = 1 THEN 0
            ELSE sum[i - 1] + IF moved(i) THEN jump(i) ELSE 0
    IN  sum[Len(points)]

-----------------------------------------------------------------------------
(* The account and the update job *)

Moved(dGain, dFlow) ==
    /\ account.events < MaxEvents
    /\ account' = [day    |-> account.day,
                   gain   |-> account.gain + dGain,
                   flow   |-> account.flow + dFlow,
                   events |-> account.events + 1]

Trade ==
    /\ \E amount \in PnlAmounts : Moved(amount, 0)
    /\ UNCHANGED <<class, curve, pending, version, mark, cache, req, hist>>

MoveCash ==
    /\ \E amount \in FlowAmounts :
         /\ Moved(0, amount)
         /\ hist' = [hist EXCEPT !.withdrew = @ \/ amount < 0]
    /\ UNCHANGED <<class, curve, pending, version, mark, cache, req>>

NextDay ==
    /\ account.day < MaxDay
    /\ account' = [account EXCEPT !.day = @ + 1]
    /\ UNCHANGED <<class, curve, pending, version, mark, cache, req, hist>>

\* The job opens the file for writing, which truncates it ...
BeginWrite ==
    /\ Whole /\ version < MaxWrites
    /\ pending' = Rewritten
    /\ hist' = [hist EXCEPT !.refreshed =
                  @ \/ LastOf(curve).date = account.day]
    /\ UNCHANGED <<class, account, curve, version, mark, cache, req>>

\* ... and has written it to the end.
EndWrite ==
    /\ ~Whole
    /\ curve' = pending
    /\ pending' = <<>>
    /\ version' = version + 1
    /\ hist' = [hist EXCEPT !.high = IF LastOf(pending).gain > @
                                     THEN LastOf(pending).gain ELSE @]
    /\ UNCHANGED <<class, account, mark, cache, req>>

-----------------------------------------------------------------------------
(* One request: compute_current_fees *)

OrderBooksFirst == <<"books", "equity", "usd">>

\* The order in which a request reads what it needs.
Order == <<"equity", "usd", "books">>

After(step) ==
    LET i == CHOOSE j \in 1..3 : Order[j] = step
    IN  IF i = 3 THEN "reply" ELSE Order[i + 1]

\* The last point, with the version it is of, is what a read yields.
Snapshot ==
    [equity |-> LastOf(curve).equity, gain |-> LastOf(curve).gain,
     flow |-> LastOf(curve).flow, date |-> LastOf(curve).date, at |-> version]

NoSnapshot == [equity |-> 0, gain |-> 0, flow |-> 0, date |-> 0, at |-> None]

NoRequest ==
    [pc |-> "idle", live |-> NoSnapshot, shown |-> None, books |-> NoSnapshot,
     sum |-> 0, result |-> 0]

Serving(c, step) == req[c].pc = step

Continue(c, r) == req' = [req EXCEPT ![c] = r]

Call(c) ==
    /\ req[c].pc \in {"idle", "replied", "no_live_data"}
    /\ Continue(c, [NoRequest EXCEPT !.pc = Order[1]])
    /\ UNCHANGED <<class, account, curve, pending, version, mark, cache, hist>>

CachedEquity(c) ==
    /\ Serving(c, "equity") /\ cache # NoSnapshot
    /\ Continue(c, [req[c] EXCEPT !.live = cache, !.pc = After("equity")])
    /\ UNCHANGED <<class, account, curve, pending, version, mark, cache, hist>>

ReadEquity(c) ==
    /\ Serving(c, "equity") /\ cache = NoSnapshot /\ Whole
    /\ Continue(c, [req[c] EXCEPT !.live = Snapshot, !.pc = "store"])
    /\ UNCHANGED <<class, account, curve, pending, version, mark, cache, hist>>

\* Another thread may have filled the cache meanwhile: it is overwritten.
StoreEquity(c) ==
    /\ Serving(c, "store")
    /\ cache' = req[c].live
    /\ Continue(c, [req[c] EXCEPT !.pc = After("equity")])
    /\ UNCHANGED <<class, account, curve, pending, version, mark, hist>>

\* A torn file is logged and answered with NO_LIVE_DATA; nothing is cached.
NoLiveData(c) ==
    /\ Serving(c, "equity") /\ cache = NoSnapshot /\ ~Whole
    /\ Continue(c, [NoRequest EXCEPT !.pc = "no_live_data"])
    /\ UNCHANGED <<class, account, curve, pending, version, mark, cache, hist>>

\* get_live_equity_usd reads the file again, for display.
ReadUsd(c) ==
    /\ Serving(c, "usd")
    /\ Continue(c, [req[c] EXCEPT !.shown = IF Whole THEN version ELSE None,
                                  !.pc = After("usd")])
    /\ UNCHANGED <<class, account, curve, pending, version, mark, cache, hist>>

\* The third read: transfers since the mark, or the recovered amount. An
\* underwater client on the plain model needs neither. What cannot be read
\* counts as no deposits and as nothing recovered.
ReadBooks(c) ==
    /\ Serving(c, "books")
    /\ LET readable == Whole /\ class # "underwater"
           sum == CASE readable /\ class = "at_hwm"    -> DepositsSince(curve)
                    [] readable /\ class = "pnl_based" -> LastOf(curve).equity
                                                          - UsdtMoved(curve)
                    [] OTHER                           -> 0
       IN  Continue(c, [req[c] EXCEPT
                          !.books = IF readable THEN Snapshot ELSE @,
                          !.sum = sum, !.pc = After("books")])
    /\ UNCHANGED <<class, account, curve, pending, version, mark, cache, hist>>

BillableSigned(equity, deposits) == equity - mark.value - deposits

BillableGross(equity, deposits) == Max0(equity - mark.value)

\* P&L above the mark, net of deposits: what fees are a percentage of
Billable(equity, deposits) == Max0(equity - mark.value - deposits)

Recovery(equity, recovered) ==
    IF class = "pnl_based" THEN Max0(RecoverySeed - recovered)
    ELSE Max0(mark.value - equity)

Reply(c) ==
    /\ Serving(c, "reply")
    /\ Continue(c, [req[c] EXCEPT
         !.result = IF class = "at_hwm" THEN Billable(req[c].live.equity,
                                                      req[c].sum)
                    ELSE Recovery(req[c].live.equity, req[c].sum),
         !.pc = "replied"])
    /\ UNCHANGED <<class, account, curve, pending, version, mark, cache, hist>>

-----------------------------------------------------------------------------
(* Invoices and restarts *)

\* The process ends: its cache and the requests it was serving are gone.
ProcessRestarts == cache' = NoSnapshot /\ req' = [c \in Callers |-> NoRequest]

Restart ==
    /\ ProcessRestarts
    /\ UNCHANGED <<class, account, curve, pending, version, mark, hist>>

IssueKeepingMark(c) ==
    /\ class = "at_hwm" /\ Serving(c, "replied") /\ req[c].result > 0
    /\ hist.invoices < MaxInvoices
    /\ hist' = [hist EXCEPT !.billed = @ + req[c].result,
                            !.invoices = @ + 1,
                            !.misread = @ \/ req[c].books.at = None]
    /\ ProcessRestarts
    /\ UNCHANGED <<class, account, curve, pending, version, mark>>

\* An invoice goes out for a reply. The mark in the source becomes the reply's
\* new_watermark, its equity, and the service is deployed again.
IssueInvoice(c) ==
    /\ class = "at_hwm" /\ Serving(c, "replied") /\ req[c].result > 0
    /\ hist.invoices < MaxInvoices
    /\ mark' = [value |-> req[c].live.equity, gain |-> req[c].live.gain,
                flow |-> req[c].live.flow, date |-> req[c].live.date]
    /\ hist' = [hist EXCEPT !.billed = @ + req[c].result,
                            !.invoices = @ + 1,
                            !.misread = @ \/ req[c].books.at = None]
    /\ ProcessRestarts
    /\ UNCHANGED <<class, account, curve, pending, version>>

-----------------------------------------------------------------------------

Init ==
    /\ class \in Classes
    /\ account = [day |-> SeedDate, gain |-> 0, flow |-> 0, events |-> 0]
    /\ curve = <<[date |-> SeedDate, equity |-> Base, transfer |-> 0,
                  gain |-> 0, flow |-> 0]>>
    /\ pending = <<>>
    /\ version = 0
    /\ mark = [value |-> InitialEquity, gain |-> 0, flow |-> 0,
               date |-> SeedDate]
    /\ cache = NoSnapshot
    /\ req = [c \in Callers |-> NoRequest]
    /\ hist = [refreshed |-> FALSE, withdrew |-> FALSE, misread |-> FALSE,
               billed |-> 0, high |-> 0, invoices |-> 0]

Environment == Trade \/ MoveCash \/ NextDay \/ BeginWrite \/ EndWrite

Serve(c) ==
    \/ Call(c) \/ CachedEquity(c) \/ ReadEquity(c) \/ StoreEquity(c)
    \/ NoLiveData(c) \/ ReadUsd(c) \/ ReadBooks(c) \/ Reply(c)
    \/ IssueInvoice(c)

Next == Environment \/ Restart \/ \E c \in Callers : Serve(c)

Spec == Init /\ [][Next]_vars

-----------------------------------------------------------------------------
(* Properties *)

SnapshotType ==
    [equity : Int, gain : Int, flow : Int, date : Nat, at : Nat \cup {None}]

\* Every variable has its type. No client is ever quoted a negative fee or a
\* negative recovery (max(0, ...) in invoice_state.py).
TypeOK ==
    /\ class \in Classes
    /\ account \in [day : Nat, gain : Int, flow : Int, events : Nat]
    /\ version \in Nat
    /\ \A points \in {curve, pending} : \A i \in DOMAIN points :
         points[i] \in [date : Nat, equity : Int, transfer : Int,
                        gain : Int, flow : Int]
    /\ mark \in [value : Int, gain : Int, flow : Int, date : Nat]
    /\ cache \in SnapshotType
    /\ \A c \in Callers :
         /\ req[c].pc \in {"idle", "equity", "store", "usd", "books", "reply",
                           "replied", "no_live_data"}
         /\ req[c].live \in SnapshotType /\ req[c].books \in SnapshotType
         /\ req[c].shown \in Nat \cup {None}
         /\ req[c].sum \in Int /\ req[c].result \in Nat

\* The reads of one request see the file in the order of its versions: the
\* equity a fee starts from, whether cached by this or by another thread or
\* just read, is never newer than the equity shown next to it or than the
\* transfers it is netted with. A deposit that is in the equity is therefore
\* among the transfers as well (compute_current_fees, _compute_at_hwm_fees).
ReadsAdvance ==
    \A c \in Callers :
      LET r == req[c]
          InOrder(a, b) == a # None /\ b # None => a <= b
      IN  /\ InOrder(r.live.at, r.shown)
          /\ InOrder(r.live.at, r.books.at)
          /\ InOrder(r.shown, r.books.at)

\* Nothing is flagged as a transfer between the seed date and the mark's date.
NoTransferBeforeMark ==
    \A i \in DOMAIN curve :
      curve[i].date > SeedDate /\ curve[i].date <= mark.date
        => curve[i].transfer = 0

\* A reply whose equity and transfers come from the same curve, which the job
\* wrote once a day and which has no transfer from before the mark, quotes
\* what trading earned since the mark: deposits, withdrawals, missed days and
\* earlier invoices do not enter into it.
CoherentReplyIsGain ==
    \A c \in Callers :
      LET r == req[c]
      IN  /\ class = "at_hwm" /\ r.pc = "replied"
          /\ r.live.at = r.books.at
          /\ ~hist.refreshed /\ NoTransferBeforeMark
          => r.result = Max0(r.live.gain - mark.gain)

\* Trading and transfers never fall into the same interval of the curve.
TransfersAlone ==
    \A i \in 2..Len(curve) :
      curve[i].transfer # 0 => curve[i].gain = curve[i - 1].gain

\* Every transfer of the curve is above the noise the recovery ignores.
TransfersVisible ==
    \A i \in 2..Len(curve) :
      curve[i].transfer # 0
        => curve[i].transfer > MinJump \/ curve[i].transfer < -MinJump

\* The recovery quoted to a client on the P&L model is what trading has left
\* to earn back, whatever was paid in or out on days without trading
\* (_compute_pnl_based_recovery: "deposits/withdrawals are not trading PnL").
RecoveryTracksGains ==
    \A c \in Callers :
      LET r == req[c]
      IN  /\ class = "pnl_based" /\ r.pc = "replied"
          /\ r.books.at = version
          /\ ~hist.refreshed /\ TransfersAlone /\ TransfersVisible
          => r.result = Max0(RecoverySeed - r.books.gain)

\* Over any number of invoices, and however stale the equity each was taken
\* from, the client is billed no gain twice: the sum of what was billed is at
\* most the highest gain the curve ever showed. It needs a client who does not
\* withdraw, a curve written once a day and invoices whose transfers were read.
GainsBilledOnce ==
    ~hist.withdrew /\ ~hist.refreshed /\ ~hist.misread
      => hist.billed <= hist.high

\* "Compute net deposits/withdrawals since HWM": the transfers a reply nets are
\* those that came after its mark was set. An invoice moves the mark of a
\* client in _HWM_SEED and leaves _SEED_TIMESTAMP, the date the sum starts at.
DepositsAreSinceMark ==
    \A c \in Callers :
      LET r == req[c]
      IN  /\ class = "at_hwm" /\ r.pc = "replied"
          /\ r.books.at # None /\ ~hist.refreshed
          => r.sum = r.books.flow - mark.flow

=============================================================================
