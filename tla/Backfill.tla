------------------------------ MODULE Backfill ------------------------------
(***************************************************************************)
(* The historical backfill of one client (scripts/backfill_history.py):    *)
(* the pagers that read the exchange's ledger, fills and transfers, each   *)
(* with its own cursor, retry and stopping rule, and the daily equity      *)
(* curve rebuilt from what they returned.                                  *)
(*                                                                         *)
(* The exchange account is one sequence of rows in the order the exchange  *)
(* booked them; a row's index is its id, and rows may share a millisecond  *)
(* (a "tick").  A "fill" row is a trade with the P&L it realised, net of   *)
(* its fee; a "flow" row is a deposit or a withdrawal.  The balance is the *)
(* sum of all rows, held in USDT.                                          *)
(***************************************************************************)
EXTENDS Integers, Sequences, FiniteSets, FiniteSetsExt, SequencesExt

CONSTANTS
    MaxRows,       \* bound: rows the account ever has
    Ticks,         \* the milliseconds 1 .. Ticks of the history; the run is at Ticks
    TicksPerDay,
    RowKinds,      \* records [kind, sym, amount] a row can be
    Limit,         \* rows per page of every endpoint
    BillsFrom,     \* OKX "bills" serves rows from this tick on (7 days)
    ArchiveFrom,   \* OKX "bills-archive" serves rows from this tick on (3 months)
    Quarters,      \* the quarterly files asked for, those of last and of this year: the ticks of each
    RecentFrom,    \* OKX fetch_my_trades serves fills from this tick on (90 days)
    TradesFrom,    \* the Binance trades are asked for from this tick on (18 times 30 days)
    FlowsFrom,     \* the transfers are asked for from this tick on (2023-01-01)
    PageCaps,      \* values of the most pages of one ledger endpoint (501 of income, 1001 of bills)
    CorePairs,     \* symbols scanned whether or not they are held
    TimeoutLimit, RateLimit,   \* errors in a row after which an OKX endpoint is left
    MaxFaults,     \* bound: failing calls in one run
    StartDays,     \* values of strategy_start_date
    Drift,         \* drift below which the Binance curve is not shifted
    Threshold,     \* noise threshold of the OKX residual
    Fee            \* fee of a fill, the only thing the legacy curve sees of it

\* A page has room for a row, the archive reaches back further than the bills,
\* a walk reads a page, a fill is of a symbol.
ASSUME BackfillAssumption ==
    /\ MaxRows \in Nat /\ Ticks \in Nat \ {0} /\ TicksPerDay \in Nat \ {0}
    /\ Limit \in Nat \ {0} /\ Drift \in Nat
    /\ BillsFrom \in Int /\ ArchiveFrom \in Int /\ RecentFrom \in Int
    /\ TradesFrom \in Int /\ FlowsFrom \in Int
    /\ ArchiveFrom <= BillsFrom
    /\ Quarters \in Seq(SUBSET Int) /\ PageCaps \subseteq Nat \ {0}
    /\ \A k \in RowKinds :
          /\ k.kind \in {"fill", "flow"} /\ k.amount \in Int
          /\ k.kind = "fill" => k.sym # "none"

VARIABLES
    venue, cap,    \* fixed for the run: the exchange, its page cap
    heldNow,       \* and the symbols with an open position
    rows,
    stage,         \* the fetch the run is in, "done" after the last
    todo,          \* symbols the current trade stage still has to scan
    cursor,        \* since / end / after of the next page, or the next quarter
    pages,         \* pages read of the present ledger endpoint
    errors,        \* consecutive_errors
    balance,
    ledger, trades, transfers,     \* row ids in the order they were fetched
    curve,         \* equity_curve.json: [day -> [equity, transfer]]
    \* history, read by the properties only
    faults,        \* number of failing calls so far
    failed,        \* the stages left early, by an error or by the page cap, or answered in part
    filed,         \* the rows that came out of a quarterly file
    snapLen        \* rows booked when the balance was fetched

setting    == <<venue, cap, heldNow>>
fetchState == <<stage, todo, cursor, pages, errors>>
files      == <<ledger, trades, transfers, curve>>
bvars      == <<setting, rows, fetchState, balance, files, faults, failed, filed, snapLen>>

Ids == 1 .. Len(rows)

Day(t) == (t - 1) \div TicksPerDay

Today == Day(Ticks)

Syms == {k.sym : k \in RowKinds} \ {"none"}

Amount(S) == MapThenSumSet(LAMBDA i : rows[i].amount, S)

Fills(sym) == {i \in Ids : rows[i].kind = "fill" /\ rows[i].sym = sym}

Flows == {i \in Ids : rows[i].kind = "flow"}

Fetched(s) == ToSet(s)

AbsOf(x) == IF x < 0 THEN -x ELSE x

-----------------------------------------------------------------------------
(* The exchange's endpoints: a page is at most Limit of the rows asked for.*)

Oldest(S) == {i \in S : Cardinality({j \in S : j < i}) < Limit}

Newest(S) == {i \in S : Cardinality({j \in S : j > i}) < Limit}

From(S, t) == {i \in S : rows[i].tick >= t}

UpTo(S, t) == {i \in S : rows[i].tick <= t}

Ascending(S) ==
    CHOOSE s \in [1 .. Cardinality(S) -> S] :
        \A m, n \in 1 .. Cardinality(S) : m < n => s[m] < s[n]

Descending(S) == Reverse(Ascending(S))

TickOf(i) == rows[i].tick

FirstTick(page) == Min({TickOf(i) : i \in page})

LastTick(page) == Max({TickOf(i) : i \in page})

\* A row is booked between the balance and the end of the ledger walk.
BookRow ==
    /\ stage = "ledger"
    /\ Len(rows) < MaxRows
    /\ \E k \in RowKinds :
          /\ Amount(Ids) + k.amount >= 0
          /\ rows' = Append(rows, [tick |-> Ticks, kind |-> k.kind, sym |-> k.sym, amount |-> k.amount])
    /\ UNCHANGED <<setting, fetchState, balance, files, faults, failed, filed, snapLen>>

-----------------------------------------------------------------------------
(* backfill_client: balance and positions, ledger, trades, transfers.      *)

FirstCursor(next) ==
    CASE next = "trades" -> IF venue = "binance" THEN TradesFrom ELSE Ticks
      [] next \in {"deposits", "withdrawals"} -> FlowsFrom
      [] next = "history" -> 1
      [] next = "ledger" -> IF venue = "binance" THEN Ticks ELSE MaxRows + 1
      [] OTHER -> MaxRows + 1

Enter(next, syms) ==
    /\ stage' = next
    /\ todo' = syms
    /\ cursor' = FirstCursor(next)
    /\ pages' = 0
    /\ errors' = 0

\* Missing keys: backfill_client returns False before anything is written.
NoCredentials ==
    /\ stage = "start"
    /\ stage' = "done"
    /\ failed' = {"start"}
    /\ UNCHANGED <<setting, rows, todo, cursor, pages, errors, balance, files, faults, filed, snapLen>>

\* fetch_balance_snapshot and fetch_positions_snapshot; an error in the first
\* is answered with no assets.
FetchBalance ==
    /\ stage = "start"
    /\ \/ /\ balance' = Amount(Ids)
          /\ UNCHANGED <<faults, failed>>
       \/ /\ faults < MaxFaults /\ faults' = faults + 1
          /\ balance' = 0
          /\ failed' = {"balance"}
    /\ snapLen' = Len(rows)
    /\ Enter("ledger", {})
    /\ UNCHANGED <<setting, rows, files, filed>>

\* An exchange call raises and the loop around it is left with the rows it
\* has, as every loop does for an error it does not retry.
Break(next, syms) ==
    /\ faults < MaxFaults /\ faults' = faults + 1
    /\ failed' = failed \cup {stage}
    /\ Enter(next, syms)
    /\ UNCHANGED <<setting, rows, balance, files, filed, snapLen>>

Kept == <<setting, rows, balance, faults, snapLen>>

\* endTime / end of the page before this one.
BeforePage(page) == FirstTick(page) - 1

\* After a page of the ledger: the next one, unless this was the last the cap
\* allows and the rows "left" are never asked for.
TurnPage(after, left, next, syms) ==
    IF pages + 1 < cap
    THEN /\ cursor' = after /\ pages' = pages + 1 /\ errors' = 0
         /\ UNCHANGED <<stage, todo, failed>>
    ELSE /\ failed' = failed \cup (IF left = {} THEN {} ELSE {stage})
         /\ Enter(next, syms)

\* fetch_binance_income_ledger: newest page up to endTime, then endTime moves
\* to the millisecond before the page.
IncomePage ==
    /\ venue = "binance" /\ stage = "ledger"
    /\ LET page == Newest(UpTo(Ids, cursor)) IN
       IF page = {} THEN Enter("trades", Syms) /\ UNCHANGED <<ledger, failed>>
       ELSE /\ ledger' = ledger \o Ascending(page)
            /\ TurnPage(BeforePage(page), UpTo(Ids, BeforePage(page)), "trades", Syms)
    /\ UNCHANGED <<Kept, trades, transfers, curve, filed>>

BillsServed == From(Ids, IF stage = "ledger" THEN BillsFrom ELSE ArchiveFrom)

AfterBills == IF stage = "ledger" THEN "archive" ELSE "history"

BillsAddTwice(page) == ledger \o Descending(page)

\* A bill seen on the other endpoint is skipped.
BillsAdd(page) == ledger \o Descending(page \ Fetched(ledger))

\* fetch_okx_bills_ledger: the newest page before bill "after", on the
\* "bills" endpoint and then from the start again on "bills-archive".
BillsPage ==
    /\ venue = "okx" /\ stage \in {"ledger", "archive"}
    /\ LET page == Newest({i \in BillsServed : i < cursor}) IN
       IF page = {} THEN Enter(AfterBills, {}) /\ UNCHANGED <<ledger, failed>>
       ELSE /\ ledger' = BillsAdd(page)
            /\ TurnPage(Min(page), {i \in BillsServed : i < Min(page)}, AfterBills, {})
    /\ UNCHANGED <<Kept, trades, transfers, curve, filed>>

\* A timeout or a rate limit is retried on the same cursor; both count on one
\* counter, and each has its own limit after which the endpoint is left.
Retry(limit) ==
    /\ venue = "okx" /\ stage \in {"ledger", "archive"}
    /\ faults < MaxFaults /\ faults' = faults + 1
    /\ IF errors + 1 >= limit
       THEN Enter(AfterBills, {}) /\ failed' = failed \cup {stage}
       ELSE errors' = errors + 1 /\ UNCHANGED <<stage, todo, cursor, pages, failed>>
    /\ UNCHANGED <<setting, rows, balance, files, filed, snapLen>>

Timeout == Retry(TimeoutLimit)

RateLimited == Retry(RateLimit)

\* The quarterly files, one after the other: a bill already seen is skipped.
\* A file may not be generated yet, may not be downloaded, or may break off
\* when it is read; then the next one is tried.  Nothing in the code says in
\* which order a file lists its rows.
QuarterFile ==
    /\ stage = "history" /\ cursor \in DOMAIN Quarters
    /\ LET unseen == {i \in Ids : TickOf(i) \in Quarters[cursor]} \ Fetched(ledger) IN
       \E read \in SUBSET unseen :
          /\ ledger' \in {ledger \o Ascending(read), ledger \o Descending(read)}
          /\ filed' = filed \cup read
          /\ failed' = failed \cup (IF read = unseen THEN {} ELSE {stage})
    /\ cursor' = cursor + 1
    /\ UNCHANGED <<Kept, stage, todo, pages, errors, trades, transfers, curve>>

QuartersEnd ==
    /\ stage = "history" /\ cursor \notin DOMAIN Quarters
    /\ Enter("trades", Syms)
    /\ UNCHANGED <<Kept, files, filed, failed>>

-----------------------------------------------------------------------------
(* Trades, one symbol after the other.                                     *)

RecentFills(sym) == From(Fills(sym), RecentFrom)

\* The symbols a venue's scan knows of: the core pairs and what is held now,
\* on OKX also what the newest fills of any symbol show.
Discovered ==
    CorePairs \cup heldNow
        \cup IF venue = "okx"
             THEN {rows[i].sym : i \in Newest(UNION {RecentFills(s) : s \in Syms})}
             ELSE {}

Sym == CHOOSE s \in todo : TRUE

NextSymbol ==
    /\ todo' = todo \ {Sym}
    /\ cursor' = FirstCursor(stage)
    /\ UNCHANGED <<stage, pages, errors>>

\* A symbol no scan knows of is never asked for.
SkipSymbol ==
    /\ stage = "trades" /\ todo # {} /\ Sym \notin Discovered
    /\ NextSymbol
    /\ UNCHANGED <<Kept, files, filed, failed>>

NextSinceSame(page) == LastTick(page)

\* "since" of the page after this one.
NextSince(page) == LastTick(page) + 1

\* fetch_all_trades_binance: forward from the cursor; an empty page skips on,
\* month by month, until the clock is reached.  The walk begins 18 months
\* back, so that 18 empty pages end it there too.
BinanceTradesPage ==
    /\ venue = "binance" /\ stage = "trades" /\ todo # {} /\ Sym \in Discovered
    /\ LET page == Oldest(From(Fills(Sym), cursor)) IN
       IF page = {} THEN NextSymbol /\ UNCHANGED trades
       ELSE /\ trades' = trades \o Ascending(page \ Fetched(trades))
            /\ cursor' = NextSince(page)
            /\ UNCHANGED <<stage, todo, pages, errors>>
    /\ UNCHANGED <<Kept, ledger, transfers, curve, filed, failed>>

\* fetch_all_trades_okx, phase 1: backward from the newest fill.
OkxRecentPage ==
    /\ venue = "okx" /\ stage = "trades" /\ todo # {} /\ Sym \in Discovered
    /\ LET page == Newest(UpTo(RecentFills(Sym), cursor)) IN
       IF page \subseteq Fetched(trades) THEN NextSymbol /\ UNCHANGED trades
       ELSE /\ trades' = trades \o Ascending(page \ Fetched(trades))
            /\ cursor' = BeforePage(page)
            /\ UNCHANGED <<stage, todo, pages, errors>>
    /\ UNCHANGED <<Kept, ledger, transfers, curve, filed, failed>>

\* The symbols phase 1 found fills of, the only ones phase 2 looks up.
WithTrades == {rows[i].sym : i \in From(Fetched(trades), RecentFrom)}

ScanEnds ==
    /\ stage \in {"trades", "fills"} /\ todo = {}
    /\ IF venue = "okx" /\ stage = "trades"
       THEN Enter("fills", WithTrades) ELSE Enter("deposits", {})
    /\ UNCHANGED <<Kept, files, filed, failed>>

ArchivedFills(sym) == Fills(sym) \ RecentFills(sym)

\* _fetch_okx_archive_trades, phase 2: backward by bill id, without a cap.
OkxArchivePage ==
    /\ stage = "fills" /\ todo # {}
    /\ LET page == Newest({i \in ArchivedFills(Sym) : i < cursor}) IN
       IF page = {} THEN NextSymbol /\ UNCHANGED trades
       ELSE /\ trades' = trades \o Descending(page \ Fetched(trades))
            /\ cursor' = Min(page)
            /\ UNCHANGED <<stage, todo, pages, errors>>
    /\ UNCHANGED <<Kept, ledger, transfers, curve, filed, failed>>

\* fetch_all_transfers: forward, and a page that lies wholly in the cursor's
\* own millisecond is the last.
TransfersPage ==
    /\ stage \in {"deposits", "withdrawals"}
    /\ LET wanted == {i \in Flows : (rows[i].amount > 0) = (stage = "deposits")}
           page == Oldest(From(wanted, cursor))
           next == IF stage = "deposits" THEN "withdrawals" ELSE "save"
       IN  /\ transfers' = transfers \o Ascending(page)
           /\ IF page = {} \/ LastTick(page) <= cursor THEN Enter(next, {})
              ELSE cursor' = NextSince(page) /\ UNCHANGED <<stage, todo, pages, errors>>
    /\ UNCHANGED <<Kept, ledger, trades, curve, filed, failed>>

CallFails ==
    \/ stage = "ledger" /\ Break(IF venue = "okx" THEN "archive" ELSE "trades",
                                 IF venue = "okx" THEN {} ELSE Syms)
    \/ stage = "archive" /\ Break("history", {})
    \/ stage = "trades" /\ todo # {} /\ Sym \in Discovered /\ Break("trades", todo \ {Sym})
    \/ stage = "fills" /\ todo # {} /\ Break("fills", todo \ {Sym})
    \/ stage = "deposits" /\ Break("withdrawals", {})
    \/ stage = "withdrawals" /\ Break("save", {})

-----------------------------------------------------------------------------
(* compute_daily_equity                                                    *)

RowsOf(d) == {i \in Fetched(ledger) : Day(TickOf(i)) = d}

RowsUntil(d) == {i \in Fetched(ledger) : Day(TickOf(i)) <= d}

FlowOf(d) == Amount(RowsOf(d) \cap Flows)

FirstDay(S) == Min({Day(TickOf(i)) : i \in S})

\* The live balance is what the replayed ledger is anchored to, unless it is
\* missing or close enough.
DriftOf == LET gap == balance - Amount(Fetched(ledger))
           IN  IF balance # 0 /\ AbsOf(gap) > Drift THEN gap ELSE 0

ShiftIgnored == 0

\* The whole curve is moved by the drift.
ShiftOf == DriftOf

\* compute_daily_equity_from_binance_income: daily net amounts replayed from
\* zero, the drift added to every day and to the first day's transfer.
BinanceCurve ==
    LET first == FirstDay(Fetched(ledger))
    IN  [d \in first .. Today |->
            [equity |-> Amount(RowsUntil(d)) + ShiftOf,
             transfer |-> FlowOf(d) + IF d = first THEN DriftOf ELSE 0]]

BalanceAfter(i) == Amount(1 .. i)

\* The ledger is sorted by time, stably, and a row replaces the day's last
\* one only if it is strictly later: among rows of one millisecond the one
\* fetched first counts.
EodRow(d) ==
    LET late == LastTick(RowsOf(d))
    IN  ledger[SelectInSeq(ledger, LAMBDA i : TickOf(i) = late)]

LastRowDay(d) == Max({Day(TickOf(i)) : i \in RowsUntil(d)})

EodBalance(d) == BalanceAfter(EodRow(LastRowDay(d)))

ResidualOf(d) == EodBalance(d) - EodBalance(d - 1) - Amount(RowsOf(d) \ Flows)

Noted(x) == IF AbsOf(x) > Threshold THEN x ELSE 0

\* compute_daily_equity_from_okx_bills: the last balance of every day,
\* carried over days without a bill; transfers as residuals; then today's
\* equity replaced by the live balance.
OkxCurve ==
    LET first == FirstDay(Fetched(ledger))
    IN  [d \in first .. Today |->
            [equity |-> IF d = Today THEN balance ELSE EodBalance(d),
             transfer |-> Noted(IF d = first THEN EodBalance(d) ELSE ResidualOf(d))]]

\* _compute_daily_equity_legacy: backward from the balance, by fees and
\* transfers; what the fills earned is not in the trades.
LegacyCurve ==
    LET known == Fetched(trades) \cup Fetched(transfers)
        change(i) == IF rows[i].kind = "fill" THEN -Fee ELSE rows[i].amount
        after(d) == {i \in known : Day(TickOf(i)) > d}
    IN  [d \in FirstDay(known) .. Today |->
            [equity |-> balance - MapThenSumSet(change, after(d)), transfer |-> 0]]

DailyEquity ==
    CASE ledger # <<>> /\ venue = "binance" -> BinanceCurve
      [] ledger # <<>> /\ venue = "okx" -> OkxCurve
      [] ledger = <<>> /\ trades \o transfers # <<>> -> LegacyCurve
      [] OTHER -> <<>>

\* The curve is cut at the strategy's first day and written.
SaveCurve ==
    /\ stage = "save"
    /\ LET full == DailyEquity IN
       \E start \in StartDays :
          curve' = [d \in {x \in DOMAIN full : x >= start} |-> full[d]]
    /\ stage' = "done"
    /\ UNCHANGED <<Kept, todo, cursor, pages, errors, ledger, trades, transfers, filed, failed>>

-----------------------------------------------------------------------------
RowAt(t, k) == [tick |-> t, kind |-> k.kind, sym |-> k.sym, amount |-> k.amount]

PossibleRows == {RowAt(t, k) : t \in 1 .. Ticks, k \in RowKinds}

InOrder(h) == \A i \in 1 .. Len(h) : i < Len(h) => h[i].tick <= h[i + 1].tick

\* No row takes more than the balance before it.
NeverOwes(h) == \A i \in 1 .. Len(h) : MapThenSumSet(LAMBDA j : h[j].amount, 1 .. i) >= 0

Histories == {h \in SeqOf(PossibleRows, MaxRows) : InOrder(h) /\ NeverOwes(h)}

BackfillInit ==
    /\ venue \in {"binance", "okx"} /\ cap \in PageCaps
    /\ rows \in Histories
    /\ heldNow \in SUBSET {s \in Syms \ CorePairs : Fills(s) # {}}
    /\ stage = "start" /\ todo = {} /\ cursor = 0 /\ pages = 0 /\ errors = 0
    /\ balance = 0
    /\ ledger = <<>> /\ trades = <<>> /\ transfers = <<>> /\ curve = <<>>
    /\ faults = 0 /\ failed = {} /\ filed = {} /\ snapLen = 0

Walk ==
    \/ NoCredentials \/ FetchBalance
    \/ IncomePage \/ BillsPage \/ QuarterFile \/ QuartersEnd
    \/ SkipSymbol \/ ScanEnds \/ BinanceTradesPage \/ OkxRecentPage \/ OkxArchivePage
    \/ TransfersPage
    \/ Timeout \/ RateLimited \/ CallFails

BackfillNext == BookRow \/ Walk \/ SaveCurve

\* The script is one loop without waits that could last for ever.
BackfillSpec == BackfillInit /\ [][BackfillNext]_bvars /\ WF_bvars(Walk)

-----------------------------------------------------------------------------
(* Properties.                                                             *)

Once(s) == Len(s) = Cardinality(Fetched(s))

\* A page of transfers within one millisecond, which ends the walk early.
Jammed == \E t \in 1 .. Ticks : Cardinality({i \in Flows : TickOf(i) = t}) >= Limit

LostInTie(i, got) == \E j \in got : TickOf(j) = TickOf(i)

\* What a walk nothing went wrong with may still leave behind.  The cursor of
\* a pager by time steps over the rest of a millisecond that a page boundary
\* splits; a transfer from before the first cursor, or a bill
\* older than the quarters asked for, is never requested.
BeyondLedger(i) ==
    IF venue = "binance" THEN LostInTie(i, Fetched(ledger))
    ELSE TickOf(i) < ArchiveFrom /\ \A q \in DOMAIN Quarters : TickOf(i) \notin Quarters[q]

\* A symbol no scan knows of is not asked for, nor are OKX fills older than 90
\* days of a symbol without newer ones.
BeyondTrades(i) ==
    \/ LostInTie(i, Fetched(trades))
    \/ rows[i].sym \notin Discovered
    \/ venue = "okx" /\ rows[i].sym \notin WithTrades
    \/ venue = "binance" /\ TickOf(i) < TradesFrom

BeyondTransfers(i) == LostInTie(i, Fetched(transfers)) \/ Jammed \/ TickOf(i) < FlowsFrom

\* No pager returns a row twice, whatever fails; and if no call failed, no
\* page cap cut a walk and every quarterly file was read, then the rows booked
\* before the run are all there except those named above: none is lost to a
\* cursor by id, to the change of endpoint, or to a retry
\* (fetch_binance_income_ledger, fetch_okx_bills_ledger, fetch_all_trades_*,
\* fetch_all_transfers).
OnlyKnownRowsAreLost ==
    /\ Once(ledger) /\ Once(trades) /\ Once(transfers)
    /\ stage = "done" /\ failed = {} =>
          \A i \in 1 .. snapLen :
             /\ i \in Fetched(ledger) \/ BeyondLedger(i)
             /\ rows[i].kind = "fill" => i \in Fetched(trades) \/ BeyondTrades(i)
             /\ rows[i].kind = "flow" => i \in Fetched(transfers) \/ BeyondTransfers(i)

\* The ledger holds the account's newest rows without a hole, it may lack
\* the oldest; nothing was booked after the balance was read.
Contiguous == \A i, j \in Ids : i \in Fetched(ledger) /\ j > i => j \in Fetched(ledger)

Calm == snapLen = Len(rows) /\ failed \cap {"balance", "start"} = {}

\* No two rows taken from the quarterly files share a millisecond: which of
\* them is the day's last is the file's choice.
FilesTidy == \A i, j \in filed : i # j => TickOf(i) # TickOf(j)

\* A balance of zero is taken for a missing one: the curve is not anchored.
Anchored == balance # 0 \/ Fetched(ledger) = Ids

TrueBalance(d) == Amount({i \in Ids : Day(TickOf(i)) <= d})

TrueFlow(d) == Amount({i \in Flows : Day(TickOf(i)) = d})

\* A ledger walk that was cut short, wherever, still yields the right curve
\* for the days it has: every point is the account's balance at the end of
\* its day, up to the drift left uncorrected, and a transfer is marked on a
\* day after the first exactly when money moved, whatever was earned and
\* however many rows share a millisecond (compute_daily_equity_from_*).
CutLedgerKeepsCurve ==
    stage = "done" /\ Calm /\ ledger # <<>> /\ Contiguous /\ Anchored /\ FilesTidy =>
        \A d \in DOMAIN curve :
            /\ AbsOf(curve[d].equity - TrueBalance(d)) <= Drift
            /\ d > FirstDay(Fetched(ledger)) =>
                  curve[d].transfer = IF venue = "okx" THEN Noted(TrueFlow(d)) ELSE TrueFlow(d)

\* Every walk ends: a cursor always moves on, a retried call is given up
\* after a bounded number of errors, and no page is asked for twice.
BackfillEnds == <>(stage \in {"save", "done"})
=============================================================================
