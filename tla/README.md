# Verification of client-reporting-api

TLA+ specifications, TLC model checking and TLAPS proofs for
`client-reporting-api`: the job that keeps every client's equity curve, trades and
orders and the backfill it starts from, the bucket it synchronises with, the API that
reads a run ledger while others write it, the fees computed from a curve that is being
rewritten and the screens that show them, the reports folded from curves, tapes, bills
and transfers, invoices and signatures, the daily digest, and the emergency close of an
account that goes on trading. Paths below are relative to `src/client_reporting_api/`
unless they begin with `src/`.

Contents: 1 the system, 2 the modules, 3 the runs, 4 bounds, 5 fairness,
6 proofs, 7 disagreements between documents and code, 8 what is not modelled,
9 plan.

## 1. The system

### 1.1 How the parts interact

```
 Cloud Scheduler / cron                    paper engine, batch reruns
        | hourly `update`, daily `update --full`      | run ledger objects
        v                                             v
 update job --balance, ticker, ledger--> exchange   bucket: ledger/
   |  disk: equity_curve, trades, orders, ...          |  read object by object
   |<-- bootstrap, upload --> bucket: backfill/        v
   v                                             API routes (thread pool)
 invoice_state, transfer_store, backfill_store ----> routes: invoices, performance, ...
                                                 daily digest job --POST--> alerting
```

There is no database and there are no locks. State lives in JSON files that are
rewritten as a whole, in bucket objects, in an in-memory record store and in
caches of the API process. Everything that can go wrong comes from reading one
of these at one moment and using it at another.

### 1.2 Inventory

**Equity update** (`cli/equity_update.py`, `cli/pnl_fetch.py`,
`cli/update_command.py`, `cli/shared.py`). *State*: `equity_curve.json`, one point
per day. *Operations*: compute the gap, fetch balance, price and ledger P&L, detect
a transfer as the unexplained rest, fill missing days, replace or append today's
point. *Hard*: three exchange calls against an account that goes on trading;
midnight inside a run; partial ledger walks; same-day refreshes. *Correct when*:
one point per day, closed days never change, the rest is cash that moved, the
curve catches up after downtime.

**Update job and bucket** (`cli/gcs_sync.py`, `cli/trades_and_orders.py`,
`cli/update_command.py`). *State*: eight files on the job's disk and in the
bucket. *Operations*: bootstrap from the bucket, refresh the curve, append trades
and orders, upload; loop over the clients. *Hard*: in-place writes and kills,
interrupted downloads and uploads, whole-file uploads, an empty disk on Cloud Run
against a persistent one on a host, overlapping look-back windows. *Correct when*:
what is stored is whole (but for the files a host's job carries without parsing them), never
shrinks on `cloud_run`, has one row per id and ends up complete.

**Run ledger readers** (`core/ledger_views.py`, `core/recon_view.py`,
`api/routes/attribution.py`, `api/routes/trades.py`). *State*: bucket objects of
each run: instruction tape, pricing, transfer rows, batch reruns. *Operations*:
resolve the canonical run, read tape, marks, transfers, batch total, verdict; ten
endpoints built from these. *Hard*: each read is its own storage call while
engines write; some endpoints resolve twice; failures are answered as emptiness.
*Correct when*: a reply is about one run, never an older one than before, never one
without a tape.

**Daily digest** (`cli/daily_digest_command.py`, `core/daily_ledger_digest.py`,
`core/hwm_from_ledger.py`, `core/hwm_seeds.py`, `core/hwm_reader.py`,
`api/routes/hwm.py`, `core/alerts_client.py`). *State*: none of its own.
*Operations*: for every active client, read the tape, fold it, compute the
high-water mark from the seed, POST. *Hard*: one failing POST ends the loop and the
retried job repeats earlier clients under new alert ids; the peak starts from the
seed every day. *Correct when*: exit 0 means that every client whose tape could be read is
posted, of its newest run; the high-water track never retreats.

**Record store: invoices, signatures, documents** (`api/routes/invoices/`,
`api/routes/docusign.py`, `api/routes/documents.py`, `mock_state.py`). *State*: records in
the in-memory store. *Operations*: generate, transition; send for signature, webhook;
allocate upload, soft delete. *Hard*: get, check and update are separate calls from a
thread pool; webhook events repeat and come out of order. *Correct when*: a closed
invoice is not opened again, signature times stay.

**Fee state** (`core/invoice_state.py`, `core/fee_calculator.py`,
`core/invoice_generator.py`, invoice dashboards and portals). *State*: the high-water
marks and the seed date, constants of the source that are edited after an invoice;
a cache of live equity that lasts as long as the process; the curve files.
*Operations*: classify the client, live equity (cached), equity to display (read),
deposits since the seed date (read), recovered P&L (read), fees. *Hard*: up to three
unsynchronised reads of a file that the job truncates and rewrites; old equity meets
new deposits; a mark that moves while the date deposits are summed from does not.
*Correct when*: a fee is charged only on gains above the mark net of the deposits since
it, no gain is billed twice, and a recovery follows trading only.

**Transfer pipeline** (`core/transfer_collector.py`, `core/transfer_store.py`).
*State*: a process-wide cache. *Operations*: collect from raw exchange records and
from the curve, merge by date, net deposits. *Hard*: two sources that partly overlap,
a stale cache. *Correct when*: each transfer is counted once.

**Historical backfill** (`src/scripts/backfill_history.py`, `cli/backfill_command.py`).
*State*: all files of a client, written from scratch. *Operations*: walk the ledger,
reconstruct daily balances backwards from today's. *Hard*: pagination, cross-currency
rows, hand-over to the update job. *Correct when*: the reconstructed curve ends in the
current balance and steps by the day's ledger sum, and what is missing is known.

**Emergency close** (`api/routes/emergency.py`). *State*: none; positions at the
exchange. *Operations*: list positions, submit one reduce-only market order each.
*Hard*: concurrent calls, positions that move after the list was read, a failing order in
the middle, an order that is filled although its call failed, a failing position query
that reads as "nothing open". *Correct when*: a close never opens or turns a position, a
preview changes nothing, and a position that stays open is reported.

**Statistics** (`core/backfill_store.py`, `core/portfolio_metrics.py`,
`core/trade_analytics.py`, `core/pnl_timeseries.py`, `core/ledger_strategy.py`,
`api/routes/exports.py`). *State*: none; folds over curves, trades, bills, tapes and
attribution rows. *Hard*: every screen folds the same data by code of its own, with
filters, units and default names of its own; deposits enter five figures in five ways.
*Correct when*: the views of one thing agree, nothing is lost or counted twice, and money
moved is no performance wherever the curve tells it apart.

**Data quality** (`core/data_quality.py`). Sequential scans over loaded files.

**Everything else**: entitlement predicates, configuration and start-up, live report
stream, fund administration provider, mock data, HTML generators, thin clients of
external services, operator scripts. `PROJECT.json` lists each with its reason.

## 2. The modules

| module | models | status |
|---|---|---|
| `EquityUpdate` | one client's curve and one run of `_update_client` against a live account | checked, proved |
| `UpdateJob` | one client's files on disk and in the bucket across executions of the job | checked, proved |
| `LedgerRuns` | one client's run ledger, its writers and concurrent API requests | checked, proved |
| `FeePosition` | what one client owes: mark, equity cache, concurrent fee requests, rewrites of the curve, invoices | checked, proved |
| `EmergencyClose` | concurrent close-all requests over one account | checked, proved |
| `DailySeries` | abstract: one value per day, closed days final | `EquityUpdate` shown to implement it, by TLC and by proof |
| `Backfill` | the historical backfill of one client: pagers and the rebuilt curve | checked, proved |
| `PaperBook` | the folds of one run's tape: positions, P&L, exposure, marks, verdict | checked, proved |
| `AttributionViews` | the groupings of attribution rows and transfers | checked, proved |
| `TradeAnalytics` | bills, trades, holding times, aggregation over clients | checked, proved |
| `PerformanceStats` | returns, drawdown, high-water marks and recovery of a curve | checked, proved |
| `TransferViews` | the transfer pipeline and its cache, on top of `PerformanceStats` | checked, proved |
| `DailyDigest` | the digest job over all clients | checked, proved |
| `InvoiceRecords` | invoices, documents and envelopes in the record store | checked, proved |
| `FeeViews` | fees of all clients as screens and invoices show them | checked, proved |

The first five, `Backfill` and `PaperBook` have the constants for TLC in an `MC...` module
(that of `EmergencyClose` is `MCRequests`), and all but `PaperBook` a `...Proofs` module with
their theorems; `EquityUpdateProofs` proves the refinement too. `ReportProofs` has the theorems
about the eight report modules (from `PaperBook` down), `FiniteSetLemmas` the lemmas on sums over
finite sets that the proofs share, `Summation` the sum that the views are written with.

Three modules run several components side by side: `MCReaders` the two readers of the run
ledger (`LedgerRuns`, `DailyDigest`), `MCRequests` the two kinds of request about an account
(`FeePosition`, `EmergencyClose`), `MCReports` the other report modules. What runs together
shares no state, except that `TransferViews` extends `PerformanceStats`; the initial state
chooses the subject of a behaviour, and the other components keep their initial state.

The two job modules describe the same code at two grains: `EquityUpdate` opens
up the exchange calls behind the curve and takes the file for granted; `UpdateJob` has
one atomic `RefreshCurve` in their place and opens up the files. The step that joins
them is the single write of the curve (`update_command.py:76`). `FeePosition` opens up
that write, because it reads the file while it happens, and takes the detection of
transfers for granted.

### 2.1 EquityUpdate

| variable | in the code |
|---|---|
| `today`, `pnlTotal`, `pnlAtOpen`, `flowTotal`, `mark` | clock and account at the exchange: P&L booked in total and at the opening of each day, cash moved, USD value of the BTC holding |
| `curve` | `equity_curve.json`: `date`, USDT balance, BTC value, `transfer_usd` |
| `pc`, `gap`, `point` | position in `_update_client`, its `_GapInfo` and today's point |
| `seen`, `atSnap`, `fetched` | history for the properties; no action reads it |

| action | code |
|---|---|
| `StartUpdate` | load the curve, `_compute_update_gap`; a curve that ends in the future ends the run |
| `FetchBalance`, `ExchangeFails` | `_open_exchange_with_balance` and its two refusals |
| `ParseBalances` | `_parse_balances` with the ticker calls (0 when none answers), `_build_equity_point` |
| `DetectTransfer` | `_maybe_attach_transfer`, `_detect_transfer`, `_fetch_pnl_since`: the whole window or, after an error, the sum of the pages read so far |
| `MergePoint` | `_merge_today_point_into_curve`, `_fill_gap_days`, the write |
| `BookPnl`, `MoveCash`, `Reprice`, `NextDay` | the account and the clock, between any two of these |

Abstractions: the BTC quantity is fixed, so its value stands for its price; amounts are
small integers; a page of the ledger ends at a day boundary; the noise threshold is a
constant (the code's grows with equity and differs between USDT-only and other
accounts, and the guide gives only the second formula); rounding to cents is left out; a
transfer dated inside the window is skipped by the ledger walk, as both venues' filters
do. A trade changes USDT only.

### 2.2 UpdateJob

A file is `absent`, `torn` (truncated by a kill inside a write) or `whole` with a set of
rows; a row has an id and a status. All eight synchronised files are kept, in the order of
`_SYNC_FILES`; the curve, orders, trades, transfers and bills have rows, the balance, positions
and summary are snapshots of which only the state of the file matters. `deployment` is `cloud_run` (the disk is
gone after every execution) or `host` (it survives until `LoseDisk`).

| action | code |
|---|---|
| `Start`, `Download`, `DownloadFails` | `_load_existing_equity_curve`, `_download_from_gcs` file by file; any exception ends this client's update |
| `RefreshCurve`, `ExchangeRefuses` | `_update_client` up to the write of the curve |
| `WriteBalance` | `_persist_balance_snapshot` |
| `UpdateTrades`, `UpdateOrders` | fetch the look-back window symbol by symbol, a failing symbol contributes nothing, append unknown ids, write if there is something new |
| `PersistPositions`, `PositionsFail` | `_persist_positions`, which an exchange error leaves without a write |
| `UpdateSummary` | `_update_summary`, which extends the file that is there |
| `CannotRead` | `json.load` raises on a torn file, or there is no curve |
| `Upload`, `SyncFails` | `_sync_to_gcs` file by file, best effort |
| `Crash` | a kill between two steps, or inside a write |
| `Tick`, `PlaceOrder`, `FillOrder`, `LoseDisk` | clock, exchange, machine |

Abstractions: one client; one execution at a time (by the schedule in
`docs/CLIENT_OPERATIONS_GUIDE.md` the hourly job starts at five past and may take 10
minutes, the daily one starts at 00:15 and may take 30, so scheduled executions do not
overlap; manual ones may, which the hazard list records); an order is filled by one trade; a
page is the whole window. An upload of one object is atomic, as bucket writes are.
A cancelled order is not told from a filled one: both are `closed`.

### 2.3 LedgerRuns

`objects[r]` are the kinds of object run `r` has; `req[c]` is the request that caller `c`
serves: endpoint, bound, position, and which run its `run_id`, rows, marks, batch total
and matched trades are of. Runs are numbers because run ids sort by launch time;
`DatedRuns` are those whose id holds a date and which the `as_of` bound can exclude.

| action | code |
|---|---|
| `WriteObject` | the engine and the batch rerun (external), one object at a time, runs in any order |
| `Call` | a request of `positions` (also `pnl`, per-strategy), `net_views`, `instructions`, `trades`, `transfers`, `backtest` |
| `Resolve` | the handler's `resolve_canonical_run` |
| `ReadRows` | `read_ledger_rows`, which resolves again; `read_canonical_run_fills`, which does not |
| `ReadMarks`, `ReadBatch`, `ReadRecon` | `read_marks` or `read_transfer_rows`; `read_batch_total_pnl`; `latest_recon_verdict` with the caller's check |
| `CallRaises`, `VerdictRaises` | the `except` branches that answer emptiness; the fills outside the `try` |
| `Reply` | the handler returns |

Abstractions: which run a piece of the reply is from, never its contents; one tape and
at most one batch rerun per run; the manifest (`read_run_window`) only labels the reply
and is left out. `calm`, `floor` and `answered` are history.

### 2.4 FeePosition

| variable | in the code |
|---|---|
| `class` | which branch `compute_current_fees` takes: a client at its mark, below it, or on the P&L model |
| `account` | clock and account at the exchange |
| `curve`, `pending`, `version` | `equity_curve.json`; while the job writes (`pending` is not empty) it cannot be parsed; completed writes are counted |
| `mark` | the client's entry in `_HWM_SEED` |
| `cache` | its entry in `_live_equity_cache` |
| `req` | per thread: position in the request, the equity and the sum it has read, the result |
| `hist` | history for the properties; no action reads it except its counter of invoices |

| action | code |
|---|---|
| `BeginWrite`, `EndWrite` | `open(..., "w")` and the end of `json.dump` in `_update_client` |
| `Call` | the dashboards, the portals, invoice generation: `compute_current_fees` |
| `CachedEquity`, `ReadEquity`, `StoreEquity`, `NoLiveData` | `get_live_equity`: cache lookup, read, assignment to the cache, and its refusal |
| `ReadUsd` | `get_live_equity_usd`, which is not cached |
| `ReadBooks` | `compute_deposits_since_hwm`, or `_net_usdt_moved_after` and the last point |
| `Reply` | P&L above the mark or recovery, capped below at 0 |
| `Restart`, `IssueInvoice` | a new process; an invoice, after which the mark in the source is the invoice's new watermark and the service is deployed again |
| `Trade`, `MoveCash`, `NextDay` | the account and the clock |

Abstractions: one client, in account currency USDT (the BTC share class converts the
same point to BTC and is left out), whose class is fixed; transfers are stamped exactly,
except that a second update on one day drops the day's transfer, as `equity_refresh`
shows; an unreadable file stands for a missing one too. Fee percentages, credits and
introducer shares are products of the result and left out. `gain`, `flow`, `date` and
`at` in points, snapshots and the mark are history.

### 2.5 EmergencyClose

`position` holds the signed contracts per instrument, `late` the orders that reach the
exchange although `create_order` has raised, `closing[c]` the request of a thread: mode, what it
has listed, what is left to do, the results. `access` is what the registry, the secrets
and the mode make of the client. `view` tells whether the list is still what the account
looks like (history).

| action | code |
|---|---|
| `CallClose`, `Refuse`, `MockPreview` | the handler up to the position query, with its answers 403, 502 and the empty preview |
| `ListPositions`, `ListFails` | `_fetch_open_positions`; an exception gives an empty list |
| `Preview` | `would_close` |
| `Submit`, `SubmitThin` | `create_order` returns, the order filled whole or in part |
| `Rejected`, `OrderLost`, `AnswerLost` | `create_order` raises: nothing to reduce, not arrived, or on its way |
| `AnswerClose`, `Die` | the response; the process ends in the loop |
| `ArriveLate`, `OthersTrade` | the exchange |

Abstractions: net positions (an account in hedge mode may hold a long and a short of one
instrument, for which the code's orders name no side); an order that is taken is filled at
once; exceptions other than the exchange library's own are left out.

### 2.6 DailySeries and the mapping onto it

What every reader of a curve relies on: a value for each day from the first to the last
recorded one; `Record` gives a value to some day not before the last and not after the
clock, fills the days between with what the last day carried over, and touches no
earlier one. `EquityUpdate` implements it with `clock` as `today`, `last` as the date of
the last point and `series` as the curve read by date (`ByDate`), a value being balance,
BTC value and transfer, and `Carried` the same without the transfer (`Repeated`):
`_fill_gap_days` copies four keys and not `transfer_usd`. Everything before the write is
a stutter. A merge that changed a closed day, left a hole, or repeated a transfer on the
days it fills is not a `Record`.

### 2.7 Backfill

The exchange account is one sequence of rows; a row's index is its id, several may share
a millisecond. `stage`, `todo`, `cursor`, `pages` and `errors` are the position of the script, `cap`
is the most pages of one ledger endpoint; `ledger`, `trades`, `transfers` and `curve` what it has
fetched and written. `failed`, `filed`, `snapLen` are history.

| action | code |
|---|---|
| `NoCredentials`, `FetchBalance` | `fetch_credentials`, `fetch_balance_snapshot` with its empty answer after an error, `fetch_positions_snapshot` |
| `IncomePage` | `fetch_binance_income_ledger`, backwards by time, at most 501 pages |
| `BillsPage` | `fetch_okx_bills_ledger`: two endpoints backwards by id with deduplication, each at most 1001 pages |
| `QuarterFile`, `QuartersEnd` | the archive files of the quarters of last and of this year, each of which may fail, or be missing, by itself |
| `Timeout`, `RateLimited`, `CallFails` | the retries, their limits, and errors that end a stage or a symbol |
| `BinanceTradesPage` | `fetch_all_trades_binance`, forwards from 18 times 30 days back |
| `OkxRecentPage`, `OkxArchivePage` | the two phases of `fetch_all_trades_okx`, page by page and symbol by symbol |
| `SkipSymbol`, `ScanEnds` | symbols that are not asked for, the end of a phase |
| `TransfersPage` | `fetch_all_transfers`, forwards from 2023-01-01 |
| `SaveCurve` | `compute_daily_equity` with its three reconstructions (`BinanceCurve`, `OkxCurve`, `LegacyCurve`), the cut at the strategy's start |
| `BookRow` | the account, between balance and ledger |

Abstractions: one client, one currency (USDT); a fill's fee is in its amount except where
the legacy curve sees fees only; the order of symbols is arbitrary. Starts, retention limits,
caps and quarters are constants of any value; those of the code are named beside them.

### 2.8 The report modules

| module | state and actions | what is folded |
|---|---|---|
| `PaperBook` | `tape`, `marks`, `batch`; `Fill`, `Accrue` (the engine), `Rerun` (the batch stage: alike, another price, another size, one missing, one more) | `Booked`: average-cost folding of `core/ledger_views.py`; `PnlReply`, `PositionsReply`, `ByVenue`, `ByStrategy`, `PerStrategy`, `Overall`, `DeltaPerCoin`: the replies; `HwmRows`: `hwm_from_ledger`; `Deterministic`: `_verdict_from_fills`; `BatchTotal`: `read_batch_total_pnl`; `PaperMinusBatch`: the difference `backtest_surface` shows |
| `AttributionViews` | `attr`, `moves`; `Attribute`, `MoveFunds` (external) | `Breakdown`, `FactorsOf`, `Series`, `NavByDay`, `Panel`: the groupings with default names, amounts that do not parse and a request that matches ids it is a part of |
| `TradeAnalytics` | `bills`, `trades` per client; `Bill`, `AddTrade` (external), with rows that lack a coin, a month or a datetime | `CoinTable`, `TradeTotals`, `Monthly`: sums over the lines of a file; `ByTime`, `MatchSell` and `Walk` (sorted, then first in, first out, lot by lot); `Merged` and `Aggregate` over clients |
| `PerformanceStats` | `account` (USD or BTC), `curve`; `UsdDay`, `BtcDay` (what the update or the backfill records; a BTC day may trade, move BTC and USDT in any amount, and be flagged or not) | daily and monthly returns as exact fractions, `TwrEquity`, `HwmTwr`, `NotionalHwm`, `UsdtPnl`, the exported rows |
| `TransferViews` | adds `ccxt` (what the backfill stored), `cache`; `Fetch`, `GetTransfers`, `ClearCache` (also a new process) | `Raw` (worth 0 USD if in BTC) and `OfCurve`, the records of the two sources; `FromCurve`, `Collected`, `NetDeposits`, `Daily`; a list of records is a set of them with ids, so the sort by time has no counterpart |
| `DailyDigest` | `tapes` (rows per client and run), `queue`, `read` (run and rows), `exit`, `alerts`; `WriteTape` (the engine: runs in any order, of any length), `Begin`, `NobodyActive`, `ReadTape` (resolves the newest run each time; a failing storage gives no run, or a part of the tape), `NothingToPost`, `Post`, `PostFails` | `Digest`: of what is posted, the tape it is about |
| `InvoiceRecords` | `invoices`, `requests` (per thread), `documents`, `envelopes`, `closedSince` (history); `Generate`, `ReadInvoice`, `Conflict`, `StoreInvoice`, `Restart`, `CreateUploadUrl`, `DeleteDocument`, `SendForSignature`, `Webhook` | `Allowed`, `Targets`: the state machine of `_shared.py` and `transitions.py` |
| `FeeViews` | `accounts`; `Trade`, `MoveCash`, `Unreadable` | `Fees` per client, `Summary`, `TraderRows`, `PaymentDue`, `AdminRows`, `LineItems`, `InvoiceTotal`, balances of introducers |

The state machines among them are `DailyDigest`, `InvoiceRecords` and the cache of
`TransferViews`; the others let their inputs grow row by row and compare the folds in
every state reached. Amounts are small integers or exact fractions; rounding to cents
and the ratios computed by the trading library are left out. An invoice's transition is a
read (`ReadInvoice`) and a store (`StoreInvoice`) of another moment, because handlers run
in a thread pool; the webhook is one step, because it is an `async` function without an
`await` between its read and its write of the store.

## 3. The runs

A "violation" run states what a document or comment of the repository says and shows
that the code does otherwise.

| run | module | asks | outcome |
|---|---|---|---|
| `equity` | `MCEquityUpdate` | Does the curve stay daily and transfer detection exact whatever happens between the calls, does the job implement `DailySeries`, and does the curve catch up? | holds |
| `equity_refresh` | `MCEquityUpdate` | Is a recorded transfer kept? | violated: the day's second update drops it |
| `job` | `MCUpdateJob` | With crashes, lost disks and failing requests: which files can be stored torn, are ids unique, does `cloud_run` storage only grow and catch up? | holds |
| `job_host` | `MCUpdateJob` | Does storage only grow on a host, too? | violated: an interrupted bootstrap leads to an upload over the history |
| `job_status` | `MCUpdateJob` | Does an order end up with its final status? | violated: a known id is never updated |
| `ledger` | `MCReaders` | Do concurrent requests stay on runs with a tape, never go back, never mix in an older tape, and agree when nothing new appears? Does exit 0 of the digest job mean that everybody's newest tape was delivered, once? | holds |
| `ledger_onerun` | `MCLedgerRuns` | Are all parts of a reply always of one run? | violated: the second resolution may find a newer run |
| `requests` | `MCRequests` | Fees, with a stale cache, concurrent requests, rewrites, restarts and invoices: do the reads advance, is a coherent fee the gain since the mark, does recovery follow trading, is no gain billed twice? Closes, with concurrent ones, trades, failing, late and partly filled orders: does closing only reduce, do previews change nothing, is what stays open reported? | holds |
| `fees_mark` | `MCFeePosition` | Are the netted transfers those since the mark? | violated: the sum starts at the seed date of all clients, also after an invoice moved the mark |
| `backfill` | `MCBackfill` | Do the pagers return every row once but for the losses that are named, is the curve of a cut ledger right for its days, does the script end? | holds |
| `reports` | `MCReports` | Do the views of a tape, of attribution rows, of trades, of transfers and of fees agree; is a verdict exact; does cash stay out of performance; do invoices and envelopes keep what they have? | holds |
| `rerun_gap` | `MCPaperBook` | Is the difference of paper and batch zero when the verdict is "deterministic"? | violated: the paper total has unrealised P&L and accruals, the batch total has neither |

What the properties mean for the code:

- `CurveIsDaily` relates every point to its neighbour, so it covers the carry-forward
  loop, the replacement of today's point and a midnight inside a run together.
- `CleanRunIsExact` is the strongest statement of transfer detection that is true: if the
  run saw a coherent account (`CoherentRun`) and the last recorded day had no P&L before its
  snapshot, then what is stamped is exactly the cash moved since that snapshot. Without the
  second condition it is false: the ledger window opens at midnight, the equity change at
  the snapshot (section 7).
- `ImplementsDailySeries` is the refinement: an update may change the last point only, and
  only when that point is today's; the days it fills repeat the last balance without its
  transfer. Days filled by carry-forward are final as well: they are never recomputed from
  the ledger, although the guide says "Build daily equity curve entries for missing days"
  from the P&L of the gap. `ClosedDaysAreFinal`, which follows, is a theorem.
- `CloudStorageOnlyGrows` needs the whole chain: a failed download must not be followed
  by an upload, a torn file must stop the execution, and appends must keep old rows.
- `OnlyCarriedFilesTear` says what a kill inside a write can do to the bucket. The files the
  update parses or rewrites are never stored torn. `transfers.json`, `bills_ledger.json` and
  `positions.json` it does not parse (the last is written anew unless the exchange refuses): on a
  host, a half-written one stays beside a complete curve, the next execution skips the download
  and uploads it.
- `NeverGoesBack` compares a request with answers given before it arrived;
  `RowsNeverBehind` compares the two resolutions of one request.
- `CalmReplyIsCoherent` is the guarantee the API does give: without a new tape and without
  a failing call, a reply is of one run, and its batch total and matched trades belong
  together and to the run it names.
- `ZeroExitMeansDelivered` holds per execution, for the newest run there was when it began or a
  later one, and of its whole tape. It excludes the clients whose read failed: they are left out,
  or a part of their tape is posted, and the exit code is 0 all the same. A run without fills
  that replaces the tape between the begin and the read leaves its client out, too; a job that
  is executed again posts again.
- `ReadsAdvance` is why a stale cache is tolerable: the equity of a fee is never newer than
  the transfers it is netted with, so a deposit contained in the equity is always netted.
  The opposite order (`OrderBooksFirst`) bills deposits.
- `CoherentReplyIsGain` compares the fee base with what trading earned according to the
  account. Its conditions name what it takes: equity and transfers of one curve, one update
  per day (an hourly schedule does not keep this one), no transfer from before the mark
  (which `fees_mark` shows to be necessary).
- `RecoveryTracksGains` does the same for the P&L model, for curves whose transfer days had no
  trading.
- `GainsBilledOnce` follows a client over several invoices, each taken from equity that may
  be old. It excludes withdrawals (`fees_mark`: after an invoice a withdrawal is billed as
  a gain), same-day updates and invoices whose transfers could not be read: a torn file
  counts as "no deposits" (`invoice_state.py:453`) and nothing stops such an invoice.
- `ClosingOnlyReduces` rests on `reduceOnly` alone: with plain orders (`CloseOrderPlain`) two
  concurrent closes, or a late order, turn the position.
- `OpenIsReported` is what an operator may conclude from a reply. Its conditions are real
  gaps: after a failed position query the reply is that of an account with nothing open
  (`emergency.py:152`), and "submitted" says nothing about how much was filled.
- `OnlyKnownRowsAreLost` says what the backfill misses although no call failed, no page cap
  ended a walk and every quarterly file was read: a millisecond that a page cuts in two loses
  its rest on the endpoints that page by time; Binance trades older than 18 times 30 days,
  transfers before 2023, OKX bills older than bills-archive and outside the quarters of last and
  this year are not asked for; nor are symbols no scan knows of, and old OKX fills of symbols
  without recent ones. Nothing else is lost, and nothing comes twice.
- `CutLedgerKeepsCurve`: however far back a ledger reaches, the days it has are right. Needs
  an account that booked nothing during the walk, a known balance, and for the OKX archive
  files no ties, because their order decides which row is a day's last.
- `ViewsAgree` compares five ways to the P&L of a run. The exception is real: legs without a
  mark that two strategies share (section 7).
- `HedgedCoinIsFlat` is what makes a delta-neutral book show as such although one leg is
  marked by an exchange rate; `MarkIsRunningPeak` compares `hwm_from_ledger` with the plain
  definition of a maximum. `VerdictIsExact` relates the verdict, which matches fills by id with
  tolerances, to a rerun that is the same line by line; `DeterministicMeansSamePnl`, which the
  comments of `portfolio_metrics.py` expect, relates it to the totals and is violated.
- `AttributionAddsUp` holds for rows with an empty key and for amounts that do not parse, and
  says what a transfer panel per strategy may and may not be read as: `_matches_strategy`
  also matches ids the requested one is a part of, so the panels of the single strategies
  show every row at least once, and exactly once only if no id is part of another.
- `CoinsExplainTotals` names all that the totals have and the views by coin, day and month lack:
  coins with fees or funding only, undated bills and bills of no counted kind, and the trades
  without a datetime, which count in the volume and in no day (`trade_analytics.py:141`).
- `HoldingIsStockTime` is Little's law for the FIFO matcher: hours of the matched lots are the
  stock summed over time.
- `PerformanceIgnoresCash` ties five figures with code of their own to one meaning. Whatever the
  curve shows, the returns by day, by month and in the exported rows compound to one total and
  the flows in and out to one sum. That money moved is no performance (no return, no drawdown,
  no flagged day; the notional recovery and the USDT P&L are what trading earned) holds of USD
  accounts and, of BTC accounts, under `CashIsTold`: a day that moved anything is flagged, USDT is
  moved in more than the noise threshold and on a day without trading, and a flagged day without
  a USDT transfer earns no more than the threshold. Nothing in the code sees to that; on other
  days cash is counted as performance or the reverse (`backfill_store.py:104-118, 294-297`).
- `TransferViewsAgree` ties the second detection of transfers to the first, day by day, on days
  for which the curve alone speaks or the exchange told all that was moved (`Settled`). On other
  days a record of the exchange, a failed one too, silences the curve and hides the rest of the
  day's flow (section 7). The net deposits in USD agree if all days are settled and no exchange
  record is in BTC: those have a `usd_amount` of 0 (`transfer_collector.py:48`).
- `RecordsHold`: a closed invoice is not opened again. A paid one may be voided by the property
  (the table of transitions does not even allow that, see section 7). It names the only two ways
  past the state machine, a request that read before the invoice was closed and stores after,
  and the seeding at a restart. Of an envelope it says that times are kept; the status may
  go back with a late event.
- `FeeViewsAgree` compares projections that are filtered by different tests: `net > 0`,
  `pnl > 0`, all at the mark. It is about the rows; the totals of the trader's portal are wrong
  and not part of it (section 7).

Every property of a passing run has a mutant in `PROJECT.json`: a definition changed the
way a bug would change it (`MergedNoFill`, `UnreadableSkipped`, `OldestFirst`, ...), for
which TLC finds the property violated under the same configuration. The mutated forms
stand next to the definitions they replace and nothing else uses them.

## 4. Bounds

| run | bounds | why they are enough |
|---|---|---|
| `equity` | days 0..3, two account events, P&L -2 or 1, one flow of 3, BTC worth 4 or 6, threshold 1 | gaps of 0, 1, 2 and 3 days occur and may follow each other; events fall between any two exchange calls; amounts lie on both sides of the threshold; two events suffice for P&L and a flow, or P&L and a repricing, in one window |
| `equity_refresh` | days 0..2, USDT-only account | a transfer and a second update |
| `job` | ticks 0..3 of half a day, orders at ticks 0 and 2, look-back of one or three days, two faults, both deployments | executions within one day and over a midnight, orders outside the hourly window and inside the full one, two faults for a lost disk and an interrupted download, or a crash inside a write and an interrupted sync, in one history |
| `job_host`, `job_status` | as `job` | the counterexamples need one or two faults |
| `ledger` | two runs (the older undated, the newer dated), four objects, two callers, all six endpoints, one failing call, bounds 1 and "none" | runs finish in either order and between any two reads; a caller can be overtaken by another one; four objects give both runs a tape, plus a batch rerun or marks. Digest: two clients, two runs each with tapes of 0 to 2 rows, two executions: a later run that is shorter or empty appears between begin and read; a failing read or POST and an execution after it |
| `ledger_onerun` | as `ledger`, no failing call | |
| `requests` | two callers. Fees: days 0..2, two account events, P&L 2 or -1, flows 3 and -3, two writes, two invoices, all three classes. Closes: two instruments, positions up to 2, one trade, one failing call | a request can be overtaken by a write and by another request between any two reads; gain and deposit, or two gains, or gain and loss, in one interval or in two; a missed day; an invoice after an invoice. Longs and shorts, a close overtaken by another one or by a trade between any two orders, a partial fill, one lost or late order or failed query. Fees with three events (20.9 million states) or three days, events and writes and one caller (12.5 million), and closes with two failing calls (6 million), were checked as well and hold |
| `fees_mark` | the fees as in `requests`, one caller, one invoice | |
| `backfill` | three rows over four milliseconds in two days, pages of two, at most one or three pages, two symbols, two failing calls, both venues. Milliseconds: 1 is before every start, 2 in a quarterly file only, 3 in a file and on bills-archive, 4 on both endpoints | a page ends inside a millisecond and between two; a cap that cuts a walk and one that does not; rows on either side of every start and retention limit, and in both files, one of which fails; a retry after a retry; a ledger cut at either end; a row booked during the walk |
| `reports` | `PaperBook`: three rows, two strategies one of whose ids is part of the other (one strategy for reruns), a staking and a perpetual leg; `AttributionViews`: two rows of 38, two moves of 8, one id part of another; `TradeAnalytics`: three rows, two clients, rows without coin, month or datetime; `PerformanceStats`: three days in months of two, both kinds of account, gains -1, 0 and 2, flows -4, 0, 1 and 8, prices that change, a noise threshold between the flows; `TransferViews`: curves of which one day moves funds, one failed withdrawal; `InvoiceRecords`: three invoices, two threads, one restart, two envelopes; `FeeViews`: six clients, two of which have left their seed | open, reduce and turn a position; two groups that share all keys but one; a sell over two lots and one beyond the stock; a month that ends inside the curve, a drained account, a price that changes while USDT is held, flagged and unflagged days with flows on either side of the threshold; records fetched from any day on, of either direction, and a cache older than the curve; a request overtaken by another one or by a restart; every class of client beside every other |
| `rerun_gap` | two rows, one strategy | an open position, or an accrual |

`MaxInvoices` bounds more than the size: a client who withdrew before the mark moved can be
billed for that withdrawal again and again.

`SYMMETRY` is used for the callers of `ledger` and `requests`, which are interchangeable in the
initial states, actions and properties; neither run checks liveness. Deadlock is checked in all
runs but `backfill` and `reports`: an update, an execution or a request can always start (where
the digest has used up its bounds, `MCReaders` has the step `DigestIsOver`). Those two stop where
the script ends or the bounded inputs are used up.

## 5. Fairness

`EquityUpdate!Fairness`: days pass, the scheduler starts the job again and again, and a
started run goes on (weak fairness). `FetchBalance` has strong fairness: an exchange
may refuse any number of times, but an exchange that refuses for ever leaves nothing to
promise. Nothing is assumed of the account's own events.

`UpdateJob!Fairness`: weak fairness of the clock, of starting the job (of either kind:
no fairness between hourly and full executions is assumed) and of each step of a started
execution, the writes of balance, positions and summary among them. Failures need no fairness: `MaxFaults` bounds them. `UpdateTrades` and
`UpdateOrders` are fair in the form in which all symbols answer; the other forms are
faults.

The schedule is in `docs/CLIENT_OPERATIONS_GUIDE.md` (hourly `5 * * * *`, daily
`15 0 * * *`), and `cmd_update` returns a non-zero code only when no client succeeded,
upon which the platform runs the job again.

`Backfill`: weak fairness of `Walk`, the script's own steps, failing calls included. It is one
loop without waits; no answer is assumed to succeed, so `BackfillEnds` rests on the cursors
and the limits of the retries alone. That faults are bounded (`MaxFaults`) is no help for a
cursor that stands still.

`LedgerRuns`, `FeePosition`, `EmergencyClose` and the report modules state safety only: a request may stop
anywhere.

## 6. Proofs

All theorems hold for every value of the constants that satisfies the named `ASSUME`s.

**`EquityUpdateProofs`** (`DayAssumption`, `AmountAssumption`). Inductive invariant
`IInv == TypeOK /\ CurveIsDaily /\ RunInv /\ BooksInv`. `RunInv` ties the local variables of a
run to the file: between `StartUpdate` and the write, `gap.last` is the date of the last
point and the clock is at most one day past `gap.today`; without it a merge could start
from another curve than the one the gap was computed for. `BooksInv` says that the balance
behind the last point and behind the current run is the sum of what the ledger held then;
without it `CleanRunIsExact` says nothing about equity. The central lemmas are about the
merge: `FilledCurve`, `MergedAfterGap` and `MergedSameDay` say that filling a gap of any
length gives a daily curve with all old points. Theorems: `TypeCorrect`, `DailyCurve`,
`CleanRun` (from `ResidualIsFlow`, an equation between two balances) and `ClosedDays` (an
action property).
The second half of the module is the refinement. `CurveIsDaily` makes the
curve a function of the date: `ByDate` of a daily curve has the days from the first to the
last as its domain. `MergeRecords` then shows that a merge is a `Record`: of a day gone by or
today (a midnight inside the run), with the days between filled as `Carried` has it
(`MergedAfterGap` for gaps, `MergedSameDay` for a refresh). Theorem: `Refinement`,
`Spec => ImplementsDailySeries`.

**`UpdateJobProofs`** (`TickAssumption`, `JobAssumption`). `IInv` strengthens `TypeOK` by what
is known at each position of an execution: no stored file is torn but those a host's job carries
unparsed, the files an execution has parsed or written whole are readable (`Behind` lists, for
each file, the positions after that), on `cloud_run` all files are, and a disk that holds a
history holds every row the bucket had. The last part is why `StorageGrows` is true: an upload
replaces a file by one that contains it. `SnapshotInv` keeps rows out of the three snapshots, so
that writing one loses nothing. A second invariant, `RowsInv`, says that every file has one row per id and
that the days of a curve are all `closed`: without the latter a refresh could add a second
row for a day it knows. Theorems: `TypeCorrect`, `WholeFiles`, `StorageGrows`,
`RowsAreUnique`.

**`LedgerRunsProofs`** (`RunAssumption`). `IInv == TypeOK /\ SeenInv /\ FreshInv /\ NeverGoesBack
/\ RowsNeverBehind`. `SeenInv`: whatever run was resolved, answered or remembered was a
candidate for its bound, and stays one because the bucket only grows; hence a later
resolution, which takes the newest candidate, is at least as new (`CanonicalIsNewest`).
`FreshInv`: a request that has not resolved yet has nothing in it. `ReplyInv`, on top of it, is
about the requests in flight: while no tape appears and no call fails, the run a request has
resolved stays the canonical one, so that resolving it again gives the same run
(`CanonicalIsUnique`), and a batch rerun that was found is still there when the verdict is
looked up. Theorems: `TypeCorrect`, `RunsAdvance`, `RowsAreNewer`, `ShownRunsHaveTape`,
`RepliesFit`, `CalmRepliesCohere`.

**`FeePositionProofs`** (`FeeAssumption`). `ReadsInOrder` has an invariant of its own (`IInv`):
whatever the cache or a request holds was read from a version up to the present one, and in
order. `StepOrder` evaluates the order of the reads and `OneRequest` reduces each action of a
thread to its own request. The other invariants share `DataInv`, which relates the curve, the
snapshots taken of it and the mark. `CurveInv`: the curve has one point a day, each with the
balance of its moment, and while it is written once a day a transfer is what was deposited
since the point before, and a curve being written only prolongs the one it replaces. `SnapshotInv`:
everything the cache or a request holds is `Genuine`, that is, has the balance of its
moment and, as long as no day was written twice, stands on the present curve still; and two
snapshots are in step (`InStep`): equal if of one version, and without withdrawals the later
one has no less deposited. `MarkInv`: what was billed is at most the gain the mark stands for,
and that at most the highest gain a curve showed. `Computed`: a request that has got to its
reply holds what the formula gives on what it read. The last three are what `GainsBilledOnce`
needs beyond itself, since an invoice is computed from an equity cached long ago. The
sums over a curve are recursive functions, and each lemma about them is an induction over
positions by the least counterexample. The attempt to prove `RecoveryTracksGains` without
`TransfersVisible` failed for a good reason: transfers of one day that net to no more than
`MinJump` count as trading in the code. Theorems: `ReadsInOrder`, `FeesTyped`, `FeeInvariant`,
`CoherentReplies`, `RecoveryFollowsTrading`, `BilledOnce`.

**`BackfillProofs`** (`BackfillAssumption`: a page has room for a row, a walk reads a page, the
archive reaches back at least as far as the recent bills, a fill is of a symbol; starts, limits,
quarters and caps are any numbers and sets of them). `IInv` says for every stage of the
script what has become of the rows behind the cursor of the pager at work. `LedgerCovers`,
`TradesCover` and `TransfersCover`: while nothing failed, such a row was returned, or shares its
millisecond with a returned one, or lies before the walk's start; a row of a quarter whose file
was read is there. A cap that leaves rows unread counts as a failure there (`failed`), as does a
quarterly file that could not be read. `LedgerInv`, `TradesInv` and `TransfersInv`: nothing beyond
the cursor was returned yet, so no row comes twice. `OrderInv`: of the bills of OKX those that
were paged are the newest, wherever an endpoint was left (`PagedIsNewest`), and rows of one
millisecond come newest first, but for rows out of the quarterly files (`filed`). `BalanceInv`: the
balance read is the sum of all rows as long as none was booked since. That a page keeps these is an argument about its edge:
a page holds the first `Limit` rows behind the cursor in the order of the venue, so what is
left out lies behind the page's last row or in the same millisecond (`NewestPage`,
`OldestPage`). The walk over transfers ends early only at a page that lies within the
cursor's own millisecond, and if that page is full, a millisecond holds `Limit` transfers
(`Jammed`).

`CurveKept` needs sums. The rows a ledger lacks, when it is without a hole, are older than all
it has and so are missing from every day's sum alike (`MissingRows`); on Binance the gap to
the live balance is exactly their sum (`BinancePoint`). On OKX each bill carries the
balance after it, and of the rows in a day's last millisecond the one listed first is the
newest (`EodIsBalance`, from `OrderInv`), whose residual is what money moved
(`ResidualIsFlow`). Theorems: `BackfillInvariant`, `OnlyKnownLosses`, `CurveKept`. For the proofs the
listing of a page upwards is stated as the increasing list of its rows (`Ascending`) and
not computed with `SortSeq`, which `tlapm` cannot expand.

**`FiniteSetLemmas`** (no assumption). `MapThenSumSet` picks the elements of a set one by one in an
order it chooses. `SumIsTotal` shows that it is the sum of one function on subsets, and
`TotalRemove` that any element may be taken first; the rest about sums follows: equal amounts
(`TotalEqual`), one element more (`TotalAdd`), a union of disjoint sets (`TotalUnion`), zeros left
out (`TotalWithout`), other names for the elements (`TotalRenamed`), group by group
(`TotalByGroup`), by rows or by columns (`TotalSwap`). `IterationExists` and `IterationUnique`:
a number of steps, one after the other, lead to one result. The
library's induction theorems take an operator, so the induction here is over a set of
sets (`FiniteSetInduction`). `RisingExists` and `RisingIsOnto`: a finite set of numbers
can be listed upwards, and such a list has every element once.

**`EmergencyCloseProofs`** (`CloseAssumption`). `IInv` adds to the types that all late orders are
reduce-only, that loops and late orders exist for clients with trading keys only, and
`Covers`: while a live request's list is current, each position that is open is still to
do or reported as failed, on the listed side and not larger than listed. The last part
makes `OpenIsReported` inductive: an order of the listed size then closes what is left,
even if another close was there before (`CloseCloses`, `ShrinkKeeps`). Theorems:
`TypeCorrect`, `OnlyReduces`, `OpenReported`, `PreviewsAreSafe`.

**`ReportProofs`**, first part: `DailyDigest` (`BoundsAssumption`; `RegistryAssumption`: no client
is listed twice, as the keys of a mapping). The
promise about the end of an execution becomes inductive when it is made for the clients the
loop has passed (`Passed`). `Fresh` is about the read in hand: tapes are never taken out of the
bucket, so the newest run only advances, and what was read without an error is the whole tape of
a run as new as the newest when the execution began. `Posted` says that a digest of this
execution is of a client no longer in the queue, so that none is posted twice. Theorem:
`ZeroExitDelivers`, for `DigestSpec`.

Second part: `InvoiceRecords` (no assumption on the constants). `RecordsHold` is about one step, so
it needs to know what the requests at work have read: `ReadBefore` says that a request whose
invoice is closed by now either read it as closed, and then nothing is allowed
(`ClosedIsTerminal`), or read it before it was closed (`closedSince`). `EnvelopesStamped` is the
part about envelopes, which no order of events disturbs. Theorem: `RecordsAreKept`, for
`RecordSpec`, the module's own next-state relation; `MCReports` runs its two halves as separate
subjects.

Third part: `FeeViews` (`FeeViewsAssumption`: rates, payments and the server cost are not negative,
both portals go through the introduced clients, and the registry has an introduced client's
introducer and the rate of `_INTRODUCER_SEED`, as `credentials-registry.yaml` does for PR and
ET). `Sound` is what the views rely on in one client's block: no net fee without a gain, the
gross fee split into what was paid, covered by credits and due, server costs for those
underwater only, who owe no fee. `FeesSound` proves it of every branch of the fee
computation. The views are then sums over the same blocks with some zeros left out
(`PaidOnce`), and the invoices of the organisations sum the blocks group by group
(`InvoicesCover`, with `TotalByGroup`). The totals of the trader's portal are in no statement.
Theorem: `FeesAgree`, for `FeeSpec`.

Fourth part: `AttributionViews` (`AttributionAssumption`: an amount is a number or `Garbage`, a transfer
has a number). Rows are named by their positions, so a view is a sum over a finite set of
positions and no induction over a sequence is needed; what the proof needs of a state is
that it has rows of the assumed types (`RowsTyped`). `GroupsAddUp` gives the rollups,
`PartsShareRows` the three parts of a point, `EveryRowShown` counts the rows owner by owner
and panel by panel. Theorem: `AttributionIsWhole`, for `AttrSpec`, in which rows and transfers
come in any order; `MCReports` has them as two subjects.

Fifth part: `PaperBook` (`BookAssumption`: prices, quantities and accruals are integers, marks are not
negative, finitely many ids are declared). Rows are a function of their lines, and a position
is what a recursive function over the lines ends with; `FoldExists` and `FoldSame` show that
there is one such function and that the fills of its leg alone decide it. The argument
is one identity: at every fill the realised P&L less the cost changes by the signed notional,
whether the fill opens, reduces or turns the position and whatever the average cost is
(`BookedValue`). The P&L of a leg at its mark is therefore a sum over its fills (`PositionValue`),
and sums may be regrouped: by venue (`VenuesAddUp`), and by strategy (`PartsAddUp`, which
adds up a table of strategies and legs by rows and by columns, `TotalSwap`). A leg without a
mark has no such sum, so there the parts add up only if one strategy trades it (`Separable`):
that is where `SharedUnmarked` is needed. `OnePricePerCoin`: with one USD price for a coin every leg of it,
marked in USD or by a rate, is valued at that price, so the exposure is the price times the
net quantity. `PeakIsHighest` is an induction over the snapshots. For the verdict, `RerunTyped`
says that a fill of the rerun is of its line's leg and strategy, since `Deviates`
compares size and price only. A rerun that filled all alike has booked what the tape has, so the
difference shown is what the tape holds beyond it: the unrealised P&L and the accruals, which
`RerunGap` states as an equation and the run `rerun_gap` shows not to be zero. Theorems: `OnePnl`,
`HedgeIsFlat`, `MarkIsHighest`, `RerunRecognised`, `RerunGap`, for `BookSpec`.

Sixth part: `TradeAnalytics` (`TradeAssumption`: finitely many clients, bills and trades have
integer amounts, a trade has a time up to `LastTick`). Like a tape, a file is read by its lines, so that it adds nothing
that the lines are sorted or filtered. `KindByCoin` says that the bills of one kind, summed by coin over
any coins that include theirs, are their sum, whether the coins are those of the kind, of the coin
table or of the whole file; so the net of a client is the coin table and what is left out
of it (`ClientAddsUp`; so are the trades without a datetime, which no day has), and all of it is the sum of the counted bills (`KindsAreCounted`). The
months hold the dated ones, and the two sets differ by what `Excess` names
(`ChangesApart`). `MergeAddsUp` is about the aggregate: what is summed by key over the clients
that have the key adds up to the sum of the clients (`TotalSwap`).
The holding times are an induction over the sorted trades of a coin. `ByTimeIsTape` says that the
sort exists and is one (`RisingExists`, with time and line as one key), `SellIsOneMatch` that a
sell of size one is done after the first of its matches, `WalkIs` and `HeldIs` what the two
recursive functions do in a step. The inductive invariant is `Accounted`: the queue is
the lots last bought, in order and as many as are held (`Lots`; `LotAdded` and `LotGone` are its
steps), and the hours reported so far plus the ages of these lots are the sum of what each
trade changed the stock, times the ticks since. Without the first half the second is not
inductive: nothing would say whose age a sell turns into hours. At the end the changes are
summed by tick instead of by trade (`StockAddsUp`, by `TotalSwap`). Theorems: `CoinsAreWhole` and
`HoursAreHeld`, for `TradeSpec`, for every number of clients and files of any length.
`HoursAreHeld` is about trades of one size, as the property is: with different sizes the
code gives every matched part the same weight, so the hours are no measure of the time held;
splitting a lot is modelled (`MatchLot`), and no property is stated of it.

Seventh part: `TransferViews` and `PerformanceStats` (`PerfAssumption`: balances, seeds and the
threshold are natural numbers, gains and flows integers, prices positive, a month has days).
What both properties rest on is `CurveInv`: each point follows from the one before by the day's
trading and its flows (`Follows`); nothing is assumed of flags or amounts. A source says of a day
at most one amount in each currency; `RowsRight` is inductive for what was fetched and cached,
and on settled days what the store sums over records is what the curve tells (`SettledDay`,
`ToldAmounts`), so that the records add up to a sum over days (`TotalAgrees`). The compounding of
the returns and the sums of the flows (`MonthsCompound`, `CapitalAddsUp`) need no condition; the
rest of `PerformanceIgnoresCash` is proved under its condition `CashIsTold`.
For the performance, a day's equity is the last one plus gain, flow and
repricing (`DayEarns`), so the notional recovery is a telescoping sum (`EquityGrew`). The returns are
products of ratios, given by a recursive function: `Chain` says what it is, and
inductions over the days show that an index without gain stays at <<a, a>>
(`NoChangeCompounds`) and that compounding month by month is compounding day by day
(`MonthsCompound`: a day more multiplies one month's product, `OneFactorMore`). Theorems:
`TransfersAreCounted` and `CashIsNoPerformance`, for `TransferSpec`: curves of any length, any
amounts, prices, seeds and threshold, any order of fetches and readings, under the conditions
the properties name.

Model-checked only: the liveness properties `CurveCatchesUp`, `CloudCatchesUp` and
`BackfillEnds` (fairness and `ENABLED` are beyond the provers used). Every invariant and every
action property of the passing runs is the subject of a theorem. Where the code folds over a list, the
model has a sum over positions, as in `AttributionViews`, `TradeAnalytics` and
`TransferViews`, or a recursive function, as in `PaperBook`, `PerformanceStats` and
`TradeAnalytics`, proved about by induction over a set of numbers: the library's recursive
definitions cannot be expanded in a proof.

## 7. Disagreements between documents and code

`PROJECT.json` "findings" has the six that a run shows. Others met while modelling:

- `docs/CLIENT_OPERATIONS_GUIDE.md:226` defines a transfer as "equity_change - trading_pnl -
  btc_price_effect" over one period; `pnl_fetch.py:87` opens the P&L window at midnight of the
  last recorded day and the equity change counts from that day's snapshot, so the P&L of that
  morning is subtracted twice (`CleanRunIsExact` needs a condition for this);
- the guide gives one transfer threshold, the code has a second, much higher one for
  USDT-only accounts (`equity_update.py:99`);
- the guide's file list names `pnl.json` and `metadata.json`; the code synchronises
  `bills_ledger.json` and `summary.json` (`gcs_sync.py:26-35`);
- "Any → VOIDED is treated as an admin override" (`invoices/_shared.py:39`): the table next to the
  comment allows a paid invoice nothing, so a 409 answers its voiding (`Allowed`; `RecordsHold`
  would hold if it were allowed);
- "Deduplicates by date + direction + approximate amount" (`transfer_collector.py:315`): by
  date alone, so that a failed withdrawal, or a record of a part of a day's flow, takes the place
  of a deposit of its day (`Collected`; such days are not `Settled`);
- "Net deposits" (`transfer_store.py:79`) sums `usd_amount`, which is 0 for every BTC record of the
  exchange (`transfer_collector.py:48`) and the day's value for one of the curve (`NetDeposits`);
- "None = all, converted to native" (`transfer_store.py:112`): without a currency,
  `get_daily_transfers` adds USDT to BTC as it is (`Daily` is of one currency);
- the digest calls its peak "advances-only" (`daily_ledger_digest.py:95`): each day's starts
  from the seed again, so the posted peak can fall from one day to the next; and "the trading day the digest
  summarises" (line 74): it folds the whole run, without marks, so nothing is unrealised;
- the digest of one client is "never a silent failure" (`daily_digest_command.py:57`): an error of
  the storage reads as no rows, or as the rows before it, and the job ends with 0 (`ReadTape`);
- the trader's portal returns `total_performance_fees` (`portals.py:164-178`): rows have been
  converted to floats before their `net_fee` is asked for a `Decimal`, so the total is 0
  and `total_due` is server costs alone, unlike the payment list's. `FeeViews` models the rows of
  the portal and leaves its totals out, so that no property speaks of them;
- "sums to the grand total ... distinct strategies hold distinct legs"
  (`ledger_strategy.py:76-82`): legs can be shared, and without a mark the parts then do not add
  up (`SharedUnmarked`);
- a strategy filter takes any row whose id contains the requested one, a full id too
  (`ledger_strategy.py:44`; `PartOf`);
- the daily P&L series is "run-scoped — never an all-runs concat" (`attribution.py:376`): the
  shards it reads carry no run;
- "Fetch all trades from OKX since inception" (`src/scripts/backfill_history.py:384`): symbols
  without fills in the last 90 days are not asked for in the archive (`WithTrades`); the Binance
  walks start 18 times 30 days back, the transfers in 2023, and the ledger walks end after 501
  and 1001 pages (`TradesFrom`, `FlowsFrom`, `PageCaps`);
- several batch copies of one run are summed by `read_batch_total_pnl` (`ledger_views.py:549`), the
  verdict takes the last; one copy per run is modelled;
- "overlaid with live equity from GCS on each read" (`invoice_state.py:5-6`): equity is read
  once and cached until the process ends (line 484), and from the disk;
- "deposits/withdrawals are not trading PnL" (`invoice_state.py:604`): on a day with a transfer
  the whole change of the balance counts as moved, so that day's P&L is not recovered;
  and a client below its mark on the plain model gets no correction for deposits at all
  (line 629).

## 8. Not modelled

- The contents of `balance.json`, `positions.json` and `summary.json`: nothing in the update reads
  them to decide anything.
- The totals of the trader's portal.
- The loop of the update over the clients, overlapping executions, local-only mode: see the
  hazards without a property.
- The manifest of a run, and which run an attribution shard is from.
- BTC share classes in fee requests; the HTML files that `routes/invoices/viewing.py` generates and
  serves until they are generated again; percentages rounded to cents.
- Sharpe and similar ratios, which the trading library computes; floating-point error.
- `manual_entry.py`: one append per call to a list nothing in the repository reads back into a
  computation that is modelled.
- Data quality checks, entitlement predicates, configuration and start-up, the live report
  stream (nothing publishes to it), the fund administration provider, mock data, exports beyond
  the performance rows, HTML, PDF and chart generators, thin clients of external services,
  operator scripts: no state that several steps change, or none at all. `PROJECT.json` gives the
  reason for each.

## 9. Plan

Done: the five core modules with proofs; the refinement of `DailySeries`; the backfill with
proofs; the eight report modules with proofs. What would come next, in order of worth:

1. several clients in one execution of `UpdateJob`, and two executions at a time;
2. `UpdateJob` as a second implementation of `DailySeries`, with the bucket's curve for the series;
3. several batch reruns of a run, and attribution shards in `LedgerRuns`.
