--------------------------- MODULE TradeAnalytics ---------------------------
(***************************************************************************)
(* The trade analytics of core/trade_analytics.py: a client's bills ledger *)
(* gives P&L, fees and funding per coin, its trades volume, counts and     *)
(* holding times (buys matched against sells first in, first out), and     *)
(* several clients are merged into one aggregate.  The timestamp of a      *)
(* trade is a tick in place of milliseconds (tick 1 if it has none: the    *)
(* epoch), its datetime a day, 0 if it has none; rounding is left out.     *)
(***************************************************************************)
EXTENDS Integers, Sequences, FiniteSets, SequencesExt, Summation

CONSTANTS
    Traders,     \* the clients
    BillRows,    \* the bills there can be: [coin, kind, change, month]
    TradeRows,   \* the trades there can be: [coin, side, amount, cost, at, day]
    LastTick,    \* the last tick of a trade
    MaxRows      \* bound: rows of all files together

ASSUME TradeAssumption ==
    /\ IsFiniteSet(Traders)
    /\ \A b \in BillRows : b.change \in Int
    /\ LastTick \in Nat
    /\ \A t \in TradeRows : t.cost \in Int /\ t.amount \in Nat /\ t.at \in 1 .. LastTick

VARIABLES
    bills,       \* [Traders -> bills_ledger.json]
    trades       \* [Traders -> trades.json], in file order

tradeVars == <<bills, trades>>

-----------------------------------------------------------------------------
(* The rows of a file are named by their lines.                            *)

\* _aggregate_bills: a bill without an instrument is skipped; one that is
\* neither realised P&L, a fee nor funding is read and not counted.
BillLines(rows, kind) == {i \in DOMAIN rows : rows[i].coin # "" /\ rows[i].kind = kind}

Counted(rows) == UNION {BillLines(rows, kind) : kind \in {"realized", "fee", "funding"}}

Changes(rows, I) == SumOf([i \in I |-> rows[i].change])

BillSum(rows, coin, kind) == Changes(rows, {i \in BillLines(rows, kind) : rows[i].coin = coin})

CoinsIn(rows, I) == {rows[i].coin : i \in I}

\* _aggregate_trades; everything that is no buy counts as a sell.
Volume(rows, I) == SumOf([i \in I |-> rows[i].cost])

CoinTrades(rows, coin) == {i \in DOMAIN rows : rows[i].coin = coin}

Buys(rows, I) == Cardinality({i \in I : rows[i].side = "buy"})

\* A trade without a datetime counts in the volume and in no day.
Undated(rows) == {i \in DOMAIN rows : rows[i].day = 0}

DayTrades(rows) == DOMAIN rows \ Undated(rows)

DailyVolume(rows) ==
    [d \in {rows[i].day : i \in DayTrades(rows)} |->
        Volume(rows, {i \in DayTrades(rows) : rows[i].day = d})]

-----------------------------------------------------------------------------
\* _group_trades_by_coin and the sort of _holding_durations_for_coin: the
\* trades of some lines by time, those of one tick in file order.
Earlier(rows, i, j) == rows[i].at < rows[j].at \/ (rows[i].at = rows[j].at /\ i < j)

ByTime(rows, I) ==
    LET order == CHOOSE s \in [1 .. Cardinality(I) -> I] :
                    \A k, m \in 1 .. Cardinality(I) : k < m => Earlier(rows, s[k], s[m])
    IN  [k \in 1 .. Cardinality(I) |-> rows[order[k]]]

Lesser(a, b) == IF a < b THEN a ELSE b

NewestLot(queue) == Len(queue)

\* The lot a sell is matched against next.
NextLot(queue) == 1

\* One match of a sell: the lot is taken from the queue, or what is left of it
\* is written back.  A match of no duration is not reported.
MatchLot(s, sell) ==
    IF s.left = 0 \/ s.queue = <<>> THEN s
    ELSE LET i == NextLot(s.queue)
             lot == s.queue[i]
             matched == Lesser(s.left, lot.amount)
             held == sell.at - lot.at
         IN  [queue |-> IF matched >= lot.amount THEN RemoveAt(s.queue, i)
                        ELSE [s.queue EXCEPT ![i].amount = @ - matched],
              hours |-> IF held > 0 THEN s.hours + held ELSE s.hours,
              trips |-> IF held > 0 THEN s.trips + 1 ELSE s.trips,
              left |-> s.left - matched]

\* _match_sell_against_buy_queue: one lot after another until the sell or the
\* queue is used up; a match that changes neither is the last one.
MatchSell(s, sell) ==
    LET after[m \in 0 .. Len(s.queue)] ==
            IF m = 0 THEN [s EXCEPT !.left = sell.amount] ELSE MatchLot(after[m - 1], sell)
    IN  after[Len(s.queue)]

Bought(s, buy) == [s EXCEPT !.queue = Append(@, [at |-> buy.at, amount |-> buy.amount])]

NothingBought == [queue |-> <<>>, hours |-> 0, trips |-> 0, left |-> 0]

\* _holding_durations_for_coin, trade by trade: the lots not yet sold, the sum
\* and the number of the durations, and what the last sell did not find.
Walk(sorted) ==
    LET walk[k \in 0 .. Len(sorted)] ==
            IF k = 0 THEN NothingBought
            ELSE IF sorted[k].side = "buy" THEN Bought(walk[k - 1], sorted[k])
            ELSE MatchSell(walk[k - 1], sorted[k])
    IN  walk

\* _compute_holding_times
Holding(rows, coin) ==
    LET sorted == ByTime(rows, CoinTrades(rows, coin))
        end == Walk(sorted)[Len(sorted)]
    IN  [hours |-> end.hours, trips |-> end.trips]

-----------------------------------------------------------------------------
NetOf(b, coin) == BillSum(b, coin, "realized") + BillSum(b, coin, "fee") + BillSum(b, coin, "funding")

\* _build_coin_breakdowns: the coins with realised P&L or with trades.
CoinTable(b, t) ==
    [coin \in CoinsIn(b, BillLines(b, "realized")) \cup CoinsIn(t, DOMAIN t) |->
        LET own == CoinTrades(t, coin)
            held == Holding(t, coin)
        IN  [net |-> NetOf(b, coin), volume |-> Volume(t, own), trades |-> Cardinality(own),
             buys |-> Buys(t, own), hours |-> held.hours, trips |-> held.trips]]

KindTotal(b, kind) ==
    SumOf([coin \in CoinsIn(b, BillLines(b, kind)) |-> BillSum(b, coin, kind)])

\* _populate_totals and _populate_holding_aggregates
TradeTotals(b, t) ==
    [net |-> KindTotal(b, "realized") + KindTotal(b, "fee") + KindTotal(b, "funding"),
     volume |-> SumOf([coin \in CoinsIn(t, DOMAIN t) |-> Volume(t, CoinTrades(t, coin))]),
     trips |-> SumOf([coin \in CoinsIn(t, DOMAIN t) |-> Holding(t, coin).trips])]

\* _compute_monthly_pnl: every bill of an instrument that has a timestamp.
Dated(b) == {i \in DOMAIN b : b[i].coin # "" /\ b[i].month # 0}

Monthly(b) ==
    [m \in {b[i].month : i \in Dated(b)} |-> Changes(b, {i \in Dated(b) : b[i].month = m})]

\* compute_coin_breakdown: without bills nothing is reported, trades or not.
TradesOf(b, trading) == IF b = <<>> THEN <<>> ELSE trading

Analytics(b, trading) ==
    LET t == TradesOf(b, trading)
    IN  [coins |-> CoinTable(b, t), totals |-> TradeTotals(b, t),
         daily |-> DailyVolume(t), monthly |-> Monthly(b)]

\* The clients whose part names a key.
WithKey(key, parts) == {c \in Traders : key \in DOMAIN parts[c]}

MergedOverwriting(parts) ==
    [key \in UNION {DOMAIN parts[c] : c \in Traders} |->
        parts[CHOOSE c \in WithKey(key, parts) : TRUE][key]]

\* _accumulate_coin_into and the daily and monthly sums of _merge_per_client.
Merged(parts) ==
    [key \in UNION {DOMAIN parts[c] : c \in Traders} |->
        SumOf([c \in WithKey(key, parts) |-> parts[c][key]])]

\* aggregate_clients, of the clients' results a
AggregateOf(a) ==
    [net |-> Merged([c \in Traders |-> [k \in DOMAIN a[c].coins |-> a[c].coins[k].net]]),
     volume |-> Merged([c \in Traders |-> [k \in DOMAIN a[c].coins |-> a[c].coins[k].volume]]),
     daily |-> Merged([c \in Traders |-> a[c].daily]),
     monthly |-> Merged([c \in Traders |-> a[c].monthly]),
     totals |-> [net |-> SumOf([c \in Traders |-> a[c].totals.net]),
                 volume |-> SumOf([c \in Traders |-> a[c].totals.volume]),
                 trips |-> SumOf([c \in Traders |-> a[c].totals.trips])]]

Aggregate == AggregateOf([c \in Traders |-> Analytics(bills[c], trades[c])])

-----------------------------------------------------------------------------
RowsKept == SumOf([c \in Traders |-> Len(bills[c]) + Len(trades[c])])

\* The backfill writes a bill.
Bill ==
    /\ RowsKept < MaxRows /\ \A c \in Traders : trades[c] = <<>>
    /\ \E c \in Traders, row \in BillRows : bills' = [bills EXCEPT ![c] = Append(@, row)]
    /\ UNCHANGED trades

\* The backfill or the daily update writes a trade.
AddTrade ==
    /\ RowsKept < MaxRows
    /\ \E c \in Traders, row \in TradeRows : trades' = [trades EXCEPT ![c] = Append(@, row)]
    /\ UNCHANGED bills

TradeInit == bills = [c \in Traders |-> <<>>] /\ trades = [c \in Traders |-> <<>>]

TradeNext == Bill \/ AddTrade

TradeSpec == TradeInit /\ [][TradeNext]_tradeVars

-----------------------------------------------------------------------------
\* Coins of a client that show in its totals and not in its coin table: fees
\* or funding, no realised P&L and no trade.
Orphans(c) == CoinsIn(bills[c], Counted(bills[c])) \ DOMAIN Analytics(bills[c], trades[c]).coins

Orphaned(c) == SumOf([k \in Orphans(c) |-> NetOf(bills[c], k)])

\* What the months of a client hold and its totals do not, less the reverse.
Excess(c) ==
    Changes(bills[c], Dated(bills[c]) \ Counted(bills[c]))
        - Changes(bills[c], Counted(bills[c]) \ Dated(bills[c]))

\* The volume of a client that is in its totals and in none of its days.
UndatedVolume(c) == LET t == TradesOf(bills[c], trades[c]) IN Volume(t, Undated(t))

\* The net, the volume and the months of an aggregate are explained by its
\* coins, its days, the bills and the trades without a datetime.
ExplainedBy(all) ==
    /\ all.totals.net = SumOf(all.net) + SumOf([c \in Traders |-> Orphaned(c)])
    /\ all.totals.volume = SumOf(all.volume)
    /\ all.totals.volume = SumOf(all.daily) + SumOf([c \in Traders |-> UndatedVolume(c)])
    /\ SumOf(all.monthly) = all.totals.net + SumOf([c \in Traders |-> Excess(c)])

\* The coin table, the days, the months and the aggregate all explain the
\* totals.  What they do not show is this and no more: the coin table no coin
\* with only fees or funding, the days no trade without a datetime, the months
\* no undated bill; and the months hold every bill of an instrument, also
\* those that are neither P&L, fee nor funding.
CoinsExplainTotals == ExplainedBy(Aggregate)

UnitLots(rows, I) == \A i \in I : rows[i].amount = 1

\* What is held after each trade; a sale of more than that leaves nothing.
HeldAfter(sorted) ==
    LET held[k \in 0 .. Len(sorted)] ==
            IF k = 0 THEN 0
            ELSE IF sorted[k].side = "buy" THEN held[k - 1] + 1
            ELSE IF held[k - 1] = 0 THEN 0 ELSE held[k - 1] - 1
    IN  held

\* What is held at the end of a tick.
Stock(sorted, tick) == HeldAfter(sorted)[Cardinality({k \in 1 .. Len(sorted) : sorted[k].at <= tick})]

BuysFrom(sorted, k) == {j \in k .. Len(sorted) : sorted[j].side = "buy"}

\* The lots still held at the end, which are the last ones bought.
Unsold(sorted) ==
    {k \in BuysFrom(sorted, 1) : Cardinality(BuysFrom(sorted, k)) <= Stock(sorted, LastTick)}

\* The holding hours of lots of one size are the time something was held:
\* the stock summed over the ticks, less the age of what is still held.  No
\* tick is counted twice or lost, whatever the order of the file, with sales
\* beyond the stock in between.
HoldingIsStockTime ==
    \A c \in Traders : \A coin \in CoinsIn(trades[c], DOMAIN trades[c]) :
        LET own == CoinTrades(trades[c], coin)
            sorted == ByTime(trades[c], own)
        IN  UnitLots(trades[c], own) =>
                Holding(trades[c], coin).hours
                    = SumOf([tick \in 1 .. LastTick - 1 |-> Stock(sorted, tick)])
                        - SumOf([k \in Unsold(sorted) |-> LastTick - sorted[k].at])
=============================================================================
