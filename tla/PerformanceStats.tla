-------------------------- MODULE PerformanceStats --------------------------
(***************************************************************************)
(* The statistics of core/backfill_store.py over a client's equity curve:  *)
(* time-weighted returns by day and by month, drawdown, the two high-water *)
(* marks and the P&L recovery of accounts tracked in USDT.  A return is a  *)
(* ratio <<numerator, denominator>>; what the trading library makes of the *)
(* daily returns (Sharpe and the like) is left out.  EquityUpdate and      *)
(* Backfill write the curve; here it grows by one day at a time.  What a   *)
(* day really earned (gain) and moved (coins, cash) stands in the points   *)
(* too; of these the code sees the recorded flow of a USD account, cash,   *)
(* and of a BTC account only whether the day is flagged.                   *)
(***************************************************************************)
EXTENDS Integers, Sequences, FiniteSets, FiniteSetsExt, Summation

CONSTANTS
    MaxDays,       \* bound: days of the curve
    DaysPerMonth,
    Openings,      \* equities a curve can open with
    Gains, Flows,  \* amounts of a day
    MaxBalance,    \* bound
    HwmSeeds,      \* 0 for no seed
    Noise,         \* a USDT change up to this is never a transfer of a BTC account
    Prices         \* BTC prices; equities in BTC are multiples of all of them

ASSUME PerfAssumption ==
    /\ MaxDays \in Nat /\ DaysPerMonth \in Nat \ {0} /\ Noise \in Nat
    /\ Openings \subseteq Nat /\ HwmSeeds \subseteq Nat
    /\ Gains \subseteq Int /\ Flows \subseteq Int /\ Prices \subseteq Nat \ {0}

VARIABLES
    account,       \* "usd" or "btc", told by the fields of the first point
    curve          \* the points [equity, usdt, price, coins, cash, gain, flagged]

perfVars == <<account, curve>>

Days == 1 .. Len(curve)

Month(i) == 1 + (i - 1) \div DaysPerMonth

-----------------------------------------------------------------------------
Ratio(a, b) == <<a, b>>

One == Ratio(1, 1)

Times(x, y) == Ratio(x[1] * y[1], x[2] * y[2])

Same(x, y) == x[1] * y[2] = y[1] * x[2]

Below(x, y) == x[1] * y[2] < y[1] * x[2]

Highest(ratios) == CHOOSE top \in ratios : \A r \in ratios : ~Below(top, r)

\* The loops over the points: 1.0, times the factor of every day up to n.
Compound(factor) ==
    LET index[n \in 0 .. Len(curve)] == IF n = 0 THEN One ELSE Times(index[n - 1], factor[n])
    IN  index

-----------------------------------------------------------------------------
\* _btc_equity, in units of the BTC amount: the USDT is converted at the
\* day's price.  equity holds the BTC balance of a BTC account.
Equity(p) == IF account = "btc" THEN p.equity + p.usdt \div p.price ELSE p.equity

Size(x) == IF x < 0 THEN -x ELSE x

\* _get_transfer: recorded for a USD account; of a BTC account every change
\* of the BTC balance and every large one of the USDT on a flagged day.
Transfer(i) ==
    LET p == curve[i]
        change == p.usdt - curve[i - 1].usdt
    IN  IF i = 1 THEN 0
        ELSE IF account = "usd" THEN p.cash
        ELSE IF ~p.flagged THEN 0
        ELSE p.equity - curve[i - 1].equity
                 + (IF Size(change) > Noise THEN change \div p.price ELSE 0)

\* A day counts when both its equities are positive.
Counts(i) == i > 1 /\ Equity(curve[i - 1]) > 0 /\ Equity(curve[i]) > 0

CountedDays == {i \in Days : Counts(i)}

DayReturnWithCash(i) == Ratio(Equity(curve[i]), Equity(curve[i - 1]))

\* 1 + day_return
DayReturn(i) == Ratio(Equity(curve[i]) - Transfer(i), Equity(curve[i - 1]))

\* _compute_daily_returns: a day that does not count is no part of the list.
DailyReturns == [i \in Days |-> IF i \in CountedDays THEN DayReturn(i) ELSE One]

FlaggedDays == {i \in CountedDays : LET r == DayReturn(i) IN 4 * Size(r[1] - r[2]) > r[2]}

\* compute_monthly_returns, which computes the days anew.
ReturnsOf(m) == [i \in Days |-> IF Counts(i) /\ Month(i) = m THEN DayReturn(i) ELSE One]

MonthlyReturns == [m \in {Month(i) : i \in CountedDays} |-> Compound(ReturnsOf(m))[Len(curve)]]

TotalReturn == Compound(DailyReturns)[Len(curve)]

\* _twr_equity_series: the chain-linked index, which opens at 1.
TwrEquity == [i \in {1} \cup CountedDays |-> Compound(DailyReturns)[i]]

-----------------------------------------------------------------------------
\* The days with an equity above 0; start and current are the ends.
Funded == {i \in Days : Equity(curve[i]) > 0}

Starting == Equity(curve[Min(Funded)])

Current == Equity(curve[Max(Funded)])

SumTransfers == SumOf([i \in Days |-> Transfer(i)])

\* hwm_twr_index of _hwm_and_recovery.
HwmTwr(seed) ==
    Highest({TwrEquity[i] : i \in DOMAIN TwrEquity}
                \cup (IF seed > 0 THEN {Ratio(seed, Starting)} ELSE {}))

\* twr_recovery_pct as a ratio: how far the index must still rise.
TwrRecovery(seed) ==
    LET now == TotalReturn
        top == HwmTwr(seed)
    IN  IF now[1] > 0 /\ Below(now, top) THEN Ratio(top[1] * now[2], top[2] * now[1]) ELSE One

\* The mark moves with the capital and never with the P&L.
NotionalHwm(seed) == (IF seed > 0 THEN seed ELSE Starting) + SumTransfers

NotionalRecovery(seed) == IF NotionalHwm(seed) > Current THEN NotionalHwm(seed) - Current ELSE 0

\* _pnl_recovery_usd_block: the USDT earned since the tracking started, large
\* changes on flagged days taken for transfers.
UsdtMoved(i) ==
    LET change == curve[i].usdt - curve[i - 1].usdt
    IN  IF curve[i].flagged /\ Size(change) > Noise THEN change ELSE 0

UsdtPnl(start) ==
    curve[Len(curve)].usdt - curve[start].usdt
        - SumOf([i \in (start + 1) .. Len(curve) |-> UsdtMoved(i)])

PnlRecovery(seed, start) == IF seed > UsdtPnl(start) THEN seed - UsdtPnl(start) ELSE 0

\* _total_capital_flows
CapitalIn == SumOf([i \in Days |-> IF Transfer(i) > 0 THEN Transfer(i) ELSE 0])

CapitalOut == SumOf([i \in Days |-> IF Transfer(i) < 0 THEN Transfer(i) ELSE 0])

\* export_daily_equity chains the days a third time; a day that does not
\* count has a return of nothing.
ExportedTwr ==
    Compound([i \in Days |-> IF i > 1 /\ Counts(i) THEN DayReturn(i) ELSE One])[Len(curve)]

\* compute_performance_stats: {} for a curve of fewer than two funded days.
HasStats == Len(curve) >= 2 /\ Cardinality(Funded) >= 2

-----------------------------------------------------------------------------
Latest == curve[Len(curve)]

DayPoint(equity, usdt, price, coins, cash, gain, flagged) ==
    [equity |-> equity, usdt |-> usdt, price |-> price, coins |-> coins, cash |-> cash,
     gain |-> gain, flagged |-> flagged]

\* A day of a USD account: trading and at most one net flow, which the update
\* or the backfill recorded.
UsdDay ==
    /\ account = "usd" /\ Len(curve) < MaxDays
    /\ \E gain \in Gains, cash \in Flows :
          /\ Latest.equity + gain + cash \in 0 .. MaxBalance
          /\ Latest.equity = 0 => gain = 0
          /\ curve' = Append(curve, DayPoint(Latest.equity + gain + cash, 0, 1, 0, cash, gain, cash # 0))
    /\ UNCHANGED account

\* A day of a BTC account: it trades in USDT, moves BTC and USDT in or out, all
\* of it or none, and is flagged or not.
BtcDay ==
    /\ account = "btc" /\ Len(curve) < MaxDays
    /\ \E gain \in Gains, price \in Prices, coins \in Flows, sent \in Flows, flagged \in BOOLEAN :
          LET equity == Latest.equity + coins
              usdt == Latest.usdt + gain * price + sent * price
          IN  /\ equity \in 0 .. MaxBalance /\ usdt >= 0 /\ Latest.usdt % price = 0
              /\ curve' = Append(curve, DayPoint(equity, usdt, price, coins, sent * price, gain, flagged))
    /\ UNCHANGED account

\* The first point may be marked as the deposit the account began with.
PerfInit ==
    /\ account \in {"usd", "btc"}
    /\ \E e \in Openings, price \in Prices, funding \in BOOLEAN :
          LET deposit == IF funding THEN e ELSE 0
          IN  curve = IF account = "btc" THEN <<DayPoint(e, 0, price, deposit, 0, 0, funding)>>
                      ELSE <<DayPoint(e, 0, 1, 0, deposit, 0, funding)>>

PerfNext == UsdDay \/ BtcDay

-----------------------------------------------------------------------------
\* What happened on a day is what the curve can tell of it.  Of a USD account
\* that is what was recorded.  Of a BTC account a day that moved anything must
\* be flagged, USDT be moved in more than the noise and on a day without
\* trading, and a flagged day that moves no USDT earn no more than the noise.
\* Nothing in the code sees to it.
Told(i) ==
    LET p == curve[i]
    IN  \/ account = "usd" \/ i = 1
        \/ /\ p.coins # 0 \/ p.cash # 0 => p.flagged
           /\ p.cash # 0 => p.gain = 0 /\ Size(p.cash) > Noise
           /\ p.flagged /\ p.cash = 0 => Size(p.gain * p.price) <= Noise

CashIsTold == \A i \in Days : Told(i)

OnlyCash == \A i \in Days : curve[i].gain = 0

\* What the price of BTC does to the USDT held is a gain of a BTC account too.
Repriced(i) ==
    IF i = 1 \/ account = "usd" THEN 0
    ELSE curve[i - 1].usdt \div curve[i].price - curve[i - 1].usdt \div curve[i - 1].price

TrueGains == SumOf([i \in Days |-> curve[i].gain + Repriced(i)])

AlwaysFunded == \A i \in Days : Equity(curve[i]) > 0

\* The months one after the other.
MonthsTogether ==
    LET total[m \in 0 .. Month(Len(curve))] ==
            IF m = 0 THEN One
            ELSE IF m \in DOMAIN MonthlyReturns THEN Times(total[m - 1], MonthlyReturns[m])
            ELSE total[m - 1]
    IN  total[Month(Len(curve))]

\* A curve that only deposits and withdraws has a return of nothing, no
\* drawdown and no flagged day.
CashIsNoReturn ==
    OnlyCash /\ (account = "usd" \/ \A i \in Days : curve[i].usdt = 0) =>
        /\ \A i \in DOMAIN TwrEquity : Same(TwrEquity[i], One)
        /\ FlaggedDays = {} /\ Same(TwrRecovery(0), One)

\* The months and the exported rows multiply to the total.
ReturnsCompound == Same(MonthsTogether, TotalReturn) /\ Same(ExportedTwr, TotalReturn)

\* The notional recovery is the seed less what trading earned since, however
\* much was moved in between.  It needs a curve that never shows 0: an
\* emptied account is measured by its last positive equity.
RecoveryIsEarned ==
    AlwaysFunded => \A seed \in HwmSeeds :
        LET opening == IF seed > 0 THEN seed ELSE Starting
            short == opening - Starting - TrueGains
        IN  NotionalRecovery(seed) = IF short > 0 THEN short ELSE 0

\* What an account tracked in USDT earned is what its trading earned.
UsdtPnlIsEarned ==
    account = "btc" => \A start \in Days :
        UsdtPnl(start) = SumOf([i \in (start + 1) .. Len(curve) |-> curve[i].gain * curve[i].price])

\* Days, months and exported rows compound to one return and the flows add up
\* to one sum, whatever the curve shows.  Where it tells what happened
\* (CashIsTold), money that is moved is no performance by any of the figures.
\* Where it does not, it may be: USDT moved up to the noise or on a day that is
\* not flagged counts as earned, and a flagged day's large earnings as moved.
PerformanceIgnoresCash ==
    HasStats =>
        /\ ReturnsCompound
        /\ CapitalIn + CapitalOut = SumTransfers
        /\ CashIsTold => CashIsNoReturn /\ RecoveryIsEarned /\ UsdtPnlIsEarned
=============================================================================
