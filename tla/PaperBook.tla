------------------------------ MODULE PaperBook ------------------------------
(***************************************************************************)
(* What the dashboard computes from one paper run: the folds of its ledger *)
(* tape into positions and P&L (core/ledger_views.py), the splits by       *)
(* strategy (core/ledger_strategy.py, core/portfolio_metrics.py), the      *)
(* exposure per coin, the high-water marks (core/hwm_from_ledger.py), and  *)
(* the comparison with the batch rerun of the same instructions            *)
(* (core/recon_view.py).  LedgerRuns models which tape a reply reads; here *)
(* the tape is given and grows row by row.                                 *)
(*                                                                         *)
(* A tape row is a trade of a leg or a passive accrual of cash.  Rows are  *)
(* functions of their lines: what is filtered out of a tape or left out of *)
(* a rerun leaves a gap, and a fill of the rerun has the line of the       *)
(* instruction it repeats.  Prices and marks are integers, scaled so that  *)
(* every average cost that occurs is an integer too; Unit is the scaled 1. *)
(***************************************************************************)
EXTENDS Integers, Sequences, FiniteSets, FiniteSetsExt, Functions, Summation

CONSTANTS
    MaxTape,       \* bound: rows on the tape
    Strategies,    \* the strategy ids rows are stamped with
    Declared,      \* the strategy_ids of the run's manifest
    PartOf,        \* pairs <<r, s>>: the text r occurs in the id s
    Legs,          \* instrument keys
    CoinOf,        \* [Legs -> coin]: _base_coin of the leg's asset
    VenueOf,       \* [Legs -> venue]
    PricesOf,      \* [Legs -> prices a fill can have]
    MarksOf,       \* [Legs -> marks], 0 for a leg without a mark
    Deltas,        \* signed quantities of a fill
    Accruals,      \* amounts of a passive accrual
    Unit,
    Seed           \* NAV the run starts from

ASSUME BookAssumption ==
    /\ IsFiniteSet(Declared) /\ MaxTape \in Nat /\ Unit \in Int /\ Seed \in Int
    /\ Deltas \subseteq Int /\ Accruals \subseteq Int
    /\ \A leg \in Legs : PricesOf[leg] \subseteq Int /\ MarksOf[leg] \subseteq Nat

VARIABLES
    tape,          \* the run's rows
    marks,         \* [Legs -> price], 0 where the run has no mark
    batch          \* fills of the batch rerun, <<>> while there are none

bookVars == <<tape, marks, batch>>

NoRerun == batch = <<>>

\* The tape's lines and one for a fill that paper never had.
LastLine == MaxTape + 1

TradeLines(rows) == {i \in DOMAIN rows : rows[i].kind = "trade"}

Trades(rows) == Restrict(rows, TradeLines(rows))

LegLines(rows, leg) == {i \in TradeLines(rows) : rows[i].leg = leg}

-----------------------------------------------------------------------------
(* materialize_position_ledger of the trading library, at average cost.    *)

Flat == [qty |-> 0, cost |-> 0, realized |-> 0]

AvgCost(pos) ==
    IF pos.qty > 0 THEN pos.cost \div pos.qty ELSE (-pos.cost) \div (-pos.qty)

Opens(pos, q) == pos.qty = 0 \/ (pos.qty > 0) = (q > 0)

AbsQty(q) == IF q < 0 THEN -q ELSE q

\* A fill in the position's direction adds to its cost; one against it
\* realises the difference to the average cost and may turn it around.
Booked(pos, q, price) ==
    CASE Opens(pos, q) ->
            [qty |-> pos.qty + q, cost |-> pos.cost + q * price, realized |-> pos.realized]
      [] ~Opens(pos, q) /\ AbsQty(q) <= AbsQty(pos.qty) ->
            [qty |-> pos.qty + q,
             cost |-> pos.cost + q * AvgCost(pos),
             realized |-> pos.realized - q * (price - AvgCost(pos))]
      [] OTHER ->
            [qty |-> pos.qty + q,
             cost |-> (pos.qty + q) * price,
             realized |-> pos.realized + pos.qty * price - pos.cost]

Position(rows, leg) ==
    LET lines == LegLines(rows, leg)
        after[n \in 0 .. LastLine] ==
            IF n = 0 THEN Flat
            ELSE IF n \in lines THEN Booked(after[n - 1], rows[n].delta, rows[n].price)
            ELSE after[n - 1]
    IN  after[LastLine]

\* The legs of the materialised position ledger.
Held(rows) == {rows[i].leg : i \in TradeLines(rows)}

\* A leg without a mark is carried at its cost.
Unrealized(rows, leg) ==
    LET pos == Position(rows, leg)
    IN  IF marks[leg] = 0 THEN 0 ELSE marks[leg] * pos.qty - pos.cost

-----------------------------------------------------------------------------
(* Totals and splits.                                                      *)

Accruing(rows) == {i \in DOMAIN rows : rows[i].kind = "passive"}

Accrued(rows) == SumOf([i \in Accruing(rows) |-> rows[i].delta])

LegRealized(rows) == SumOf([leg \in Held(rows) |-> Position(rows, leg).realized])

\* realized_pnl_total; the same sum opens compute_pnl_entries and
\* compute_ledger_views.
RealizedTotal(rows) == LegRealized(rows) + Accrued(rows)

UnrealizedTotal(rows) == SumOf([leg \in Held(rows) |-> Unrealized(rows, leg)])

\* filter_rows_by_strategy: the request may be the id or any part of it.
Filtered(rows, request) ==
    Restrict(rows, {i \in DOMAIN rows :
                        rows[i].strategy = request \/ <<request, rows[i].strategy>> \in PartOf})

Totals(rows) ==
    [realized |-> RealizedTotal(rows), unrealized |-> UnrealizedTotal(rows),
     total |-> RealizedTotal(rows) + UnrealizedTotal(rows)]

Unmarked == \A leg \in Legs : marks[leg] = 0

\* get_client_pnl over compute_pnl_entries: the unrealised part is withheld
\* and left out of the total while the run has no marks at all.
PnlReply(rows) ==
    IF Unmarked THEN [realized |-> RealizedTotal(rows), unrealized |-> 0, total |-> RealizedTotal(rows)]
    ELSE Totals(rows)

\* The "totals" of compute_ledger_views.
PositionsReply(rows) == Totals(rows)

\* _rollup of the positions by venue.
VenueLegs(rows, v) == {leg \in Held(rows) : VenueOf[leg] = v}

ByVenue(rows) ==
    [v \in {VenueOf[leg] : leg \in Held(rows)} |->
        [qty |-> SumOf([leg \in VenueLegs(rows, v) |-> Position(rows, leg).qty]),
         pnl |-> SumOf([leg \in VenueLegs(rows, v) |->
                            Position(rows, leg).realized + Unrealized(rows, leg)])]]

StampedIds(rows) == {rows[i].strategy : i \in DOMAIN rows}

PartBySubstring(rows, s) == Filtered(rows, s)

\* The rows of one strategy; every row is in exactly one part.
Part(rows, s) == Restrict(rows, {i \in DOMAIN rows : rows[i].strategy = s})

\* by_strategy_pnl: each part folded by itself.
ByStrategy(rows) == [s \in StampedIds(rows) |-> Totals(Part(rows, s))]

CoinLegs(rows, coin) == {leg \in Held(rows) : CoinOf[leg] = coin}

\* The best mark of a coin over a strategy's legs, 0 when it has none.
UsdPrice(rows, coin) ==
    LET known == {marks[leg] : leg \in CoinLegs(rows, coin)} \ {0}
    IN  IF known = {} THEN 0 ELSE Max(known)

UsdValueByMark(rows, leg) == Position(rows, leg).qty * marks[leg]

\* _position_usd_value: a mark above 1 is a price in USD, a mark up to 1 an
\* exchange rate, for which the coin's best price stands in.
UsdValue(rows, leg) ==
    LET qty == Position(rows, leg).qty
    IN  IF marks[leg] > Unit THEN qty * marks[leg] ELSE qty * UsdPrice(rows, CoinOf[leg])

Turnover(rows) == SumOf([i \in TradeLines(rows) |-> AbsQty(rows[i].delta) * rows[i].price])

Gross(rows) == SumOf([leg \in Held(rows) |-> AbsQty(UsdValue(rows, leg))])

Metrics(rows) ==
    [trades |-> Cardinality(TradeLines(rows)), positions |-> Cardinality(Held(rows)),
     turnover |-> Turnover(rows), gross |-> Gross(rows), total |-> Totals(rows).total]

\* _enumerate_strategy_universe
Universe(rows) == Declared \cup StampedIds(rows)

PerStrategy(rows) == [s \in Universe(rows) |-> Metrics(Part(rows, s))]

\* The "overall" of per_strategy_breakdown: the sum of the parts.
Overall(rows) ==
    LET parts == PerStrategy(rows)
        sum(field) == SumOf([s \in Universe(rows) |-> parts[s][field]])
    IN  [trades |-> sum("trades"), turnover |-> sum("turnover"), gross |-> sum("gross"),
         total |-> sum("total")]

\* _bps_on_turnover, "none" where nothing was traded.
Bps(m) == IF m.turnover = 0 THEN "none" ELSE (m.total * 10000) \div m.turnover

\* net_views: quantity and signed USD exposure of a coin.
NetInCoin(rows, coin) == SumOf([leg \in CoinLegs(rows, coin) |-> Position(rows, leg).qty])

DeltaPerCoin(rows, coin) == SumOf([leg \in CoinLegs(rows, coin) |-> UsdValue(rows, leg)])

-----------------------------------------------------------------------------
(* High-water marks off the ledger, one NAV per snapshot of the tape.      *)

\* ledger_nav_series over the tape as it grew.
NavSeries == [n \in 1 .. Len(tape) |-> Seed + Totals(Restrict(tape, 1 .. n)).total]

Higher(a, b) == IF a > b THEN a ELSE b

PeakFollowsNav(peak, nav) == nav

\* The mark only moves up.
Advanced(peak, nav) == Higher(peak, nav)

\* hwm_from_ledger
HwmRows(series, prior) ==
    LET peak[n \in 0 .. Len(series)] ==
            IF n = 0 THEN prior ELSE Advanced(peak[n - 1], series[n])
    IN  [i \in 1 .. Len(series) |->
            [nav |-> series[i], prior |-> peak[i - 1], delta |-> Higher(0, series[i] - peak[i - 1])]]

\* _assert_hwm_invariants, which raises when it is false.
HwmAsserted(rows) ==
    \A i \in DOMAIN rows :
        /\ rows[i].delta >= 0
        /\ rows[i].delta = Higher(0, rows[i].nav - rows[i].prior)
        /\ i > 1 => rows[i].prior + rows[i].delta >= rows[i - 1].prior + rows[i - 1].delta

-----------------------------------------------------------------------------
(* The rerun of the run's instructions and the verdict on it.              *)

PriceDrift(p, b) == IF p.price = 0 THEN 0 ELSE AbsQty(b.price - p.price)

Deviates(p, b) == b.delta # p.delta \/ PriceDrift(p, b) # 0

UnmatchedInPaper(p, b) == TradeLines(p) \ TradeLines(b)

\* Fills of either side without a partner.
Unmatched(p, b) == (TradeLines(p) \ TradeLines(b)) \cup (TradeLines(b) \ TradeLines(p))

\* _verdict_from_fills
Deterministic(paper, rerun) ==
    /\ Unmatched(paper, rerun) = {}
    /\ \A i \in TradeLines(paper) \cap TradeLines(rerun) : ~Deviates(paper[i], rerun[i])

\* read_batch_total_pnl: trades only, without marks, so realised P&L only.
BatchTotal == LegRealized(batch)

\* The paper_minus_batch of backtest_surface.
PaperMinusBatch == Totals(tape).total - BatchTotal

-----------------------------------------------------------------------------
\* The paper engine fills an instruction.
Fill ==
    /\ NoRerun /\ Len(tape) < MaxTape
    /\ \E s \in Strategies, leg \in Legs, q \in Deltas : \E price \in PricesOf[leg] :
          tape' = Append(tape, [kind |-> "trade", strategy |-> s, leg |-> leg,
                                delta |-> q, price |-> price])
    /\ UNCHANGED <<marks, batch>>

\* Funding, staking or lending income.
Accrue ==
    /\ NoRerun /\ Len(tape) < MaxTape
    /\ \E s \in Strategies, a \in Accruals :
          tape' = Append(tape, [kind |-> "passive", strategy |-> s, leg |-> "cash",
                                delta |-> a, price |-> 0])
    /\ UNCHANGED <<marks, batch>>

\* The batch stage fills the same instructions again: all alike, or one at
\* another price, in another size, not at all, or one that paper never had.
Rerun ==
    /\ NoRerun
    /\ LET fills == Trades(tape)
       IN  \E i \in DOMAIN fills :
              batch' \in {fills, Restrict(fills, DOMAIN fills \ {i}),
                          [n \in DOMAIN fills \cup {LastLine} |-> fills[IF n = LastLine THEN i ELSE n]],
                          [fills EXCEPT ![i].delta = -@]}
                         \cup {[fills EXCEPT ![i].price = p] : p \in PricesOf[fills[i].leg]}
    /\ UNCHANGED <<tape, marks>>

BookInit ==
    /\ tape = <<>>
    /\ marks \in {f \in [Legs -> UNION {MarksOf[leg] : leg \in Legs}] :
                    \A leg \in Legs : f[leg] \in MarksOf[leg]}
    /\ batch = <<>>

BookNext == Fill \/ Accrue \/ Rerun

BookSpec == BookInit /\ [][BookNext]_bookVars

-----------------------------------------------------------------------------
(* Properties.                                                             *)

SharedUnmarked ==
    \E i, j \in TradeLines(tape) :
        /\ tape[i].leg = tape[j].leg /\ marks[tape[i].leg] = 0
        /\ tape[i].strategy # tape[j].strategy

\* Every view of one run tells the same P&L: the P&L reply, the positions
\* reply, the venues with the accruals, the strategies of by_strategy_pnl and
\* the overall of per_strategy_breakdown, which folds each strategy by itself
\* where the first two net strategies that trade the same leg.  A shared leg
\* that has no mark is the exception: only realised P&L counts there, and it
\* depends on whose average cost a sale is measured against.  A filtered
\* reply is the strategy's share, unless the requested id is part of another.
ViewsAgree ==
    LET whole == PositionsReply(tape).total
    IN  /\ PnlReply(tape).total = whole
        /\ SumOf([v \in DOMAIN ByVenue(tape) |-> ByVenue(tape)[v].pnl]) + Accrued(tape) = whole
        /\ ~SharedUnmarked =>
              /\ SumOf([s \in StampedIds(tape) |-> ByStrategy(tape)[s].total]) = whole
              /\ Overall(tape).total = whole
        /\ \A s \in StampedIds(tape) :
              (\A t \in StampedIds(tape) : <<s, t>> \notin PartOf) =>
                  PnlReply(Filtered(tape, s)) = ByStrategy(tape)[s]

OneUsdMark(coin) ==
    \A leg, other \in CoinLegs(tape, coin) :
        marks[leg] > Unit /\ marks[other] > Unit => marks[leg] = marks[other]

\* A book that is flat in a coin has no USD exposure in it, whichever leg
\* carries the price: a staking leg marked with its exchange rate nets
\* against the perpetual.  Needs one USD price per coin, so no exchange rate
\* above 1 (net_views, _position_usd_value, _usd_price_by_asset).
HedgedCoinIsFlat ==
    \A coin \in {CoinOf[leg] : leg \in Legs} :
        NetInCoin(tape, coin) = 0 /\ OneUsdMark(coin) => DeltaPerCoin(tape, coin) = 0

\* The materialised high-water mark is the highest NAV seen, or the one
\* carried in, at every snapshot and from every prior mark; the code's own
\* assertions on the rows never fail (hwm_from_ledger).
MarkIsRunningPeak ==
    \A prior \in {Seed - Unit, Seed, Seed + Unit} :
        LET rows == HwmRows(NavSeries, prior)
        IN  /\ HwmAsserted(rows)
            /\ \A i \in DOMAIN rows :
                  rows[i].prior + rows[i].delta = Max({prior} \cup {NavSeries[j] : j \in 1 .. i})

PricesKnown == \A i \in TradeLines(tape) : tape[i].price # 0

\* A rerun is called deterministic exactly when it filled the same
\* instructions alike: a fill that is missing, one too many, another size or
\* another price is each enough to deny it (_verdict_from_fills).
VerdictIsExact ==
    ~NoRerun /\ PricesKnown => (Deterministic(tape, batch) <=> batch = Trades(tape))

\* Then the difference that backtest_surface shows is zero: "paper - batch
\* should be about 0 (determinism proof)", portfolio_metrics.py:459.
DeterministicMeansSamePnl ==
    ~NoRerun /\ PricesKnown /\ Deterministic(tape, batch) => PaperMinusBatch = 0
=============================================================================
