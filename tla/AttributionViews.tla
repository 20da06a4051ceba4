-------------------------- MODULE AttributionViews --------------------------
(***************************************************************************)
(* The views over the attribution rows and the transfer ledger of a client *)
(* (core/ledger_strategy.py, core/pnl_timeseries.py and the attribution,   *)
(* NAV and transfer routes of api/routes/attribution.py): every view       *)
(* groups the same rows by something else.                                 *)
(***************************************************************************)
EXTENDS Integers, Sequences, FiniteSets, Summation

CONSTANTS
    MaxAttrRows,   \* bound: attribution rows
    AttrRows,      \* the rows there can be:
                   \* [day, strategy, symbol, venue, layer, factor, amount]
    MaxMoves,      \* bound: rows of the transfer ledger
    Moves,         \* the rows there can be: [strategy, venue, delta], strategy "" if not stamped
    ManifestOf,    \* [venue -> strategy_id its slug names], for the manifest's ids
    NameParts,     \* pairs of different ids, the first a part of the second
    Garbage        \* an amount that is no number

ASSUME AttributionAssumption ==
    /\ \A row \in AttrRows : row.amount = Garbage \/ row.amount \in Int
    /\ \A t \in Moves : t.delta \in Int

VARIABLES attr, moves

attrVars == <<attr, moves>>

(* Rows are named by their positions in attr and in moves.                 *)
Rows == DOMAIN attr

\* _attr_amount: an amount that is no number counts as 0.
AttrAmount(row) == IF row.amount = Garbage THEN 0 ELSE row.amount

SumRows(I) == SumOf([i \in I |-> AttrAmount(attr[i])])

\* _attr_group, with the bucket "unknown" for an empty value.
Named(value) == IF value = "" THEN "unknown" ELSE value

By(field) == [i \in Rows |-> Named(attr[i][field])]

GroupSum(I, key) == [k \in {key[i] : i \in I} |-> SumRows({i \in I : key[i] = k})]

\* attribution_breakdown
Breakdown ==
    [by_venue |-> GroupSum(Rows, By("venue")),
     by_instrument |-> GroupSum(Rows, By("symbol")),
     by_factor |-> GroupSum(Rows, By("factor")),
     by_layer |-> GroupSum(Rows, By("layer")),
     per_strategy_total |-> GroupSum(Rows, By("strategy"))]

\* _attr_group_per_strategy: the factors of one strategy.
FactorsOf(s) == GroupSum({i \in Rows : By("strategy")[i] = s}, By("factor"))

\* coin_from_instrument: a liquid-staking token or a perpetual is its coin.
Coin(symbol) ==
    CASE symbol \in {"stETH", "rETH", "ETH-PERP", "ETH"} -> "ETH"
      [] symbol \in {"JitoSOL", "mSOL", "SOL-PERP", "SOL"} -> "SOL"
      [] OTHER -> "unknown"

CarryFactors == {"CARRY", "CARRY_BASE", "CARRY_AVS_CONTINUOUS", "CARRY_ISSUER_SEASONAL"}

UnrealizedFactors == {"DELTA", "GREEKS"}

Carried(I) == {i \in I : attr[i].factor \in CarryFactors}

Marked(I) == {i \in I : attr[i].factor \in UnrealizedFactors}

PartsKeepOverlap(I) ==
    [carry |-> SumRows(Carried(I)),
     unrealized |-> SumRows(Marked(I)),
     realized |-> SumRows(I \ Carried(I))]

\* The three stacked parts of one point; every row is in exactly one.
Parts(I) ==
    [carry |-> SumRows(Carried(I)),
     unrealized |-> SumRows(Marked(I)),
     realized |-> SumRows((I \ Carried(I)) \ Marked(I))]

\* A row without a readable timestamp is kept under "unknown".
DayOf(row) == IF row.day = "" THEN "unknown" ELSE row.day

\* pnl_timeseries_series: one point per day, strategy and coin.
SeriesKey == [i \in Rows |-> <<DayOf(attr[i]), Named(attr[i].strategy), Coin(attr[i].symbol)>>]

Point(I) ==
    LET parts == Parts(I)
    IN  [realized |-> parts.realized, carry |-> parts.carry,
         unrealized |-> IF Marked(I) = {} THEN "null" ELSE parts.unrealized,
         total |-> parts.realized + parts.unrealized + parts.carry]

Series == [k \in {SeriesKey[i] : i \in Rows} |-> Point({i \in Rows : SeriesKey[i] = k})]

\* _nav_from_rows: what is shown as NAV is the sum of a day's amounts; a day
\* without a number has no snapshot.
NavByDay == GroupSum({i \in Rows : attr[i].amount # Garbage}, [i \in Rows |-> DayOf(attr[i])])

-----------------------------------------------------------------------------
(* The transfers panel.                                                    *)

\* strategy_id_for_venue: the manifest's id whose slug names the venue.
VenueStrategy(venue) == IF venue \in DOMAIN ManifestOf THEN ManifestOf[venue] ELSE "unknown"

\* _project_transfer_rows: the stamped id counts, the venue's only without it.
StrategyOf(move) == IF move.strategy # "" THEN move.strategy ELSE VenueStrategy(move.venue)

Owner == [i \in DOMAIN moves |-> StrategyOf(moves[i])]

\* _matches_strategy: the requested id is the row's or a part of it.
Matches(strategy, requested) == strategy = requested \/ <<requested, strategy>> \in NameParts

Shown(requested) == {i \in DOMAIN moves : Matches(Owner[i], requested)}

NetAmount(I) == SumOf([i \in I |-> moves[i].delta])

\* get_client_transfers: the rows I, their status and the amounts per strategy.
Panel(I) ==
    [status |-> IF I = {} THEN "NO_TRANSFER_ROWS" ELSE "OK",
     total |-> Cardinality(I),
     by_strategy |-> [s \in {Owner[i] : i \in I} |-> NetAmount({i \in I : Owner[i] = s})]]

-----------------------------------------------------------------------------
\* The engine books the attribution of a fill or of a day.
Attribute ==
    /\ Len(attr) < MaxAttrRows
    /\ \E row \in AttrRows : attr' = Append(attr, row)
    /\ UNCHANGED moves

\* A money movement enters the transfer ledger.
MoveFunds ==
    /\ Len(moves) < MaxMoves
    /\ \E t \in Moves : moves' = Append(moves, t)
    /\ UNCHANGED attr

AttrInit == attr = <<>> /\ moves = <<>>

AttrNext == Attribute \/ MoveFunds

AttrSpec == AttrInit /\ [][AttrNext]_attrVars

-----------------------------------------------------------------------------
(* The parts of AttributionAddsUp *)

\* attribution_breakdown: each rollup has the sum of all rows, and the factors
\* of a strategy that of its rows.
BreakdownAddsUp ==
    /\ SumOf(Breakdown.by_venue) = SumRows(Rows) /\ SumOf(Breakdown.by_instrument) = SumRows(Rows)
    /\ SumOf(Breakdown.by_factor) = SumRows(Rows) /\ SumOf(Breakdown.by_layer) = SumRows(Rows)
    /\ SumOf(Breakdown.per_strategy_total) = SumRows(Rows)
    /\ \A s \in DOMAIN Breakdown.per_strategy_total :
          SumOf(FactorsOf(s)) = Breakdown.per_strategy_total[s]

\* pnl_timeseries_series, _nav_from_rows: so have the points of the graph,
\* whatever parts they stack, and the daily figures.
SeriesAddsUp ==
    /\ SumOf([k \in DOMAIN Series |-> Series[k].total]) = SumRows(Rows)
    /\ SumOf(NavByDay) = SumRows(Rows)

\* get_client_transfers: the strategies' amounts add up to the rows' sum; the
\* panel of one strategy has its amount unchanged; the panels of the single
\* strategies show every row, and each row once if no id is part of another.
PanelsAddUp ==
    LET strategies == DOMAIN Panel(DOMAIN moves).by_strategy
        shown == SumOf([s \in strategies |-> Panel(Shown(s)).total])
    IN  /\ SumOf(Panel(DOMAIN moves).by_strategy) = NetAmount(DOMAIN moves)
        /\ \A s \in strategies :
              Panel(Shown(s)).by_strategy[s] = Panel(DOMAIN moves).by_strategy[s]
        /\ shown >= Panel(DOMAIN moves).total
        /\ (\A s, z \in strategies : Matches(z, s) => z = s) => shown = Panel(DOMAIN moves).total

\* Every view of the attribution rows adds up to the same total and loses no
\* row, rows with an empty key or an unreadable amount included, and so does
\* the transfer panel (attribution_breakdown, pnl_timeseries_series,
\* _nav_from_rows, get_client_transfers).
AttributionAddsUp == BreakdownAddsUp /\ SeriesAddsUp /\ PanelsAddUp
=============================================================================
