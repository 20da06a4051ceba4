------------------------------ MODULE MCReports ------------------------------
(***************************************************************************)
(* The report modules in one run: a behaviour is about one of them, the    *)
(* others keep their initial state.                                        *)
(***************************************************************************)
EXTENDS Integers, Sequences, InvoiceRecords, FeeViews, AttributionViews, MCPaperBook,
        TradeAnalytics, TransferViews

VARIABLE subject

vars == <<subject, bookVars, attrVars, tradeVars, transferVars, recordVars, accounts>>

\* Reruns are about tapes of one strategy.
OneStrategy == \A i \in DOMAIN tape' : tape'[i].strategy = "carry"

\* Those of AttributionViews.
AttrRow(d, s, y, f, a) ==
    [day |-> d, strategy |-> s, symbol |-> y, venue |-> IF y = "" THEN "" ELSE "okx",
     layer |-> IF f = "FUNDING" THEN "EXECUTION" ELSE "STRATEGY", factor |-> f, amount |-> a]

BookedRows ==
    {AttrRow(d, s, y, f, a) :
        d \in {"", "d1"}, s \in {"", "s1"}, y \in {"", "stETH", "ETH-PERP"},
        f \in {"CARRY", "DELTA", "FUNDING"}, a \in {5}}
    \cup {AttrRow("d1", "s1", "stETH", "", Garbage), AttrRow("d1", "s1", "stETH", "DELTA", -3)}

\* A row without an id belongs to "s1-okx" at one venue, to nobody at the other.
BookedMoves ==
    {[strategy |-> s, venue |-> v, delta |-> a] :
        s \in {"", "s1"}, v \in {"okx", "lido"}, a \in {4, -1}}

ManifestOfOkx == [okx |-> "s1-okx"]

PartOfOkx == {<<"s1", "s1-okx">>}

\* Those of TradeAnalytics: months, days and coins missing, a bill of no counted
\* kind.
BillsSeen ==
    {[coin |-> "BTC", kind |-> "realized", change |-> 7, month |-> 1],
     [coin |-> "BTC", kind |-> "fee", change |-> -2, month |-> 2],
     [coin |-> "ETH", kind |-> "funding", change |-> 3, month |-> 1],
     [coin |-> "ETH", kind |-> "other", change |-> 11, month |-> 1],
     [coin |-> "ETH", kind |-> "realized", change |-> 5, month |-> 0],
     [coin |-> "", kind |-> "realized", change |-> 100, month |-> 1]}

TradesSeen ==
    {[coin |-> "BTC", side |-> s, amount |-> 1, cost |-> 10, at |-> t, day |-> t - 1] :
        s \in {"buy", "sell"}, t \in 1 .. 3}
    \cup {[coin |-> "BTC", side |-> s, amount |-> 2, cost |-> 20, at |-> t, day |-> 1] :
        s \in {"buy", "sell"}, t \in 1 .. 2}
    \cup {[coin |-> "ETH", side |-> "sell", amount |-> 1, cost |-> 5, at |-> 2, day |-> 1]}

\* Those of TransferViews: what a day earns, what it moves, what fails.
GainsSeen == {-1, 0, 2}
FlowsSeen == {-4, 0, 1, 8}
FailedSeen == {-2}

\* Curves of the store: one price, an opening of 8, after it one day that moves
\* funds, and the others trade; what failed failed on the second.
CalmDays ==
    LET moving == {i \in 2 .. Len(curve') : curve'[i].coins # 0 \/ curve'[i].cash # 0}
    IN  /\ curve'[1].equity = 8 /\ curve'[1].price \in {1, 2} /\ Cardinality(moving) <= 1
        /\ \A i \in 2 .. Len(curve') :
              /\ curve'[i].price = curve'[1].price /\ curve'[i].gain \in {0, 2}
              /\ i \in moving => curve'[i].gain = 0
              /\ i \notin moving => ~curve'[i].flagged
        /\ \A r \in ccxt' : r.ok \/ r.day = 2

\* Those of InvoiceRecords.
SeededInvoices == [inv1 |-> "paid", inv2 |-> "accepted"]

\* ET's fees are partly paid and partly covered by credits; ET and SL belong to
\* one organisation; OLD is no longer active and still has credits.
Entry(tranche, underwater, active, org, odum, introducer, share) ==
    [tranche |-> tranche, underwater |-> underwater, active |-> active, org |-> org,
     odumPct |-> odum, traderPct |-> 10, introducer |-> introducer, introPct |-> share]

RegistryOfSix ==
    [PR |-> Entry("managed", FALSE, TRUE, "prism", 34, "max", 15),
     ET |-> Entry("managed", FALSE, TRUE, "shared", 30, "", 0),
     SL |-> Entry("managed", TRUE, TRUE, "shared", 30, "", 0),
     PROP |-> Entry("managed", FALSE, TRUE, "odum", 0, "", 0),
     YOAV |-> Entry("fund_of_fund", FALSE, TRUE, "yoav", 20, "", 0),
     OLD |-> Entry("managed", FALSE, FALSE, "prism", 30, "", 0)]

SeedsOfSix ==
    [PR |-> [hwm |-> 10, paid |-> 0, credits |-> 0],
     ET |-> [hwm |-> 5, paid |-> 60, credits |-> -70],
     SL |-> [hwm |-> 20, paid |-> 0, credits |-> -200],
     PROP |-> [hwm |-> 0, paid |-> 0, credits |-> 0],
     YOAV |-> [hwm |-> 0, paid |-> 0, credits |-> 0],
     OLD |-> [hwm |-> 5, paid |-> 0, credits |-> -30]]

OneIntroduction == [PR |-> [introducer |-> "max", rate |-> 15, invoiced |-> 2150, paid |-> 20000]]

ReportsInit ==
    /\ subject \in {"book", "rerun", "attribution", "transfers", "trading", "performance", "store",
                    "invoices", "documents", "billing"}
    /\ BookInit /\ (subject \notin {"book", "rerun"} => Unmarked)
    /\ AttrInit
    /\ TradeInit
    /\ IF subject \in {"performance", "store"} THEN TransferInit
       ELSE account = "usd" /\ curve = <<>> /\ ccxt = {} /\ cache = NotRead
    /\ RecordInit
    /\ subject # "documents" => \A d \in DOMAIN documents : documents[d] = "none"
    /\ FeeInit

ReportsNext ==
    \/ /\ subject = "book" /\ (Fill \/ Accrue)
       /\ UNCHANGED <<subject, attrVars, tradeVars, transferVars, recordVars, accounts>>
    \/ /\ subject = "rerun" /\ BookNext /\ OneStrategy
       /\ UNCHANGED <<subject, attrVars, tradeVars, transferVars, recordVars, accounts>>
    \/ /\ subject = "attribution" /\ Attribute
       /\ UNCHANGED <<subject, bookVars, tradeVars, transferVars, recordVars, accounts>>
    \/ /\ subject = "transfers" /\ MoveFunds
       /\ UNCHANGED <<subject, bookVars, tradeVars, transferVars, recordVars, accounts>>
    \/ /\ subject = "trading" /\ TradeNext
       /\ UNCHANGED <<subject, bookVars, attrVars, transferVars, recordVars, accounts>>
    \/ /\ subject = "performance" /\ PerfNext /\ UNCHANGED <<ccxt, cache>>
       /\ UNCHANGED <<subject, bookVars, attrVars, tradeVars, recordVars, accounts>>
    \/ /\ subject = "store" /\ TransferNext /\ CalmDays
       /\ UNCHANGED <<subject, bookVars, attrVars, tradeVars, recordVars, accounts>>
    \/ /\ subject = "invoices" /\ InvoiceStep
       /\ UNCHANGED <<subject, bookVars, attrVars, tradeVars, transferVars, accounts>>
    \/ /\ subject = "documents" /\ DocumentStep
       /\ UNCHANGED <<subject, bookVars, attrVars, tradeVars, transferVars, accounts>>
    \/ /\ subject = "billing" /\ FeeNext
       /\ UNCHANGED <<subject, bookVars, attrVars, tradeVars, transferVars, recordVars>>

ReportsSpec == ReportsInit /\ [][ReportsNext]_vars
=============================================================================
