SPECIFICATION ReportsSpec
CONSTANTS
    Garbage = Garbage
    MaxTape = 3
    Strategies <- PaperStrategies
    Declared <- PaperDeclared
    PartOf <- PaperPartOf
    Legs = {"stake", "perp"}
    CoinOf <- PaperCoins
    VenueOf <- PaperVenues
    PricesOf <- PaperPrices
    MarksOf <- PaperMarks
    Deltas <- PaperDeltas
    Accruals = {1}
    Unit = 60
    Seed = 600
    MaxAttrRows = 2
    MaxMoves = 2
    AttrRows <- BookedRows
    Moves <- BookedMoves
    ManifestOf <- ManifestOfOkx
    NameParts <- PartOfOkx
    MaxRows = 3
    Traders = {"c1", "c2"}
    BillRows <- BillsSeen
    TradeRows <- TradesSeen
    LastTick = 3
    MaxDays = 3
    DaysPerMonth = 2
    Openings = {0, 8}
    Gains <- GainsSeen
    Flows <- FlowsSeen
    MaxBalance = 16
    HwmSeeds = {0, 6, 12}
    Noise = 4
    Prices = {2, 4}
    Failed <- FailedSeen
    Seeded <- SeededInvoices
    Generated = {"new1"}
    Threads = {"r1", "r2"}
    Documents = {"doc1", "doc2"}
    MaxEnvelopes = 2
    MaxRestarts = 1
    Registry <- RegistryOfSix
    Seeds <- SeedsOfSix
    Introductions <- OneIntroduction
    AdminList = {"PR", "ET"}
    PortalList = {"PR", "ET", "SL"}
    ServerCost = 5000
    Amounts = {5}
    MaxEquity = 20
    MaxFlows = 10
    MaxChanged = 2
INVARIANTS
    ViewsAgree
    HedgedCoinIsFlat
    MarkIsRunningPeak
    VerdictIsExact
    AttributionAddsUp
    CoinsExplainTotals
    HoldingIsStockTime
    PerformanceIgnoresCash
    
    FeeViewsAgree
PROPERTIES
    RecordsHold
CHECK_DEADLOCK FALSE
