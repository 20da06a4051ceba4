SPECIFICATION BookSpec
CONSTANTS
    MaxTape = 2
    Strategies = {"carry"}
    Declared = {"carry"}
    PartOf = {}
    Legs = {"stake", "perp"}
    CoinOf <- PaperCoins
    VenueOf <- PaperVenues
    PricesOf <- PaperPrices
    MarksOf <- PaperMarks
    Deltas <- PaperDeltas
    Accruals = {1}
    Unit = 60
    Seed = 600
INVARIANT DeterministicMeansSamePnl
