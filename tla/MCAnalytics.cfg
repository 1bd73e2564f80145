SPECIFICATION TradingSpec
CONSTANTS
    BTC = BTC
    ETH = ETH
    Symbols = {BTC, ETH}
    Quantities = {1, 2}
    Prices <- SomePrices
    Fees <- SomeFees
    Orders <- SomeOrders
    Trades <- SomeTrades
    Signals <- SomeSignals
    Tiers <- Schedule
    RateUnit = 1260
    FixedRate <- ByTiers
    InitialEquity = 30000
    ReturnStep = 8
    TradesAreStamped = TRUE
    Window = 3
    Horizons = {1, 2}
    MaxSignals = 2
    MaxEvents = 4
INVARIANTS BooksBalance DrawdownsAgree ExportIsInOrder HorizonsMatch AnalysisMatchesLedger OrdersPayTheirPrice
PROPERTY ImplementsAccount
CHECK_DEADLOCK FALSE
