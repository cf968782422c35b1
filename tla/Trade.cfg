CONSTANTS
    h1 = h1
    h2 = h2
    Tickers <- OneTicker
    Names <- MCNames
    Upper <- MCUpper
    Handlers <- TwoHandlers
    Sweeper = Sweeper
    Requests <- TradeRequests
    Closes = {1}
    Conditions = {"unset", "flaky"}
    Delisted = {}
    Eps = 1
    MaxDay = 0
    MaxLedger = 3
    MayCrash = TRUE
    NaN = NaN
    None = None
SYMMETRY Symmetric
SPECIFICATION Spec
INVARIANTS TypeOK LedgerPriced AnswersHaveData ShortBounded
PROPERTY ImplementsBook
