CONSTANTS
    h1 = h1
    h2 = h2
    Tickers <- OneTicker
    Names <- MCNames
    Upper <- MCUpper
    Handlers <- TwoHandlers
    Sweeper = Sweeper
    Requests <- TradeRequests
    Closes = {1, 2}
    Conditions = {"flaky"}
    Delisted = {}
    Eps = 1
    MaxDay = 0
    MaxLedger = 3
    MayCrash = FALSE
    NaN = NaN
    None = None
SPECIFICATION Spec
PROPERTY BuyAtLatestClose
