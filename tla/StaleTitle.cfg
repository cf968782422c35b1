CONSTANTS
    h1 = h1
    h2 = h2
    Tickers <- TwoTickers
    Names <- MCNames
    Upper <- MCUpper
    Handlers <- OneHandler
    Sweeper = Sweeper
    Requests <- LookupRequests
    Closes = {1}
    Conditions = {"flaky"}
    Delisted = {}
    Eps = 1
    MaxDay = 1
    MaxLedger = 1
    MayCrash = FALSE
    NaN = NaN
    None = None
SPECIFICATION Spec
INVARIANT TitleTellsStale
