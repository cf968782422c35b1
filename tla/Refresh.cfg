CONSTANTS
    h1 = h1
    h2 = h2
    Tickers <- TwoTickers
    Names <- MCNames
    Upper <- MCUpper
    Handlers <- OneHandler
    Sweeper = Sweeper
    Requests <- RefreshRequests
    Closes = {1}
    Conditions = {"unset", "flaky", "partial", "good"}
    Delisted <- OnlyB
    Eps = 1
    MaxDay = 1
    MaxLedger = 2
    MayCrash = FALSE
    NaN = NaN
    None = None
SPECIFICATION FairSpec
PROPERTIES Answered CacheConverges ClearedStops
