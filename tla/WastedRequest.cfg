CONSTANTS
    h1 = h1
    h2 = h2
    Tickers <- TwoTickers
    Names <- MCNames
    Upper <- MCUpper
    Handlers <- OneHandler
    Sweeper = Sweeper
    Requests <- RefreshRequests
    Closes = {1}
    Conditions = {"flaky"}
    Delisted = {}
    Eps = 1
    MaxDay = 1
    MaxLedger = 1
    MayCrash = FALSE
    NaN = NaN
    None = None
SPECIFICATION Spec
PROPERTY NoWastedRequest
