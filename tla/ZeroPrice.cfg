\* A book with trades at a price of zero.
CONSTANTS
    Tickers <- MCTickers
    Prices = {0, 2}
    Lots <- MCLots
    Eps = 1
    MaxLedger = 2
    None = None
SPECIFICATION Spec
INVARIANT GainsAgree
