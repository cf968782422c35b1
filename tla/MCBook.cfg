\* Every ledger of at most four transactions.
CONSTANTS
    Tickers <- MCTickers
    Prices <- MCPrices
    Lots <- MCLots
    Eps = 1
    MaxLedger = 4
    None = None
SPECIFICATION Spec
INVARIANTS TypeOK ShortBounded ReplayIsSum CostIsCarried AverageWithinPaid HoldingsAgree
