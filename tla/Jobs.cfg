SPECIFICATION FairSpec
CONSTANTS
    None = None
    Tickers = {1}
    Keys = {"Enter", "Tab", "s", "Flip", "Type", "r", "Quit"}
    Typed = {"blank", "good"}
    World = {"disconnect", "provider", "error"}
INVARIANT NoSecondJob
PROPERTY JobLands
CHECK_DEADLOCK FALSE
