SPECIFICATION FairSpec
CONSTANTS
    None = None
    Tickers = {1}
    Keys = {"r", "R"}
    Typed = {"blank"}
    World = {"disconnect"}
INVARIANT SlotIsTheJob
CHECK_DEADLOCK FALSE
