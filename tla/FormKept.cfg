SPECIFICATION FairSpec
CONSTANTS
    None = None
    Tickers = {1}
    Keys = {"b", "Type", "Enter"}
    Typed = {"blank", "good"}
    World = {}
INVARIANT ClearedMeanwhile
