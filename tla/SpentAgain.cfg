SPECIFICATION FairSpec
CONSTANTS
    None = None
    Tickers = {1}
    Keys = {"r"}
    Typed = {"blank"}
    World = {"sweep"}
PROPERTY SkipsStamped
