SPECIFICATION Spec
CONSTANTS
    None = None
    t1 = t1
    t2 = t2
    Tickers = {t1, t2}
    Keys = {"Quit", "Esc", "Enter", "Up", "Down", "Tab", "BackTab", "1", "2", "3", "4", "r", "R"}
    Typed = {"blank"}
    World = {"trade", "sweep", "midnight"}
SYMMETRY Symbols
INVARIANTS TypeOK SelectionShown DetailMatches
CHECK_DEADLOCK FALSE
