SPECIFICATION MCSpec
CONSTANTS
    av = av
    typo = typo
    k1 = k1
    k2 = k2
    empty = empty
    None = None
    Half = Half
    Handlers = {h1, h2}
    Providers <- MCProviders
    Catalog <- MCCatalog
    NeedKey <- MCCatalog
    Keys <- MCKeys
    Empty = empty
    Env <- NoEnv
    Pids = {1, 2}
    MayFail = FALSE
    MayCrash = FALSE
INVARIANT MemoryReflectsRestart
