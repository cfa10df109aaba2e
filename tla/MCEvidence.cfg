SPECIFICATION MCSpec
CONSTANTS
    Catalogs <- MCCatalogs
    PerFamily = 1
    Rollouts = 2
    Arms <- MCArms
    Lengths = {1, 2}
    c1 = c1
    c2 = c2
    Procs = {p1}
    Dirs = {d1}
    Sources <- MCSources
    Images = {i1, i2}
    Orders <- MCOrders
    Published = 1
    Cap = 1
    ResearchCap = 2
    LedgerCap = 3
    MaxOther = 1
    MaxEdits = 1
    MaxReceipts = 1
    MaxDocs = 2
INVARIANTS
    CompleteIsTrue
    RefusedForCut
    FittedWhole
    EvaluatedFrozen
    RunsAsFrozen
    AnalysedIsTheRecord
    RefusedForCause
SYMMETRY Symmetry
CHECK_DEADLOCK FALSE
