SPECIFICATION Spec
CONSTANT MaxMoves = 4
INVARIANTS
    ReferencesBalance
    SiteOutlivesBrowser
CHECK_DEADLOCK FALSE
