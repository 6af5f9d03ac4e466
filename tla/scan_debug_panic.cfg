\* Fixed array container, debug build: does malformed input panic the scanner?
CONSTANTS
    t1 = t1
    t2 = t2
    Uninit = Uninit
    Types <- MCTypes
    Lens <- MCLensOverflow
    MaxWords <- MCMaxWords
    Tails <- MCTails
    N <- MCN
    InitCaps <- MCInitCaps
    Kinds <- MCKindsArray
    OverflowChecks = TRUE
SPECIFICATION Spec
INVARIANTS
    NoPanic
