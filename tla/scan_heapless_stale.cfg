\* heapless::Vec container: what it holds after a failed parse.
CONSTANTS
    t1 = t1
    t2 = t2
    Uninit = Uninit
    Types <- MCTypes
    Lens <- MCLens
    MaxWords <- MCMaxWords
    Tails <- MCTails
    N <- MCN
    InitCaps <- MCInitCaps
    Kinds <- MCKindsHeapless
    OverflowChecks = FALSE
SPECIFICATION Spec
INVARIANTS
    ViewIsPrefixOfScan
