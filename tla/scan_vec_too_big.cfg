\* alloc::vec::Vec container: does a call that fails keep ScanContract?
CONSTANTS
    t1 = t1
    t2 = t2
    Uninit = Uninit
    Types <- MCTypes
    Lens <- MCLens
    MaxWords <- MCMaxWords
    Tails <- MCTails
    N <- MCN
    InitCaps <- MCInitCaps
    Kinds <- MCKindsVec
    OverflowChecks = FALSE
SPECIFICATION Spec
PROPERTIES
    ContractRefinement
