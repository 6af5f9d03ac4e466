\* All three containers, debug build, a header declaring 0x8000 among the
\* inputs: what every call that returns hands back, and that it returns.
CONSTANTS
    t1 = t1
    t2 = t2
    Uninit = Uninit
    Types <- MCTypes
    Lens <- MCLensOverflow
    MaxWords <- MCMaxWords
    Tails <- MCTails
    N <- MCN
    InitCaps <- MCInitCaps
    Kinds <- MCKindsAll
    OverflowChecks = TRUE
SPECIFICATION Spec
INVARIANTS
    TypeOK
    RecordsInBounds
    OutcomeAsContract
PROPERTIES
    ParseReturns
\* A panic (padding of 0x8000 with overflow checks on) ends the program,
\* so a behaviour may stop there.
CHECK_DEADLOCK FALSE
