CONSTANTS
    t1 = t1
    t2 = t2
    tid1 = tid1
    Uninit = Uninit
    Types <- MCTypes
    Lens <- MCLens
    MaxWords <- MCMaxWords
    Tails <- MCTails
    N <- MCN
    InitCaps <- MCInitCaps
    Kinds <- MCKinds
    OverflowChecks = FALSE
    MsgTypes <- MCMsgTypes
    LenFields <- MCLenFields
    Cookies <- MCCookies
    Tids <- MCTids
    NewHeaders <- MCNewHeadersOdd

SPECIFICATION Spec

INVARIANT
    ParsedMessageConsumesAll
