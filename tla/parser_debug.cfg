\* from_complete_message and from_header_and_attrs over a fixed array and a
\* heapless::Vec, debug build, with headers declaring length 0x8000.
CONSTANTS
    t1 = t1
    t2 = t2
    tid1 = tid1
    Uninit = Uninit
    Types <- MCTypes
    Lens <- MCLensDebug
    MaxWords <- MCMaxWords
    Tails <- MCTails
    N <- MCN
    InitCaps <- MCInitCaps
    Kinds <- MCKindsDebug
    OverflowChecks = TRUE
    MsgTypes <- MCMsgTypes
    LenFields <- MCLenFields
    Cookies <- MCCookies
    Tids <- MCTids
    NewHeaders <- MCNewHeaders
SPECIFICATION Spec
INVARIANTS
    TypeOK
    UncheckedSlicesInBounds
    ValidationLengthCoversItem
    ValidationHeaderMatchesWire
    ParsedMessageConsumesAll
    HeaderRoundTrip
    DecodeFollowsRfcLayout
\* The two type codepoints are interchangeable model values.
SYMMETRY TypeSymmetry
\* A panic (padding of 0x8000 with overflow checks on) ends the program,
\* so a behaviour may stop there.
CHECK_DEADLOCK FALSE
