\* Back-to-back encoding of one value of each kind, plus the RFC 5769 IPv6
\* address and a 20-byte MESSAGE-INTEGRITY, into 24 bytes, then the parse of
\* the message the caller builds from them.
CONSTANTS
    OverflowChecks = FALSE
    Attrs <- MCAttrsAll
    Cap = 24
    Junk = 255
    Tid <- MCTid
    Kinds <- MCKinds
    N <- MCN
    InitCaps <- MCInitCaps
    Uninit = Uninit
    MsgClass = "Request"
    MsgMethod = 1
SPECIFICATION Spec
INVARIANTS TypeOK RoundTrip EncodedLenIsSpaceUsed Rfc5769XorVectors RetryAdvice IterDecodesSent
PROPERTY NoPartialWrite
\* One parse ends the exchange: the caller has sent its message.
CHECK_DEADLOCK FALSE
