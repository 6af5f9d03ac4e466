\* A DATA value of 65537 bytes encoded into a 16-byte buffer and decoded back.
CONSTANTS
    OverflowChecks = FALSE
    Attrs <- MCAttrsLongData
    Cap = 16
    Junk = 255
    Tid <- MCTid
SPECIFICATION Spec
INVARIANT RoundTrip
