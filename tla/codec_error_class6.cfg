\* ERROR-CODE 600, which ErrorCode::new accepts, encoded and decoded back.
CONSTANTS
    OverflowChecks = FALSE
    Attrs <- MCAttrsClass6
    Cap = 8
    Junk = 255
    Tid <- MCTid
SPECIFICATION Spec
INVARIANT RoundTrip
