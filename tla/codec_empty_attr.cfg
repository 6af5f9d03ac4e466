\* An empty attribute (DONT-FRAGMENT) encoded and decoded back.
CONSTANTS
    OverflowChecks = FALSE
    Attrs <- MCAttrsEmpty
    Cap = 8
    Junk = 255
    Tid <- MCTid
SPECIFICATION Spec
INVARIANT RoundTrip
