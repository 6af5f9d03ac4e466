\* PASSWORD-ALGORITHMS with one algorithm, encoded into a buffer that holds what encoded_len() announces.
CONSTANTS
    OverflowChecks = FALSE
    Attrs <- MCAttrsAlgs
    Cap = 12
    Junk = 255
    Tid <- MCTid
SPECIFICATION Spec
PROPERTY NoPartialWrite
