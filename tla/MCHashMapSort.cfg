\* Five entries in every order; LBA differences of 4 and more change sign when
\* truncated to three bits.
SPECIFICATION Spec
CONSTANTS
    Keys = {0, 1, 2, 4, 6}
    NULL = NULL
    IntBits = 3
    AddsAfterSort = FALSE
INVARIANTS TypeOK EveryBucketListed
PROPERTIES ContentsKept SortReturns
