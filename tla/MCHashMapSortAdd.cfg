\* Entries may be added to a sorted map.
SPECIFICATION Spec
CONSTANTS
    Keys = {0, 1, 2, 4}
    NULL = NULL
    IntBits = 4
    AddsAfterSort = TRUE
INVARIANTS EveryBucketListed
