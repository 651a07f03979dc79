\* Up to three entries, LBA differences well inside an int; two are enough.
SPECIFICATION Spec
CONSTANTS
    Keys = {0, 1, 2}
    NULL = NULL
    IntBits = 3
    AddsAfterSort = FALSE
INVARIANTS SortedByLba
