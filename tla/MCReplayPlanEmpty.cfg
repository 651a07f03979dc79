\* The coin leaves a worker without records although there are LBAs enough.
SPECIFICATION PlanSpec
CONSTANTS
    Inputs <- MCInputs
    BadLine <- MCBadLine
    Options <- MCOptions
    BlkSectors = 8
INVARIANT EveryWorkerPlanned
CHECK_DEADLOCK FALSE
