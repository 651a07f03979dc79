\* The planning of every trace in MCInputs under every command line in
\* MCOptions.  It ends with a plan or a fault: there the main thread stops.
SPECIFICATION PlanSpec
CONSTANTS
    Inputs <- MCInputs
    BadLine <- MCBadLine
    Options <- MCOptions
    BlkSectors = 8
INVARIANTS
    PlanTypeOK AssignInBounds Partitioned FairShare InTimeOrder
    HintsTile HintsCoalesce HintsFit
CHECK_DEADLOCK FALSE
