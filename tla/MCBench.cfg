\* Measurements in any order, with the faults of the workload: a command or call
\* that fails, an interruption or a restart, anywhere.
SPECIFICATION Spec
CONSTANTS
    master = master
    original = original
    v1 = v1
    v2 = v2
    v3 = v3
    Branches = {master, original}
    SetupVersion <- MCSetupVersion
    StepBlocks = 2
    Hole = Hole
    NoFile = NoFile
    Garbage = Garbage
    Ids = {0, 1, 2, 3}
    Chunks = 2
    Percents = {75, 150}
    FileChunks = 1
    IntBits = 3
    HardShape <- MCHardShape
    Shapes <- MCShapes
    Granularities = {1, 2, 4}
    TestFile <- MCTestFile
    Workloads <- MCWorkloads
INVARIANTS
    AgedVolume WritesNewBlocks SecondRoundDuplicates ShuffledKeepsBlocks MeasuresTheBranch
PROPERTIES
    FirstSetupStays RunsEnd
