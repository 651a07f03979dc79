\* Whole replays of every trace in MCInputs under every command line in
\* MCOptions, every schedule of the workers and one failed call anywhere.
SPECIFICATION Spec
CONSTANTS
    Inputs <- MCInputs
    BadLine <- MCBadLine
    Options <- MCOptions
    BlkSectors = 2
    MaxThreads = 2
    Zero <- MCZero
    OldFile <- MCOldFile
INVARIANTS
    ReplayTypeOK ReadsSeeLastWrite LastWriteWins
PROPERTIES
    ImplementsSequential Terminates
