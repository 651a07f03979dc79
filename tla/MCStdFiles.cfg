\* Any number of runs of the four correctness scripts with two parameter sets on
\* two devices, stopped anywhere, on a file system that damages files or not.
SPECIFICATION Spec
CONSTANTS
    Large = Large
    Small = Small
    Params <- MCParams
    Jobs <- MCJobs
    Fits <- MCFits
    Devices = {0, 1}
INVARIANTS
    StdTypeOK StandardRight PassMeansRight VerdictExact
