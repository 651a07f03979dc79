\* A cancelled thread that has not started yet outlives its parameters.
SPECIFICATION Spec
CONSTANTS
    Options <- MCManyWriters
    MaxTasks = 4
    Words = 2
INVARIANT NoStaleParams
