\* The class that is not measured finishes first.
SPECIFICATION Spec
CONSTANTS
    Options <- MCManyWriters
    MaxTasks = 4
    Words = 2
INVARIANT OtherClassUnfinished
