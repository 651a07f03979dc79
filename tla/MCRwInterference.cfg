\* Both stages with up to three threads.  A block has two words, so that a write
\* is whole, short by a word, or fails.
SPECIFICATION Spec
CONSTANTS
    Options <- MCOptions
    MaxTasks = 3
    Words = 2
INVARIANTS
    RwTypeOK DupsAndOnlyDups TargetsFinished
PROPERTIES
    ReportIsCurrent Ends
