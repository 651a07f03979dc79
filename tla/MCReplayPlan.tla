---------------------------- MODULE MCReplayPlan ----------------------------
(* Traces of up to four records over three neighbouring blocks, with equal    *)
(* and with decreasing time stamps, for one to three workers.                 *)
EXTENDS ReplayPlan

MCBadLine == [lba |-> 0, ts |-> 0, rw |-> "none", md5 |-> <<>>]

Write(lba, ts) == [lba |-> lba, ts |-> ts, rw |-> "W", md5 |-> <<<<"a", "b">>>>]
Read(lba, ts) == [lba |-> lba, ts |-> ts, rw |-> "R", md5 |-> <<<<"a", "b">>>>]

\* Every trace of four writes; every trace of three lines of any kind.
MCInputs ==
    [1 .. 4 -> {Write(lba, ts) : lba \in {0, 8, 16}, ts \in {1, 2}}]
    \cup [1 .. 3 -> {Write(lba, 1) : lba \in {0, 8, 16}}
                        \cup {Read(lba, 1) : lba \in {0, 8}} \cup {MCBadLine}]

MCOptions ==
    [threads : {1, 3}, maxblks : {0, 2}, mode : {"rw"}]
    \cup [threads : {2}, maxblks : {3}, mode : {"w", "rw"}]
=============================================================================
