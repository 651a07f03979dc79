------------------------------- MODULE Volume -------------------------------
(***************************************************************************)
(* What the measuring programs write below /mnt/pmem0, and the calls and    *)
(* commands that go wrong.  A file is the sequence of its blocks of one     *)
(* page; a block is the number it is filled with.                           *)
(***************************************************************************)
EXTENDS Integers, Sequences, FiniteSets

CONSTANTS
    StepBlocks,     \* STEP / PAGE_SIZE: blocks a program writes with one call
    Hole,           \* a punched block
    NoFile,
    Ids             \* the arguments of write_1G

ASSUME VolumeAssumption ==
    /\ StepBlocks \in Nat \ {0}
    /\ Hole \notin Int         \* no program fills a block with it
    /\ NoFile \notin Seq(Int)
    /\ Ids \subseteq Nat

VARIABLES
    vol,            \* the files: [file1, file2, test, old, dir0, src, shuffled]
    faults          \* how many calls and commands may still fail or be interrupted

EmptyVolume ==
    [file1 |-> <<>>, file2 |-> <<>>,
     test |-> [id \in Ids |-> NoFile],      \* test<id>
     old |-> [id \in Ids |-> NoFile],       \* 0/test<id>
     dir0 |-> FALSE,                        \* the directory 0
     src |-> NoFile, shuffled |-> NoFile]   \* test and test-shuffled

Fault == faults > 0 /\ faults' = faults - 1

\* fill_page of StepBlocks pages, from the number v on.
Chunk(v) == [n \in 1 .. StepBlocks |-> v + n - 1]

WriteAt(file, ofs, data) ==
    [p \in 1 .. (IF Len(file) > ofs + Len(data) THEN Len(file) ELSE ofs + Len(data)) |->
        IF p \in ofs + 1 .. ofs + Len(data) THEN data[p - ofs] ELSE file[p]]

BlocksOf(file) == IF file = NoFile THEN {} ELSE {file[p] : p \in DOMAIN file} \ {Hole}
=============================================================================
