------------------------------ MODULE Percore ------------------------------
(***************************************************************************)
(* percore_amount.sh and percore_amount_simple_random.sh: batches of        *)
(* helper/write_1G processes write files of new blocks, the files are moved *)
(* away, and a second round, which takes the files in another order, writes *)
(* the same blocks again.  `wait` does not tell how the processes ended.    *)
(***************************************************************************)
EXTENDS Volume

CONSTANTS
    FileChunks,     \* SIZE / STEP
    IntBits,        \* width of an int: 32
    HardShape,      \* the [threads, size] of the first round of percore_amount.sh: 16, 8
    Shapes          \* the [threads, size] on the command line

ASSUME PercoreAssumption ==
    /\ FileChunks \in Nat \ {0} /\ IntBits \in Nat \ {0}
    /\ Shapes \cup {HardShape} \subseteq [threads : Nat \ {0}, size : Nat \ {0}]

VARIABLES
    percore,        \* [pc, first, second: the shapes of the rounds, round, batch: i,
                    \*  clean: there were no files test<id> and nothing has failed]
    writer          \* writer[id]: "none" | "open" | "write" | "ended"

NoPercore == [pc |-> "none", first |-> HardShape, second |-> HardShape, round |-> 1,
              batch |-> 0, clean |-> FALSE]
NoWriters == [id \in Ids |-> "none"]

FileBlocks == FileChunks * StepBlocks
FilesOf(shape) == 0 .. shape.threads * shape.size - 1

\* There is a file for every process, and together they have no more than
\* 2^IntBits blocks: with 32 bits, 16384 files of 2^18 blocks.
ASSUME RoundFitsAssumption ==
    /\ \A shape \in Shapes \cup {HardShape} : FilesOf(shape) \subseteq Ids
    /\ \A a, b \in Ids : (a - b) * FileBlocks + FileBlocks <= 2 ^ IntBits

Wrap(x) == ((x + 2 ^ (IntBits - 1)) % 2 ^ IntBits) - 2 ^ (IntBits - 1)

\* The product of two ints; a negative one stands for the 64-bit number it
\* becomes in v.
FirstBlock(id) == Wrap(id * FileBlocks)

\* Mutant: the batches of the second round overlap.
BatchOverlapping ==
    LET i == percore.batch
    IN  IF percore.round = 1
        THEN {i * percore.first.threads + j : j \in 0 .. percore.first.threads - 1}
        ELSE {j + i : j \in 0 .. percore.second.threads - 1}

\* The files of a batch: i * threads + j, and j * size + i.
Batch ==
    LET i == percore.batch
    IN  IF percore.round = 1
        THEN {i * percore.first.threads + j : j \in 0 .. percore.first.threads - 1}
        ELSE {j * percore.second.size + i : j \in 0 .. percore.second.threads - 1}

Batches == IF percore.round = 1 THEN percore.first.size ELSE percore.second.size

StartPercore ==
    /\ percore.pc = "none"
    /\ \E shape \in Shapes, first \in {TRUE, FALSE} :
        percore' = [NoPercore EXCEPT
            !.pc = "spawn", !.second = shape,
            !.first = IF first THEN HardShape ELSE shape,
            !.clean = (vol.test = EmptyVolume.test)]
    /\ UNCHANGED <<vol, faults, writer>>

Spawn ==
    /\ percore.pc = "spawn" /\ percore.batch < Batches
    /\ writer' = [id \in Ids |-> IF id \in Batch THEN "open" ELSE "none"]
    /\ percore' = [percore EXCEPT !.pc = "wait"]
    /\ UNCHANGED <<vol, faults>>

\* write_1G refuses to write to a file that is there.
Open(id) ==
    /\ writer[id] = "open"
    /\ IF vol.test[id] # NoFile
       THEN writer' = [writer EXCEPT ![id] = "ended"] /\ UNCHANGED vol
       ELSE /\ writer' = [writer EXCEPT ![id] = "write"]
            /\ vol' = [vol EXCEPT !.test[id] = <<>>]
    /\ UNCHANGED <<faults, percore>>

Written(id) == Len(vol.test[id])
NextChunk(id) == Chunk(FirstBlock(id) + Written(id))

\* A chunk is written, or a part of it or nothing and the process ends.
WriteChunk(id) ==
    /\ writer[id] = "write" /\ Written(id) < FileBlocks
    /\ \E n \in 0 .. StepBlocks :
        /\ vol' = [vol EXCEPT !.test[id] = @ \o SubSeq(NextChunk(id), 1, n)]
        /\ IF n = StepBlocks THEN UNCHANGED <<faults, percore, writer>>
           ELSE /\ writer' = [writer EXCEPT ![id] = "ended"]
                /\ percore' = [percore EXCEPT !.clean = FALSE]
                /\ Fault

EndWriter(id) ==
    /\ writer[id] = "write" /\ Written(id) = FileBlocks
    /\ writer' = [writer EXCEPT ![id] = "ended"]
    /\ UNCHANGED <<vol, faults, percore>>

Wait ==
    /\ percore.pc = "wait"
    /\ \A id \in Ids : writer[id] \in {"none", "ended"}
    /\ writer' = NoWriters
    /\ percore' = [percore EXCEPT !.pc = "spawn", !.batch = @ + 1]
    /\ UNCHANGED <<vol, faults>>

AnyTest == vol.test # EmptyVolume.test \/ vol.src # NoFile \/ vol.shuffled # NoFile
RoundOver == percore.pc = "spawn" /\ percore.batch = Batches

\* mkdir 0; mv test* 0/, where test and test-shuffled go as well.
MoveTests ==
    /\ RoundOver /\ percore.round = 1
    /\ vol' = IF vol.dir0 \/ ~AnyTest THEN [vol EXCEPT !.dir0 = TRUE]
              ELSE [vol EXCEPT !.dir0 = TRUE, !.old = vol.test, !.test = EmptyVolume.test,
                               !.src = NoFile, !.shuffled = NoFile]
    /\ percore' = IF vol.dir0 \/ ~AnyTest THEN [percore EXCEPT !.pc = "failed"]
                  ELSE [percore EXCEPT !.round = 2, !.batch = 0]
    /\ UNCHANGED <<faults, writer>>

EndPercore ==
    /\ RoundOver /\ percore.round = 2
    /\ percore' = [percore EXCEPT !.pc = "done"]
    /\ UNCHANGED <<vol, faults, writer>>

PercoreProgress == Spawn \/ Wait \/ MoveTests \/ EndPercore
WriterProgress(id) == Open(id) \/ WriteChunk(id) \/ EndWriter(id)

----------------------------------------------------------------------------
(* Properties *)

\* No two blocks of the files of a round are equal, whichever processes wrote
\* or failed in it, although the product of write_1G.c:56 overflows an int:
\* below 2^IntBits blocks it takes every value once.
RoundWritesNewBlocks ==
    \A a, b \in Ids :
        /\ a # b => BlocksOf(vol.test[a]) \cap BlocksOf(vol.test[b]) = {}
        /\ vol.test[a] # NoFile => Cardinality(BlocksOf(vol.test[a])) = Len(vol.test[a])

\* If there were no files before and no process failed, the second round writes
\* each file of its size once and nothing but blocks that the first round has
\* written (percore_amount.sh:37-43), in spite of its other order.
SecondRoundDuplicates ==
    /\ percore.clean /\ percore.round = 2
    /\ FilesOf(percore.second) \subseteq FilesOf(percore.first)
    => /\ \A id \in Ids : BlocksOf(vol.test[id]) \subseteq BlocksOf(vol.old[id])
       /\ percore.pc = "done" =>
            \A id \in FilesOf(percore.second) : vol.test[id] = vol.old[id]
=============================================================================
