---------------------------- MODULE AgingSystem ----------------------------
(***************************************************************************)
(* helper/aging_system.c: fill file1, punch holes into it at random, fill   *)
(* as much space again with file2.  aging_amount.sh runs the phases 1, 2    *)
(* and 3 one after the other and stops at the first that fails, which       *)
(* leaves what "-p 4" would.                                                *)
(***************************************************************************)
EXTENDS Volume

CONSTANTS
    Chunks,         \* size / STEP
    Percents        \* hole_percent

ASSUME AgingAssumption == Chunks \in Nat \ {0} /\ Percents \subseteq Nat

VARIABLE aging      \* [pc, percent, chunk: the loop variable i, records, hole_num,
                    \*  clean: the volume was empty and nothing has failed]

NoAging == [pc |-> "none", percent |-> 0, chunk |-> 0, records |-> {}, hole_num |-> 0,
            clean |-> FALSE]

total_4K_blks == Chunks * StepBlocks
Holes(percent) == (total_4K_blks * percent) \div 100
fill_num(percent) == (Chunks * percent) \div 100

StartAging ==
    /\ aging.pc = "none"
    /\ \E percent \in Percents :
        aging' = [NoAging EXCEPT !.pc = "fill", !.percent = percent,
                                 !.clean = (vol = EmptyVolume)]
    /\ UNCHANGED <<vol, faults>>

\* n blocks of a chunk have been written; with less than all of them the write
\* is short or has failed, and the program exits.
Wrote(n) ==
    IF n = StepBlocks
    THEN aging' = [aging EXCEPT !.chunk = @ + 1] /\ UNCHANGED faults
    ELSE aging' = [aging EXCEPT !.pc = "failed"] /\ Fault

ChunkAt(file, v, n) == WriteAt(file, aging.chunk * StepBlocks, SubSeq(Chunk(v), 1, n))

\* Mutant: v starts anew with every chunk.
MagicOfChunk(base) == base * total_4K_blks

\* v at the start of a chunk.
Magic(base) == base * total_4K_blks + aging.chunk * StepBlocks

\* Phase 1.  A file1 that is there is overwritten from its start.
Fill ==
    /\ aging.pc = "fill" /\ aging.chunk < Chunks
    /\ \E n \in 0 .. StepBlocks :
        /\ vol' = [vol EXCEPT !.file1 = ChunkAt(@, Magic(1), n)]
        /\ Wrote(n)

\* Phase 2 opens file1 again, which may fail.
BeginPunching ==
    /\ aging.pc = "fill" /\ aging.chunk = Chunks
    /\ \/ aging' = [aging EXCEPT !.pc = "punch", !.hole_num = Holes(aging.percent)]
          /\ UNCHANGED faults
       \/ aging' = [aging EXCEPT !.pc = "failed"] /\ Fault
    /\ UNCHANGED vol

Punching == aging.pc = "punch" /\ aging.hole_num > 0

\* Mutant: records is not looked at, a block may be punched again.
PunchAny ==
    /\ Punching
    /\ \E pos \in 0 .. total_4K_blks - 1 :
        /\ aging' = [aging EXCEPT !.records = @ \cup {pos}, !.hole_num = @ - 1]
        /\ vol' = [vol EXCEPT !.file1[pos + 1] = Hole]
    /\ UNCHANGED faults

\* Mutant: a fallocate that fails is recorded, but not counted.
PunchCountsHoles ==
    /\ Punching
    /\ \E pos \in (0 .. total_4K_blks - 1) \ aging.records :
        LET drawn == [aging EXCEPT !.records = @ \cup {pos}]
        IN  \/ /\ aging' = [drawn EXCEPT !.hole_num = @ - 1]
               /\ vol' = [vol EXCEPT !.file1[pos + 1] = Hole]
               /\ UNCHANGED faults
            \/ aging' = [drawn EXCEPT !.clean = FALSE] /\ UNCHANGED vol /\ Fault

\* Phase 2: a position that has not been drawn.  A fallocate that fails is
\* reported, and recorded and counted like one that has made a hole.
Punch ==
    /\ Punching
    /\ \E pos \in (0 .. total_4K_blks - 1) \ aging.records :
        LET drawn == [aging EXCEPT !.records = @ \cup {pos}, !.hole_num = @ - 1]
        IN  \/ aging' = drawn /\ vol' = [vol EXCEPT !.file1[pos + 1] = Hole] /\ UNCHANGED faults
            \/ aging' = [drawn EXCEPT !.clean = FALSE] /\ UNCHANGED vol /\ Fault

\* A position that has been drawn before.
DrawAgain == Punching /\ aging.records # {} /\ UNCHANGED <<vol, faults, aging>>

BeginRefilling ==
    /\ aging.pc = "punch" /\ aging.hole_num = 0
    /\ aging' = [aging EXCEPT !.pc = "refill", !.chunk = 0, !.records = {}]
    /\ UNCHANGED <<vol, faults>>

\* Phase 3.
Refill ==
    /\ aging.pc = "refill" /\ aging.chunk < fill_num(aging.percent)
    /\ \E n \in 0 .. StepBlocks :
        /\ vol' = [vol EXCEPT !.file2 = ChunkAt(@, Magic(3), n)]
        /\ Wrote(n)

EndAging ==
    /\ aging.pc = "refill" /\ aging.chunk = fill_num(aging.percent)
    /\ aging' = [aging EXCEPT !.pc = "done"]
    /\ UNCHANGED <<vol, faults>>

AgingProgress == Fill \/ BeginPunching \/ Punch \/ BeginRefilling \/ Refill \/ EndAging

----------------------------------------------------------------------------
(* Properties *)

\* After ageing an empty volume with no failed call, file1 has as many holes as
\* asked for, and file2 takes no more blocks than the holes have freed and
\* leaves less than one chunk of them (aging_system.c:140,168): the two
\* roundings agree, and no position is punched twice.
AgedVolume ==
    aging.pc = "done" /\ aging.clean /\ aging.percent <= 100 =>
        LET holes == Cardinality({p \in DOMAIN vol.file1 : vol.file1[p] = Hole})
        IN  /\ Len(vol.file1) = total_4K_blks
            /\ holes = Holes(aging.percent)
            /\ holes - Len(vol.file2) \in 0 .. StepBlocks - 1

\* No two blocks of the ageing are equal, in whatever state earlier, failed and
\* interrupted runs with other percentages left the files: for the file system
\* under test every one of them is a new block (aging_system.c:103,166).
AgingWritesNewBlocks ==
    /\ \A p, q \in DOMAIN vol.file1 :
        vol.file1[p] = vol.file1[q] /\ vol.file1[p] # Hole => p = q
    /\ \A p, q \in DOMAIN vol.file2 : vol.file2[p] = vol.file2[q] => p = q
    /\ BlocksOf(vol.file1) \cap BlocksOf(vol.file2) = {}

\* All positions are drawn and more holes are asked for: the only endless loop.
Endless == Punching /\ aging.records = 0 .. total_4K_blks - 1
=============================================================================
