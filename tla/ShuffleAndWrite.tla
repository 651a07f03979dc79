-------------------------- MODULE ShuffleAndWrite --------------------------
(***************************************************************************)
(* helper/shuffle_and_write.cpp: read a file into memory block by block and *)
(* write the blocks in another order to <file>-shuffled.  The results of    *)
(* its reads and writes are not looked at.                                  *)
(***************************************************************************)
EXTENDS Volume

CONSTANTS
    Granularities,  \* granularity, in units of the file
    Garbage         \* a unit of memory that no read has filled

ASSUME ShuffleAssumption == Granularities \subseteq Nat \ {0}

VARIABLE shuffle    \* [pc, g: granularity, map, i, pos: of fd, buf, clean: no failed call]

NoShuffle == [pc |-> "none", g |-> 1, map |-> <<>>, i |-> 0, pos |-> 0, buf |-> <<>>,
              clean |-> FALSE]

num_blocks(size, g) == IF size \div g = 0 THEN 1 ELSE size \div g

\* Mutant: map is only zeroed.
Unfilled(n) == {[k \in 0 .. n - 1 |-> 0]}

\* What random_shuffle makes of the identity on 0 .. n - 1.
Shuffles(n) == {m \in [0 .. n - 1 -> 0 .. n - 1] : \A j, k \in 0 .. n - 1 : m[j] = m[k] => j = k}

StartShuffle ==
    /\ shuffle.pc = "none" /\ vol.src # NoFile
    /\ \E g \in Granularities : \E map \in Shuffles(num_blocks(Len(vol.src), g)) :
        shuffle' = [NoShuffle EXCEPT !.pc = "read", !.g = g, !.map = map, !.clean = TRUE]
    /\ vol' = [vol EXCEPT !.shuffled = <<>>]
    /\ UNCHANGED faults

Blocks == Cardinality(DOMAIN shuffle.map)

\* A read gets what is left of the file up to a block, or fails or is cut short.
Read ==
    /\ shuffle.pc = "read" /\ shuffle.i < Blocks
    /\ LET left == Len(vol.src) - shuffle.pos
           full == IF left < shuffle.g THEN left ELSE shuffle.g
       IN  \E n \in 0 .. full :
            /\ shuffle' = [shuffle EXCEPT
                    !.i = @ + 1, !.pos = @ + n,
                    !.buf = @ \o [k \in 1 .. shuffle.g |->
                                    IF k <= n THEN vol.src[shuffle.pos + k] ELSE Garbage],
                    !.clean = (@ /\ n = full)]
            /\ IF n = full THEN UNCHANGED faults ELSE Fault
    /\ UNCHANGED vol

BeginWriting ==
    /\ shuffle.pc = "read" /\ shuffle.i = Blocks
    /\ shuffle' = [shuffle EXCEPT !.pc = "write", !.i = 0]
    /\ UNCHANGED <<vol, faults>>

Write ==
    /\ shuffle.pc = "write" /\ shuffle.i < Blocks
    /\ LET from == shuffle.map[shuffle.i] * shuffle.g
       IN  \E n \in 0 .. shuffle.g :
            /\ vol' = [vol EXCEPT !.shuffled = @ \o SubSeq(shuffle.buf, from + 1, from + n)]
            /\ shuffle' = [shuffle EXCEPT !.i = @ + 1, !.clean = (@ /\ n = shuffle.g)]
            /\ IF n = shuffle.g THEN UNCHANGED faults ELSE Fault

EndShuffle ==
    /\ shuffle.pc = "write" /\ shuffle.i = Blocks
    /\ shuffle' = [shuffle EXCEPT !.pc = "done"]
    /\ UNCHANGED <<vol, faults>>

ShuffleProgress == Read \/ BeginWriting \/ Write \/ EndShuffle

----------------------------------------------------------------------------
(* Properties *)

BlockSet(file, g) == {SubSeq(file, g * k + 1, g * k + g) : k \in 0 .. (Len(file) \div g) - 1}

\* If no call failed, the new file has the length and the set of blocks of the
\* file, so that each is there once if no two are equal; only where the file is
\* smaller than a block is it padded with what was in memory, and where its size
\* is no multiple of a block the tail is lost (shuffle_and_write.cpp:69,97-99).
ShuffledKeepsBlocks ==
    shuffle.pc = "done" /\ shuffle.clean =>
        LET g == shuffle.g
        IN  /\ Len(vol.shuffled) = g * num_blocks(Len(vol.src), g)
            /\ IF g <= Len(vol.src) THEN BlockSet(vol.shuffled, g) = BlockSet(vol.src, g)
               ELSE SubSeq(vol.shuffled, 1, Len(vol.src)) = vol.src
=============================================================================
