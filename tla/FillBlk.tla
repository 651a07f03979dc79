------------------------------ MODULE FillBlk ------------------------------
(***************************************************************************)
(* How helper/replay.c makes the content of a block from the md5 of its     *)
(* record.  An md5 is the sequence of its whole pieces of 32 characters; a  *)
(* piece is <<its first four characters, the others>>.  A worker has one    *)
(* generator context for all its blocks.                                    *)
(***************************************************************************)
EXTENDS Integers, Sequences

CONSTANT BlkSectors     \* sectors in a block: 8

Generators == {"null", "mt19937ar", "rand", "lcg"}

\* The context malloc returns, and the one *_seed_wrapper leaves: for mt19937ar
\* the array made from the seed with mti = N, for the others the seed itself.
Malloced == [seed |-> "", drawn |-> 0]
Seeded(seed) == [seed |-> seed, drawn |-> 0]

\* Mutant: the context is seeded when it is first used only.
SeededOnce(ctx, seed) == IF ctx = Malloced THEN Seeded(seed) ELSE ctx

\* fedseed
FedSeed(ctx, seed) == Seeded(seed)

\* The n-th number drawn from ctx: genrand_int32_r steps through the array, and
\* the other wrappers store each number as the next context, so that it
\* depends on the seed and on how many have been drawn.  One number stands for
\* the 128 of a sector.
Drawn(gen, ctx, n) == <<gen, ctx.seed, ctx.drawn + n>>

PieceSectors(md5) == BlkSectors \div Len(md5)

\* One turn of the loop of fill_blk: n sectors for one piece behind filled.blk.
FillPiece(gen, filled, piece, n) ==
    IF gen = "null"
    THEN [filled EXCEPT !.blk = @ \o [s \in 1 .. n |-> <<gen, piece[1], piece[2]>>]]
    ELSE LET ctx == FedSeed(filled.ctx, piece[1])
         IN  [blk |-> filled.blk \o [s \in 1 .. n |-> Drawn(gen, ctx, s)],
              ctx |-> [ctx EXCEPT !.drawn = @ + n]]

\* The block of an md5 behind filled.blk.
fill_blk(gen, filled, md5) ==
    LET after[i \in 0 .. Len(md5)] ==
            IF i = 0 THEN filled
            ELSE FillPiece(gen, after[i - 1], md5[i], PieceSectors(md5))
    IN  after[Len(md5)]

\* The blocks of records with these md5s, one behind the other, and the context
\* that is left behind them.
Filled(gen, ctx, md5s) ==
    LET after[n \in 0 .. Len(md5s)] ==
            IF n = 0 THEN [blk |-> <<>>, ctx |-> ctx]
            ELSE fill_blk(gen, after[n - 1], md5s[n])
    IN  after[Len(md5s)]

\* What a block of an md5 is: it depends on the generator and on the md5 alone,
\* of which a generator sees the first four characters of each piece.
BlockOf(gen, md5) ==
    [s \in 1 .. BlkSectors |->
        LET piece == md5[((s - 1) \div PieceSectors(md5)) + 1]
        IN  IF gen = "null" THEN <<gen, piece[1], piece[2]>>
            ELSE <<gen, piece[1], ((s - 1) % PieceSectors(md5)) + 1>>]
=============================================================================
