------------------------------- MODULE Files -------------------------------
(***************************************************************************)
(* The files a replay reads and writes, as the calls of replay_worker leave *)
(* them.  A file is the sequence of its 512-byte sectors; offsets count     *)
(* sectors.                                                                 *)
(***************************************************************************)
EXTENDS Integers, Sequences

CONSTANT Zero           \* a sector of zeros

\* pwrite of `data` at offset ofs; a hole it leaves reads as zeros.
pwrite(file, ofs, data) ==
    LET end == ofs + Len(data)
    IN  [p \in 1 .. (IF Len(file) > end THEN Len(file) ELSE end) |->
            IF p > ofs /\ p <= end THEN data[p - ofs]
            ELSE IF p <= Len(file) THEN file[p] ELSE Zero]

\* The n sectors at ofs, those behind the end of the file as zeros.
Padded(file, ofs, n) ==
    [p \in 1 .. n |-> IF ofs + p <= Len(file) THEN file[ofs + p] ELSE Zero]
=============================================================================
