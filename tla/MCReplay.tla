------------------------------ MODULE MCReplay ------------------------------
(* Traces of three records over two neighbouring blocks of two sectors, in     *)
(* and out of the order of time, traces whose blocks overlap and traces with a *)
(* short md5; replayed by one or two workers into new files or into those of   *)
(* an earlier replay.                                                          *)
EXTENDS Replay

MCBadLine == [lba |-> 0, ts |-> 0, rw |-> "none", md5 |-> <<>>]
MCZero == <<"zero", 0>>

\* One block and a half.
MCOldFile(w) == [s \in 1 .. 3 |-> <<"old", s>>]

\* One piece or two; the first of the last one begins as the first record's.
Md5 == << <<<<"a", "x">>>>, <<<<"b", "x">>, <<"a", "y">>>>, <<<<"a", "z">>>> >>

Trace(lbas, rws, times) ==
    [n \in 1 .. 3 |-> [lba |-> lbas[n], ts |-> times[n], rw |-> rws[n], md5 |-> Md5[n]]]

MCInputs ==
    {Trace(lbas, rws, times) :
        lbas \in [1 .. 3 -> {0, 2}], rws \in [1 .. 3 -> {"R", "W"}],
        times \in {<<1, 1, 1>>, <<2, 1, 1>>, <<1, 2, 1>>}}
    \cup {Trace(lbas, rws, <<1, 1, 1>>) :
            lbas \in {<<0, 1, 0>>, <<1, 0, 2>>, <<0, 2, 1>>}, rws \in [1 .. 3 -> {"R", "W"}]}
    \cup {[Trace(<<0, 2, 0>>, rws, <<1, 1, 1>>) EXCEPT ![3].md5 = <<>>] :
            rws \in [1 .. 3 -> {"R", "W"}]}

MCOptions ==
    [threads : {1, 2}, maxblks : {2}, mode : {"rw"}, dump : {TRUE}, leftover : BOOLEAN,
     gen : {"null", "lcg"}]
    \cup [threads : {1, 2}, maxblks : {0, 3}, mode : {"rw", "w", "a"}, dump : {FALSE},
          leftover : {TRUE}, gen : {"mt19937ar"}]
    \cup [threads : {2}, maxblks : {0}, mode : {"w"}, dump : {FALSE},
          leftover : {FALSE}, gen : {"null", "rand"}]
=============================================================================
