------------------------------ MODULE MCBench ------------------------------
(* Two branches with different set-up scripts in one repository and with the   *)
(* same one in the other; volumes of four blocks; four files of write_1G.      *)
EXTENDS Bench

CONSTANTS master, original, v1, v2, v3

MCSetupVersion ==
    [r \in {"Light-Dedup", "nv-dedup"} |->
        [b \in {master, original} |-> IF r = "nv-dedup" THEN v3
                                      ELSE IF b = master THEN v1 ELSE v2]]
MCHardShape == [threads |-> 1, size |-> 4]
MCShapes == {[threads |-> 2, size |-> 2]}
MCWorkloads ==
    {[names |-> {"setup_nova", "setup_nvdedup", "aging_amount"}, faults |-> 2],
     [names |-> {"setup_nova", "aging_amount", "aging_system"}, faults |-> 2],
     [names |-> {"read_effects", "shuffle_and_write"}, faults |-> 2],
     [names |-> {"setup_nova", "percore"}, faults |-> 1],
     [names |-> {"read_effects", "percore"}, faults |-> 1]}
MCTestFile == <<"x", "y", "z">>
=============================================================================
