----------------------------- MODULE MCStdFiles -----------------------------
(* Two parameter sets: one that goes through the device, of two files, and    *)
(* one that is written straight into the standard directory; two devices.     *)
EXTENDS StdFiles

CONSTANTS Large, Small

MCParams == {Large, Small}
MCJobs == [p \in MCParams |-> IF p = Large THEN 2 ELSE 1]
MCFits == [p \in MCParams |-> p = Large]
=============================================================================
