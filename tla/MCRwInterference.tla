-------------------------- MODULE MCRwInterference --------------------------
(* Up to three threads of both classes, shares that do not divide evenly, and *)
(* the command lines without readers, writers or any thread.                  *)
EXTENDS RwInterference

Line(r, w, t, o, s) == [readers |-> r, writers |-> w, total |-> t, object |-> o, stage |-> s]

\* Two threads at most in all stages; three in the second one alone.
MCOptions ==
    {Line(r, w, 4, o, s) : r \in 0 .. 1, w \in 0 .. 1,
        o \in {"read", "write", "other"}, s \in {"all", "prepare", "run"}}
    \cup {Line(n, 2 - n, 3, o, "all") : n \in {0, 2}, o \in {"read", "write"}}
    \cup {Line(n, 3 - n, 4, o, "run") : n \in {1, 2}, o \in {"read", "write"}}

\* One reader has a third of the blocks, three writers share the rest.
MCManyWriters == {Line(1, 3, 6, "read", "run")}
=============================================================================
