--------------------------- MODULE AbstractReplay ---------------------------
(***************************************************************************)
(* What a replay of a trace promises: the records are divided among the     *)
(* workers, all records of an LBA to the same one, and each worker performs *)
(* its records one after the other in order of time on a file of its own.   *)
(* Containers, hints, buffers, partial reads and threads are not visible.   *)
(***************************************************************************)
EXTENDS Files, FillBlk

CONSTANT MaxThreads

VARIABLES
    trace,      \* the records to replay
    options,    \* [append: every write goes to the end of the file,
                \*  dump: what the reads return is kept, gen: the random generator]
    planned,    \* whether the records have been divided
    order,      \* order[w]: the records of worker w, in the order of execution
    done,       \* done[w]: how many of them have been performed
    file,       \* file[w]: the file of worker w
    dump,       \* dump[w]: what its reads returned
    stopped     \* the program has given up after a failed call

vars == <<trace, options, planned, order, done, file, dump, stopped>>

AllWorkers == 0 .. MaxThreads - 1

\* Record m is before record n in the trace's order of time.
Before(m, n) == trace[m].ts < trace[n].ts \/ (trace[m].ts = trace[n].ts /\ m < n)

GoodOrder(o) ==
    /\ \A n \in DOMAIN trace : \E w \in AllWorkers : \E p \in DOMAIN o[w] : o[w][p] = n
    /\ \A v, w \in AllWorkers : \A p \in DOMAIN o[v], q \in DOMAIN o[w] :
        trace[o[v][p]].lba = trace[o[w][q]].lba =>
            /\ v = w
            /\ p < q => Before(o[v][p], o[w][q])
    /\ \A w \in AllWorkers : \A p, q \in DOMAIN o[w] :
        p < q => trace[o[w][p]].ts <= trace[o[w][q]].ts

\* The records from `from` to `to` of worker w, performed one by one.
Performed(w, from, to) ==
    LET after[n \in from - 1 .. to] ==
            IF n = from - 1 THEN [file |-> file[w], dump |-> dump[w]]
            ELSE LET r == trace[order[w][n]]
                     old == after[n - 1]
                 IN  IF r.rw = "R"
                     THEN [old EXCEPT !.dump =
                              IF options.dump THEN @ \o Padded(old.file, r.lba, BlkSectors)
                              ELSE @]
                     ELSE [old EXCEPT !.file =
                              pwrite(@, IF options.append THEN Len(@) ELSE r.lba, BlockOf(options.gen, r.md5))]
    IN  after[to]

Plan ==
    /\ ~planned /\ ~stopped
    /\ planned' = TRUE
    /\ GoodOrder(order')
    /\ UNCHANGED <<trace, options, done, file, dump, stopped>>

\* A worker performs its next records.
Perform(w) ==
    /\ planned /\ ~stopped
    /\ \E n \in done[w] + 1 .. Len(order[w]) :
        LET after == Performed(w, done[w] + 1, n)
        IN  /\ done' = [done EXCEPT ![w] = n]
            /\ file' = [file EXCEPT ![w] = after.file]
            /\ dump' = [dump EXCEPT ![w] = after.dump]
    /\ UNCHANGED <<trace, options, planned, order, stopped>>

\* A call of worker w fails: at most its own file has changed.
GiveUp(w) ==
    /\ planned /\ ~stopped
    /\ stopped' = TRUE
    /\ \A v \in AllWorkers \ {w} : file'[v] = file[v]
    /\ UNCHANGED <<trace, options, planned, order, done, dump>>

Init ==
    /\ ~planned /\ ~stopped
    /\ order = [w \in AllWorkers |-> <<>>]
    /\ done = [w \in AllWorkers |-> 0]
    /\ dump = [w \in AllWorkers |-> <<>>]

Next == Plan \/ \E w \in AllWorkers : Perform(w) \/ GiveUp(w)

Spec == Init /\ [][Next]_vars
=============================================================================
