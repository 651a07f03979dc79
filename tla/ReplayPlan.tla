----------------------------- MODULE ReplayPlan -----------------------------
(***************************************************************************)
(* What the main thread of helper/replay.c does before it starts a worker:  *)
(* parse the trace, gather the records of each LBA into a container, deal   *)
(* the containers out to the workers, sort each worker's records by time    *)
(* and coalesce neighbours into hints.                                      *)
(*                                                                          *)
(* A record is named by its index in `infos`.  Arrays are sequences: C      *)
(* index n is position n + 1.  The map is used through hashmap_get,         *)
(* hashmap_set (the ordered dictionary of OrderedDict) and hashmap_sort,    *)
(* which keeps every entry and, as HashMapSort shows, promises no order.    *)
(***************************************************************************)
EXTENDS Integers, Sequences, FiniteSets

CONSTANTS
    Inputs,         \* the trace files: sequences of records and BadLine
    BadLine,        \* a line that sscanf does not match
    Options,        \* the command lines: [threads, maxblks, mode]
    BlkSectors      \* sectors in a block; 8, the LBA step of neighbours

\* An md5 is a sequence of pieces, as FillBlk describes them.
Records == [lba : Nat, ts : Nat, rw : {"R", "W"}, md5 : Seq(Seq(STRING))]

ASSUME InputsAssumption == Inputs \subseteq Seq(Records \cup {BadLine})

ASSUME OptionsAssumption ==
    \A o \in Options :
        /\ o.threads \in Nat \ {0}
        /\ o.maxblks \in Nat  \* max_continuous_4K_blks
        /\ o.mode \in {"w", "rw", "a"}

ASSUME BlkSectorsAssumption == BlkSectors \in Nat \ {0}

VARIABLES
    phase,          \* "parse" | "build" | "sort" | "assign" | "extract" | "scan"
                    \*  | "ready" | "fault"
    opt,            \* the options in force
    lines,          \* the lines of the trace file not read yet
    infos,          \* the records kept by the parser
    next_info,      \* the next record build_trace_containers looks at
    containers,     \* the map, in list order: [lba, infos_map]; from "assign" on,
                    \* what foreach_hashmap_bucket has still to visit
    cur_thread,     \* the worker that containers are being assigned to
    cur_lines,      \* cur_thread_lines
    infos_map,      \* infos_map[w]: the records of worker w
    worker,         \* the worker whose hints are being extracted
    scan,           \* j, consecutive_start and _max_continuous_4K_blks
    hints,          \* the hints of all workers, in one array
    params          \* params[w]: hints_start, hints_end and the size of buf in blocks

planVars == <<phase, opt, lines, infos, next_info, containers, cur_thread,
              cur_lines, infos_map, worker, scan, hints, params>>

Workers == 0 .. opt.threads - 1
valid_lines == Len(infos)
per_thread_lines == valid_lines \div opt.threads
NoScan == [j |-> 0, start |-> 0, max |-> 0]

----------------------------------------------------------------------------
PlanInit ==
    /\ phase = "parse"
    /\ opt \in Options
    /\ lines \in Inputs
    /\ infos = <<>>
    /\ next_info = 1
    /\ containers = <<>>
    /\ cur_thread = 0
    /\ cur_lines = 0
    /\ infos_map = [w \in Workers |-> <<>>]
    /\ worker = 0
    /\ scan = NoScan
    /\ hints = <<>>
    /\ params = [w \in Workers |-> [start |-> 0, end |-> 0, buf |-> 0]]

\* Mutant: a slot is used up by a line that sscanf did not match.
KeptUnparsed(line) == line = BadLine \/ opt.mode = "rw" \/ line.rw = "W"

\* The write-only modes keep the writes of a trace.
Kept(line) ==
    /\ line # BadLine
    /\ opt.mode = "rw" \/ line.rw = "W"

\* One line of the second pass of parse_trace_info over the file.
parse_trace_info ==
    /\ phase = "parse"
    /\ \/ /\ lines # <<>>
          /\ infos' = IF Kept(Head(lines)) THEN Append(infos, Head(lines)) ELSE infos
          /\ lines' = Tail(lines)
          /\ UNCHANGED phase
       \/ /\ lines = <<>>
          /\ phase' = "build"
          /\ UNCHANGED <<lines, infos>>
    /\ UNCHANGED <<opt, next_info, containers, cur_thread, cur_lines, infos_map,
                   worker, scan, hints, params>>

\* trace_container_add, of record n to the container at position c.
Added(c, n) == [containers EXCEPT ![c].infos_map = Append(@, n)]

\* Mutant: the container just found is not used, a new one is always made.
BuildAlwaysNew ==
    /\ phase = "build"
    /\ \/ /\ next_info <= valid_lines
          /\ containers' = Append(containers,
                                  [lba |-> infos[next_info].lba, infos_map |-> <<next_info>>])
          /\ next_info' = next_info + 1
          /\ UNCHANGED phase
       \/ /\ next_info > valid_lines
          /\ phase' = "sort"
          /\ UNCHANGED <<containers, next_info>>
    /\ UNCHANGED <<opt, lines, infos, cur_thread, cur_lines, infos_map, worker, scan,
                   hints, params>>

\* One turn of the loop of build_trace_containers: "gather same lba into the
\* same container".
build_trace_containers ==
    /\ phase = "build"
    /\ \/ /\ next_info <= valid_lines
          /\ LET lba == infos[next_info].lba
             IN  \/ \E c \in DOMAIN containers :
                     containers[c].lba = lba /\ containers' = Added(c, next_info)
                 \/ /\ \A c \in DOMAIN containers : containers[c].lba # lba
                    /\ containers' = Append(containers,
                                            [lba |-> lba, infos_map |-> <<next_info>>])
          /\ next_info' = next_info + 1
          /\ UNCHANGED phase
       \/ /\ next_info > valid_lines
          /\ phase' = "sort"
          /\ UNCHANGED <<containers, next_info>>
    /\ UNCHANGED <<opt, lines, infos, cur_thread, cur_lines, infos_map, worker, scan,
                   hints, params>>

Permutations(S) == {p \in [S -> S] : \A m, n \in S : p[m] = p[n] => m = n}

\* hashmap_sort: the containers in some order.
SortContainers ==
    /\ phase = "sort"
    /\ \E p \in Permutations(DOMAIN containers) :
        containers' = [c \in DOMAIN containers |-> containers[p[c]]]
    /\ phase' = "assign"
    /\ UNCHANGED <<opt, lines, infos, next_info, cur_thread, cur_lines, infos_map,
                   worker, scan, hints, params>>

----------------------------------------------------------------------------
(* The first loop of assign_params_per_worker. *)

\* (per_thread_lines - cur_thread_lines) * 100 / size, in unsigned longs: a
\* difference below zero would be a huge number.
probability_assign_current(size) == ((per_thread_lines - cur_lines) * 100) \div size

\* Whether the coin tossed for a container may say "next worker".  It is only
\* tossed when the container does not fit and another worker is left.
MayMoveOn(size) ==
    /\ cur_thread # opt.threads - 1
    /\ size + cur_lines > per_thread_lines
    /\ probability_assign_current(size) > 0

MayStay(size) ==
    \/ cur_thread = opt.threads - 1
    \/ size + cur_lines <= per_thread_lines
    \/ probability_assign_current(size) < 100

\* Mutant: the last worker is not exempt from moving on when it is full.
AssignPastLast(moveOn) ==
    LET records == Head(containers).infos_map
        w == IF moveOn THEN cur_thread + 1 ELSE cur_thread
        load == (IF moveOn THEN 0 ELSE cur_lines) + Len(records)
    IN  /\ infos_map' = [infos_map EXCEPT ![w] = @ \o records]
        /\ IF load >= per_thread_lines
           THEN cur_thread' = w + 1 /\ cur_lines' = 0
           ELSE cur_thread' = w /\ cur_lines' = load

\* Mutant: a worker that became full is not left.
AssignNeverFull(moveOn) ==
    LET records == Head(containers).infos_map
        w == IF moveOn THEN cur_thread + 1 ELSE cur_thread
        load == (IF moveOn THEN 0 ELSE cur_lines) + Len(records)
    IN  /\ infos_map' = [infos_map EXCEPT ![w] = @ \o records]
        /\ cur_thread' = w
        /\ cur_lines' = load

\* Mutant: a container that moves on is added to the worker that is left, too.
AssignToBoth(moveOn) ==
    LET records == Head(containers).infos_map
        w == IF moveOn THEN cur_thread + 1 ELSE cur_thread
        load == (IF moveOn THEN 0 ELSE cur_lines) + Len(records)
        left == [infos_map EXCEPT ![cur_thread] = @ \o records]
    IN  /\ infos_map' = IF moveOn THEN [left EXCEPT ![w] = @ \o records] ELSE left
        /\ IF w # opt.threads - 1 /\ load >= per_thread_lines
           THEN cur_thread' = w + 1 /\ cur_lines' = 0
           ELSE cur_thread' = w /\ cur_lines' = load

\* The first container goes to the current worker or, if moveOn, to the next;
\* a worker that has its share is left, unless it is the last.
AssignTo(moveOn) ==
    LET records == Head(containers).infos_map
        w == IF moveOn THEN cur_thread + 1 ELSE cur_thread
        load == (IF moveOn THEN 0 ELSE cur_lines) + Len(records)
    IN  /\ infos_map' = [infos_map EXCEPT ![w] = @ \o records]
        /\ IF w # opt.threads - 1 /\ load >= per_thread_lines
           THEN cur_thread' = w + 1 /\ cur_lines' = 0
           ELSE cur_thread' = w /\ cur_lines' = load

AssignContainer ==
    /\ phase = "assign"
    /\ \/ /\ containers # <<>>
          /\ LET size == Len(Head(containers).infos_map)
             IN  \E moveOn \in BOOLEAN :
                    /\ moveOn => MayMoveOn(size)
                    /\ ~moveOn => MayStay(size)
                    /\ AssignTo(moveOn)
          /\ containers' = Tail(containers)
          /\ UNCHANGED phase
       \/ /\ containers = <<>>
          /\ phase' = "extract"
          /\ UNCHANGED <<containers, cur_thread, cur_lines, infos_map>>
    /\ UNCHANGED <<opt, lines, infos, next_info, worker, scan, hints, params>>

----------------------------------------------------------------------------
(* The second loop of assign_params_per_worker, one worker after the other. *)

\* Mutant: the merge takes from the right half when the times are equal.
MergeUnstable(left, right) ==
    LET taken[k \in 0 .. Len(left) + Len(right)] ==
            IF k = 0 THEN 0
            ELSE LET i == taken[k - 1] + 1
                     m == k - taken[k - 1]
                 IN  IF /\ i <= Len(left)
                        /\ m > Len(right) \/ infos[left[i]].ts < infos[right[m]].ts
                     THEN i ELSE i - 1
    IN  [k \in 1 .. Len(left) + Len(right) |->
            IF taken[k] > taken[k - 1] THEN left[taken[k]] ELSE right[k - taken[k]]]

\* Two runs of records, each in order of time, merged into one; taken[k] is how
\* many of the first k have come from the left one.
_merge_array_by_ts(left, right) ==
    LET taken[k \in 0 .. Len(left) + Len(right)] ==
            IF k = 0 THEN 0
            ELSE LET i == taken[k - 1] + 1
                     m == k - taken[k - 1]
                 IN  IF /\ i <= Len(left)
                        /\ m > Len(right) \/ infos[left[i]].ts <= infos[right[m]].ts
                     THEN i ELSE i - 1
    IN  [k \in 1 .. Len(left) + Len(right) |->
            IF taken[k] > taken[k - 1] THEN left[taken[k]] ELSE right[k - taken[k]]]

\* The records of a worker, merge sorted by time: sorted[<<begin, end>>] is what
\* the call for begin .. end leaves there.
_trace_infomap_msort_by_ts(records) ==
    LET sorted[range \in (DOMAIN records) \X (DOMAIN records)] ==
            LET begin == range[1]
                end == range[2]
                mid == (begin - 1 + end - 1) \div 2 + 1
            IN  IF begin < end
                THEN _merge_array_by_ts(sorted[<<begin, mid>>], sorted[<<mid + 1, end>>])
                ELSE <<records[begin]>>
    IN  sorted[<<1, Len(records)>>]

\* A worker with records is sorted, and the scan of its records begins.
SortWorker ==
    /\ phase = "extract"
    /\ worker < opt.threads
    /\ infos_map[worker] # <<>>
    /\ infos_map' = [infos_map EXCEPT ![worker] = _trace_infomap_msort_by_ts(@)]
    /\ scan' = [j |-> 1, start |-> 0, max |-> 0]
    /\ params' = [params EXCEPT ![worker].start = Len(hints)]
    /\ phase' = "scan"
    /\ UNCHANGED <<opt, lines, infos, next_info, containers, cur_thread, cur_lines,
                   worker, hints>>

\* A worker without records: `tc->size - 1` is passed as an unsigned long, so
\* the sort runs over an array that is not there and the process dies.
SortEmptyWorker ==
    /\ phase = "extract"
    /\ worker < opt.threads
    /\ infos_map[worker] = <<>>
    /\ phase' = "fault"
    /\ UNCHANGED <<opt, lines, infos, next_info, containers, cur_thread, cur_lines,
                   infos_map, worker, scan, hints, params>>

Record(j) == infos[infos_map[worker][j + 1]]

\* Mutant: reads and writes of neighbouring blocks are coalesced.
ContinuesAnyMode(j) ==
    /\ Record(j).lba - Record(j - 1).lba = BlkSectors
    /\ j - scan.start < opt.maxblks

\* Record j continues the block range that ends with record j - 1.
Continues(j) ==
    /\ Record(j).lba - Record(j - 1).lba = BlkSectors
    /\ Record(j).rw = Record(j - 1).rw
    /\ j - scan.start < opt.maxblks

\* The hint for the records from consecutive_start up to j.
HintUpTo(j) ==
    [blks |-> j - scan.start, start |-> scan.start, rw |-> Record(scan.start).rw]

Largest(a, b) == IF a > b THEN a ELSE b

\* One turn of the loop over a worker's records.
ScanRecord ==
    /\ phase = "scan"
    /\ scan.j < Len(infos_map[worker])
    /\ \/ /\ Continues(scan.j)
          /\ scan' = [scan EXCEPT !.j = @ + 1]
          /\ UNCHANGED hints
       \/ /\ ~Continues(scan.j)
          /\ hints' = Append(hints, HintUpTo(scan.j))
          /\ scan' = [j |-> scan.j + 1, start |-> scan.j,
                      max |-> Largest(scan.max, scan.j - scan.start)]
    /\ UNCHANGED <<phase, opt, lines, infos, next_info, containers, cur_thread,
                   cur_lines, infos_map, worker, params>>

\* Mutant: the last hint is not counted for the size of the buffer.
FinishWorkerSmallBuf ==
    /\ phase = "scan"
    /\ scan.j >= Len(infos_map[worker])
    /\ hints' = Append(hints, HintUpTo(Len(infos_map[worker])))
    /\ params' = [params EXCEPT ![worker].end = Len(hints'), ![worker].buf = scan.max]
    /\ worker' = worker + 1
    /\ scan' = NoScan
    /\ phase' = "extract"
    /\ UNCHANGED <<opt, lines, infos, next_info, containers, cur_thread, cur_lines,
                   infos_map>>

\* The last hint of a worker, its parameters and its buffer.
FinishWorker ==
    /\ phase = "scan"
    /\ scan.j >= Len(infos_map[worker])
    /\ LET end == Len(infos_map[worker])
       IN  /\ hints' = Append(hints, HintUpTo(end))
           /\ params' = [params EXCEPT
                            ![worker].end = Len(hints'),
                            ![worker].buf = Largest(scan.max, end - scan.start)]
    /\ worker' = worker + 1
    /\ scan' = NoScan
    /\ phase' = "extract"
    /\ UNCHANGED <<opt, lines, infos, next_info, containers, cur_thread, cur_lines,
                   infos_map>>

Planned ==
    /\ phase = "extract"
    /\ worker = opt.threads
    /\ phase' = "ready"
    /\ UNCHANGED <<opt, lines, infos, next_info, containers, cur_thread, cur_lines,
                   infos_map, worker, scan, hints, params>>

PlanNext ==
    \/ parse_trace_info
    \/ build_trace_containers
    \/ SortContainers
    \/ AssignContainer
    \/ SortWorker
    \/ SortEmptyWorker
    \/ ScanRecord
    \/ FinishWorker
    \/ Planned

PlanSpec == PlanInit /\ [][PlanNext]_planVars

----------------------------------------------------------------------------
(* Properties *)

PlanTypeOK ==
    /\ phase \in {"parse", "build", "sort", "assign", "extract", "scan", "ready", "fault"}
    /\ opt \in Options
    /\ infos \in Seq(Records)
    /\ next_info \in 1 .. valid_lines + 1
    /\ \A c \in DOMAIN containers :
        /\ containers[c].lba \in Nat
        /\ containers[c].infos_map \in Seq(DOMAIN infos) \ {<<>>}
    /\ cur_thread \in Nat /\ cur_lines \in Nat
    /\ infos_map \in [Workers -> Seq(DOMAIN infos)]
    /\ worker \in 0 .. opt.threads
    /\ scan \in [j : Nat, start : Nat, max : Nat]
    /\ hints \in Seq([blks : Nat, start : Nat, rw : {"R", "W"}])
    /\ params \in [Workers -> [start : Nat, end : Nat, buf : Nat]]

\* The containers never leave the array of workers, and the unsigned
\* subtraction per_thread_lines - cur_thread_lines never goes below zero,
\* whatever the coins say (replay.c:597-620).
AssignInBounds ==
    phase = "assign" =>
        /\ cur_thread \in Workers
        /\ cur_thread # opt.threads - 1 => cur_lines <= per_thread_lines

Assigned == phase \in {"extract", "scan", "ready"}

\* Once assigned, every record is in the map of exactly one worker, once, and
\* all records of an LBA are with the same worker ("gather same lba into the
\* same container", replay.c:539): only then can two workers with files of
\* their own replay one trace.
Partitioned ==
    Assigned =>
        /\ \A n \in DOMAIN infos : \E w \in Workers : \E p \in DOMAIN infos_map[w] :
                infos_map[w][p] = n
        /\ \A v, w \in Workers :
            \A p \in DOMAIN infos_map[v], q \in DOMAIN infos_map[w] :
                /\ infos[infos_map[v][p]].lba = infos[infos_map[w][q]].lba => v = w
                /\ infos_map[v][p] = infos_map[w][q] => p = q

\* A worker that has its share gets nothing more: without the last container
\* assigned to it, it had fewer than per_thread_lines records or none.  The
\* last worker takes what is left.
FairShare ==
    Assigned =>
        \A w \in Workers \ {opt.threads - 1} :
            infos_map[w] # <<>> =>
                \E n \in DOMAIN infos_map[w] :
                    LET lba == infos[infos_map[w][n]].lba
                        others == {m \in DOMAIN infos_map[w] : infos[infos_map[w][m]].lba # lba}
                    IN  Cardinality(others) < per_thread_lines \/ others = {}

\* A worker has been planned up to its sorting.
SortedWorkers ==
    {w \in Workers : w < worker \/ (w = worker /\ phase = "scan")}

\* A worker replays its records in order of time, and records of one LBA with
\* the same time stamp in the order of the trace: the last write to a block
\* is the same as in the trace (replay.c:283-336).
InTimeOrder ==
    \A w \in SortedWorkers :
        \A p, q \in DOMAIN infos_map[w] :
            LET m == infos_map[w][p]
                n == infos_map[w][q]
            IN  p < q =>
                    \/ infos[m].ts < infos[n].ts
                    \/ infos[m].ts = infos[n].ts /\ (infos[m].lba = infos[n].lba => m < n)

PlannedWorkers == {w \in Workers : w < worker}
HintsOf(w) == SubSeq(hints, params[w].start + 1, params[w].end)

\* The hints of a worker cover its records from the first to the last without
\* gap or overlap, none is empty (check_param_per_worker, replay.c:530), and
\* each fits in the buffer the worker gets (replay.c:679).
HintsTile ==
    \A w \in PlannedWorkers :
        LET hs == HintsOf(w)
        IN  /\ hs # <<>>
            /\ Head(hs).start = 0
            /\ hs[Len(hs)].start + hs[Len(hs)].blks = Len(infos_map[w])
            /\ \A h \in 1 .. Len(hs) - 1 : hs[h].start + hs[h].blks = hs[h + 1].start
            /\ \A h \in DOMAIN hs : hs[h].blks \in 1 .. params[w].buf
            /\ params[w].buf <= Largest(1, opt.maxblks)

\* A hint stands for one transfer: its records have one mode and their blocks
\* lie side by side.  It ends only where the next record does not continue it
\* or where it has reached the largest size (replay.c:645-647).
HintsCoalesce ==
    \A w \in PlannedWorkers :
        LET hs == HintsOf(w)
            rec(n) == infos[infos_map[w][n + 1]]
        IN  \A h \in DOMAIN hs :
                /\ \A n \in 0 .. hs[h].blks - 1 :
                    /\ rec(hs[h].start + n).rw = hs[h].rw
                    /\ rec(hs[h].start + n).lba = rec(hs[h].start).lba + n * BlkSectors
                /\ h < Len(hs) /\ hs[h].blks < opt.maxblks =>
                    \/ rec(hs[h + 1].start).rw # hs[h].rw
                    \/ rec(hs[h + 1].start).lba
                            # rec(hs[h + 1].start - 1).lba + BlkSectors

\* The array of hints, malloced for valid_lines of them (replay.c:949), is
\* never overrun, although every worker ends with a hint of its own.
HintsFit == Len(hints) <= valid_lines

\* Every accepted number of threads (replay.c:67, 932) gets its plan: with at
\* least as many LBAs as workers, no worker is left without records, for which
\* the sorting dies.
EveryWorkerPlanned ==
    Cardinality({infos[n].lba : n \in DOMAIN infos}) >= opt.threads => phase # "fault"
=============================================================================
