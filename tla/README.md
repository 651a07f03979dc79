# A TLA+ verification of nvm_tools

`nvm_tools` is the tool box with which the Light-Dedup authors load, age and
measure file systems on persistent memory.  Most of it is straight-line code
around `fio`.  The parts with logic of their own are the trace replayer
(`helper/replay.c`, on top of the hash map `helper/map.c`), the read/write
interference benchmark (`helper/rw_interference.cpp`), the ageing tool, and
the shell scripts that set file systems up and compare what they return with
reference files.  This directory models them in TLA+, checks the models with
TLC on small instances and proves what matters most with TLAPS.

## The system

| Component | State | Operations | Interacts with |
|---|---|---|---|
| hash map (`helper/map.c`, `map.h`) | bucket array, list through the buckets, count, capacity | create, get, set, get_set, set_free, resize, iterate | called by the replayer |
| list sort (`map.c:208-345`) | `next` pointers and bucket contents, run boundaries | `hashmap_sort`, merge sort in place | comparator of the replayer |
| replay planning (`replay.c:192-793, 938-952`) | records, containers by LBA, workers' record maps, hints, parameters | parse, gather, sort, deal out, sort by time, coalesce | hash map; its result goes to the workers |
| replay workers (`replay.c:362-519, 954-971`) | one file and one dump file per worker, position in the hints, read buffer | create, join, open, write a hint, pread loop, dump, exit on failure | file system; main through create and join |
| content generator (`replay.c:78-147`, `lcg.c`, `mt19937ar.c`) | generator state per worker | `fill_blk` | called by the workers |
| `rw_interference.cpp` | tasks, progress counters, parameters, files | make tasks, prepare, create, join, cancel, sum up, free; per thread: read parameters, open, write, count, close | threads share parameters and progress with main |
| `aging_system.c` | two files, the record of holes | create, punch, fill | file system |
| `write_1G.c` under `percore_amount*.sh` | one file per process; batch and round of the script | spawn, open, write, wait, move away | file system; the script through `wait` |
| `shuffle_and_write.cpp` | the permutation, the buffer, the two files | read, write | file system; `read_effects.sh` |
| `exhaust_nvmm.c`, `create_files.c` | one loop each | write, create | file system |
| standard files (`mkstdfile.sh`, `cmpstdfile.sh`, `correct/*.sh`, `overwrite_correction.sh`) | reference directories with a `complete` marker | build, reuse, compare | file system, remounts |
| set-up scripts (`setup_nova.sh`, `setup_nvdedup.sh`, `fio_*.sh`, `aging_amount.sh`) | `setup.sh` of another repository, `/tmp/setups` | check out, save, edit, restore | each other, through `/tmp/setups` |
| measurement scripts, converters, downloads | none | commands and filters | `fio`, `ipmctl` |

What is hard in it:

- *Concurrency without synchronisation.*  The replay's workers share nothing
  but rely on the plan having given each LBA to one of them.  The threads of
  `rw_interference` are joined or cancelled by class, while main reads their
  counters and frees their parameters.
- *Partial results.*  Short preads at holes and at the end of a file, short
  and failing writes, a process that exits in the middle.
- *Data structures that change while in use.*  A hash map that resizes under a
  list, a merge sort that swaps contents and relinks buckets at once.
- *Boundaries.*  Load factor 3/4, an unsigned subtraction, `size - 1` of an
  empty container, truncation to `int`, arrays allocated for exactly as many
  entries as there are records.
- *What earlier runs left behind.*  Destination files that are not truncated,
  `/tmp/setups`, standard files of an interrupted run.

What makes each component correct:

- hash map: it is an insertion-ordered dictionary, every call returns, and no
  freed key is kept;
- list sort: it ends with every bucket listed once, no entry lost, in order;
- planning: the records are partitioned by LBA, in order of time, and the
  hints tile them within what was allocated;
- workers: the files and dumps are those of performing the trace on one disk;
- `rw_interference`: readers write duplicates and writers do not, the measured
  class is complete, the report is what was written;
- content generator: the content of a block depends on its md5 and the
  generator alone, not on the blocks before it;
- ageing: as many holes as asked for, the filling file no larger than them, and
  every block a new one;
- `write_1G` and the shuffle: all blocks of a round are new, those of the second
  round are the first round's, a shuffled file has the same blocks;
- standard files: a passing comparison vouches for every file it has seen,
  however often earlier scripts were interrupted;
- set-up: what is measured is the branch asked for.

## The modules

| Module | Models |
|---|---|
| `HashMap` | `map.c` without `hashmap_sort`; refines `OrderedDict` |
| `OrderedDict` | the promises of `map.h`: a dictionary enumerated in order of first insertion |
| `HashMapSort` | `hashmap_sort` on its pointers, with the comparator of `replay.c` |
| `ReplayPlan` | the main thread of `replay.c` up to the start of the workers |
| `Files` | files as sequences of sectors: `pwrite`, reading past the end |
| `FillBlk` | `fill_blk` and the context of the random generators |
| `Replay` | extends `ReplayPlan` by the workers; refines `AbstractReplay` |
| `AbstractReplay` | the records divided among workers and performed one by one |
| `RwInterference` | `rw_interference.cpp` |
| `StdFiles` | `mkstdfile.sh`, `cmpstdfile.sh` and the scripts of `correct/` around them |
| `Volume` | what the measuring programs write below `/mnt/pmem0`, and the faults they meet |
| `SetupScripts` | the set-up part of `setup_nova.sh`, `setup_nvdedup.sh`, `fio_*.sh` and `aging_amount.sh` |
| `AgingSystem` | `aging_system.c`, on `Volume` |
| `Percore` | `percore_amount*.sh` with its `write_1G` processes, on `Volume` |
| `ShuffleAndWrite` | `shuffle_and_write.cpp`, on `Volume` |
| `Bench` | composes the last four: measurements one after the other on one volume |
| `NatLemmas` | the least element, products, division and remainder |
| `HashMapProofs` | proofs about `HashMap` |
| `HashMapSortProofs` | proofs about `HashMapSort` |
| `RwInterferenceProofs` | proofs about `RwInterference` |
| `ReplayPlanProofs` | what the merge sort of `ReplayPlan` computes, and proofs about `ReplayPlan` |
| `ReplayProofs` | proofs about `Replay` and `FillBlk` |
| `StdFilesProofs` | proofs about `StdFiles` |
| `BenchProofs` | proofs about `Bench` and the four modules it composes |
| `MC*` | the instances |

### HashMap

`buckets`, `order`, `count` and `capacity` are the fields of `struct hashmap`;
`order` is the linked list from `m->first` to `m->last` as a sequence of bucket
indices.  Keys are pointers (`ptr`), and two pointers may hold the same data
(`KeyOf`), because the code stores the pointer and compares the data: which
pointer an overwritten entry keeps is what `hashmap_set` and `hashmap_set_free`
differ in.  A call is entered (`Enter`, with the load check), possibly resizes
(`hashmap_resize`, one old entry per step), and returns with its lookup
(`hashmap_set` and so on).  `find_entry` and `resize_entry` are relations "the
probe stops at bucket i", so that a probe which would never stop shows as one
that stops nowhere; `ProbingEnds` says there is none.  The hash function is a
constant: every property holds for any.  `MayPass` is what `map.h` asks of a
caller of `hashmap_set_free`.  `hashmap_iterate` reads the list and is what
`added` of `OrderedDict` stands for.  The variant with
`__HASHMAP_REMOVABLE`, which the Makefile does not build, is not modelled.

### HashMapSort

The list is `first`, `next`, `last`; a bucket's contents are its key.  The
variables `gap`, `runs`, `prevend` and `cursor` are the locals of
`_hashmap_msort` and `_hashmap_merge`, and a step is one turn of their loops.
`trace_container_cmp` subtracts and truncates to `IntBits` bits, as the code
does to an `int`.  `EndPass` and `EndMerge` are guarded by `prevend # NULL`
where the code dereferences it: a state where the pointer would be null shows
as a deadlock, and there is none (`SortFollowsNoNull` proves it for every size).

### ReplayPlan and Replay

A record is named by its index in `infos`; the pointer arrays of the C code
hold indices.  The phases are the statements of `main`: `parse_trace_info` (a
line per step), `build_trace_containers` (a record per step),
`SortContainers`, `AssignContainer` (a container per step; the outcome of
`rand()` is nondeterministic unless the probability is 0 or at least 100),
`SortWorker` or `SortEmptyWorker`, `ScanRecord` and `FinishWorker` for each
worker.  Because `HashMapSort` shows that the sort promises no order,
`SortContainers` may leave the containers in any.  `SortEmptyWorker` leads to
the phase "fault": the process dies there.

`Replay` adds main's two loops over the threads and, per worker, `OpenFiles`,
`WriteHint`, `DivideByZero`, `PreadSome`, `EndRead`, `EndWorker` and
`FailedCall`.  A file is a
sequence of sectors; a block has `BlkSectors` of them (8 in the code, 2 in the
instance, so that traces with overlapping blocks stay small).  `opt.leftover`
says whether the destination holds the files of an earlier replay: they are
opened without truncation.  `AbstractReplay` knows neither containers nor
hints nor preads: it has the trace, an assignment of the records to workers
(`GoodOrder`), and a step that performs any number of a worker's next records.
The refinement mapping is at the end of `Replay`.

### FillBlk

An md5 is the sequence of its whole pieces of 32 characters, and a piece is its
first four characters, which seed the generator, and the others, which only the
null generator copies.  A random number is known by its generator, its seed and
how many have been drawn since; one stands for the 128 numbers of a sector.
`ctx` of `Replay` is the context a worker keeps from block to block, and
`Filled` goes through it as the code does; `BlockOf` is the reference, which has
no context.  That they agree is part of `ReadsSeeLastWrite`, `LastWriteWins` and
`ImplementsSequential`.  Two things to know of the code: with a generator other
than null, md5s that differ behind the fourth character of each piece give equal
blocks; and an md5 of fewer than 32 characters makes `fill_blk` divide by zero,
which the compiled program answers with SIGFPE in the middle of the replay
(`DivideByZero`).  `PiecesAssumption` leaves out md5s of 3, 5, 6 or 7 pieces,
whose parts do not fill a block.

### StdFiles

`complete` and `std` are the directories below `$HOME/fs_test` with their
markers, `mnt[d]` the files of `/mnt/pmem<d>`.  `pc` walks through
`mkstdfile.sh`; behind it, `at` counts the commands of the script (`Commands`),
and the variable `todo` holds the files that the running `fio` or `cp` has still
to write.  `Stop` ends a script anywhere, by a user or by `set -e`; what was
being written is there whole, in part or not at all.  `Left` is the file system
under test: in every operation it may damage files, and lose them if `loses`.
`Fio` writes to `/mnt/pmem0` for every script, because `helper/fio.sh:19` says
so, while `cmpstdfile.sh` looks at the device of the script: with another device
the comparison is of an empty directory.  Files moved into the directory 0 are
no longer compared (`cmpstdfile.sh:7` takes files only), so they leave `mnt`.

### SetupScripts

`tree[r]` is `setup.sh` in the working tree of repository r, `head[r]` the
branch checked out, `built[r]` what the module was made from, `setups` the file
`/tmp/setups`.  `spc` is the next command.  `GoOn` is what a failing command
does: under `set -e` (`aging_amount.sh`) the script ends, in the others it goes
on.  git refuses to check out another version over a changed `setup.sh`, and
may fail for any other reason, as `make` and `setup.sh` may.
Because `restore_pmem` is called before `set_pmem`, the `setup.sh` that was
saved first after a restart stays in `/tmp/setups`, of whatever branch or
repository later runs are (`FirstSetupStays`), and they get it from there; and `aging_amount.sh` cannot run before one of
the other scripts has saved one.  What `MeasuresTheBranch` can say is therefore
about the module and the device, not about the version of `setup.sh`.

### AgingSystem, Percore, ShuffleAndWrite, Bench

A file is the sequence of its pages and a page the number it is filled with.
`AgingSystem` takes the phases one after the other, as `aging_amount.sh` runs
them; `records` is the array of drawn positions, and `DrawAgain` a draw that
hits one.  In `Percore` a batch of `write_1G` processes runs at the same time,
each with its own steps (`Open`, `WriteChunk`, `EndWriter`), and `Wait` is over
when all have ended, well or not.  `Wrap` is the product of two ints; it is
compiled to a wrapping multiplication.  `ShuffleAndWrite` keeps memory that no
read has filled as `Garbage`.  In `Bench` a script with its set-up or a program
started by hand runs on whatever the earlier ones have mounted and written, and
may be interrupted, or the machine restarted, at any step.  `faults` counts down
how many commands and calls may still go wrong.

### RwInterference

`mpc` and `next` are where main is and its loop variable; `tpc[i]` where thread
i is.  A block has `Words` words, and a write puts the magic into all of them.
`make_file` stops at a failed write only; a short one counts as a block, and all
that the file gets after it is shifted.  So a file is the sequence of the words
written to it (`WriteOf`), and its blocks, as the file system sees them, are cut
from that (`BlockNumbers`, `FileBlock`); behind a short write each of them may hold
two magics.  `written[i]` is the file of thread i, `block[i]` the loop variable of
`make_file`, `progress[i]` what it has stored for main.  Stage 1 runs
block by block in the same way: `pre_file` and `pre_block` are its file and loop
variable, `prepared` the blocks on the file system, and `prepare_cut` remembers that
one of its writes has failed or was short.  A cancelled
thread ends only at a cancellation point (`ActOnCancel`).  `ReadParams` after
`run()` has freed the parameters finds either the old values or a wild
pointer, because the allocator reuses the memory.  A share of
`total * (1.0 / 3.0)` truncated is `total \div 3`: the product of a double
next to 1/3 with any number of blocks below 2^53 rounds to the third exactly
when the number is a multiple of 3.

## The runs

| Run | Question | Result |
|---|---|---|
| `hashmap` | Is the map an ordered dictionary, through resizes, collisions, wrap-around, equal keys behind different pointers? Does every call return? | holds |
| `sort` | Does sorting end with every bucket and every entry, whatever the comparator says? | holds |
| `sort_by_lba` | Is the list sorted afterwards? | violated |
| `sort_then_add` | May entries be added to a sorted map? | violated |
| `plan` | Are plans partitions by LBA, in order of time, tiled by hints, within bounds? | holds |
| `plan_empty_worker` | Does every accepted number of threads get a plan? | violated |
| `replay` | Do all schedules of the workers give the result of one disk, with short reads, failing calls and old files? Does the program end? | holds |
| `standard_files` | After any number of interrupted scripts, is a standard file with its marker whole, and what does a passing comparison mean? | holds |
| `bench` | After any sequence of set-ups and measurements with faults, is the ageing as asked for, are blocks new, equal or shuffled as they should be, is the branch the right one, does every run end? | holds |
| `rw` | Are the blocks the duplicates or the new blocks they should be, the class complete, the report current? Does the program end? | holds |
| `rw_other_class` | Is the other class unfinished when the measured one is done? | violated |
| `rw_stale_params` | Is nothing of a cancelled thread left when its parameters are freed? | violated |

The properties that are violated are statements of comments or of the usage
text, and PROJECT.json lists each with the code that disagrees:

- `map.c:263-266` swaps the contents of the first and of the last buckets of
  two runs.  With runs of one bucket the two swaps undo each other, so that the
  list is not "sort(ed) by lba" (`replay.c:592`).  The replay is still right,
  because nothing but the distribution of the containers over the workers
  depends on the order; `plan` and `replay` allow any.
- After `hashmap_sort`, `m->last` is not the end of the list (`map.h:46-49`).
- The coin of `replay.c:602` can leave a worker without records; the merge
  sort is then called with `0 - 1`.
- The shares of `rw_interference.cpp:62-69` are by class, not by thread.
- `run()` frees what a cancelled thread may still have to read.

### Instances and bounds

- `MCHashMap`: four pointers to three keys, two values, initial capacity 2
  instead of 20.  Two keys collide and the probe of the second wraps around to
  the bucket of the third; the table grows twice.  A third growth would need
  six keys and repeats the second.
- `MCHashMapSort`: every insertion order of every subset of five keys, three
  passes (gap 1, 2 and 4), an incomplete last run, and comparisons that change
  sign by truncation.
- `MCReplayPlan`: every trace of four writes to three neighbouring blocks with
  two time stamps, and every trace of three lines of any kind, a malformed
  line included; one to three workers; largest hints of 0, 2 and 3 blocks.
  Containers of up to four records with shares of one to four records reach
  every branch of the coin.
- `MCReplay`: traces of three records over two blocks, in and out of the order
  of time, and unaligned traces whose blocks overlap by a sector; one and two
  workers; all three modes; new files, and files of a block and a half from an
  earlier replay, so that a read meets the end of the file in the middle.  The
  md5s have one piece or two and share a seed, and some traces end with a short
  one; each generator is used, the null one and `lcg` with dumped reads.
- `MCStdFiles`: two sets of parameters, one of two files through the device and
  one written straight to its directory, which reuse two file names, and two
  devices.  A third set or file would only add copies.  Scripts run without end.
- `MCBench`: two branches, with different versions of `setup.sh` in one
  repository and the same one in the other; volumes of two chunks of two pages;
  ageing by 75 percent, where the two roundings differ, and by 150; four files
  of `write_1G` with ints of 3 bits, so that the fifth page already overflows;
  first rounds of one process per batch and of two; blocks of one, two and four
  units of a file of three, so that a tail is lost and a file is smaller than a
  block.  `Workloads` names which scripts and programs meet in one behaviour,
  so that each shares its state with those that touch it, with two faults, or
  one where four processes interleave.
- `MCRwInterference`: all combinations of no or one reader and writer, two of
  one class, and three threads in stage 2; shares that do not divide evenly.  A
  block has two words: a write is whole, short by a word, or fails, and behind a
  short one every block straddles two magics until another makes up for it.  More
  words would only add other places at which a block is cut.
- Nothing else is bounded: traces, calls and threads come to an end by
  themselves, and the hash map run is finite because its keys are; scripts may
  be started any number of times.

### Fairness and deadlock

Liveness is checked under weak fairness of the steps of a thread that has
something to do, which is what the operating system's scheduler gives: in
`HashMap` and `HashMapSort` of the one thread inside a call, in `Replay` and
`RwInterference` of main and of every other thread.  No fairness says that a
call succeeds, that a read is complete or that a failure happens.  Callers of
the map are not fair: nobody has to call.  In `Bench` the program that runs goes
on, and every process of a batch does; a step that draws a position not drawn
yet counts as progress, because the generator does not miss a position for ever.
Nothing has to be started, and no fault has to happen.  `StdFiles` states no
liveness: a script may wait for its user.  Deadlock is checked everywhere but
in `ReplayPlan`, where main ends with the plan or the fault; `Replay` and
`RwInterference` stutter explicitly once the process is over.

### Properties that need care

- `ReadsSeeLastWrite` and `LastWriteWins` are stated from the trace alone,
  for traces whose LBAs are multiples of a block.  Blocks that overlap may be
  in the files of two workers, and then no single disk is the reference; for
  these the refinement of `AbstractReplay` says what happens.
- `DupsAndOnlyDups` has no exception for writers: whatever write of either stage
  fails or is short, each of their blocks is nowhere else.  A reader's block has to
  be a prepared one unless it is shifted by a short write of its own file, or a
  write of stage 1 has failed or was short: `make_file` and `prepare_workload` go
  on without a word, and nothing in the code says what such a run measures.
- `ReportIsCurrent` counts writes, as the code does, and not blocks: a short write
  is one.  It allows the block between a write and the store of the
  progress to be missing, for a thread that has not ended.
- `VerdictExact` is stated where the comparison can be exact, on pmem 0 and for
  file systems that lose no file.  `PassMeansRight` holds everywhere, and is about
  the files that are there: that a lost file is not missed (`cmpstdfile.sh:6`),
  and that a test for another device compares nothing (`fio.sh:19`), contradicts
  neither.
- `SecondRoundDuplicates` and `ShuffledKeepsBlocks` are for runs in which no
  call failed: neither program looks at what its processes or calls return.
  `ShuffledKeepsBlocks` says that the copy has the length and the set of blocks of
  the file; how often each block is there follows only if no two are equal.
- `FirstSetupStays` is about `/tmp/setups`, not about what a run executes.
- `ImplementsDict` says that each call is a `Put`, `Get` or `GetOrPut` of the
  dictionary, of some key: that it is the key of the call is in the lookups of
  `HashMap` and not in the formula.
- `RunsEnd` exempts ageing with more than 100 percent, once every position has
  been drawn: it asks for positions that do not exist and is the only endless
  loop.  That the code does not refuse such a percentage is therefore not found
  by the property; it is what the exemption says.
- `AssignInBounds` includes that the unsigned subtraction of `replay.c:601`
  does not go below zero.

Every property of a passing run is broken by a mutant: an operator with the
comment "Mutant:" next to the definition it replaces, a bug such code plausibly
has.  PROJECT.json pairs them.

## What is proved

`HashMapProofs` proves, for every set of keys and pointers, every hash function
and every initial capacity of at least 2, that `Spec` implies always `TypeOK`,
`Reachable`, `ProbingEnds`, `ListExact` and `NoDanglingKey`, and that `HashMap`
implements `OrderedDict` (`ImplementsDict`).

The inductive invariant `IInv` is the conjunction of the five with `StoredOnce`
(no key is held twice, by moved entries or by entries a resize still has to
move), `LoadBound` (the load stays under 3/4, with room for the entry the
running call may add) and `CallerKeepsKey`.  They are needed because:

- a probe visits every bucket (`ProbeVisitsAll`, from `ModBasics`), and under
  `LoadBound` some bucket is empty (`EmptyBucketExists`, by counting the list);
  the least distance at which it meets an empty bucket or its key exists by
  `LeastNatural`, which states the well-foundedness of the naturals for sets:
  hence `ProbesStop`;
- filling the bucket a probe stops at hides no other entry
  (`FillingKeepsReachable`), overwriting an entry by one of the same key does
  not either (`OverwritingKeepsReachable`), and neither needs to know how the
  table was filled; but a resize may only re-insert a key that is not there
  yet, which is `StoredOnce`;
- the overwriting of `hashmap_set_free` frees a pointer that no other entry
  holds because two entries with one pointer would have one key.

There is one lemma for each action, and `NextKeepsIInv` combines them.

The refinement is a step simulation under `IInv` (`StepsImplement`):

- in the middle of a resize the entries of the dictionary are those moved so far
  followed by those still to move (`AllEntries`).  A turn of the resize loop moves
  the border between the two and nothing else, so it is a stutter
  (`ResizeKeepsEntries`), and so is a call before it looks at the table
  (`EnterKeepsEntries`);
- a probe that stops at an empty bucket shows that the key is nowhere in the
  table (`EmptyMeansAbsent`, by `Reachable`): then the call is `Put` or `GetOrPut`
  of an absent key and appends an entry (`AddStores`).  If it stops at the key,
  the value found or replaced is the dictionary's (`LookupFacts`,
  `OverwriteStores`).

Two theorems are the argument for `CallsReturn`.  `CallsCanGoOn`: in every state of
a call there is the bucket at which its next step ends.  `CallsTakeSteps`: each step
leaves one fewer, and a call on a map of `count` entries takes at most `count + 1`.

`RwInterferenceProofs` proves, for every command line (any number of readers,
writers and blocks) and every size of a block in words, that `Spec` implies always `RwTypeOK`, `TargetsFinished`
and `DupsAndOnlyDups`, and `ReportIsCurrent`.  None of them is inductive; the
parts of the invariant are:

- `Counting`: progress is the number of writes to the file, or one less between
  the write and the store or after a cancellation there; `ReportIsCurrent`
  follows from it at the moment main reads the progress;
- `Started`, `Joining`, `Cancelling`: how far main's loops are.  No thread is
  cancelled before the measured class has been joined, so every thread that
  `JoinTarget` finds at its end has ended by itself: `TargetsFinished`;
- `Contents`: the words of a file are magics of its task, in their order, and a
  block's length further on there is always a larger one (`InOrder`), wherever its
  writes were short.  So two blocks of a file begin differently
  (`BlocksOfFileDiffer`), and a block that is not shifted holds one magic of the
  task;
- `PreFile`, `Preparing`: whatever stage 1 has written, all its words are below
  `total`; and as long as none of its writes has failed or was short, its file ends
  at a block and every block from the first magic to the current one is prepared.

With the bounds of the shares (`Shares`: readers and writers together get at most
`total` blocks) a reader's magic is below `BlocksBefore(num_tasks)`, all prepared
(`BlocksBeforeNext`, `BlockRanges`), a writer's words are at least `total`, which
no prepared block and no reader's block begins with, and two writers have disjoint
ranges (`WriterBlocksDiffer`): `DupsAndOnlyDups`.

Two theorems are the argument for `Ends`.  `RunEnds`: each step of main makes its
bound `MainLeft` smaller (the loops it has not begun count as many turns as there
are threads, and stage 1 one more for each block) and each step of a thread its
bound `ThreadLeft` (two for each block and up to four more), and neither makes another's larger, until a thread reads freed
parameters, if it does.  `MainWaitsForRunning`: the thread that main joins has been
created, has not been cancelled, and runs or has ended.

What every step of a thread does to main's part of the invariant is proved once
(`ThreadKeepsMainPart`, `ThreadMoves`).  The assumptions are
`OptionsAssumption` and `WordsAssumption`; the division is used through `DivBasics` alone.

The assumptions of `HashMapProofs` are `KeysAssumption`, `NullAssumption`
and `CapacityAssumption` (with one bucket the first insertion would resize an
empty map, which `map.c:77` assumes never happens).

`HashMapSortProofs` proves the three safety properties of `HashMapSort` for a map
of any size, any `int` width and whatever the comparisons say; the theorems are
about a caller that adds nothing after a sort, as `replay.c` is.  While runs are
being merged the list cannot be walked, so the inductive invariant `SortInv`
names the order the buckets are to have, a bijection `s` from places to buckets,
and says at which places the pointers may be wrong:

- between passes nowhere (`AtRest`);
- between two merges behind the last merged bucket, place `p`, which is
  `prevend` (`BetweenRuns`);
- inside a merge also behind place `j`, the last bucket of the first run; the
  cursors stand at `i` and `j + 1`, and the second run ends at `e` (`InMerge`).

A turn that moves a bucket changes the order and not only the pointers: the bucket
at place `j + 1` goes behind place `i`, and those between move up by one
(`IsMoved`, `MovedOrder`, `MovedLinked`).  Wherever `_hashmap_merge` stops, one of
the two open places is `e`, and the other has been closed.  `AheadIs` and
`ListedIs` say what the loops along the list find: their recursive functions are
given in closed form and shown to be the only solution, by the least
counterexample.  `EveryBucketListed` follows because at rest the list is `s`;
`ContentsKept` because the four buckets whose contents are swapped are places of
`s` (`BeginMergeMoves`); `NoNullFollowed`, that no null pointer is followed where
the code does not look, because a pass never ends at `p = 0` (`PassMerged`).

`SortWithin(m)` adds that at most m steps of the sort are left.  `SortRunsOut`
says that each step leaves one fewer and that a call of `count` entries starts
with `(count - 1) * (2 * count + 3) + 1`: this is the argument for `SortReturns`,
of which only the step from a bound to "eventually" stays with TLC.

The assumptions are `Assumptions` and `NullAssumption` (null is no bucket).

`ReplayPlanProofs` first proves `MergeSortSorts`: for an array of any length and any
time stamps, `_trace_infomap_msort_by_ts` gives a permutation of it, in order of
time, that keeps the order of records with equal times.  The sort and the merge
are recursive functions, and no induction theorem of the library can be used
(they take an operator); the proofs go by the least counterexample instead,
with `LeastNatural`, on the length of the array for the sort and on the number
of records taken for the merge.  That the recursive definitions have a value at
all is proved in the same way (`TakingExists` and what follows it): a solution up
to `k` can be extended to `k + 1`.

It then proves all eight invariants of `ReplayPlan` for every trace,
every command line with at least one thread (`-t 0` is accepted, and divides by
zero at `replay.c:575`) and every size of a block.  The inductive
invariant `PlanIInv` follows the records:

- `Gathered`, `Complete`: each container has, in trace order, the records of an
  LBA that no other has, and no record read so far is lost;
- `Dealing`: the workers behind the current one have nothing, and a worker that
  is not the last still has less than its share, so the subtraction of
  `replay.c:601` does not go below zero: `AssignInBounds`, and with `FairMaps`
  `FairShare`;
- `MapsApart`, `MapsInTraceOrder`, `InTimeOrder`: an LBA is with one worker; its
  records are in trace order until the sort, which is stable, and in order of
  time behind it.  This is where `MergeSortSorts` is needed;
- `PlannedHints`, `Scanning`: the hints made so far tile the records before
  `scan.start`, the records from there to `scan.j` are one range, and a hint ended
  for a reason: `HintsTile` and `HintsCoalesce`;
- `HintsCharged`: each hint can be charged to a record of its own, its first.
  An injection from the hints into the records exists, so there are no more
  hints than `malloc` was asked for: `HintsFit`.

The assumptions are `InputsAssumption`, that a trace is a sequence of lines;
`OptionsAssumption`, what the option parser lets through; and
`BlkSectorsAssumption`.

`ReplayProofs` proves the three invariants of `Replay`, and that it implements
`AbstractReplay`, for every trace, command line and schedule.

- `RunIInv` is `PlanIInv`, which no step behind the planning touches, with
  `FromTrace` (the records kept are those the mode asks for), `Started` (main's
  two loops), `WithinHints`, and `Reading`: what the pread loop has in its
  buffer is the first part of the range it reads, in the file as it is now, which
  no other worker can write.  `ReplayTypeOK` follows.
- `FilledFacts` says what `fill_blk` computes: a buffer holds, for each record,
  `BlockOf` of its md5, whatever the context was before.  `fill_blk` and `Filled`
  are recursive functions; that they have a value is shown by the least
  counterexample (`PiecesExist`, `BlocksExist`), and so is each step of them.
- `DoneIInv` says what a worker has done up to its next record, on an aligned
  trace.  `FilesRight`: each block in its file is that of the last write to it
  among the records performed, or what was there before.  `DumpsRight`: the dump
  has one block for each read performed, the last write to it among the records
  of the whole trace before it.  A hint is one step: its blocks are apart
  (`OnePlace`), so writing them together is writing each (`HintWritten`).
  A read may look at its own file alone because all records of its LBA are
  with its worker, in order of time (`EarlierDone`, from `MapsApart` and
  `InTimeOrder`).  `BlockIs` states "the last write" as a relation;
  `BlockIsAfter` gives it the value that `BlockAfter` chooses.
- `LastWriteWins` is `FilesRight` when every worker is at its end, `AllDealt`
  being what makes its own records all there are; `ReadsSeeLastWrite` is
  `DumpsRight` with `Untouched` for the workers that have not opened theirs.
- `ImplementsSequential` is the refinement, and needs no aligned trace.  Its step
  simulation (`StepImplements`) maps `Planned` to `Plan`, each hint to one
  `Perform` of as many records as the hint has, `DivideByZero` and `FailedCall` to
  `GiveUp`, and shows that no other step changes what the abstract replay sees:
  a line that is parsed goes from the lines to the records (`ParseKeepsTrace`), and
  parts of a range that are read are not yet in the dump (`WorkerInvisible`).
  `Performed` is a recursive function over the records; `PerformedIs` says that
  what solves its recursion is its value, and the solution is given in closed
  form: after k records of a hint the file has the first k blocks of the one
  write (`WritesPerformed`, two writes one behind the other being one,
  `WriteBehind`), or the dump the first k blocks of the one read
  (`ReadsPerformed`).  `DividedWell` is where the planning comes in: `Complete`,
  `MapsApart` and `InTimeOrder` together are the abstract `GoodOrder`.

- `WorkersRunOut` and `NobodyWaits` are the argument for `Terminates`.  `WorkLeft`
  bounds the steps of a worker: for each of its hints a pread for each sector of
  the longest one and the dump, less what the running pread loop has in its buffer
  (`Reading` says that this is at most a hint).  Each step of a worker makes its
  bound smaller and leaves those of the others.  While main is behind the planning it
  has a worker to start, or the one it waits for has ended or has a step to take:
  the pread loop never wants data that its file does not have.

Beyond those of the plan the assumptions are `RunOptionsAssumption`,
`PiecesAssumption`, `MaxThreadsAssumption` and `OldFileAssumption` (a file that
is there before is a sequence of sectors).

`StdFilesProofs` proves all four invariants of `StdFiles` for any parameter sets,
jobs, devices and file contents.  `StdIInv` adds to them what has been done at
each command of `mkstdfile.sh` (`Making`: the marker is missing until every file is
whole, and what is not to do any more is done), and of a test (`TestFiles`: from
`fio` until the files are moved or removed, those of the parameters are there, and
right if the file system has damaged none).  `ParamsAssumption` is the only
assumption.

`BenchProofs` proves the six safety properties of `Bench` for any branches,
sizes, shapes of rounds and granularities.  Each topic has an invariant of its
own, and they share `Apart`: a program has state only in the session of its
name, so that a step of one leaves the files of the others alone.

- `ScriptsIInv`: what is about to be saved is what has been saved
  (`FirstSetupStays`), and a script under `set -e` does not get to a command
  without the effects of those before it (`MeasuresTheBranch`);
- `AgingIInv`: page p of file1 is a hole or holds the number of its place, and
  page p of file2 a number at least twice as large as any of those, whatever
  failed (`AgingWritesNewBlocks`).  If nothing failed, the holes made and
  `hole_num` add up to the holes asked for, because no position is punched
  twice, and file2 has as many pages as chunks written (`AgedVolume`, with the
  two roundings);
- `RoundIInv`: a file is a start of the one it is to be.  `BlocksDiffer` says that
  the wrapped products of different files are far enough apart
  (`RoundWritesNewBlocks`).  Without failures, the batches before the current
  one have written their files whole, and nothing else is there; both orders
  of numbering reach every file of a shape once (`SecondRoundDuplicates`);
- `ShuffleIInv`: the memory is the part of the file read so far and the new file
  what the permutation sends there; a permutation of the blocks leaves the set
  of them as it is (`ShuffledKeepsBlocks`).

The assumptions are `VolumeAssumption`, `PercoreAssumption`, `AgingAssumption`,
`BranchesAssumption`, `ShuffleAssumption`, `TestFileAssumption` and
`RoundFitsAssumption`.  The last one says that the files of a round together have
at most as many pages as an int has values; for files of a gigabyte that are
16384 of them, 16 TiB, which is more than the devices hold.  The model-checked
instance fills it to the last value.

Only model-checked are the liveness properties: `CallsReturn`, `SortReturns`,
`Terminates`, `Ends` and `RunsEnd`.  They need `ENABLED` and fairness, which the
prover cannot handle.  For the first four the bounds they rest on are theorems
(`CallsTakeSteps`, `SortRunsOut`, `WorkersRunOut` for the workers, `RunEnds`): what is
left to TLC is the step from a bound to "eventually", and the planning phases of
`Replay`, which are loops over the lines and the records.  `RunsEnd` has no such
bound: the ageing draws positions until it hits a new one, and ends only because
the generator does not miss one for ever.  Every safety property of the passing
runs is also a theorem.

## What is not modelled, and the plan

Not modelled:

- option parsing, times and bandwidths, messages; memory that is not available;
  the arithmetic of the random generators; byte-wise partial reads (a pread
  returns whole sectors here, and a short write of `rw_interference` ends after a
  whole word of its block);
- in `Replay`, an `fwrite` or `fclose` of the dump that fails, which the code does
  not notice (`replay.c:509`, `516`): the dump would lack blocks;
- in `RwInterference`, a `pthread_create` that fails (`rw_interference.cpp:256`
  ignores it, and joining such a thread is undefined);
- in `SetupScripts`, a `cp` of `setup.sh` or a `sed` that fails or is interrupted in
  the middle: every `setup.sh` is whole, in the working tree and in `/tmp/setups`;
- in `Bench`, `write_1G` processes that survive an interruption of their script:
  `Break` ends the whole process group.  Background processes of a script ignore
  the interrupt key (`percore_amount.sh:18`, `40`) and would go on writing their
  files; the user is taken to end them;
- md5s whose pieces do not divide a block;
- `__HASHMAP_REMOVABLE`, which the Makefile does not build, `_hashmap_qsort`,
  which nothing calls, and the consistency check that `replay.c` does with `-v`;
- `exhaust_nvmm.c` and `create_files.c`, single loops nothing depends on;
- `correct/small.sh`, which writes and reads one line, and
  `overwrite_correction.sh`, commands edited by hand before each use;
- the power failure that leaves a marker of `mkstdfile.sh` without the files
  written before it: nothing is synced, and what survives is up to ext4;
- two set-up scripts at the same time: they would load the same module;
- the `fio` runs behind the set-up of `fio_nova.sh` and `fio_nvdedup.sh`, the
  other measurement scripts, the converters and the downloads, which keep no
  state.

Next would come a bound for the planning of `Replay` like those its workers have.
