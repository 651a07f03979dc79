--------------------------- MODULE RwInterference ---------------------------
(***************************************************************************)
(* helper/rw_interference.cpp: reader threads write blocks that are already*)
(* on the file system (duplicates) and writer threads write new ones, all at*)
(* the same time.  main waits for the class it measures, cancels the other *)
(* one, and reports how many blocks were written meanwhile.                *)
(*                                                                         *)
(* A write is of one block that holds one number in all its words, its     *)
(* magic.  make_file takes a short write for a whole one: what it writes to*)
(* that file afterwards is shifted, and lies across the boundaries of the  *)
(* blocks of the file system.  So a file is the sequence of the words that *)
(* this run has written to it.                                             *)
(*                                                                         *)
(* Abstracted: the granularity is a number of words, and a short write ends*)
(* after a whole one.  Left out: a thread that pthread_create cannot start *)
(* (its result is not looked at, and to join such a thread is undefined),  *)
(* and task lists and parameters that cannot be allocated.                 *)
(***************************************************************************)
EXTENDS Integers, Sequences, FiniteSets

CONSTANTS
    Options,        \* the command lines: [readers, writers, total, object, stage]
    MaxTasks,       \* the largest number of threads of a command line
    Words           \* the words of a block: granularity / sizeof(unsigned long)

ASSUME WordsAssumption == Words \in Nat \ {0}

ASSUME OptionsAssumption ==
    \A o \in Options :
        /\ o.readers \in Nat /\ o.writers \in Nat
        /\ o.readers + o.writers <= MaxTasks
        /\ o.total \in Nat                      \* total_num_blocks
        /\ o.object \in {"read", "write", "other"}
        /\ o.stage \in {"all", "prepare", "run"}

VARIABLES
    opt,            \* the options in force
    mpc,            \* what main does next
    next,           \* the loop variable of main's loops
    tasks,          \* task_list, without the progress
    progress,       \* progress[i]: the progress field of task i
    prepared,       \* the blocks stage 1 has written, as the file system has them
    pre_file,       \* the file of stage 1 that is being written,
    pre_block,      \* and how many of its blocks make_file believes written
    prepare_cut,    \* history: a write of stage 1 has failed or was short
    tpc,            \* tpc[i]: "none" | "params" | "open" | "write" | "store" | "close"
                    \*  | "ended" | "cancelled"
    cancel,         \* the threads with a pending pthread_cancel
    block,          \* block[i]: the loop variable of thread i in make_file
    written,        \* written[i]: the file of thread i
    reported        \* total_processed_blocks

stage1 == <<prepared, pre_file, pre_block, prepare_cut>>
vars == <<opt, mpc, next, tasks, progress, stage1, tpc, cancel, block, written, reported>>

num_tasks == opt.readers + opt.writers
Threads == 0 .. num_tasks - 1

----------------------------------------------------------------------------
Init ==
    /\ opt \in Options
    /\ mpc = "make"
    /\ next = 0
    /\ tasks = <<>>
    /\ progress = [i \in Threads |-> 0]
    /\ prepared = {}
    /\ pre_file = <<>>
    /\ pre_block = 0
    /\ prepare_cut = FALSE
    /\ tpc = [i \in Threads |-> "none"]
    /\ cancel = {}
    /\ block = [i \in Threads |-> 0]
    /\ written = [i \in Threads |-> <<>>]
    /\ reported = 0

\* total * PREDEFINED_RATIO, truncated, for the class that is measured; the
\* rest for the other one.
reader_share ==
    IF opt.readers = 0 THEN 0
    ELSE IF opt.writers = 0 THEN opt.total
    ELSE IF opt.object = "read" THEN opt.total \div 3
    ELSE opt.total - opt.total \div 3

PerThread(share, threads) == IF threads = 0 THEN 0 ELSE share \div threads

reader_num_blocks == PerThread(reader_share, opt.readers)
writer_num_blocks == PerThread(opt.total - reader_share, opt.writers)

\* Mutant: the writers' magics go on where the readers' end.
TaskAfterReaders(i) ==
    IF i < opt.readers
    THEN [start_magic |-> i * reader_num_blocks, num_blocks |-> reader_num_blocks,
          dup |-> TRUE]
    ELSE [start_magic |-> opt.readers * reader_num_blocks
                            + (i - opt.readers) * writer_num_blocks,
          num_blocks |-> writer_num_blocks, dup |-> FALSE]

Task(i) ==
    IF i < opt.readers
    THEN [start_magic |-> i * reader_num_blocks, num_blocks |-> reader_num_blocks,
          dup |-> TRUE]
    ELSE [start_magic |-> opt.total + (i - opt.readers) * writer_num_blocks,
          num_blocks |-> writer_num_blocks, dup |-> FALSE]

\* Without any thread make_tasks fails; main does not notice.
make_tasks ==
    /\ mpc = "make"
    /\ tasks' = [i \in Threads |-> Task(i)]
    /\ mpc' = IF opt.stage = "run" THEN "create" ELSE "prepare"
    /\ UNCHANGED <<opt, next, progress, stage1, tpc, cancel, block, written, reported>>

\* The blocks of the tasks before i, added up: where the magics of pre-<i> start.
BlocksBefore(i) ==
    IF i <= opt.readers THEN i * reader_num_blocks
    ELSE opt.readers * reader_num_blocks + (i - opt.readers) * writer_num_blocks

\* What write() leaves of one block of this magic: n words, appended.
WriteOf(file, magic, n) == file \o [w \in 1 .. n |-> magic]

\* The whole blocks of a file, by number, and the words of one of them.
BlockNumbers(file) == {b \in 1 .. Len(file) : b * Words <= Len(file)}
FileBlock(file, b) == SubSeq(file, (b - 1) * Words + 1, b * Words)

\* make_file on pre-<next>, block by block.  When open or a write fails the rest
\* of the file is missing; prepare_workload goes on to the next one and notices
\* neither that nor a short write.
prepare_workload ==
    /\ mpc = "prepare"
    /\ \/ /\ next < num_tasks
          /\ pre_block < tasks[next].num_blocks
          /\ \E n \in 1 .. Words :
                /\ pre_file' = WriteOf(pre_file, BlocksBefore(next) + pre_block, n)
                /\ prepare_cut' = (prepare_cut \/ n < Words)
          /\ prepared' = prepared \cup {FileBlock(pre_file', b) : b \in BlockNumbers(pre_file')}
          /\ pre_block' = pre_block + 1
          /\ UNCHANGED <<mpc, next>>
       \/ /\ next < num_tasks
          /\ prepare_cut' = (prepare_cut \/ pre_block < tasks[next].num_blocks)
          /\ next' = next + 1
          /\ pre_file' = <<>>
          /\ pre_block' = 0
          /\ UNCHANGED <<mpc, prepared>>
       \/ /\ next = num_tasks
          /\ next' = 0
          /\ mpc' = IF opt.stage = "prepare" THEN "exit" ELSE "create"
          /\ UNCHANGED stage1
    /\ UNCHANGED <<opt, tasks, progress, tpc, cancel, block, written, reported>>

----------------------------------------------------------------------------
(* run. *)

FirstTarget == IF opt.object = "write" THEN opt.readers ELSE 0

\* Mutant: the last thread is not created.
CreateAllButLast ==
    /\ mpc = "create"
    /\ \/ /\ next < num_tasks - 1
          /\ tpc' = [tpc EXCEPT ![next] = "params"]
          /\ next' = next + 1
          /\ UNCHANGED mpc
       \/ /\ next >= num_tasks - 1
          /\ mpc' = IF opt.object = "other" THEN "sum" ELSE "join"
          /\ next' = IF opt.object = "other" THEN 0 ELSE FirstTarget
          /\ UNCHANGED tpc
    /\ UNCHANGED <<opt, tasks, progress, stage1, cancel, block, written, reported>>

\* With another measurement object than the two, main neither joins nor
\* cancels.
CreateThread ==
    /\ mpc = "create"
    /\ \/ /\ next < num_tasks
          /\ tpc' = [tpc EXCEPT ![next] = "params"]
          /\ next' = next + 1
          /\ UNCHANGED mpc
       \/ /\ next = num_tasks
          /\ mpc' = IF opt.object = "other" THEN "sum" ELSE "join"
          /\ next' = IF opt.object = "other" THEN 0 ELSE FirstTarget
          /\ UNCHANGED tpc
    /\ UNCHANGED <<opt, tasks, progress, stage1, cancel, block, written, reported>>

\* The threads of the measured class are those from FirstTarget up to here.
EndOfTargets == IF opt.object = "write" THEN num_tasks ELSE opt.readers
FirstRemaining == IF opt.object = "write" THEN 0 ELSE opt.readers
EndOfRemaining == IF opt.object = "write" THEN opt.readers ELSE num_tasks

\* Mutant: main waits for as many writers as there are readers.
JoinReaderCount ==
    /\ mpc = "join"
    /\ \/ /\ next < opt.readers
          /\ tpc[next] \in {"ended", "cancelled"}
          /\ next' = next + 1
          /\ UNCHANGED mpc
       \/ /\ next >= opt.readers
          /\ mpc' = "cancel"
          /\ next' = FirstRemaining
    /\ UNCHANGED <<opt, tasks, progress, stage1, tpc, cancel, block, written, reported>>

JoinTarget ==
    /\ mpc = "join"
    /\ \/ /\ next < EndOfTargets
          /\ tpc[next] \in {"ended", "cancelled"}
          /\ next' = next + 1
          /\ UNCHANGED mpc
       \/ /\ next = EndOfTargets
          /\ mpc' = "cancel"
          /\ next' = FirstRemaining
    /\ UNCHANGED <<opt, tasks, progress, stage1, tpc, cancel, block, written, reported>>

\* pthread_cancel only asks; nobody waits for the thread to end.
CancelRemaining ==
    /\ mpc = "cancel"
    /\ \/ /\ next < EndOfRemaining
          /\ cancel' = cancel \cup {next}
          /\ next' = next + 1
          /\ UNCHANGED mpc
       \/ /\ next = EndOfRemaining
          /\ mpc' = "sum"
          /\ next' = 0
          /\ UNCHANGED cancel
    /\ UNCHANGED <<opt, tasks, progress, stage1, tpc, block, written, reported>>

\* The progress of one thread after the other, which may still be running.
SumProgress ==
    /\ mpc = "sum"
    /\ \/ /\ next < num_tasks
          /\ reported' = reported + progress[next]
          /\ next' = next + 1
          /\ UNCHANGED mpc
       \/ /\ next = num_tasks
          /\ mpc' = "free"
          /\ UNCHANGED <<next, reported>>
    /\ UNCHANGED <<opt, tasks, progress, stage1, tpc, cancel, block, written>>

\* The parameters are freed, and soon after the process ends.
FreeParams ==
    /\ mpc = "free"
    /\ mpc' = "freed"
    /\ UNCHANGED <<opt, next, tasks, progress, stage1, tpc, cancel, block, written,
                   reported>>

Exit ==
    /\ mpc = "freed"
    /\ mpc' = "exit"
    /\ UNCHANGED <<opt, next, tasks, progress, stage1, tpc, cancel, block, written,
                   reported>>

----------------------------------------------------------------------------
(* dedup_or_write_task and make_file, in thread i. *)

Over == mpc \in {"exit", "fault"}

\* The thread copies its parameters.  Freed memory may still hold them, or
\* the allocator has reused it and the thread follows a wild pointer.
ReadParams(i) ==
    /\ tpc[i] = "params"
    /\ \/ tpc' = [tpc EXCEPT ![i] = "open"] /\ UNCHANGED mpc
       \/ mpc = "freed" /\ mpc' = "fault" /\ UNCHANGED tpc
    /\ UNCHANGED <<opt, next, tasks, progress, stage1, cancel, block, written,
                   reported>>

\* When open (or malloc) fails the thread ends.
OpenFile(i) ==
    /\ tpc[i] = "open"
    /\ \E pc \in {IF tasks[i].num_blocks > 0 THEN "write" ELSE "close", "ended"} :
            tpc' = [tpc EXCEPT ![i] = pc]
    /\ UNCHANGED <<opt, mpc, next, tasks, progress, stage1, cancel, block, written,
                   reported>>

\* A short write counts as a block; a failed one ends the thread.
WriteBlock(i) ==
    /\ tpc[i] = "write"
    /\ \/ /\ \E n \in 1 .. Words :
                written' = [written EXCEPT
                                ![i] = WriteOf(@, tasks[i].start_magic + block[i], n)]
          /\ tpc' = [tpc EXCEPT ![i] = "store"]
       \/ tpc' = [tpc EXCEPT ![i] = "ended"] /\ UNCHANGED written
    /\ UNCHANGED <<opt, mpc, next, tasks, progress, stage1, cancel, block, reported>>

\* Mutant: the progress is stored for every other block only.
StoreEveryOther(i) ==
    /\ tpc[i] = "store"
    /\ LET done == block[i] + 1
       IN  /\ progress' = [progress EXCEPT ![i] = IF done % 2 = 0 THEN done ELSE @]
           /\ block' = [block EXCEPT ![i] = done]
           /\ tpc' = [tpc EXCEPT ![i] = IF done < tasks[i].num_blocks THEN "write" ELSE "close"]
    /\ UNCHANGED <<opt, mpc, next, tasks, stage1, cancel, written, reported>>

\* Mutant: the loop makes one turn too many.
StoreAndGoOn(i) ==
    /\ tpc[i] = "store"
    /\ LET done == block[i] + 1
       IN  /\ progress' = [progress EXCEPT ![i] = done]
           /\ block' = [block EXCEPT ![i] = done]
           /\ tpc' = [tpc EXCEPT ![i] = IF done <= tasks[i].num_blocks THEN "write" ELSE "close"]
    /\ UNCHANGED <<opt, mpc, next, tasks, stage1, cancel, written, reported>>

StoreProgress(i) ==
    /\ tpc[i] = "store"
    /\ LET done == block[i] + 1
       IN  /\ progress' = [progress EXCEPT ![i] = done]
           /\ block' = [block EXCEPT ![i] = done]
           /\ tpc' = [tpc EXCEPT ![i] = IF done < tasks[i].num_blocks THEN "write" ELSE "close"]
    /\ UNCHANGED <<opt, mpc, next, tasks, stage1, cancel, written, reported>>

CloseFile(i) ==
    /\ tpc[i] = "close"
    /\ tpc' = [tpc EXCEPT ![i] = "ended"]
    /\ UNCHANGED <<opt, mpc, next, tasks, progress, stage1, cancel, block, written,
                   reported>>

\* A cancelled thread ends in one of the calls that are cancellation points:
\* open, write (also when the blocks have already reached the file) or close.
ActOnCancel(i) ==
    /\ i \in cancel
    /\ tpc[i] \in {"open", "write", "store", "close"}
    /\ tpc' = [tpc EXCEPT ![i] = "cancelled"]
    /\ UNCHANGED <<opt, mpc, next, tasks, progress, stage1, cancel, block, written,
                   reported>>

MainStep ==
    \/ make_tasks
    \/ prepare_workload
    \/ CreateThread
    \/ JoinTarget
    \/ CancelRemaining
    \/ SumProgress
    \/ FreeParams
    \/ Exit

ThreadStep(i) ==
    /\ ~Over
    /\ \/ ReadParams(i)
       \/ OpenFile(i)
       \/ WriteBlock(i)
       \/ StoreProgress(i)
       \/ CloseFile(i)
       \/ ActOnCancel(i)

Next ==
    \/ MainStep
    \/ \E i \in Threads : ThreadStep(i)
    \/ Over /\ UNCHANGED vars

\* The system schedules main and every thread.
Spec ==
    /\ Init /\ [][Next]_vars
    /\ WF_vars(MainStep)
    /\ \A i \in 0 .. MaxTasks - 1 : WF_vars(i \in Threads /\ ThreadStep(i))

----------------------------------------------------------------------------
(* Properties *)

\* How many writes have gone into a file whose first magic is this.
WritesInto(file, first) == IF file = <<>> THEN 0 ELSE file[Len(file)] - first + 1

\* Only a created thread is joined, cancelled or summed up; no more is written to
\* a file than its task asks for, nor is the progress ahead of the file.
RwTypeOK ==
    /\ mpc \in {"make", "prepare", "create", "join", "cancel", "sum", "free", "freed",
                "exit", "fault"}
    /\ next \in 0 .. num_tasks
    /\ tpc \in [Threads -> {"none", "params", "open", "write", "store", "close", "ended",
                            "cancelled"}]
    /\ cancel \subseteq Threads
    /\ mpc \in {"join", "cancel", "sum", "free", "freed"} => \A i \in Threads : tpc[i] # "none"
    /\ mpc # "make" => \A i \in Threads :
        LET writes == WritesInto(written[i], tasks[i].start_magic)
        IN  progress[i] \in 0 .. writes /\ writes <= tasks[i].num_blocks

\* What stage 2 writes is what the measurement is about.  A block of a writer is
\* nowhere else on the file system, neither among the prepared ones nor elsewhere
\* in the files of the threads, whatever writes of either stage fail or are short.
\* A block of a reader that no short write has shifted has been prepared, unless
\* a write of stage 1 failed or was short (rw_interference.cpp:79-104 against
\* 135-151 and 163-176).
DupsAndOnlyDups ==
    \A i \in Threads : \A b \in BlockNumbers(written[i]) :
        LET content == FileBlock(written[i], b)
            shifted == \E w \in 1 .. Words : content[w] # content[1]
        IN  IF tasks[i].dup
            THEN opt.stage = "all" /\ ~prepare_cut /\ ~shifted => content \in prepared
            ELSE /\ content \notin prepared
                 /\ \A j \in Threads : \A c \in BlockNumbers(written[j]) :
                        FileBlock(written[j], c) = content => i = j /\ b = c

\* "wait for all target threads to finish" (rw_interference.cpp:260, 269): the
\* measurement is over only when every thread of the measured class is.
TargetsFinished ==
    mpc \in {"cancel", "sum", "free", "freed"} /\ opt.object # "other" =>
        \A i \in Threads : tasks[i].dup = (opt.object = "read") => tpc[i] = "ended"

\* What main adds for a thread is the number of writes its file has seen at that
\* moment, however the thread is doing; the last one may be missing, but not when
\* the thread has ended.
ReportIsCurrent ==
    [][mpc = "sum" /\ next' = next + 1 =>
        LET blocks == WritesInto(written[next], tasks[next].start_magic)
        IN  /\ reported' \in {reported + blocks, reported + blocks - 1}
            /\ tpc[next] = "ended" => reported' = reported + blocks]_vars

\* The program ends: no thread is waited for that is not created or that
\* nobody lets finish.
Ends == <>Over

\* "make sure reader is finished but write not" (rw_interference.cpp:62), and
\* the converse (66): when main has waited for the measured class and that has
\* written all its blocks, no thread of the other class has.
OtherClassUnfinished ==
    LET measured == {i \in Threads : tasks[i].dup = (opt.object = "read")}
        complete(i) == progress[i] = tasks[i].num_blocks
    IN  mpc = "cancel" /\ (\A i \in measured : complete(i)) =>
            \A i \in Threads \ measured : ~complete(i)

\* "cancel remains" (rw_interference.cpp:264, 273): after that nothing of the
\* remaining threads runs any more that needs what run() frees.
NoStaleParams == opt.object # "other" => mpc # "fault"
=============================================================================
