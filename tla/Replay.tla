------------------------------- MODULE Replay -------------------------------
(***************************************************************************)
(* A whole run of helper/replay.c: the planning of ReplayPlan, then one     *)
(* thread per worker, started and joined by main.  Each worker replays its  *)
(* hints on its own file <dst>/trace_<w>, one system call per step, and     *)
(* with -r dumps what it reads to dump_read_<w>.  A failed call ends the    *)
(* process, whatever the other workers are doing.                           *)
(*                                                                         *)
(* Left out: an fwrite or fclose of the dump that fails, which the code     *)
(* does not notice (replay.c:509, 516), and what main frees at its end.     *)
(***************************************************************************)
EXTENDS ReplayPlan

CONSTANTS
    MaxThreads,     \* MAX_THREADS
    Zero,           \* a sector of zeros
    OldFile(_)      \* OldFile(w): the file an earlier replay left for worker w

INSTANCE FillBlk

AllWorkers == 0 .. MaxThreads - 1

ASSUME MaxThreadsAssumption == MaxThreads \in Nat

\* Beside the options of the planning: -r, -g, and whether the destination
\* directory holds the files of an earlier replay.
ASSUME RunOptionsAssumption ==
    \A o \in Options :
        /\ o.threads <= MaxThreads
        /\ o.dump \in BOOLEAN
        /\ o.leftover \in BOOLEAN
        /\ o.gen \in Generators

\* The pieces of an md5 divide a block (1, 2, 4 or 8 of them): otherwise fill_blk
\* leaves bytes of an earlier block behind the last piece.
ASSUME PiecesAssumption ==
    \A t \in Inputs : \A n \in DOMAIN t :
        t[n].md5 # <<>> => BlkSectors % Len(t[n].md5) = 0

\* A file is a sequence of sectors, whatever is in them.
ASSUME OldFileAssumption ==
    \A w \in AllWorkers : OldFile(w) \in Seq({OldFile(w)[p] : p \in DOMAIN OldFile(w)})

VARIABLES
    created,        \* workers main has started
    joined,         \* workers main has waited for
    wpc,            \* wpc[w]: "none" | "open" | "replay" | "ended"
    hint,           \* hint[w]: the index i of the hint being replayed
    blk,            \* blk[w]: the sectors the pread loop has read so far
    ctx,            \* ctx[w]: the context of its random generator
    file,           \* file[w]: the file of worker w
    dump            \* dump[w]: the dump file of worker w

runVars == <<created, joined, wpc, hint, blk, ctx, file, dump>>
vars == <<planVars, runVars>>

INSTANCE Files

----------------------------------------------------------------------------
Init ==
    /\ PlanInit
    /\ created = 0 /\ joined = 0
    /\ wpc = [w \in Workers |-> "none"]
    /\ hint = [w \in Workers |-> 0]
    /\ blk = [w \in Workers |-> <<>>]
    /\ ctx = [w \in Workers |-> Malloced]
    /\ file = [w \in Workers |-> IF opt.leftover THEN OldFile(w) ELSE <<>>]
    /\ dump = [w \in Workers |-> <<>>]

\* pthread_create, and all of main's first loop.
CreateWorker ==
    /\ phase = "ready"
    /\ created < opt.threads
    /\ created' = created + 1
    /\ wpc' = [wpc EXCEPT ![created] = "open"]
    /\ UNCHANGED <<planVars, joined, hint, blk, ctx, file, dump>>

\* Mutant: main joins without waiting for the thread to end.
JoinAtOnce ==
    /\ phase = "ready"
    /\ created = opt.threads
    /\ joined < opt.threads
    /\ joined' = joined + 1
    /\ phase' = IF joined + 1 = opt.threads THEN "done" ELSE phase
    /\ UNCHANGED <<opt, lines, infos, next_info, containers, cur_thread, cur_lines,
                   infos_map, worker, scan, hints, params,
                   created, wpc, hint, blk, ctx, file, dump>>

\* pthread_join; after the last one main prints "Done!".
JoinWorker ==
    /\ phase = "ready"
    /\ created = opt.threads
    /\ joined < opt.threads
    /\ wpc[joined] = "ended"
    /\ joined' = joined + 1
    /\ phase' = IF joined + 1 = opt.threads THEN "done" ELSE phase
    /\ UNCHANGED <<opt, lines, infos, next_info, containers, cur_thread, cur_lines,
                   infos_map, worker, scan, hints, params,
                   created, wpc, hint, blk, ctx, file, dump>>

----------------------------------------------------------------------------
(* replay_worker. *)

\* The dump file is truncated; the file of an earlier replay is not.
OpenFiles(w) ==
    /\ phase = "ready"
    /\ wpc[w] = "open"
    /\ wpc' = [wpc EXCEPT ![w] = "replay"]
    /\ hint' = [hint EXCEPT ![w] = params[w].start]
    /\ dump' = IF opt.dump THEN [dump EXCEPT ![w] = <<>>] ELSE dump
    /\ UNCHANGED <<planVars, created, joined, blk, ctx, file>>

Replaying(w) ==
    /\ phase = "ready"
    /\ wpc[w] = "replay"
    /\ hint[w] < params[w].end

Hint(w) == hints[hint[w] + 1]
HintRecord(w, n) == infos[infos_map[w][Hint(w).start + n]]
HintOffset(w) == HintRecord(w, 1).lba
HintSectors(w) == Hint(w).blks * BlkSectors

\* Only the read-write mode looks at the hint's mode.
IsWrite(w) == opt.mode # "rw" \/ Hint(w).rw = "W"

\* The buffer to write, the blocks of the hint's records one behind the other,
\* and the context that is left.
HintFilled(w) ==
    Filled(opt.gen, ctx[w], [n \in 1 .. Hint(w).blks |-> HintRecord(w, n).md5])

\* An md5 without a whole piece: step is 0.
ShortMd5(w) == \E n \in 1 .. Hint(w).blks : HintRecord(w, n).md5 = <<>>

\* fill_blk divides by step, and the trap ends the process.
DivideByZero(w) ==
    /\ Replaying(w)
    /\ IsWrite(w) /\ ShortMd5(w)
    /\ phase' = "exited"
    /\ UNCHANGED <<opt, lines, infos, next_info, containers, cur_thread, cur_lines,
                   infos_map, worker, scan, hints, params, runVars>>

\* Mutant: in append mode, too, the record's offset is used.
WriteOffsetOfRecord(w) == HintOffset(w)

WriteOffset(w) == IF opt.mode = "a" THEN Len(file[w]) ELSE HintOffset(w)

\* pwrite, or write to a file opened with O_APPEND, of a whole hint.
WriteHint(w) ==
    /\ Replaying(w)
    /\ IsWrite(w) /\ ~ShortMd5(w)
    /\ file' = [file EXCEPT ![w] = pwrite(@, WriteOffset(w), HintFilled(w).blk)]
    /\ ctx' = [ctx EXCEPT ![w] = HintFilled(w).ctx]
    /\ hint' = [hint EXCEPT ![w] = @ + 1]
    /\ UNCHANGED <<planVars, created, joined, wpc, blk, dump>>

\* Sectors of the hint that the file still has for the pread loop.
Available(w) == Len(file[w]) - HintOffset(w) - Len(blk[w])

\* Mutant: every pread starts at the offset of the hint again.
PreadAgain(w) ==
    /\ Replaying(w)
    /\ ~IsWrite(w)
    /\ Len(blk[w]) < HintSectors(w)
    /\ \E n \in 1 .. HintSectors(w) - Len(blk[w]) :
        /\ n <= Available(w)
        /\ blk' = [blk EXCEPT ![w] = @ \o Padded(file[w], HintOffset(w), n)]
    /\ UNCHANGED <<planVars, created, joined, wpc, hint, ctx, file, dump>>

\* Mutant: every pread asks for the whole hint.
PreadWholeHint(w) ==
    /\ Replaying(w)
    /\ ~IsWrite(w)
    /\ Len(blk[w]) < HintSectors(w)
    /\ \E n \in 1 .. HintSectors(w) :
        /\ n <= Available(w)
        /\ blk' = [blk EXCEPT ![w] = @ \o Padded(file[w], HintOffset(w) + Len(@), n)]
    /\ UNCHANGED <<planVars, created, joined, wpc, hint, ctx, file, dump>>

\* One pread of the loop: it returns at least one sector, and no more than
\* was asked for or than there is.
PreadSome(w) ==
    /\ Replaying(w)
    /\ ~IsWrite(w)
    /\ Len(blk[w]) < HintSectors(w)
    /\ \E n \in 1 .. HintSectors(w) - Len(blk[w]) :
        /\ n <= Available(w)
        /\ blk' = [blk EXCEPT ![w] = @ \o Padded(file[w], HintOffset(w) + Len(@), n)]
    /\ UNCHANGED <<planVars, created, joined, wpc, hint, ctx, file, dump>>

\* Mutant: at the end of the file the loop goes on instead of breaking.
EndReadFull(w) ==
    /\ Replaying(w)
    /\ ~IsWrite(w)
    /\ Len(blk[w]) = HintSectors(w)
    /\ dump' = IF opt.dump THEN [dump EXCEPT ![w] = @ \o blk[w]] ELSE dump
    /\ blk' = [blk EXCEPT ![w] = <<>>]
    /\ hint' = [hint EXCEPT ![w] = @ + 1]
    /\ UNCHANGED <<planVars, created, joined, wpc, ctx, file>>

\* The loop ends with the whole range read, or with a pread that returns 0;
\* the rest is zeroed and the buffer dumped.
EndRead(w) ==
    /\ Replaying(w)
    /\ ~IsWrite(w)
    /\ Len(blk[w]) = HintSectors(w) \/ Available(w) <= 0
    /\ dump' = IF opt.dump
               THEN [dump EXCEPT ![w] = @ \o Padded(blk[w], 0, HintSectors(w))]
               ELSE dump
    /\ blk' = [blk EXCEPT ![w] = <<>>]
    /\ hint' = [hint EXCEPT ![w] = @ + 1]
    /\ UNCHANGED <<planVars, created, joined, wpc, ctx, file>>

EndWorker(w) ==
    /\ phase = "ready"
    /\ wpc[w] = "replay"
    /\ hint[w] = params[w].end
    /\ wpc' = [wpc EXCEPT ![w] = "ended"]
    /\ UNCHANGED <<planVars, created, joined, hint, blk, ctx, file, dump>>

\* A call fails and the process exits: an open, a read, or a write of which
\* only the first sectors may have reached the file.
FailedCall(w) ==
    /\ phase = "ready"
    /\ \/ wpc[w] = "open" /\ UNCHANGED file
       \/ Replaying(w) /\ (IsWrite(w) => ~ShortMd5(w)) /\ UNCHANGED file
       \/ /\ Replaying(w)
          /\ IsWrite(w) /\ ~ShortMd5(w)
          /\ \E n \in 1 .. HintSectors(w) - 1 :
                file' = [file EXCEPT ![w] = pwrite(@, WriteOffset(w),
                                                   SubSeq(HintFilled(w).blk, 1, n))]
    /\ phase' = "exited"
    /\ UNCHANGED <<opt, lines, infos, next_info, containers, cur_thread, cur_lines,
                   infos_map, worker, scan, hints, params,
                   created, joined, wpc, hint, blk, ctx, dump>>

WorkerStep(w) ==
    \/ OpenFiles(w) \/ WriteHint(w) \/ DivideByZero(w)
    \/ PreadSome(w) \/ EndRead(w) \/ EndWorker(w)

MainStep == (PlanNext /\ UNCHANGED runVars) \/ CreateWorker \/ JoinWorker

Stopped == phase \in {"done", "exited", "fault"}

Next ==
    \/ MainStep
    \/ \E w \in Workers : WorkerStep(w) \/ FailedCall(w)
    \/ Stopped /\ UNCHANGED vars

\* The system schedules every thread.  No call has to fail.
Spec ==
    /\ Init /\ [][Next]_vars
    /\ WF_vars(MainStep)
    /\ \A w \in AllWorkers : WF_vars(w \in Workers /\ WorkerStep(w))

----------------------------------------------------------------------------
(* Properties *)

\* What the threads hold while they run: main never joins a worker it has not
\* created, each worker stays within its own hints, and what the pread loop
\* has read fits in the worker's buffer (replay.c:494-505).
ReplayTypeOK ==
    /\ phase \in {"done", "exited"} \/ PlanTypeOK
    /\ created \in 0 .. opt.threads
    /\ joined \in 0 .. created
    /\ wpc \in [Workers -> {"none", "open", "replay", "ended"}]
    /\ \A w \in Workers :
        /\ wpc[w] \in {"replay", "ended"} => hint[w] \in params[w].start .. params[w].end
        /\ Len(blk[w]) <= params[w].buf * BlkSectors

HasPlan == phase \in {"ready", "done", "exited"}

\* How many of its records worker w has performed: those before its hint.
PerformedBy(w) ==
    IF wpc[w] \notin {"replay", "ended"} THEN 0
    ELSE IF hint[w] < params[w].end THEN Hint(w).start
    ELSE Len(infos_map[w])

\* The records that the lines still hold, from the last line to the first.
KeptOf(ls) ==
    LET kept[n \in 0 .. Len(ls)] ==
            IF n = 0 THEN <<>>
            ELSE LET line == ls[Len(ls) - n + 1]
                 IN  (IF Kept(line) THEN <<line>> ELSE <<>>) \o kept[n - 1]
    IN  kept[Len(ls)]

Abstract == INSTANCE AbstractReplay WITH
    trace <- infos \o KeptOf(lines),
    options <- [append |-> opt.mode = "a", dump |-> opt.dump, gen |-> opt.gen],
    planned <- HasPlan,
    order <- [w \in AllWorkers |->
                IF HasPlan /\ w \in Workers THEN infos_map[w] ELSE <<>>],
    done <- [w \in AllWorkers |-> IF w \in Workers THEN PerformedBy(w) ELSE 0],
    file <- [w \in AllWorkers |-> IF w \in Workers THEN file[w] ELSE <<>>],
    dump <- [w \in AllWorkers |-> IF w \in Workers THEN dump[w] ELSE <<>>],
    stopped <- phase = "exited"

\* The replay with its containers, hints, buffers and partial reads does what
\* the records say, one after the other, each LBA with one worker.
ImplementsSequential == Abstract!Spec

\* Blocks of the trace do not overlap: each LBA is a multiple of a block.
Aligned == \A n \in DOMAIN infos : infos[n].lba % BlkSectors = 0

\* Record m is before record n in the order of time of the trace, which for
\* equal times is the order of the lines.
Before(m, n) == infos[m].ts < infos[n].ts \/ (infos[m].ts = infos[n].ts /\ m < n)

WritesTo(lba) == {m \in DOMAIN infos : infos[m].lba = lba /\ infos[m].rw = "W"}

OldBlock(w, lba) == Padded(IF opt.leftover THEN OldFile(w) ELSE <<>>, lba, BlkSectors)

\* The block at lba in the file of worker w after the records S.
BlockAfter(S, w, lba) ==
    IF S \cap WritesTo(lba) = {} THEN OldBlock(w, lba)
    ELSE LET last == CHOOSE m \in S \cap WritesTo(lba) :
                        \A n \in S \cap WritesTo(lba) : n = m \/ Before(n, m)
         IN  BlockOf(opt.gen, infos[last].md5)

\* The reads worker w has performed, as positions in its map.
ReadsDone(w) == {p \in 1 .. PerformedBy(w) : infos[infos_map[w][p]].rw = "R"}

\* With -r, the dump of a worker is the blocks its reads would have returned
\* from one disk replayed in the order of time: each read sees the last write
\* to its LBA before it in the whole trace, or what was on the disk.
\* Partitioning by LBA, the coalescing and the resumed preads do not show.
ReadsSeeLastWrite ==
    HasPlan /\ Aligned /\ opt.dump =>
        \A w \in Workers :
            /\ Len(dump[w]) = Cardinality(ReadsDone(w)) * BlkSectors
            /\ \A p \in ReadsDone(w) :
                LET read == infos_map[w][p]
                    r == Cardinality({q \in ReadsDone(w) : q <= p})
                IN  SubSeq(dump[w], (r - 1) * BlkSectors + 1, r * BlkSectors) =
                        BlockAfter({m \in DOMAIN infos : Before(m, read)}, w, infos[read].lba)

\* Once main says "Done!" every block of the trace holds its last write, in
\* the file of the one worker that has its LBA.
LastWriteWins ==
    phase = "done" /\ Aligned /\ opt.mode # "a" =>
        \A w \in Workers : \A p \in DOMAIN infos_map[w] :
            LET lba == infos[infos_map[w][p]].lba
            IN  Padded(file[w], lba, BlkSectors) = BlockAfter(DOMAIN infos, w, lba)

\* The program ends: no worker waits for data that the file does not have,
\* and main waits for nothing that does not come.
Terminates == <>Stopped
=============================================================================
