------------------------ MODULE RwInterferenceProofs ------------------------
(***************************************************************************)
(* The safety properties of RwInterference proved for every number of       *)
(* readers, writers and blocks.                                             *)
(***************************************************************************)
EXTENDS RwInterference, NatLemmas, SequenceTheorems

----------------------------------------------------------------------------
(* The shares. *)

\* What SMT needs to know of a division.
LEMMA DivBasics ==
    ASSUME NEW a \in Nat, NEW b \in Nat, b > 0
    PROVE  a \div b \in Nat /\ b * (a \div b) <= a
OBVIOUS

\* The command line in force.
LEMMA OptFacts ==
    ASSUME opt \in Options
    PROVE  /\ opt.readers \in Nat /\ opt.writers \in Nat /\ opt.total \in Nat
           /\ opt.object \in {"read", "write", "other"}
           /\ opt.stage \in {"all", "prepare", "run"}
           /\ num_tasks \in Nat
BY OptionsAssumption DEF num_tasks

\* The readers and the writers together get no more than all blocks.
LEMMA Shares ==
    ASSUME opt \in Options
    PROVE  /\ reader_num_blocks \in Nat /\ writer_num_blocks \in Nat
           /\ opt.readers * reader_num_blocks \in Nat
           /\ opt.writers * writer_num_blocks \in Nat
           /\ opt.readers * reader_num_blocks + opt.writers * writer_num_blocks <= opt.total
<1>1. opt.total \div 3 \in Nat /\ 3 * (opt.total \div 3) <= opt.total
  BY OptFacts, DivBasics
<1>2. reader_share \in Nat /\ reader_share <= opt.total
  BY <1>1, OptFacts DEF reader_share
<1> HIDE DEF reader_share
<1>3. /\ reader_num_blocks \in Nat
      /\ opt.readers * reader_num_blocks <= reader_share
      /\ opt.readers * reader_num_blocks \in Nat
  <2>1. CASE opt.readers = 0
    BY <2>1, <1>2 DEF reader_num_blocks, PerThread
  <2>2. CASE opt.readers > 0
    <3>1. reader_num_blocks = reader_share \div opt.readers
      BY <2>2, OptFacts DEF reader_num_blocks, PerThread
    <3> QED
      BY <3>1, <2>2, <1>2, OptFacts, DivBasics
  <2> QED
    BY <2>1, <2>2, OptFacts
<1>4. /\ writer_num_blocks \in Nat
      /\ opt.writers * writer_num_blocks <= opt.total - reader_share
      /\ opt.writers * writer_num_blocks \in Nat
  <2>1. CASE opt.writers = 0
    BY <2>1, <1>2, OptFacts DEF writer_num_blocks, PerThread
  <2>2. CASE opt.writers > 0
    <3>1. writer_num_blocks = (opt.total - reader_share) \div opt.writers
      BY <2>2, OptFacts DEF writer_num_blocks, PerThread
    <3>2. opt.total - reader_share \in Nat
      BY <1>2, OptFacts
    <3> QED
      BY <3>1, <3>2, <2>2, OptFacts, DivBasics
  <2> QED
    BY <2>1, <2>2, OptFacts
<1> QED
  BY <1>2, <1>3, <1>4, OptFacts

----------------------------------------------------------------------------
(* The inductive invariant. *)

Types ==
    /\ opt \in Options
    /\ mpc \in {"make", "prepare", "create", "join", "cancel", "sum", "free", "freed",
                "exit", "fault"}
    /\ next \in 0 .. num_tasks
    /\ tpc \in [Threads -> {"none", "params", "open", "write", "store", "close", "ended",
                            "cancelled"}]
    /\ cancel \subseteq Threads
    /\ progress \in [Threads -> Nat]
    /\ block \in [Threads -> Nat]
    /\ written \in [Threads -> Seq(Nat)]
    /\ reported \in Nat

TasksMade == mpc # "make" => tasks = [i \in Threads |-> Task(i)]

\* How many writes the file of a thread has seen.
Writes(i) == WritesInto(written[i], Task(i).start_magic)

\* The loop variable of a thread, which its progress follows, is the number of
\* writes its file has seen, or one less between the write and the store.
Counting ==
    \A i \in Threads :
        /\ tpc[i] \in {"none", "params", "open"} => written[i] = <<>> /\ block[i] = 0
        /\ progress[i] = block[i]
        /\ \/ Writes(i) = block[i] /\ tpc[i] # "store"
           \/ Writes(i) = block[i] + 1 /\ tpc[i] \in {"store", "cancelled"}
        /\ Writes(i) <= Task(i).num_blocks
        /\ tpc[i] = "write" => block[i] < Task(i).num_blocks

\* The magics of a file go from the first one up to that of the last write, and
\* a block's length further on there is always a larger one.
InOrder(file, first) ==
    /\ \A k \in 1 .. Len(file) : first <= file[k] /\ file[k] <= file[Len(file)]
    /\ \A k, l \in 1 .. Len(file) : k + Words <= l => file[k] < file[l]

Contents == \A i \in Threads : InOrder(written[i], Task(i).start_magic)

\* How far the creation of the threads is.
Started ==
    /\ mpc = "make" => next = 0
    /\ mpc \in {"make", "prepare"} => \A i \in Threads : tpc[i] = "none"
    /\ mpc = "create" => \A i \in Threads : tpc[i] = "none" <=> i >= next
    /\ mpc \in {"join", "cancel", "sum", "free", "freed"} =>
            \A i \in Threads : tpc[i] # "none"

\* How far the wait for the measured threads is.
Joining ==
    /\ mpc \in {"join", "cancel"} => opt.object # "other"
    /\ mpc = "join" =>
        /\ next \in FirstTarget .. EndOfTargets
        /\ \A i \in FirstTarget .. next - 1 : tpc[i] = "ended"
    /\ mpc = "cancel" => next \in FirstRemaining .. EndOfRemaining
    /\ mpc \in {"cancel", "sum", "free", "freed"} /\ opt.object # "other" =>
        \A i \in FirstTarget .. EndOfTargets - 1 : tpc[i] = "ended"

\* No thread is cancelled before the measured ones have been waited for.
Cancelling ==
    /\ mpc \in {"make", "prepare", "create", "join"} => cancel = {}
    /\ \A i \in Threads : tpc[i] = "cancelled" => i \in cancel

\* A block that holds this magic alone.
BlockOf(magic) == [w \in 1 .. Words |-> magic]

\* How far stage 1 is in its file.
PreFile ==
    /\ pre_file \in Seq(Nat) /\ pre_block \in Nat /\ prepare_cut \in BOOLEAN
    /\ next < num_tasks /\ mpc = "prepare" => pre_block <= Task(next).num_blocks
    /\ ~(next < num_tasks /\ mpc = "prepare") => pre_block = 0 /\ pre_file = <<>>
    /\ \A k \in 1 .. Len(pre_file) : pre_file[k] < opt.total
    /\ ~prepare_cut => Len(pre_file) = pre_block * Words

\* Which blocks stage 1 has written.
Preparing ==
    /\ \A content \in prepared : content[1] < opt.total
    /\ mpc \in {"make", "prepare"} /\ ~prepare_cut =>
            \A m \in 0 .. BlocksBefore(next) + pre_block - 1 : BlockOf(m) \in prepared
    /\ mpc \notin {"make", "prepare"} /\ opt.stage = "all" /\ ~prepare_cut =>
            \A m \in 0 .. BlocksBefore(num_tasks) - 1 : BlockOf(m) \in prepared

IInv ==
    /\ Types
    /\ TasksMade
    /\ Counting
    /\ Contents
    /\ Started
    /\ Joining
    /\ Cancelling
    /\ PreFile
    /\ Preparing

----------------------------------------------------------------------------
(* Facts that every step uses. *)

\* What depends on the command line alone stays as it is.
LEMMA SameOptions ==
    ASSUME opt' = opt
    PROVE  /\ num_tasks' = num_tasks /\ Threads' = Threads
           /\ \A i : Task(i)' = Task(i)
           /\ \A i : BlocksBefore(i)' = BlocksBefore(i)
           /\ FirstTarget' = FirstTarget /\ EndOfTargets' = EndOfTargets
           /\ FirstRemaining' = FirstRemaining /\ EndOfRemaining' = EndOfRemaining
<1>1. num_tasks' = num_tasks /\ Threads' = Threads
  BY DEF num_tasks, Threads
<1>2. reader_num_blocks' = reader_num_blocks /\ writer_num_blocks' = writer_num_blocks
  BY DEF reader_num_blocks, writer_num_blocks, reader_share, PerThread
<1>3. \A i : Task(i)' = Task(i) /\ BlocksBefore(i)' = BlocksBefore(i)
  BY <1>2 DEF Task, BlocksBefore
<1> QED
  BY <1>1, <1>3 DEF FirstTarget, EndOfTargets, FirstRemaining, EndOfRemaining

\* The threads are numbered from 0 to num_tasks - 1.
LEMMA ThreadNumbers ==
    ASSUME opt \in Options
    PROVE  /\ Threads \subseteq Nat /\ \A i \in Threads : i < num_tasks
           /\ \A i \in Nat : i < num_tasks => i \in Threads
BY OptFacts DEF Threads

\* A task starts at a number and has a number of blocks.
LEMMA TaskFacts ==
    ASSUME opt \in Options, NEW i \in Threads
    PROVE  /\ Task(i).start_magic \in Nat
           /\ Task(i).num_blocks \in Nat
           /\ i < opt.readers => Task(i).dup = TRUE
           /\ ~(i < opt.readers) => Task(i).dup = FALSE
<1>1. i \in Nat
  BY ThreadNumbers
<1>2. /\ opt.readers \in Nat /\ opt.total \in Nat
      /\ reader_num_blocks \in Nat /\ writer_num_blocks \in Nat
  BY OptFacts, Shares
<1>3. CASE i < opt.readers
  <2>1. i * reader_num_blocks \in Nat
    BY <1>1, <1>2
  <2>2. Task(i) = [start_magic |-> i * reader_num_blocks, num_blocks |-> reader_num_blocks,
                   dup |-> TRUE]
    BY <1>3 DEF Task
  <2>3. /\ Task(i).start_magic = i * reader_num_blocks
        /\ Task(i).num_blocks = reader_num_blocks
        /\ Task(i).dup = TRUE
    BY <2>2
  <2> QED
    BY <1>2, <1>3, <2>1, <2>3
<1>4. CASE ~(i < opt.readers)
  <2>1. i - opt.readers \in Nat
    BY <1>1, <1>2, <1>4
  <2>2. (i - opt.readers) * writer_num_blocks \in Nat
    BY <1>2, <2>1
  <2>3. Task(i) = [start_magic |-> opt.total + (i - opt.readers) * writer_num_blocks,
                   num_blocks |-> writer_num_blocks, dup |-> FALSE]
    BY <1>4 DEF Task
  <2>4. opt.total + (i - opt.readers) * writer_num_blocks \in Nat
    BY <1>2, <2>2
  <2>5. /\ Task(i).start_magic = opt.total + (i - opt.readers) * writer_num_blocks
        /\ Task(i).num_blocks = writer_num_blocks
        /\ Task(i).dup = FALSE
    BY <2>3
  <2> QED
    BY <1>2, <1>4, <2>4, <2>5
<1> QED
  BY <1>3, <1>4

\* A step of main that leaves the threads alone keeps what is said of them.
LEMMA ThreadsLeftAlone ==
    ASSUME Counting, Contents, UNCHANGED <<opt, tpc, progress, block, written>>
    PROVE  Counting' /\ Contents'
BY SameOptions DEF Counting, Contents, Writes

\* A step of main that leaves stage 1 alone.
LEMMA PreparedLeftAlone ==
    ASSUME PreFile, Preparing, UNCHANGED <<opt, stage1>>,
           mpc \notin {"make", "prepare"}, mpc' \notin {"make", "prepare"}
    PROVE  PreFile' /\ Preparing'
BY SameOptions DEF PreFile, Preparing, stage1, BlockOf

\* The targets and the remaining threads lie among the threads.
LEMMA TargetRange ==
    ASSUME opt \in Options
    PROVE  /\ FirstTarget \in 0 .. num_tasks /\ EndOfTargets \in 0 .. num_tasks
           /\ FirstRemaining \in 0 .. num_tasks /\ EndOfRemaining \in 0 .. num_tasks
           /\ FirstTarget <= EndOfTargets
           /\ FirstRemaining <= EndOfRemaining
BY OptFacts DEF FirstTarget, EndOfTargets, FirstRemaining, EndOfRemaining, num_tasks

----------------------------------------------------------------------------
(* Files. *)

\* A block has words.
LEMMA WordsFacts == Words \in Nat /\ Words >= 1
BY WordsAssumption

\* A write appends its magic n times.
LEMMA WriteWords ==
    ASSUME NEW file \in Seq(Nat), NEW magic \in Nat, NEW n \in 1 .. Words
    PROVE  /\ WriteOf(file, magic, n) \in Seq(Nat)
           /\ Len(file) \in Nat /\ Len(WriteOf(file, magic, n)) = Len(file) + n
           /\ \A k \in 1 .. Len(file) : WriteOf(file, magic, n)[k] = file[k]
           /\ \A k \in Len(file) + 1 .. Len(file) + n : WriteOf(file, magic, n)[k] = magic
<1> DEFINE more == [w \in 1 .. n |-> magic]
<1>1. n \in Nat /\ n >= 1 /\ n <= Words
  BY WordsFacts
<1>2. more \in Seq(Nat) /\ Len(more) = n /\ \A w \in 1 .. n : more[w] = magic
  BY <1>1
<1> HIDE DEF more
<1>3. Len(file) \in Nat
  BY LenProperties
<1>4. /\ file \o more \in Seq(Nat)
      /\ Len(file \o more) = Len(file) + n
      /\ \A k \in 1 .. Len(file) + n : (file \o more)[k] =
            IF k <= Len(file) THEN file[k] ELSE more[k - Len(file)]
  BY <1>2, ConcatProperties
<1>5. WriteOf(file, magic, n) = file \o more
  BY DEF WriteOf, more
<1>6. ASSUME NEW k \in Len(file) + 1 .. Len(file) + n
      PROVE  k \in 1 .. Len(file) + n /\ ~(k <= Len(file)) /\ k - Len(file) \in 1 .. n
  BY <1>1, <1>3
<1>7. ASSUME NEW k \in 1 .. Len(file)
      PROVE  k \in 1 .. Len(file) + n /\ k <= Len(file)
  BY <1>1, <1>3
<1> QED
  BY <1>2, <1>3, <1>4, <1>5, <1>6, <1>7

\* A whole block of a file by its words.
LEMMA BlockWords ==
    ASSUME NEW file \in Seq(Nat), NEW b \in BlockNumbers(file)
    PROVE  /\ b \in Nat /\ b >= 1 /\ (b - 1) * Words \in Nat
           /\ (b - 1) * Words + Words <= Len(file)
           /\ FileBlock(file, b) = [w \in 1 .. Words |-> file[(b - 1) * Words + w]]
           /\ \A w \in 1 .. Words : (b - 1) * Words + w \in 1 .. Len(file)
<1>1. b \in Nat /\ b >= 1 /\ b * Words <= Len(file) /\ Len(file) \in Nat
  BY LenProperties DEF BlockNumbers
<1>2. PICK c \in Nat : b = c + 1
  <2>1. b - 1 \in Nat /\ b = (b - 1) + 1
    BY <1>1
  <2> QED
    BY <2>1
<1>3. b - 1 = c /\ c * Words \in Nat /\ b * Words = c * Words + Words
  BY <1>2, WordsFacts
<1> DEFINE lo == c * Words
<1>4. lo \in Nat /\ lo + Words <= Len(file)
  BY <1>1, <1>3
<1>5. FileBlock(file, b) = SubSeq(file, lo + 1, lo + Words)
  BY <1>3 DEF FileBlock
<1> HIDE DEF lo
<1>6. \A w \in 1 .. Words : lo + w \in 1 .. Len(file)
  BY <1>1, <1>4, WordsFacts
<1>7. FileBlock(file, b) = [w \in 1 .. Words |-> file[lo + w]]
  <2>1. \A k \in lo + 1 .. lo + Words : file[k] \in Nat
    BY <1>1, <1>4, WordsFacts, ElementOfSeq
  <2>2. /\ FileBlock(file, b) \in Seq(Nat)
        /\ Len(FileBlock(file, b)) = Words
        /\ \A w \in 1 .. Words : FileBlock(file, b)[w] = file[lo + w]
    <3>1. lo + 1 \in Int /\ lo + Words \in Int /\ lo + 1 <= lo + Words
          /\ (lo + Words) - (lo + 1) + 1 = Words
      BY <1>4, WordsFacts
    <3>2. \A w \in 1 .. Words : (lo + 1) + w - 1 = lo + w
      BY <1>4, WordsFacts
    <3> QED
      BY <1>5, <2>1, <3>1, <3>2, SubSeqProperties
  <2>3. FileBlock(file, b) = [w \in 1 .. Words |-> FileBlock(file, b)[w]]
    BY <2>2, LenProperties
  <2> QED
    BY <2>2, <2>3
<1>8. lo = (b - 1) * Words
  BY <1>3 DEF lo
<1> QED
  BY <1>1, <1>4, <1>6, <1>7, <1>8

\* Where its first word is.
LEMMA BlockStart ==
    ASSUME NEW file \in Seq(Nat), NEW b \in BlockNumbers(file)
    PROVE  /\ b \in Nat /\ b - 1 \in Nat /\ (b - 1) * Words \in Nat
           /\ (b - 1) * Words + 1 \in 1 .. Len(file)
           /\ FileBlock(file, b)[1] = file[(b - 1) * Words + 1]
<1>1. 1 \in 1 .. Words
  BY WordsFacts
<1>2. /\ b \in Nat /\ b >= 1 /\ (b - 1) * Words \in Nat
      /\ FileBlock(file, b) = [w \in 1 .. Words |-> file[(b - 1) * Words + w]]
      /\ \A w \in 1 .. Words : (b - 1) * Words + w \in 1 .. Len(file)
  BY BlockWords
<1>3. b - 1 \in Nat
  BY <1>2
<1>4. FileBlock(file, b)[1] = file[(b - 1) * Words + 1]
  BY <1>1, <1>2, Zenon
<1>5. (b - 1) * Words + 1 \in 1 .. Len(file)
  BY <1>1, <1>2, Zenon
<1> QED
  BY <1>2, <1>3, <1>4, <1>5

\* A whole write at a block boundary makes one more block, of its magic alone.
LEMMA WholeWrite ==
    ASSUME NEW file \in Seq(Nat), NEW magic \in Nat, NEW b \in Nat, Len(file) = b * Words
    PROVE  BlockOf(magic) \in {FileBlock(WriteOf(file, magic, Words), c) :
                                c \in BlockNumbers(WriteOf(file, magic, Words))}
<1> DEFINE new == WriteOf(file, magic, Words)
<1>1. Words \in 1 .. Words
  BY WordsFacts
<1>2. /\ new \in Seq(Nat) /\ Len(file) \in Nat /\ Len(new) = Len(file) + Words
      /\ \A k \in Len(file) + 1 .. Len(file) + Words : new[k] = magic
  BY <1>1, WriteWords
<1> HIDE DEF new
<1>3. b * Words \in Nat /\ (b + 1) * Words = b * Words + Words /\ b * Words >= b
  <2>1. \/ b = 0
        \/ b > 0
    OBVIOUS
  <2>2. b * Words \in Nat /\ (b + 1) * Words = b * Words + Words
    BY WordsFacts
  <2>3. PICK d \in Nat : Words = d + 1
    <3>1. Words - 1 \in Nat /\ Words = (Words - 1) + 1
      BY WordsFacts
    <3> QED
      BY <3>1
  <2>4. b * Words = b * d + b /\ b * d \in Nat
    BY <2>3
  <2> QED
    BY <2>2, <2>4
<1>4. b + 1 \in BlockNumbers(new)
  BY <1>2, <1>3, WordsFacts DEF BlockNumbers
<1>5. FileBlock(new, b + 1) = BlockOf(magic)
  <2>1. FileBlock(new, b + 1) = [w \in 1 .. Words |-> new[((b + 1) - 1) * Words + w]]
    BY <1>2, <1>4, BlockWords
  <2>2. ((b + 1) - 1) * Words = Len(file)
    OBVIOUS
  <2>3. \A w \in 1 .. Words : new[Len(file) + w] = magic
    BY <1>2, WordsFacts
  <2> QED
    BY <2>1, <2>2, <2>3 DEF BlockOf
<1> QED
  BY <1>4, <1>5 DEF new

\* A write keeps the order of the magics and is counted, however short it is.
LEMMA WriteInOrder ==
    ASSUME NEW file \in Seq(Nat), NEW first \in Nat, InOrder(file, first),
           NEW b \in Nat, WritesInto(file, first) = b, NEW n \in 1 .. Words
    PROVE  /\ InOrder(WriteOf(file, first + b, n), first)
           /\ WritesInto(WriteOf(file, first + b, n), first) = b + 1
<1> DEFINE new == WriteOf(file, first + b, n)
           len == Len(file)
<1>1. /\ new \in Seq(Nat) /\ len \in Nat /\ Len(new) = len + n
      /\ \A k \in 1 .. len : new[k] = file[k]
      /\ \A k \in len + 1 .. len + n : new[k] = first + b
  <2>1. PICK m \in Nat : m = first + b
    OBVIOUS
  <2>2. /\ WriteOf(file, m, n) \in Seq(Nat)
        /\ Len(file) \in Nat /\ Len(WriteOf(file, m, n)) = Len(file) + n
        /\ \A k \in 1 .. Len(file) : WriteOf(file, m, n)[k] = file[k]
        /\ \A k \in Len(file) + 1 .. Len(file) + n : WriteOf(file, m, n)[k] = m
    BY WriteWords
  <2> QED
    BY <2>1, <2>2
<1>2. n \in Nat /\ n >= 1 /\ n <= Words
  BY WordsFacts
<1> HIDE DEF new
<1>3. len > 0 => file # <<>> /\ b = file[len] - first + 1 /\ file[len] \in Nat
  <2>1. len > 0 => file # <<>> /\ file[len] \in Nat
    BY <1>1, ElementOfSeq, EmptySeq
  <2> QED
    BY <2>1 DEF WritesInto
<1>4. ASSUME NEW k \in 1 .. len
      PROVE  first <= file[k] /\ file[k] < first + b /\ file[k] \in Nat
  <2>1. len > 0 /\ file[k] \in Nat
    <3>1. file[k] \in Nat
      BY ElementOfSeq, Zenon
    <3> QED
      BY <1>1, <3>1
  <2>2. first <= file[k] /\ file[k] <= file[len]
    BY DEF InOrder
  <2> QED
    BY <1>3, <2>1, <2>2
<1>5. /\ len + n \in Nat /\ len + n \in len + 1 .. len + n /\ len + n > 0
      /\ \A k \in 1 .. len + n : k \in 1 .. len \/ k \in len + 1 .. len + n
  BY <1>1, <1>2
<1>6. new[len + n] = first + b
  BY <1>1, <1>5
<1>7. \A k \in 1 .. Len(new) : first <= new[k] /\ new[k] <= new[Len(new)]
  <2>1. ASSUME NEW k \in 1 .. len + n
        PROVE  first <= new[k] /\ new[k] <= first + b
    <3>1. CASE k \in 1 .. len
      <4>1. new[k] = file[k]
        BY <1>1, <3>1, Zenon
      <4>2. first <= file[k] /\ file[k] < first + b /\ file[k] \in Nat
        BY <1>4, <3>1
      <4> QED
        BY <4>1, <4>2
    <3>2. CASE k \in len + 1 .. len + n
      BY <1>1, <3>2
    <3> QED
      BY <1>5, <3>1, <3>2
  <2> QED
    BY <1>1, <1>6, <2>1
<1>8. ASSUME NEW k \in 1 .. Len(new), NEW l \in 1 .. Len(new), k + Words <= l
      PROVE  new[k] < new[l]
  <2>1. CASE l \in 1 .. len
    <3>1. k \in 1 .. len
      BY <1>1, <1>2, <1>8, <2>1, WordsFacts
    <3> QED
      BY <1>1, <1>8, <2>1, <3>1 DEF InOrder
  <2>2. CASE l \in len + 1 .. len + n
    <3>1. k \in 1 .. len
      BY <1>1, <1>2, <1>8, <2>2, WordsFacts
    <3> QED
      BY <1>1, <1>4, <2>2, <3>1
  <2> QED
    BY <1>1, <1>5, <2>1, <2>2
<1>9. InOrder(new, first)
  BY <1>7, <1>8 DEF InOrder
<1>10. WritesInto(new, first) = b + 1
  <2>1. new # <<>>
    BY <1>1, <1>5, EmptySeq
  <2> QED
    BY <1>1, <1>6, <2>1 DEF WritesInto
<1> QED
  BY <1>9, <1>10 DEF new

----------------------------------------------------------------------------
(* Stage 1. *)

\* BlocksBefore adds up the blocks of the tasks.
LEMMA BlocksBeforeNext ==
    ASSUME opt \in Options, NEW i \in Threads
    PROVE  /\ BlocksBefore(i) \in Nat
           /\ BlocksBefore(i + 1) = BlocksBefore(i) + Task(i).num_blocks
           /\ BlocksBefore(i + 1) <= BlocksBefore(num_tasks)
<1> DEFINE r == opt.readers
           w == opt.writers
           a == reader_num_blocks
           b == writer_num_blocks
<1>1. /\ r \in Nat /\ w \in Nat /\ a \in Nat /\ b \in Nat /\ i \in Nat
      /\ num_tasks = r + w /\ i < r + w
      /\ r * a \in Nat /\ w * b \in Nat
  BY OptFacts, Shares, ThreadNumbers DEF num_tasks
<1>2. BlocksBefore(num_tasks) = r * a + w * b
  <2>1. CASE w = 0
    BY <1>1, <2>1 DEF BlocksBefore
  <2>2. CASE w > 0
    <3>1. (r + w) - r = w /\ ~(r + w <= r)
      BY <1>1, <2>2
    <3> QED
      BY <1>1, <3>1 DEF BlocksBefore
  <2> QED
    BY <1>1, <2>1, <2>2
<1>3. CASE i < r
  <2>1. BlocksBefore(i) = i * a /\ BlocksBefore(i + 1) = (i + 1) * a
    BY <1>1, <1>3 DEF BlocksBefore
  <2>2. Task(i).num_blocks = a
    BY <1>3 DEF Task
  <2> HIDE DEF r, w, a, b
  <2>3. (i + 1) * a = i * a + a /\ i * a \in Nat
    BY <1>1
  <2>4. (i + 1) * a <= r * a
    <3>1. PICK c \in Nat : r = (i + 1) + c
      <4>1. r - (i + 1) \in Nat /\ r = (i + 1) + (r - (i + 1))
        BY <1>1, <1>3
      <4> QED
        BY <4>1
    <3>2. r * a = (i + 1) * a + c * a /\ c * a \in Nat
      BY <3>1, <1>1
    <3> QED
      BY <3>2, <2>3, <1>1
  <2> QED
    BY <1>1, <1>2, <2>1, <2>2, <2>3, <2>4
<1>4. CASE ~(i < r)
  <2>1. PICK c \in Nat : i = r + c
    <3>1. i - r \in Nat /\ i = r + (i - r)
      BY <1>1, <1>4
    <3> QED
      BY <3>1
  <2>2. (i - r) = c /\ (i + 1) - r = c + 1 /\ ~(i + 1 <= r)
    BY <1>1, <2>1
  <2>3. BlocksBefore(i + 1) = r * a + (c + 1) * b
    BY <2>2 DEF BlocksBefore
  <2>4. BlocksBefore(i) = r * a + c * b
    <3>1. CASE c = 0
      BY <1>1, <2>1, <3>1 DEF BlocksBefore
    <3>2. CASE c > 0
      <4>1. ~(i <= r)
        BY <1>1, <2>1, <3>2
      <4> QED
        BY <4>1, <2>2 DEF BlocksBefore
    <3> QED
      BY <2>1, <3>1, <3>2
  <2>5. Task(i).num_blocks = b
    BY <1>4 DEF Task
  <2> HIDE DEF r, w, a, b
  <2>6. (c + 1) * b = c * b + b /\ c * b \in Nat
    BY <1>1
  <2>7. (c + 1) * b <= w * b
    <3>1. PICK e \in Nat : w = (c + 1) + e
      <4>1. w - (c + 1) \in Nat /\ w = (c + 1) + (w - (c + 1))
        BY <1>1, <2>1
      <4> QED
        BY <4>1
    <3>2. w * b = (c + 1) * b + e * b /\ e * b \in Nat
      BY <3>1, <1>1
    <3> QED
      BY <3>2, <2>6, <1>1
  <2> QED
    BY <1>1, <1>2, <2>3, <2>4, <2>5, <2>6, <2>7
<1> QED
  BY <1>3, <1>4

\* ... and stage 1 writes no more blocks than there are.
LEMMA BlocksBeforeEnd ==
    ASSUME opt \in Options
    PROVE  /\ BlocksBefore(0) = 0
           /\ BlocksBefore(num_tasks) \in Nat /\ BlocksBefore(num_tasks) <= opt.total
           /\ opt.readers * reader_num_blocks <= BlocksBefore(num_tasks)
<1> DEFINE r == opt.readers
           w == opt.writers
           a == reader_num_blocks
           b == writer_num_blocks
<1>1. /\ r \in Nat /\ w \in Nat /\ a \in Nat /\ b \in Nat
      /\ num_tasks = r + w
      /\ r * a \in Nat /\ w * b \in Nat /\ r * a + w * b <= opt.total
      /\ opt.total \in Nat
  BY OptFacts, Shares DEF num_tasks
<1>2. BlocksBefore(num_tasks) = r * a + w * b
  <2>1. CASE w = 0
    BY <1>1, <2>1 DEF BlocksBefore
  <2>2. CASE w > 0
    <3>1. (r + w) - r = w /\ ~(r + w <= r)
      BY <1>1, <2>2
    <3> QED
      BY <1>1, <3>1 DEF BlocksBefore
  <2> QED
    BY <1>1, <2>1, <2>2
<1>3. BlocksBefore(0) = 0
  BY <1>1 DEF BlocksBefore
<1> QED
  BY <1>1, <1>2, <1>3

----------------------------------------------------------------------------
(* The initial states and the steps of main keep the invariant. *)

\* The options parsed, nothing done.
LEMMA InitIInv ==
    ASSUME Init
    PROVE  IInv
<1>1. opt \in Options /\ num_tasks \in Nat /\ opt.total \in Nat
  BY OptFacts DEF Init
<1>2. Types
  BY <1>1 DEF Types, Init
<1>3. Counting
  <2>1. ASSUME NEW i \in Threads
        PROVE  /\ tpc[i] = "none" /\ written[i] = <<>> /\ block[i] = 0 /\ progress[i] = 0
               /\ Writes(i) = 0 /\ Writes(i) <= Task(i).num_blocks
    <3>1. tpc[i] = "none" /\ written[i] = <<>> /\ block[i] = 0 /\ progress[i] = 0
      BY DEF Init
    <3>2. Task(i).num_blocks \in Nat
      BY <1>1, TaskFacts
    <3> QED
      BY <3>1, <3>2 DEF Writes, WritesInto
  <2> QED
    BY <2>1 DEF Counting
<1>4. Contents
  BY DEF Contents, InOrder, Init
<1>5. PreFile /\ Preparing
  <2>1. /\ mpc = "make" /\ next = 0 /\ pre_file = <<>> /\ pre_block = 0 /\ prepared = {}
        /\ prepare_cut = FALSE
    BY DEF Init
  <2>2. BlocksBefore(next) + pre_block - 1 = -1 /\ 0 .. -1 = {}
    BY <1>1, <2>1, BlocksBeforeEnd
  <2>3. Len(pre_file) = 0 /\ pre_file \in Seq(Nat) /\ 0 * Words = 0 /\ 1 .. 0 = {}
    BY <2>1, WordsFacts, EmptySeq
  <2>4. PreFile
    BY <2>1, <2>3 DEF PreFile
  <2>5. Preparing
    BY <2>1, <2>2 DEF Preparing
  <2> QED
    BY <2>4, <2>5
<1>6. Started /\ Joining /\ Cancelling /\ TasksMade
  BY DEF Started, Joining, Cancelling, TasksMade, Init
<1> QED
  BY <1>2, <1>3, <1>4, <1>5, <1>6 DEF IInv

LEMMA MakeKeepsIInv ==
    ASSUME IInv, make_tasks
    PROVE  IInv'
<1> USE DEF IInv
<1>1. /\ mpc = "make" /\ next = 0 /\ next' = 0 /\ mpc' \in {"create", "prepare"}
      /\ UNCHANGED <<opt, progress, stage1, tpc, cancel, block, written, reported>>
      /\ opt.stage = "run" <=> mpc' = "create"
  BY DEF make_tasks, Started
<1>2. Types' /\ TasksMade'
  BY <1>1, SameOptions DEF Types, TasksMade, make_tasks
<1>3. Counting' /\ Contents'
  BY <1>1, ThreadsLeftAlone
<1>4. Started'
  BY <1>1, SameOptions, ThreadNumbers DEF Started, Types
<1>5. Joining' /\ Cancelling'
  BY <1>1, SameOptions DEF Joining, Cancelling
<1>6. PreFile'
  <2>1. next < num_tasks => Task(next).num_blocks \in Nat
    BY <1>1, OptFacts, ThreadNumbers, TaskFacts DEF Types
  <2>2. pre_block = 0 /\ pre_file = <<>>
    BY <1>1 DEF PreFile
  <2>3. /\ num_tasks' = num_tasks /\ opt.total' = opt.total
        /\ Task(next)' = Task(next)
    BY <1>1, SameOptions
  <2> QED
    BY <1>1, <2>1, <2>2, <2>3 DEF PreFile, stage1
<1>7. Preparing'
  BY <1>1, SameOptions DEF Preparing, stage1, BlockOf
<1> QED
  BY <1>2, <1>3, <1>4, <1>5, <1>6, <1>7

\* A block written to pre-<next>.
LEMMA PrepareBlockKeepsIInv ==
    ASSUME IInv, mpc = "prepare", next < num_tasks, pre_block < Task(next).num_blocks,
           NEW n \in 1 .. Words,
           pre_file' = WriteOf(pre_file, BlocksBefore(next) + pre_block, n),
           prepare_cut' = (prepare_cut \/ n < Words),
           prepared' = prepared \cup {FileBlock(pre_file', b) : b \in BlockNumbers(pre_file')},
           pre_block' = pre_block + 1, next' = next, mpc' = mpc, opt' = opt
    PROVE  PreFile' /\ Preparing'
<1> USE DEF IInv
<1> DEFINE magic == BlocksBefore(next) + pre_block
           new == WriteOf(pre_file, magic, n)
<1>1. /\ BlocksBefore(next) \in Nat /\ Task(next).num_blocks \in Nat /\ opt.total \in Nat
      /\ pre_block \in Nat /\ next \in Nat /\ num_tasks \in Nat
      /\ BlocksBefore(next) + Task(next).num_blocks <= opt.total
  <2>1. next \in Threads /\ next \in Nat /\ num_tasks \in Nat /\ opt.total \in Nat
    BY OptFacts, ThreadNumbers DEF Types
  <2>2. /\ BlocksBefore(next) \in Nat /\ Task(next).num_blocks \in Nat
        /\ BlocksBefore(next + 1) = BlocksBefore(next) + Task(next).num_blocks
        /\ BlocksBefore(next + 1) <= BlocksBefore(num_tasks)
        /\ BlocksBefore(num_tasks) \in Nat /\ BlocksBefore(num_tasks) <= opt.total
    BY <2>1, BlocksBeforeNext, BlocksBeforeEnd, TaskFacts DEF Types
  <2> QED
    BY <2>1, <2>2 DEF PreFile
<1>2. magic \in Nat /\ magic < opt.total
  BY <1>1
<1>3. n \in Nat /\ n >= 1 /\ n <= Words /\ Words \in Nat
  BY WordsFacts
<1>4. /\ pre_file \in Seq(Nat) /\ \A k \in 1 .. Len(pre_file) : pre_file[k] < opt.total
      /\ ~prepare_cut => Len(pre_file) = pre_block * Words
  BY DEF PreFile
<1>5. /\ new \in Seq(Nat) /\ Len(pre_file) \in Nat /\ Len(new) = Len(pre_file) + n
      /\ \A k \in 1 .. Len(pre_file) : new[k] = pre_file[k]
      /\ \A k \in Len(pre_file) + 1 .. Len(pre_file) + n : new[k] = magic
  <2>1. PICK m \in Nat : m = magic
    BY <1>2
  <2>2. /\ WriteOf(pre_file, m, n) \in Seq(Nat)
        /\ Len(pre_file) \in Nat /\ Len(WriteOf(pre_file, m, n)) = Len(pre_file) + n
        /\ \A k \in 1 .. Len(pre_file) : WriteOf(pre_file, m, n)[k] = pre_file[k]
        /\ \A k \in Len(pre_file) + 1 .. Len(pre_file) + n : WriteOf(pre_file, m, n)[k] = m
    BY <1>4, WriteWords
  <2> QED
    BY <2>1, <2>2
<1>6. pre_file' = new
  OBVIOUS
<1>7. (\A m : BlockOf(m)' = BlockOf(m)) /\ num_tasks' = num_tasks
      /\ BlocksBefore(next)' = BlocksBefore(next) /\ BlocksBefore(num_tasks)' = BlocksBefore(num_tasks)
      /\ Task(next)' = Task(next)
  BY SameOptions DEF BlockOf
<1>8. \A k \in 1 .. Len(new) : new[k] < opt.total
  <2>1. \A k \in 1 .. Len(new) :
            k \in 1 .. Len(pre_file) \/ k \in Len(pre_file) + 1 .. Len(pre_file) + n
    BY <1>3, <1>5
  <2> QED
    BY <1>2, <1>4, <1>5, <2>1
<1>9. ~prepare_cut' => ~prepare_cut /\ n = Words
  <2>1. n < Words \/ n = Words
    BY <1>3
  <2> QED
    BY <2>1, Zenon
<1> HIDE DEF new
<1>10. PreFile'
  <2>1. ~prepare_cut' => Len(new) = (pre_block + 1) * Words
    <3>1. (pre_block + 1) * Words = pre_block * Words + Words
      BY <1>1, <1>3
    <3> QED
      BY <1>4, <1>5, <1>9, <3>1
  <2>2. pre_block + 1 \in Nat /\ pre_block + 1 <= Task(next).num_blocks
    BY <1>1
  <2>3. prepare_cut' \in BOOLEAN
    OBVIOUS
  <2> QED
    BY <1>5, <1>6, <1>7, <1>8, <2>1, <2>2, <2>3 DEF PreFile
<1>11. \A content \in prepared' : content[1] < opt.total
  <2>1. ASSUME NEW b \in BlockNumbers(new)
        PROVE  FileBlock(new, b)[1] < opt.total
    <3>1. /\ FileBlock(new, b) = [w \in 1 .. Words |-> new[(b - 1) * Words + w]]
          /\ \A w \in 1 .. Words : (b - 1) * Words + w \in 1 .. Len(new)
      BY <1>5, BlockWords
    <3>2. 1 \in 1 .. Words
      BY WordsFacts
    <3> QED
      BY <1>8, <3>1, <3>2
  <2>2. prepared' = prepared \cup {FileBlock(new, b) : b \in BlockNumbers(new)}
    BY <1>6
  <2> QED
    BY <2>1, <2>2 DEF Preparing
<1>12. ASSUME ~prepare_cut', NEW m \in 0 .. BlocksBefore(next) + (pre_block + 1) - 1
       PROVE  BlockOf(m) \in prepared'
  <2>1. prepared \subseteq prepared'
    OBVIOUS
  <2>2. CASE m \in 0 .. BlocksBefore(next) + pre_block - 1
    BY <1>9, <1>12, <2>1, <2>2 DEF Preparing
  <2>3. CASE m = magic
    <3>1. Len(pre_file) = pre_block * Words /\ new = WriteOf(pre_file, magic, Words)
      BY <1>4, <1>9, <1>12 DEF new
    <3>2. BlockOf(m) \in {FileBlock(new, c) : c \in BlockNumbers(new)}
      BY <1>1, <1>2, <1>4, <2>3, <3>1, WholeWrite
    <3> QED
      BY <1>6, <3>2
  <2> QED
    BY <1>1, <2>2, <2>3
<1>13. Preparing'
  BY <1>7, <1>11, <1>12 DEF Preparing
<1> QED
  BY <1>10, <1>13

LEMMA PrepareKeepsIInv ==
    ASSUME IInv, prepare_workload
    PROVE  IInv'
<1> USE DEF IInv
<1>1. /\ mpc = "prepare" /\ mpc' \in {"prepare", "create", "exit"}
      /\ UNCHANGED <<opt, tasks, progress, tpc, cancel, block, written, reported>>
      /\ tasks = [i \in Threads |-> Task(i)]
      /\ next \in Nat /\ num_tasks \in Nat
  BY OptFacts DEF prepare_workload, TasksMade, Types
<1>2. TasksMade'
  BY <1>1, SameOptions DEF TasksMade
<1>3. Counting' /\ Contents'
  BY <1>1, ThreadsLeftAlone
<1>4. Joining' /\ Cancelling'
  BY <1>1, SameOptions DEF Joining, Cancelling
<1>5. CASE next < num_tasks
  <2>1. next \in Threads /\ tasks[next] = Task(next) /\ mpc' = mpc
    BY <1>1, <1>5, ThreadNumbers DEF Types, prepare_workload
  <2>2. next' \in {next, next + 1}
    BY <1>1, <1>5 DEF prepare_workload
  <2>3. Types' /\ Started'
    <3>1. next' \in 0 .. num_tasks
      BY <1>1, <1>5, <2>2
    <3> QED
      BY <1>1, <2>1, <3>1, SameOptions DEF Types, Started
  <2>4. CASE next' = next
    <3>1. next # next + 1
      BY <1>1
    <3>2. PICK n \in 1 .. Words :
            /\ pre_file' = WriteOf(pre_file, BlocksBefore(next) + pre_block, n)
            /\ prepare_cut' = (prepare_cut \/ n < Words)
      BY <1>1, <1>5, <2>4, <3>1 DEF prepare_workload
    <3>3. /\ pre_block < Task(next).num_blocks
          /\ prepared' = prepared \cup {FileBlock(pre_file', b) : b \in BlockNumbers(pre_file')}
          /\ pre_block' = pre_block + 1
      BY <1>1, <1>5, <2>1, <2>4, <3>1 DEF prepare_workload
    <3>4. PreFile' /\ Preparing'
      BY <1>1, <1>5, <2>1, <2>4, <3>2, <3>3, PrepareBlockKeepsIInv
    <3> QED
      BY <1>2, <1>3, <1>4, <2>3, <3>4
  <2>5. CASE next' = next + 1
    <3>1. next # next + 1
      BY <1>1
    <3>2. /\ prepare_cut' = (prepare_cut \/ pre_block < Task(next).num_blocks)
          /\ pre_file' = <<>> /\ pre_block' = 0 /\ prepared' = prepared
      BY <1>1, <1>5, <2>1, <2>5, <3>1 DEF prepare_workload
    <3>3. /\ BlocksBefore(next + 1) = BlocksBefore(next) + Task(next).num_blocks
          /\ BlocksBefore(next) \in Nat /\ Task(next).num_blocks \in Nat
          /\ next + 1 < num_tasks => Task(next + 1).num_blocks \in Nat
      <4>1. next + 1 < num_tasks => next + 1 \in Threads
        BY <1>1, ThreadNumbers DEF Types
      <4> QED
        BY <2>1, <4>1, BlocksBeforeNext, TaskFacts DEF Types
    <3>4. PreFile'
      <4>1. num_tasks' = num_tasks /\ (\A i : Task(i)' = Task(i)) /\ mpc' = "prepare"
        BY <1>1, <2>1, SameOptions
      <4>2. 0 * Words = 0
        BY WordsFacts
      <4> QED
        <5>1. Len(pre_file') = 0 /\ pre_file' \in Seq(Nat) /\ 1 .. 0 = {}
          BY <3>2, EmptySeq
        <5>2. next' < num_tasks => Task(next').num_blocks \in Nat
          BY <2>5, <3>3
        <5>3. prepare_cut' \in BOOLEAN
          BY <3>2
        <5> QED
          BY <3>2, <4>1, <4>2, <5>1, <5>2, <5>3 DEF PreFile
    <3>5. Preparing'
      <4>1. ~prepare_cut' => ~prepare_cut /\ pre_block = Task(next).num_blocks
        <5>1. pre_block <= Task(next).num_blocks /\ pre_block \in Nat
          BY <1>1, <1>5 DEF PreFile
        <5>2. pre_block < Task(next).num_blocks \/ pre_block = Task(next).num_blocks
          BY <3>3, <5>1
        <5> QED
          BY <3>2, <5>2, Zenon
      <4>2. /\ \A m : BlockOf(m)' = BlockOf(m)
            /\ \A i : BlocksBefore(i)' = BlocksBefore(i)
            /\ mpc' = "prepare"
        BY <1>1, <2>1, SameOptions DEF BlockOf
      <4>3. ~prepare_cut' =>
                BlocksBefore(next') + pre_block' - 1 = BlocksBefore(next) + pre_block - 1
        BY <2>5, <3>2, <3>3, <4>1
      <4> QED
        BY <1>1, <3>2, <4>1, <4>2, <4>3 DEF Preparing
    <3> QED
      BY <1>2, <1>3, <1>4, <2>3, <3>4, <3>5
  <2> QED
    BY <2>2, <2>4, <2>5
<1>6. CASE next = num_tasks
  <2>1. /\ next' = 0 /\ mpc' \in {"create", "exit"} /\ UNCHANGED stage1
    BY <1>1, <1>6 DEF prepare_workload
  <2>2. Types' /\ Started'
    BY <1>1, <2>1, SameOptions, ThreadNumbers DEF Types, Started
  <2>3. pre_block = 0 /\ pre_file = <<>>
    BY <1>1, <1>6 DEF PreFile
  <2>4. PreFile'
    BY <1>1, <2>1, <2>3, SameOptions DEF PreFile, stage1
  <2>5. Preparing'
    <3>1. BlocksBefore(num_tasks) + 0 - 1 = BlocksBefore(num_tasks) - 1
      BY BlocksBeforeEnd DEF Types
    <3>2. ~prepare_cut => \A m \in 0 .. BlocksBefore(num_tasks) - 1 : BlockOf(m) \in prepared
      BY <1>1, <1>6, <2>3, <3>1 DEF Preparing
    <3>3. /\ (\A m : BlockOf(m)' = BlockOf(m))
          /\ BlocksBefore(num_tasks)' = BlocksBefore(num_tasks)
      BY <1>1, SameOptions DEF BlockOf
    <3> QED
      BY <1>1, <2>1, <3>2, <3>3 DEF Preparing, stage1
  <2> QED
    BY <1>2, <1>3, <1>4, <2>2, <2>4, <2>5
<1> QED
  BY <1>1, <1>5, <1>6 DEF Types

LEMMA CreateKeepsIInv ==
    ASSUME IInv, CreateThread
    PROVE  IInv'
<1> USE DEF IInv
<1>1. /\ mpc = "create"
      /\ UNCHANGED <<opt, tasks, progress, stage1, cancel, block, written, reported>>
      /\ next \in 0 .. num_tasks /\ num_tasks \in Nat
  BY OptFacts DEF CreateThread, Types
<1>2. CASE next < num_tasks
  <2>1. mpc' = mpc /\ next' = next + 1 /\ tpc' = [tpc EXCEPT ![next] = "params"]
    BY <1>1, <1>2 DEF CreateThread
  <2>2. next \in Threads /\ tpc[next] = "none" /\ next \in Nat
    BY <1>1, <1>2, ThreadNumbers DEF Types, Started
  <2>3. /\ tpc' \in [Threads -> {"none", "params", "open", "write", "store", "close",
                                 "ended", "cancelled"}]
        /\ \A i \in Threads : tpc'[i] = IF i = next THEN "params" ELSE tpc[i]
    BY <2>1 DEF Types
  <2>4. Types' /\ TasksMade'
    <3>1. TasksMade'
      BY <1>1, <2>1, SameOptions DEF TasksMade
    <3>2. next' \in 0 .. num_tasks
      BY <1>1, <1>2, <2>1, <2>2
    <3> QED
      BY <1>1, <2>1, <2>3, <3>1, <3>2, SameOptions DEF Types
  <2>5. Counting' /\ Contents'
    <3>1. /\ Threads' = Threads /\ \A i \in Threads : Writes(i)' = Writes(i)
          /\ \A i : Task(i)' = Task(i)
      BY <1>1, SameOptions DEF Writes
    <3> QED
      BY <1>1, <2>2, <2>3, <3>1 DEF Counting, Contents
  <2>6. Started'
    <3>1. ASSUME NEW i \in Threads
          PROVE  tpc'[i] = "none" <=> i >= next + 1
      <4>1. i \in Nat /\ (tpc[i] = "none" <=> i >= next)
        BY <1>1, ThreadNumbers DEF Started, Types
      <4> QED
        BY <2>2, <2>3, <4>1
    <3> QED
      BY <1>1, <2>1, <3>1, SameOptions DEF Started
  <2>7. Joining' /\ Cancelling'
    BY <1>1, <2>1, <2>3, SameOptions DEF Joining, Cancelling
  <2>8. PreFile' /\ Preparing'
    BY <1>1, <2>1, PreparedLeftAlone
  <2> QED
    BY <2>4, <2>5, <2>6, <2>7, <2>8
<1>3. CASE next = num_tasks
  <2>1. /\ UNCHANGED tpc
        /\ mpc' = IF opt.object = "other" THEN "sum" ELSE "join"
        /\ next' = IF opt.object = "other" THEN 0 ELSE FirstTarget
    BY <1>1, <1>3 DEF CreateThread
  <2>2. FirstTarget \in 0 .. num_tasks /\ FirstTarget <= EndOfTargets /\ EndOfTargets \in Nat
    BY <1>1, TargetRange DEF Types
  <2>3. Types' /\ TasksMade'
    BY <1>1, <2>1, <2>2, SameOptions DEF Types, TasksMade
  <2>4. Counting' /\ Contents'
    BY <1>1, <2>1, ThreadsLeftAlone
  <2>5. Started'
    BY <1>1, <1>3, <2>1, SameOptions, ThreadNumbers DEF Started, Types
  <2>6. Joining' /\ Cancelling'
    BY <1>1, <2>1, <2>2, SameOptions DEF Joining, Cancelling
  <2>7. PreFile' /\ Preparing'
    BY <1>1, <2>1, PreparedLeftAlone
  <2> QED
    BY <2>3, <2>4, <2>5, <2>6, <2>7
<1> QED
  BY <1>1, <1>2, <1>3

LEMMA JoinKeepsIInv ==
    ASSUME IInv, JoinTarget
    PROVE  IInv'
<1> USE DEF IInv
<1>1. /\ mpc = "join" /\ mpc' \in {"join", "cancel"} /\ cancel = {}
      /\ UNCHANGED <<opt, tasks, progress, stage1, tpc, cancel, block, written,
                     reported>>
      /\ next \in Nat /\ num_tasks \in Nat
  BY OptFacts DEF JoinTarget, Cancelling, Types
<1>2. /\ FirstTarget \in Nat /\ EndOfTargets \in 0 .. num_tasks
      /\ FirstRemaining \in 0 .. num_tasks /\ EndOfRemaining \in Nat
      /\ FirstRemaining <= EndOfRemaining
  BY <1>1, TargetRange DEF Types
<1>3. TasksMade' /\ Started' /\ Cancelling'
  BY <1>1, SameOptions DEF TasksMade, Started, Cancelling
<1>4. Counting' /\ Contents'
  BY <1>1, ThreadsLeftAlone
<1>5. PreFile' /\ Preparing'
  BY <1>1, PreparedLeftAlone
<1>6. CASE next < EndOfTargets
  <2>1. tpc[next] \in {"ended", "cancelled"} /\ next' = next + 1 /\ mpc' = mpc
    BY <1>1, <1>2, <1>6 DEF JoinTarget
  <2>2. tpc[next] = "ended"
    <3>1. next \in Threads
      BY <1>1, <1>2, <1>6, ThreadNumbers DEF Types
    <3> QED
      BY <1>1, <2>1, <3>1 DEF Cancelling
  <2>3. Types'
    BY <1>1, <1>2, <1>6, <2>1, SameOptions DEF Types
  <2>4. Joining'
    BY <1>1, <1>2, <1>6, <2>1, <2>2, SameOptions DEF Joining
  <2> QED
    BY <1>3, <1>4, <1>5, <2>3, <2>4
<1>7. CASE ~(next < EndOfTargets)
  <2>1. next = EndOfTargets /\ next' = FirstRemaining /\ mpc' = "cancel"
    BY <1>1, <1>2, <1>7 DEF JoinTarget
  <2>2. Types'
    BY <1>1, <1>2, <2>1, SameOptions DEF Types
  <2>3. Joining'
    BY <1>1, <1>2, <2>1, SameOptions DEF Joining
  <2> QED
    BY <1>3, <1>4, <1>5, <2>2, <2>3
<1> QED
  BY <1>6, <1>7

LEMMA CancelKeepsIInv ==
    ASSUME IInv, CancelRemaining
    PROVE  IInv'
<1> USE DEF IInv
<1>1. /\ mpc = "cancel" /\ mpc' \in {"cancel", "sum"} /\ cancel \subseteq cancel'
      /\ UNCHANGED <<opt, tasks, progress, stage1, tpc, block, written, reported>>
      /\ next \in Nat /\ num_tasks \in Nat
  BY OptFacts DEF CancelRemaining, Types
<1>2. EndOfRemaining \in 0 .. num_tasks /\ FirstRemaining \in Nat
  BY <1>1, TargetRange DEF Types
<1>3. TasksMade' /\ Started' /\ Cancelling'
  BY <1>1, SameOptions DEF TasksMade, Started, Cancelling
<1>4. Counting' /\ Contents'
  BY <1>1, ThreadsLeftAlone
<1>5. PreFile' /\ Preparing'
  BY <1>1, PreparedLeftAlone
<1>6. CASE next < EndOfRemaining
  <2>1. cancel' = cancel \cup {next} /\ next' = next + 1 /\ mpc' = mpc
    BY <1>1, <1>2, <1>6 DEF CancelRemaining
  <2>2. next \in Threads
    BY <1>1, <1>2, <1>6, ThreadNumbers DEF Types
  <2>3. Types'
    <3>1. next' \in 0 .. num_tasks /\ cancel' \subseteq Threads
      BY <1>1, <1>2, <1>6, <2>1, <2>2 DEF Types
    <3> QED
      BY <1>1, <2>1, <3>1, SameOptions DEF Types
  <2>4. Joining'
    BY <1>1, <1>2, <1>6, <2>1, SameOptions DEF Joining
  <2> QED
    BY <1>3, <1>4, <1>5, <2>3, <2>4
<1>7. CASE ~(next < EndOfRemaining)
  <2>1. next' = 0 /\ mpc' = "sum" /\ cancel' = cancel
    BY <1>1, <1>2, <1>7 DEF CancelRemaining
  <2>2. Types'
    BY <1>1, <2>1, SameOptions DEF Types
  <2>3. Joining'
    BY <1>1, <2>1, SameOptions DEF Joining
  <2> QED
    BY <1>3, <1>4, <1>5, <2>2, <2>3
<1> QED
  BY <1>6, <1>7

\* The end of run: the sum, the release of the parameters and the exit.
LEMMA FinishKeepsIInv ==
    ASSUME IInv, SumProgress \/ FreeParams \/ Exit
    PROVE  IInv'
<1> USE DEF IInv
<1>1. /\ mpc \in {"sum", "free", "freed"} /\ mpc' \in {"sum", "free", "freed", "exit"}
      /\ UNCHANGED <<opt, tasks, progress, stage1, tpc, cancel, block, written>>
  BY DEF SumProgress, FreeParams, Exit
<1>2. Types'
  <2>1. next' \in 0 .. num_tasks /\ reported' \in Nat
    <3>1. CASE SumProgress /\ next < num_tasks
      <4>1. next \in Threads /\ progress[next] \in Nat
        BY <3>1, OptFacts, ThreadNumbers DEF Types
      <4> QED
        BY <3>1, <4>1, OptFacts DEF SumProgress, Types
    <3>2. CASE ~(SumProgress /\ next < num_tasks)
      BY <3>2 DEF SumProgress, FreeParams, Exit, Types
    <3> QED
      BY <3>1, <3>2
  <2> QED
    BY <1>1, <2>1, SameOptions DEF Types
<1>3. TasksMade' /\ Started' /\ Joining' /\ Cancelling'
  BY <1>1, SameOptions DEF TasksMade, Started, Joining, Cancelling
<1>4. Counting' /\ Contents'
  BY <1>1, ThreadsLeftAlone
<1>5. PreFile' /\ Preparing'
  BY <1>1, PreparedLeftAlone
<1> QED
  BY <1>2, <1>3, <1>4, <1>5

----------------------------------------------------------------------------
(* The steps of the threads. *)

\* What every step of a thread that goes on to pc keeps of the main part.
LEMMA ThreadKeepsMainPart ==
    ASSUME IInv, NEW i \in Threads,
           NEW pc \in {"open", "write", "store", "close", "ended", "cancelled"},
           tpc[i] \notin {"none", "ended"}, tpc' = [tpc EXCEPT ![i] = pc],
           pc = "cancelled" => i \in cancel,
           UNCHANGED <<opt, mpc, next, tasks, stage1, cancel>>
    PROVE  /\ TasksMade' /\ Started' /\ Joining' /\ Cancelling' /\ PreFile' /\ Preparing'
           /\ tpc' \in [Threads -> {"none", "params", "open", "write", "store", "close",
                                    "ended", "cancelled"}]
           /\ \A j \in Threads : tpc'[j] = IF j = i THEN pc ELSE tpc[j]
<1> USE DEF IInv
<1>1. /\ tpc' \in [Threads -> {"none", "params", "open", "write", "store", "close",
                               "ended", "cancelled"}]
      /\ \A j \in Threads : tpc'[j] = IF j = i THEN pc ELSE tpc[j]
      /\ DOMAIN tpc = Threads
  BY DEF Types
<1>2. \A j : tpc[j] = "ended" => tpc'[j] = "ended"
  BY <1>1 DEF Types
<1>3. TasksMade' /\ PreFile' /\ Preparing'
  BY SameOptions DEF TasksMade, PreFile, Preparing, stage1, BlockOf
<1>4. Started'
  BY <1>1, SameOptions DEF Started
<1>5. Joining'
  BY <1>2, SameOptions DEF Joining
<1>6. Cancelling'
  BY <1>1, SameOptions DEF Cancelling
<1> QED
  BY <1>1, <1>3, <1>4, <1>5, <1>6

\* A step of a thread that writes no block and stores no progress.
LEMMA ThreadMoves ==
    ASSUME IInv, NEW i \in Threads,
           NEW pc \in {"open", "write", "close", "ended", "cancelled"},
           tpc[i] \notin {"none", "ended"}, tpc' = [tpc EXCEPT ![i] = pc],
           pc = "cancelled" => i \in cancel,
           pc = "open" => tpc[i] = "params",
           pc = "write" => tpc[i] = "open" /\ Task(i).num_blocks > 0,
           tpc[i] = "store" => pc = "cancelled",
           tpc[i] = "cancelled" => pc = "cancelled",
           UNCHANGED <<opt, mpc, next, tasks, stage1, cancel, progress,
                       block, written, reported>>
    PROVE  IInv'
<1>1. /\ TasksMade' /\ Started' /\ Joining' /\ Cancelling' /\ PreFile' /\ Preparing'
      /\ tpc' \in [Threads -> {"none", "params", "open", "write", "store", "close",
                               "ended", "cancelled"}]
      /\ \A j \in Threads : tpc'[j] = IF j = i THEN pc ELSE tpc[j]
  BY ThreadKeepsMainPart
<1> USE DEF IInv
<1>2. Types'
  BY <1>1, SameOptions DEF Types
<1>3. Counting'
  <2>1. tpc[i] \in {"params", "open", "write", "store", "close", "cancelled"}
    BY DEF Types
  <2>2. pc = "write" => block[i] = 0
    BY DEF Counting
  <2> QED
    BY <1>1, <2>1, <2>2, SameOptions DEF Counting, Writes
<1>4. Contents'
  BY SameOptions DEF Contents
<1> QED
  BY <1>1, <1>2, <1>3, <1>4

LEMMA ReadParamsKeepsIInv ==
    ASSUME IInv, NEW i \in Threads, ReadParams(i)
    PROVE  IInv'
<1>1. CASE tpc' = [tpc EXCEPT ![i] = "open"] /\ UNCHANGED mpc
  BY <1>1, ThreadMoves DEF ReadParams
<1>2. CASE mpc = "freed" /\ mpc' = "fault" /\ UNCHANGED tpc
  <2> USE DEF IInv
  <2>1. UNCHANGED <<opt, next, tasks, progress, stage1, cancel, block, written,
                    reported>>
    BY DEF ReadParams
  <2>2. Types' /\ TasksMade'
    BY <1>2, <2>1, SameOptions DEF Types, TasksMade
  <2>3. Counting' /\ Contents'
    BY <1>2, <2>1, ThreadsLeftAlone
  <2>4. Started' /\ Joining' /\ Cancelling'
    BY <1>2, <2>1, SameOptions DEF Started, Joining, Cancelling
  <2>5. PreFile' /\ Preparing'
    BY <1>2, <2>1, PreparedLeftAlone
  <2> QED
    BY <2>2, <2>3, <2>4, <2>5
<1> QED
  BY <1>1, <1>2 DEF ReadParams

LEMMA OpenKeepsIInv ==
    ASSUME IInv, NEW i \in Threads, OpenFile(i)
    PROVE  IInv'
<1>1. tasks[i] = Task(i)
  BY DEF IInv, TasksMade, Started, OpenFile
<1>2. PICK pc \in {IF tasks[i].num_blocks > 0 THEN "write" ELSE "close", "ended"} :
        tpc' = [tpc EXCEPT ![i] = pc]
  BY DEF OpenFile
<1>3. /\ tpc[i] = "open"
      /\ UNCHANGED <<opt, mpc, next, tasks, stage1, cancel, progress,
                     block, written, reported>>
  BY DEF OpenFile
<1>4. /\ pc \in {"open", "write", "close", "ended", "cancelled"}
      /\ pc \notin {"open", "cancelled"}
      /\ pc = "write" => Task(i).num_blocks > 0
  BY <1>1, <1>2
<1> QED
  BY <1>2, <1>3, <1>4, ThreadMoves

LEMMA WriteKeepsIInv ==
    ASSUME IInv, NEW i \in Threads, WriteBlock(i)
    PROVE  IInv'
<1>1. /\ tpc[i] = "write" /\ tasks[i] = Task(i)
      /\ UNCHANGED <<opt, mpc, next, tasks, stage1, cancel, progress,
                     block, reported>>
  BY DEF IInv, TasksMade, Started, WriteBlock
<1>2. CASE tpc' = [tpc EXCEPT ![i] = "ended"] /\ UNCHANGED written
  BY <1>1, <1>2, ThreadMoves
<1>3. CASE /\ tpc' = [tpc EXCEPT ![i] = "store"]
           /\ \E n \in 1 .. Words :
                written' = [written EXCEPT
                                ![i] = WriteOf(@, tasks[i].start_magic + block[i], n)]
  <2>1. /\ TasksMade' /\ Started' /\ Joining' /\ Cancelling' /\ PreFile' /\ Preparing'
        /\ tpc' \in [Threads -> {"none", "params", "open", "write", "store", "close",
                                 "ended", "cancelled"}]
        /\ \A j \in Threads : tpc'[j] = IF j = i THEN "store" ELSE tpc[j]
    BY <1>1, <1>3, ThreadKeepsMainPart
  <2> USE DEF IInv
  <2>2. PICK n \in 1 .. Words :
          written' = [written EXCEPT
                        ![i] = WriteOf(written[i], Task(i).start_magic + block[i], n)]
    BY <1>1, <1>3
  <2>3. /\ written[i] \in Seq(Nat) /\ block[i] \in Nat
        /\ Task(i).start_magic \in Nat /\ Task(i).num_blocks \in Nat
    BY TaskFacts DEF Types
  <2> DEFINE file == WriteOf(written[i], Task(i).start_magic + block[i], n)
  <2>4. Writes(i) = block[i] /\ block[i] < Task(i).num_blocks /\ progress[i] = block[i]
    BY <1>1 DEF Counting
  <2>5. /\ file \in Seq(Nat)
        /\ InOrder(file, Task(i).start_magic)
        /\ WritesInto(file, Task(i).start_magic) = block[i] + 1
    <3>1. InOrder(written[i], Task(i).start_magic)
      BY DEF Contents
    <3>2. WritesInto(written[i], Task(i).start_magic) = block[i]
      BY <2>4 DEF Writes
    <3>3. Task(i).start_magic + block[i] \in Nat
      BY <2>3
    <3>4. file \in Seq(Nat)
      <4>1. PICK m \in Nat : m = Task(i).start_magic + block[i]
        BY <3>3
      <4>2. WriteOf(written[i], m, n) \in Seq(Nat)
        BY <2>3, WriteWords
      <4> QED
        BY <4>1, <4>2
    <3>5. /\ InOrder(file, Task(i).start_magic)
          /\ WritesInto(file, Task(i).start_magic) = block[i] + 1
      <4>1. PICK f \in Seq(Nat), first \in Nat, b \in Nat :
                f = written[i] /\ first = Task(i).start_magic /\ b = block[i]
        BY <2>3
      <4>2. /\ InOrder(WriteOf(f, first + b, n), first)
            /\ WritesInto(WriteOf(f, first + b, n), first) = b + 1
        BY <3>1, <3>2, <4>1, WriteInOrder
      <4> QED
        BY <4>1, <4>2
    <3> QED
      BY <3>4, <3>5
  <2>6. /\ written' \in [Threads -> Seq(Nat)]
        /\ \A j \in Threads : written'[j] = IF j = i THEN file ELSE written[j]
    BY <2>2, <2>5 DEF Types
  <2> HIDE DEF file
  <2>7. Types'
    BY <1>1, <2>1, <2>6, SameOptions DEF Types
  <2>8. \A j \in Threads : Writes(j)' = IF j = i THEN block[i] + 1 ELSE Writes(j)
    BY <1>1, <2>5, <2>6, SameOptions DEF Writes
  <2>9. Counting'
    <3>1. block[i] + 1 <= Task(i).num_blocks
      BY <2>3, <2>4
    <3>2. /\ Threads' = Threads /\ block' = block /\ progress' = progress
          /\ \A j : Task(j)' = Task(j)
      BY <1>1, SameOptions
    <3> DEFINE Counts(j, pc, contents, writes) ==
                  /\ pc \in {"none", "params", "open"} => contents = <<>> /\ block[j] = 0
                  /\ progress[j] = block[j]
                  /\ \/ writes = block[j] /\ pc # "store"
                     \/ writes = block[j] + 1 /\ pc \in {"store", "cancelled"}
                  /\ writes <= Task(j).num_blocks
                  /\ pc = "write" => block[j] < Task(j).num_blocks
    <3>3. ASSUME NEW j \in Threads, j # i
          PROVE  Counts(j, tpc'[j], written'[j], Writes(j)')
      <4>1. tpc'[j] = tpc[j] /\ written'[j] = written[j] /\ Writes(j)' = Writes(j)
        BY <2>1, <2>6, <2>8, <3>3
      <4>2. Counts(j, tpc[j], written[j], Writes(j))
        BY DEF Counting
      <4> HIDE DEF Counts
      <4> QED
        BY <4>1, <4>2
    <3>4. Counts(i, tpc'[i], written'[i], Writes(i)')
      BY <2>1, <2>4, <2>8, <3>1
    <3>5. \A j \in Threads : Counts(j, tpc'[j], written'[j], Writes(j)')
      BY <3>3, <3>4
    <3> QED
      BY <3>2, <3>5 DEF Counting
  <2>10. Contents'
    BY <1>1, <2>5, <2>6, SameOptions DEF Contents
  <2> QED
    BY <2>1, <2>7, <2>9, <2>10
<1> QED
  BY <1>2, <1>3 DEF WriteBlock

LEMMA StoreKeepsIInv ==
    ASSUME IInv, NEW i \in Threads, StoreProgress(i)
    PROVE  IInv'
<1> DEFINE done == block[i] + 1
           pc == IF done < tasks[i].num_blocks THEN "write" ELSE "close"
<1>1. /\ tpc[i] = "store" /\ tasks[i] = Task(i) /\ tpc' = [tpc EXCEPT ![i] = pc]
      /\ UNCHANGED <<opt, mpc, next, tasks, stage1, cancel, written, reported>>
      /\ progress' = [progress EXCEPT ![i] = done]
      /\ block' = [block EXCEPT ![i] = done]
  BY DEF IInv, TasksMade, Started, StoreProgress
<1>2. /\ TasksMade' /\ Started' /\ Joining' /\ Cancelling' /\ PreFile' /\ Preparing'
      /\ tpc' \in [Threads -> {"none", "params", "open", "write", "store", "close",
                               "ended", "cancelled"}]
      /\ \A j \in Threads : tpc'[j] = IF j = i THEN pc ELSE tpc[j]
  BY <1>1, ThreadKeepsMainPart
<1> USE DEF IInv
<1>3. done \in Nat /\ Writes(i) = done
  BY <1>1 DEF Types, Counting
<1> HIDE DEF done
<1>4. /\ progress' \in [Threads -> Nat] /\ block' \in [Threads -> Nat]
      /\ \A j \in Threads : progress'[j] = IF j = i THEN done ELSE progress[j]
      /\ \A j \in Threads : block'[j] = IF j = i THEN done ELSE block[j]
  BY <1>1, <1>3 DEF Types
<1>5. Types'
  BY <1>1, <1>2, <1>4, SameOptions DEF Types
<1>6. Counting'
  <2>1. \A j \in Threads : Writes(j)' = Writes(j)
    BY <1>1, SameOptions DEF Writes
  <2> QED
    BY <1>1, <1>2, <1>3, <1>4, <2>1, SameOptions DEF Counting
<1>7. Contents'
  BY <1>1, SameOptions DEF Contents
<1> QED
  BY <1>2, <1>5, <1>6, <1>7

LEMMA CloseKeepsIInv ==
    ASSUME IInv, NEW i \in Threads, CloseFile(i) \/ ActOnCancel(i)
    PROVE  IInv'
<1>1. CASE CloseFile(i)
  BY <1>1, ThreadMoves DEF CloseFile
<1>2. CASE ActOnCancel(i)
  BY <1>2, ThreadMoves DEF ActOnCancel
<1> QED
  BY <1>1, <1>2

LEMMA StutterKeepsIInv ==
    ASSUME IInv, UNCHANGED vars
    PROVE  IInv'
<1> USE DEF IInv, vars
<1>1. Types' /\ TasksMade'
  BY SameOptions DEF Types, TasksMade
<1>2. Counting' /\ Contents'
  BY ThreadsLeftAlone
<1>3. Started' /\ Joining' /\ Cancelling'
  BY SameOptions DEF Started, Joining, Cancelling
<1>4. PreFile' /\ Preparing'
  BY SameOptions DEF PreFile, Preparing, stage1, BlockOf
<1> QED
  BY <1>1, <1>2, <1>3, <1>4

LEMMA NextKeepsIInv ==
    ASSUME IInv, [Next]_vars
    PROVE  IInv'
<1>1. CASE MainStep
  BY <1>1, MakeKeepsIInv, PrepareKeepsIInv, CreateKeepsIInv, JoinKeepsIInv,
     CancelKeepsIInv, FinishKeepsIInv DEF MainStep
<1>2. CASE \E i \in Threads : ThreadStep(i)
  <2>1. PICK i \in Threads : ThreadStep(i)
    BY <1>2
  <2> QED
    BY <2>1, ReadParamsKeepsIInv, OpenKeepsIInv, WriteKeepsIInv, StoreKeepsIInv,
       CloseKeepsIInv DEF ThreadStep
<1>3. CASE UNCHANGED vars
  BY <1>3, StutterKeepsIInv
<1> QED
  BY <1>1, <1>2, <1>3 DEF Next

----------------------------------------------------------------------------
(* The theorems. *)

\* Every reachable state of rw_interference has all of the above.
THEOREM IInvInvariant == Spec => []IInv
<1>1. Init => IInv
  BY InitIInv
<1>2. IInv /\ [Next]_vars => IInv'
  BY NextKeepsIInv
<1> QED
  BY <1>1, <1>2, PTL DEF Spec

\* Only created threads are joined, cancelled or summed up, and the progress
\* follows the blocks of the file up to the size of the task.
THEOREM RwTypeCorrect == Spec => []RwTypeOK
<1>1. IInv => RwTypeOK
  <2> SUFFICES ASSUME IInv
               PROVE  RwTypeOK
    OBVIOUS
  <2> USE DEF IInv
  <2>1. ASSUME mpc # "make", NEW i \in Threads
        PROVE  LET writes == WritesInto(written[i], tasks[i].start_magic)
               IN  progress[i] \in 0 .. writes /\ writes <= tasks[i].num_blocks
    <3>1. tasks[i] = Task(i)
      BY <2>1 DEF TasksMade
    <3>2. progress[i] \in Nat
      BY DEF Types
    <3>3. progress[i] \in 0 .. Writes(i) /\ Writes(i) <= Task(i).num_blocks
      BY <3>2 DEF Counting
    <3> QED
      BY <3>1, <3>3 DEF Writes
  <2> QED
    BY <2>1 DEF RwTypeOK, Types, Started
<1> QED
  BY <1>1, IInvInvariant, PTL

\* The measurement is over only when every thread of the measured class is.
THEOREM MeasuredThreadsEnd == Spec => []TargetsFinished
<1>1. IInv => TargetsFinished
  <2> SUFFICES ASSUME IInv, mpc \in {"cancel", "sum", "free", "freed"},
                      opt.object # "other",
                      NEW i \in Threads, tasks[i].dup = (opt.object = "read")
               PROVE  tpc[i] = "ended"
    BY DEF TargetsFinished
  <2> USE DEF IInv
  <2>1. tasks[i] = Task(i) /\ opt \in Options
    BY DEF TasksMade, Types
  <2>2. /\ opt.readers \in Nat /\ num_tasks \in Nat /\ opt.object \in {"read", "write"}
        /\ i \in Nat /\ i < num_tasks
    BY <2>1, OptFacts, ThreadNumbers
  <2>3. i < opt.readers <=> opt.object = "read"
    BY <2>1, <2>2, TaskFacts
  <2>4. i \in FirstTarget .. EndOfTargets - 1
    BY <2>2, <2>3 DEF FirstTarget, EndOfTargets
  <2> QED
    BY <2>4 DEF Joining
<1> QED
  BY <1>1, IInvInvariant, PTL

\* What main adds for a thread is the number of writes its file has seen at that
\* moment, but for the last one, and exactly that when the thread has ended.
THEOREM ReportFollowsFiles == Spec => ReportIsCurrent
<1> DEFINE Current ==
        mpc = "sum" /\ next' = next + 1 =>
            LET blocks == WritesInto(written[next], tasks[next].start_magic)
            IN  /\ reported' \in {reported + blocks, reported + blocks - 1}
                /\ tpc[next] = "ended" => reported' = reported + blocks
<1>1. IInv /\ [Next]_vars => [Current]_vars
  <2> SUFFICES ASSUME IInv, Next, mpc = "sum", next' = next + 1
               PROVE  Current
    OBVIOUS
  <2> USE DEF IInv
  <2>1. next \in Nat /\ next' # next
    BY OptFacts DEF Types
  <2>2. SumProgress
    BY <2>1 DEF Next, MainStep, make_tasks, prepare_workload, CreateThread, JoinTarget,
       CancelRemaining, FreeParams, Exit, ThreadStep, ReadParams, OpenFile, WriteBlock,
       StoreProgress, CloseFile, ActOnCancel, vars
  <2>3. next < num_tasks /\ reported' = reported + progress[next]
    BY <2>1, <2>2 DEF SumProgress
  <2>4. next \in Threads
    BY <2>1, <2>3, ThreadNumbers DEF Types
  <2>5. progress[next] \in Nat /\ reported \in Nat
    BY <2>4 DEF Types
  <2>6. \/ Writes(next) = progress[next]
        \/ Writes(next) = progress[next] + 1 /\ tpc[next] # "ended"
    BY <2>4 DEF Counting
  <2>7. Writes(next) = WritesInto(written[next], tasks[next].start_magic)
    BY <2>4 DEF Writes, TasksMade
  <2> QED
    BY <2>3, <2>5, <2>6, <2>7
<1> QED
  BY <1>1, IInvInvariant, PTL DEF Spec, ReportIsCurrent

\* The files of two writers, and two blocks of one of them, differ.
LEMMA WriterBlocksDiffer ==
    ASSUME opt \in Options, NEW i \in Threads, NEW j \in Threads,
           ~(i < opt.readers), ~(j < opt.readers),
           NEW p \in Nat, NEW q \in Nat,
           0 < p, p <= Task(i).num_blocks, 0 < q, q <= Task(j).num_blocks,
           Task(i).start_magic + p - 1 = Task(j).start_magic + q - 1
    PROVE  i = j /\ p = q
<1> DEFINE r == opt.readers
           b == writer_num_blocks
<1>1. /\ r \in Nat /\ b \in Nat /\ opt.total \in Nat /\ i \in Nat /\ j \in Nat
      /\ i - r \in Nat /\ j - r \in Nat
  BY OptFacts, Shares, ThreadNumbers
<1>2. /\ Task(i).start_magic = opt.total + (i - r) * b /\ Task(i).num_blocks = b
      /\ Task(j).start_magic = opt.total + (j - r) * b /\ Task(j).num_blocks = b
  BY DEF Task
<1> HIDE DEF r, b
<1>3. (i - r) * b \in Nat /\ (j - r) * b \in Nat
  BY <1>1
<1>4. (i - r) * b + p = (j - r) * b + q
  BY <1>1, <1>2, <1>3
<1>5. p <= b /\ q <= b
  BY <1>2
\* A smaller number has all its blocks before those of a larger one.
<1>6. ASSUME NEW m \in Nat, NEW n \in Nat, m < n
      PROVE  m * b + b <= n * b /\ m * b \in Nat /\ n * b \in Nat
  <2>1. PICK c \in Nat : n = (m + 1) + c
    <3>1. n - (m + 1) \in Nat /\ n = (m + 1) + (n - (m + 1))
      BY <1>6
    <3> QED
      BY <3>1
  <2>2. n * b = (m * b + b) + c * b /\ c * b \in Nat /\ m * b \in Nat
    BY <1>1, <2>1
  <2> QED
    BY <1>1, <2>2
<1>7. ~(i - r < j - r)
  <2> SUFFICES ASSUME i - r < j - r
               PROVE  FALSE
    OBVIOUS
  <2>1. (i - r) * b + b <= (j - r) * b
    BY <1>1, <1>6
  <2> QED
    BY <1>1, <1>3, <1>4, <1>5, <2>1
<1>8. ~(j - r < i - r)
  <2> SUFFICES ASSUME j - r < i - r
               PROVE  FALSE
    OBVIOUS
  <2>1. (j - r) * b + b <= (i - r) * b
    BY <1>1, <1>6
  <2> QED
    BY <1>1, <1>3, <1>4, <1>5, <2>1
<1>9. i = j
  BY <1>1, <1>7, <1>8
<1> QED
  BY <1>3, <1>4, <1>9

\* The numbers of the readers' blocks are those of prepared blocks, and the
\* writers' numbers lie beyond them.
LEMMA BlockRanges ==
    ASSUME opt \in Options, NEW i \in Threads,
           NEW p \in Nat, 0 < p, p <= Task(i).num_blocks
    PROVE  /\ i < opt.readers =>
                Task(i).start_magic + p - 1 \in 0 .. BlocksBefore(num_tasks) - 1
           /\ ~(i < opt.readers) =>
                Task(i).start_magic + p - 1 \in Nat /\ Task(i).start_magic + p - 1 >= opt.total
<1>1. /\ Task(i).start_magic \in Nat /\ Task(i).num_blocks \in Nat /\ opt.total \in Nat
      /\ opt.readers \in Nat /\ i \in Nat
  BY TaskFacts, OptFacts, ThreadNumbers
<1>2. CASE i < opt.readers
  <2>1. /\ Task(i).start_magic = BlocksBefore(i)
    BY <1>1, <1>2 DEF Task, BlocksBefore
  <2>2. /\ BlocksBefore(i) + Task(i).num_blocks <= BlocksBefore(num_tasks)
        /\ BlocksBefore(num_tasks) \in Nat
    BY BlocksBeforeNext, BlocksBeforeEnd
  <2> QED
    BY <1>1, <1>2, <2>1, <2>2
<1>3. CASE ~(i < opt.readers)
  <2>1. Task(i).start_magic = opt.total + (i - opt.readers) * writer_num_blocks
    BY <1>3 DEF Task
  <2>2. i - opt.readers \in Nat /\ writer_num_blocks \in Nat
    BY <1>1, <1>3, Shares
  <2>3. (i - opt.readers) * writer_num_blocks \in Nat
    BY <2>2
  <2> QED
    BY <1>1, <1>3, <2>1, <2>3
<1> QED
  BY <1>2, <1>3

\* The words of a file are magics of its task.
LEMMA FileWords ==
    ASSUME IInv, NEW i \in Threads, NEW k \in 1 .. Len(written[i])
    PROVE  \E p \in Nat : /\ 0 < p /\ p <= Task(i).num_blocks
                          /\ written[i][k] = Task(i).start_magic + p - 1
<1> USE DEF IInv
<1>1. /\ Task(i).start_magic \in Nat /\ Task(i).num_blocks \in Nat
      /\ written[i] \in Seq(Nat) /\ written[i][k] \in Nat /\ Len(written[i]) \in Nat
  BY TaskFacts, ElementOfSeq, LenProperties DEF Types
<1>2. written[i] # <<>> /\ written[i][Len(written[i])] \in Nat
  BY <1>1, ElementOfSeq, EmptySeq
<1>3. written[i][Len(written[i])] - Task(i).start_magic + 1 <= Task(i).num_blocks
  BY <1>2 DEF Counting, Writes, WritesInto
<1>4. Task(i).start_magic <= written[i][k] /\ written[i][k] <= written[i][Len(written[i])]
  BY DEF Contents, InOrder
<1> DEFINE p == written[i][k] - Task(i).start_magic + 1
<1>5. /\ p \in Nat /\ 0 < p /\ p <= Task(i).num_blocks
      /\ written[i][k] = Task(i).start_magic + p - 1
  <2>1. PICK v, last, first, n :
            /\ v = written[i][k] /\ last = written[i][Len(written[i])]
            /\ first = Task(i).start_magic /\ n = Task(i).num_blocks
    OBVIOUS
  <2>2. /\ v \in Nat /\ last \in Nat /\ first \in Nat /\ n \in Nat
        /\ first <= v /\ v <= last /\ last - first + 1 <= n
    BY <1>1, <1>2, <1>3, <1>4, <2>1
  <2>3. v - first + 1 \in Nat /\ 0 < v - first + 1 /\ v - first + 1 <= n
        /\ v = first + (v - first + 1) - 1
    BY <2>2
  <2> QED
    BY <2>1, <2>3
<1> QED
  BY <1>5

\* Two blocks of one file begin with different magics, wherever short writes have
\* shifted the file.
LEMMA BlocksOfFileDiffer ==
    ASSUME NEW file \in Seq(Nat), NEW first, InOrder(file, first),
           NEW b \in BlockNumbers(file), NEW c \in BlockNumbers(file),
           FileBlock(file, b)[1] = FileBlock(file, c)[1]
    PROVE  b = c
<1>1. ASSUME NEW d \in BlockNumbers(file), NEW e \in BlockNumbers(file), d < e
      PROVE  FileBlock(file, d)[1] < FileBlock(file, e)[1]
  <2>1. /\ d - 1 \in Nat /\ e - 1 \in Nat
        /\ (d - 1) * Words \in Nat /\ (e - 1) * Words \in Nat
        /\ (d - 1) * Words + 1 \in 1 .. Len(file) /\ (e - 1) * Words + 1 \in 1 .. Len(file)
        /\ FileBlock(file, d)[1] = file[(d - 1) * Words + 1]
        /\ FileBlock(file, e)[1] = file[(e - 1) * Words + 1]
    BY BlockStart, Zenon
  <2>2. (d - 1) * Words + Words <= (e - 1) * Words
    <3>1. d - 1 < e - 1
      <4>1. d \in Nat /\ e \in Nat
        BY BlockStart, Zenon
      <4> QED
        BY <1>1, <4>1
    <3> QED
      BY <2>1, <3>1, WordsFacts, MulLess
  <2>3. ((d - 1) * Words + 1) + Words <= (e - 1) * Words + 1
    <3>1. PICK x, y : x = (d - 1) * Words /\ y = (e - 1) * Words
      OBVIOUS
    <3>2. x \in Nat /\ y \in Nat /\ x + Words <= y
      BY <2>1, <2>2, <3>1
    <3>3. (x + 1) + Words <= y + 1
      BY <3>2, WordsFacts
    <3> QED
      BY <3>1, <3>3
  <2> QED
    BY <2>1, <2>3 DEF InOrder
<1>2. \A d \in BlockNumbers(file) : d \in Nat /\ FileBlock(file, d)[1] \in Nat
  <2> TAKE d \in BlockNumbers(file)
  <2>1. /\ d \in Nat /\ (d - 1) * Words + 1 \in 1 .. Len(file)
        /\ FileBlock(file, d)[1] = file[(d - 1) * Words + 1]
    BY BlockStart, Zenon
  <2> QED
    BY <2>1, ElementOfSeq
<1> QED
  BY <1>1, <1>2

\* Every block of a writer is nowhere else, whatever writes fail or are short; a
\* block of a reader that no short write has shifted has been prepared, when no
\* write of stage 1 has failed or was short.
THEOREM WritersNewReadersDup == Spec => []DupsAndOnlyDups
<1>1. IInv => DupsAndOnlyDups
  <2> SUFFICES ASSUME IInv, NEW i \in Threads, NEW b \in BlockNumbers(written[i])
               PROVE  LET content == FileBlock(written[i], b)
                          shifted == \E w \in 1 .. Words : content[w] # content[1]
                      IN  IF tasks[i].dup
                          THEN opt.stage = "all" /\ ~prepare_cut /\ ~shifted =>
                                    content \in prepared
                          ELSE /\ content \notin prepared
                               /\ \A j \in Threads : \A c \in BlockNumbers(written[j]) :
                                    FileBlock(written[j], c) = content => i = j /\ b = c
    BY DEF DupsAndOnlyDups
  <2> USE DEF IInv
  <2>1. opt \in Options /\ opt.total \in Nat /\ \A j \in Threads : written[j] \in Seq(Nat)
    BY OptFacts DEF Types
\* The first word of a block is a magic of the task.
  <2>2. ASSUME NEW j \in Threads, NEW c \in BlockNumbers(written[j])
        PROVE  \E q \in Nat : /\ 0 < q /\ q <= Task(j).num_blocks
                              /\ FileBlock(written[j], c)[1] = Task(j).start_magic + q - 1
    <3>1. /\ (c - 1) * Words + 1 \in 1 .. Len(written[j])
          /\ FileBlock(written[j], c)[1] = written[j][(c - 1) * Words + 1]
      BY <2>1, BlockStart
    <3> QED
      BY <3>1, FileWords
  <2>3. mpc \notin {"make", "prepare"} /\ tasks[i] = Task(i)
    <3>1. written[i] # <<>>
      BY EmptySeq DEF BlockNumbers
    <3>2. tpc[i] # "none"
      BY <3>1 DEF Counting
    <3> QED
      BY <3>2 DEF Started, TasksMade
  <2> DEFINE content == FileBlock(written[i], b)
  <2>4. PICK p \in Nat : /\ 0 < p /\ p <= Task(i).num_blocks
                         /\ content[1] = Task(i).start_magic + p - 1
    BY <2>2
  <2>5. CASE i < opt.readers
    <3>1. tasks[i].dup = TRUE
      BY <2>1, <2>3, <2>5, TaskFacts
    <3>2. content[1] \in 0 .. BlocksBefore(num_tasks) - 1
      BY <2>1, <2>4, <2>5, BlockRanges
    <3>3. ASSUME \A w \in 1 .. Words : content[w] = content[1]
          PROVE  content = BlockOf(content[1])
      <4>1. content = [w \in 1 .. Words |-> written[i][(b - 1) * Words + w]]
        BY <2>1, BlockWords
      <4> HIDE DEF content
      <4> QED
        BY <3>3, <4>1 DEF BlockOf
    <3> HIDE DEF content
    <3>4. opt.stage = "all" /\ ~prepare_cut => BlockOf(content[1]) \in prepared
      BY <2>3, <3>2 DEF Preparing
    <3> QED
      BY <3>1, <3>3, <3>4 DEF content
  <2>6. CASE ~(i < opt.readers)
    <3>1. tasks[i].dup = FALSE
      BY <2>1, <2>3, <2>6, TaskFacts
    <3>2. content[1] \in Nat /\ content[1] >= opt.total
      BY <2>1, <2>4, <2>6, BlockRanges
    <3>3. content \notin prepared
      BY <2>1, <3>2 DEF Preparing
    <3>4. ASSUME NEW j \in Threads, NEW c \in BlockNumbers(written[j]),
                 FileBlock(written[j], c) = content
          PROVE  i = j /\ b = c
      <4>1. PICK q \in Nat : /\ 0 < q /\ q <= Task(j).num_blocks
                             /\ content[1] = Task(j).start_magic + q - 1
        BY <2>2, <3>4
      <4>2. ~(j < opt.readers)
        <5>1. SUFFICES ASSUME j < opt.readers
                       PROVE  FALSE
          OBVIOUS
        <5>2. content[1] \in 0 .. BlocksBefore(num_tasks) - 1
          BY <2>1, <4>1, <5>1, BlockRanges
        <5>3. BlocksBefore(num_tasks) <= opt.total /\ BlocksBefore(num_tasks) \in Nat
          BY <2>1, BlocksBeforeEnd
        <5> QED
          BY <2>1, <3>2, <5>2, <5>3
      <4>3. i = j
        BY <2>1, <2>4, <2>6, <4>1, <4>2, WriterBlocksDiffer
      <4>4. InOrder(written[i], Task(i).start_magic)
        BY DEF Contents
      <4>5. b = c
        BY <2>1, <3>4, <4>3, <4>4, BlocksOfFileDiffer
      <4> QED
        BY <4>3, <4>5
    <3> QED
      BY <3>1, <3>3, <3>4
  <2> QED
    BY <2>5, <2>6
<1> QED
  BY <1>1, IInvInvariant, PTL

----------------------------------------------------------------------------
(* How long main and the threads take. *)

\* The loops that main has still to begin.
PhasesLeft == [make |-> 8, prepare |-> 7, create |-> 6, join |-> 5, cancel |-> 4, sum |-> 3,
               free |-> 2, freed |-> 1, exit |-> 0]

\* The blocks that stage 1 has still to write.
PrepareLeft ==
    IF mpc \in {"make", "prepare"}
    THEN BlocksBefore(num_tasks) - BlocksBefore(next) - pre_block ELSE 0

\* A bound on the steps that main has still to take: none of its loops makes
\* more turns than there are threads, but for those of stage 1 over the blocks.
MainLeft == PhasesLeft[mpc] * (num_tasks + 2) + (num_tasks - next) + PrepareLeft

\* A bound on the steps that a thread at pc has still to take when that many
\* blocks of its task are missing: two for each, and at most four more.
StepsFrom(pc, blocks) ==
    IF pc \in {"ended", "cancelled"} THEN 0
    ELSE IF pc = "close" THEN 1
    ELSE 2 * blocks + (CASE pc \in {"none", "params"} -> 4 [] pc = "open" -> 3
                         [] pc = "write" -> 2 [] OTHER -> 1)

ThreadLeft(i) == StepsFrom(tpc[i], Task(i).num_blocks - block[i])

\* A loop that ends leaves main fewer steps, wherever the next one begins.
LEMMA LaterPhase ==
    ASSUME NEW t \in Nat, NEW m \in 0 .. t, NEW n \in 0 .. t,
           NEW a \in Nat, NEW b \in Nat, b < a
    PROVE  b * (t + 2) + (t - n) < a * (t + 2) + (t - m)
<1>1. b * (t + 2) + (t + 2) <= a * (t + 2)
  BY MulLess
<1>2. b * (t + 2) \in Nat /\ a * (t + 2) \in Nat
  BY MulNat
<1> QED
  BY <1>1, <1>2

\* The blocks of stage 1 are counted.
LEMMA PrepareCounted ==
    ASSUME Types, Started, PreFile
    PROVE  PrepareLeft \in Nat
<1>1. CASE mpc \in {"make", "prepare"}
  <2>1. next \in Nat /\ num_tasks \in Nat /\ next <= num_tasks
    BY OptFacts DEF Types
  <2>2. BlocksBefore(num_tasks) \in Nat /\ BlocksBefore(0) = 0 /\ pre_block \in Nat
    BY BlocksBeforeEnd DEF Types, PreFile
  <2>3. CASE next < num_tasks /\ mpc = "prepare"
    <3>1. /\ BlocksBefore(next) \in Nat /\ Task(next).num_blocks \in Nat
          /\ BlocksBefore(next) + Task(next).num_blocks <= BlocksBefore(num_tasks)
          /\ pre_block <= Task(next).num_blocks
      <4>1. next \in Threads
        BY <2>1, <2>3, ThreadNumbers DEF Types
      <4>2. BlocksBefore(next + 1) = BlocksBefore(next) + Task(next).num_blocks
        BY <4>1, BlocksBeforeNext DEF Types
      <4> QED
        BY <2>3, <4>1, <4>2, BlocksBeforeNext, TaskFacts DEF Types, PreFile
    <3> QED
      BY <1>1, <2>2, <3>1 DEF PrepareLeft
  <2>4. CASE ~(next < num_tasks /\ mpc = "prepare")
    <3>1. pre_block = 0 /\ (next = 0 \/ next = num_tasks)
      BY <1>1, <2>1, <2>4 DEF Started, PreFile
    <3> QED
      BY <1>1, <2>2, <3>1 DEF PrepareLeft
  <2> QED
    BY <2>3, <2>4
<1>2. CASE mpc \notin {"make", "prepare"}
  BY <1>2 DEF PrepareLeft
<1> QED
  BY <1>1, <1>2

\* And they still are after the next step.
LEMMA PrepareCountedNow == Types /\ Started /\ PreFile => PrepareLeft \in Nat
BY PrepareCounted

LEMMA PrepareCountedNext == (Types /\ Started /\ PreFile => PrepareLeft \in Nat)'
BY PrepareCountedNow, PTL

\* Main's steps are counted.
LEMMA MainCounted ==
    ASSUME Types, Started, PreFile, mpc # "fault"
    PROVE  /\ num_tasks \in Nat /\ next \in 0 .. num_tasks /\ PhasesLeft[mpc] \in Nat
           /\ PhasesLeft[mpc] * (num_tasks + 2) \in Nat
           /\ PrepareLeft \in Nat /\ MainLeft \in Nat
<1>1. num_tasks \in Nat /\ next \in 0 .. num_tasks
  BY OptFacts DEF Types, num_tasks
<1>2. PhasesLeft[mpc] \in Nat
  BY DEF Types, PhasesLeft
<1>3. PhasesLeft[mpc] * (num_tasks + 2) \in Nat
  <2>1. num_tasks + 2 \in Nat
    BY <1>1
  <2> QED
    BY <1>2, <2>1, MulNat
<1>4. PrepareLeft \in Nat
  BY PrepareCounted
<1> QED
  BY <1>1, <1>2, <1>3, <1>4 DEF MainLeft

\* A step of main writes a block of stage 1, makes a turn of its loop or goes on
\* to a later one.
LEMMA MainTurns ==
    ASSUME MainStep
    PROVE  /\ opt' = opt /\ mpc # "fault" /\ mpc' # "fault"
           /\ \/ mpc = "prepare" /\ mpc' = mpc /\ next' = next /\ pre_block' = pre_block + 1
              \/ mpc' = mpc /\ next' = next + 1
              \/ PhasesLeft[mpc'] < PhasesLeft[mpc]
<1>1. CASE make_tasks
  BY <1>1 DEF make_tasks, PhasesLeft
<1>2. CASE prepare_workload
  BY <1>2 DEF prepare_workload, PhasesLeft
<1>3. CASE CreateThread
  BY <1>3 DEF CreateThread, PhasesLeft
<1>4. CASE JoinTarget
  BY <1>4 DEF JoinTarget, PhasesLeft
<1>5. CASE CancelRemaining
  BY <1>5 DEF CancelRemaining, PhasesLeft
<1>6. CASE SumProgress
  BY <1>6 DEF SumProgress, PhasesLeft
<1>7. CASE FreeParams \/ Exit
  BY <1>7 DEF FreeParams, Exit, PhasesLeft
<1> QED
  BY <1>1, <1>2, <1>3, <1>4, <1>5, <1>6, <1>7 DEF MainStep

\* No step of main but a write makes for a block more or less in stage 1.
LEMMA PrepareAdvances ==
    ASSUME IInv, IInv', MainStep
    PROVE  /\ PrepareLeft' <= PrepareLeft
           /\ mpc' = mpc /\ next' = next => PrepareLeft' < PrepareLeft
<1> USE DEF IInv
<1>1. PrepareLeft \in Nat /\ opt' = opt
  BY PrepareCounted, MainTurns
<1>2. /\ num_tasks \in Nat /\ next \in 0 .. num_tasks
      /\ num_tasks' = num_tasks /\ \A i : BlocksBefore(i)' = BlocksBefore(i)
  BY <1>1, SameOptions, OptFacts DEF Types
<1>3. PrepareLeft' =
        IF mpc' \in {"make", "prepare"}
        THEN BlocksBefore(num_tasks) - BlocksBefore(next') - pre_block' ELSE 0
  <2>1. BlocksBefore(num_tasks)' = BlocksBefore(num_tasks) /\ BlocksBefore(next)' = BlocksBefore(next')
    BY <1>1, <1>2, SameOptions DEF BlocksBefore, reader_num_blocks, writer_num_blocks,
       reader_share, PerThread
  <2> QED
    BY <2>1 DEF PrepareLeft
<1>4. CASE make_tasks
  <2>1. mpc = "make" /\ next' = next /\ pre_block' = pre_block /\ mpc' # mpc
    BY <1>4 DEF make_tasks, stage1
  <2> QED
    BY <1>1, <1>3, <2>1 DEF PrepareLeft
<1>5. CASE prepare_workload /\ next < num_tasks
  <2>1. mpc = "prepare" /\ mpc' = "prepare"
    BY <1>2, <1>5 DEF prepare_workload
  <2>2. /\ BlocksBefore(next) \in Nat /\ pre_block \in Nat /\ BlocksBefore(num_tasks) \in Nat
        /\ Task(next).num_blocks \in Nat /\ pre_block <= Task(next).num_blocks
        /\ BlocksBefore(next + 1) = BlocksBefore(next) + Task(next).num_blocks
        /\ next # next + 1
    <3>1. next \in Threads
      BY <1>2, <1>5, ThreadNumbers DEF Types
    <3>2. /\ BlocksBefore(next) \in Nat /\ BlocksBefore(num_tasks) \in Nat
          /\ BlocksBefore(next + 1) = BlocksBefore(next) + Task(next).num_blocks
          /\ Task(next).num_blocks \in Nat
      BY <3>1, BlocksBeforeNext, BlocksBeforeEnd, TaskFacts DEF Types
    <3>3. pre_block \in Nat /\ pre_block <= Task(next).num_blocks
      BY <1>5, <2>1 DEF PreFile
    <3>4. next # next + 1
      BY <1>2
    <3> QED
      BY <3>2, <3>3, <3>4
  <2>3. \/ next' = next /\ pre_block' = pre_block + 1
        \/ next' = next + 1 /\ pre_block' = 0
    BY <1>2, <1>5 DEF prepare_workload
  <2>4. PrepareLeft = BlocksBefore(num_tasks) - BlocksBefore(next) - pre_block
    BY <2>1 DEF PrepareLeft
  <2>5. PrepareLeft' = BlocksBefore(num_tasks) - BlocksBefore(next') - pre_block'
    BY <1>3, <2>1
  <2> QED
    BY <2>2, <2>3, <2>4, <2>5
<1>6. CASE prepare_workload /\ next = num_tasks
  <2>1. mpc' \in {"exit", "create"} /\ mpc = "prepare"
    BY <1>2, <1>6 DEF prepare_workload
  <2> QED
    BY <1>1, <1>3, <2>1
<1>7. CASE ~make_tasks /\ ~prepare_workload
  <2>1. mpc' \notin {"make", "prepare"} /\ mpc \notin {"make", "prepare"}
    BY <1>7 DEF MainStep, CreateThread, JoinTarget, CancelRemaining, SumProgress, FreeParams, Exit
  <2>2. next' = next => mpc' # mpc
    <3>1. next # next + 1
      BY <1>2
    <3> QED
      BY <1>7, <3>1 DEF MainStep, CreateThread, JoinTarget, CancelRemaining, SumProgress,
         FreeParams, Exit
  <2> QED
    BY <1>1, <1>3, <2>1, <2>2
<1> QED
  BY <1>2, <1>4, <1>5, <1>6, <1>7

LEMMA MainAdvances ==
    ASSUME IInv, IInv', MainStep
    PROVE  MainLeft' < MainLeft
<1>1. /\ opt' = opt /\ mpc # "fault" /\ mpc' # "fault"
      /\ \/ mpc' = mpc /\ next' = next
         \/ mpc' = mpc /\ next' = next + 1
         \/ PhasesLeft[mpc'] < PhasesLeft[mpc]
  BY MainTurns
<1>2. /\ num_tasks \in Nat /\ next \in 0 .. num_tasks /\ PhasesLeft[mpc] \in Nat
      /\ PhasesLeft[mpc] * (num_tasks + 2) \in Nat /\ PrepareLeft \in Nat
  BY <1>1, MainCounted DEF IInv
<1>3. num_tasks' = num_tasks
  BY <1>1, SameOptions
<1>4. next' \in 0 .. num_tasks /\ PhasesLeft[mpc'] \in Nat
  <2>1. next' \in 0 .. num_tasks' /\ Types'
    BY DEF IInv, Types
  <2>2. PhasesLeft[mpc'] \in Nat
    BY <1>1, <2>1 DEF Types, PhasesLeft
  <2> QED
    BY <1>3, <2>1, <2>2
<1>5. PICK q, z : q = PrepareLeft' /\ z = PhasesLeft[mpc'] * (num_tasks + 2)
  OBVIOUS
<1>6. MainLeft' = z + (num_tasks - next') + q
  BY <1>3, <1>5 DEF MainLeft, PhasesLeft
<1>7. /\ q \in Nat /\ z \in Nat /\ q <= PrepareLeft
      /\ mpc' = mpc /\ next' = next => q < PrepareLeft
  <2>1. PrepareLeft' \in Nat
    BY PrepareCountedNext DEF IInv
  <2>2. z \in Nat
    <3>1. num_tasks + 2 \in Nat
      BY <1>2
    <3> QED
      BY <1>4, <1>5, <3>1, MulNat
  <2> QED
    BY <1>5, <2>1, <2>2, PrepareAdvances
<1>8. PICK p, all : p = PrepareLeft /\ all = PhasesLeft[mpc] * (num_tasks + 2)
  OBVIOUS
<1>9. p \in Nat /\ all \in Nat /\ MainLeft = all + (num_tasks - next) + p
  BY <1>2, <1>8 DEF MainLeft
<1>10. CASE mpc' = mpc /\ next' \in {next, next + 1}
  <2>1. z = all
    BY <1>5, <1>8, <1>10
  <2> QED
    BY <1>2, <1>4, <1>6, <1>7, <1>8, <1>9, <1>10, <2>1
<1>11. CASE PhasesLeft[mpc'] < PhasesLeft[mpc]
  <2>1. z + (num_tasks - next') < all + (num_tasks - next)
    BY <1>2, <1>4, <1>5, <1>8, <1>11, LaterPhase
  <2> QED
    BY <1>2, <1>4, <1>6, <1>7, <1>8, <1>9, <2>1
<1> QED
  BY <1>1, <1>10, <1>11

\* What leaves main's loops alone leaves it as many steps.
LEMMA MainUntouched ==
    ASSUME UNCHANGED <<opt, mpc, next, pre_block>>
    PROVE  MainLeft' = MainLeft
<1>1. /\ num_tasks' = num_tasks /\ BlocksBefore(num_tasks)' = BlocksBefore(num_tasks)
      /\ BlocksBefore(next)' = BlocksBefore(next)
  BY SameOptions
<1>2. PrepareLeft' = PrepareLeft
  BY <1>1 DEF PrepareLeft
<1> QED
  BY <1>1, <1>2 DEF MainLeft, PhasesLeft

\* The bound in the order in which a thread comes by.
LEMMA StepsFromFacts ==
    ASSUME NEW b \in Nat
    PROVE  /\ \A pc : StepsFrom(pc, b) \in Nat
           /\ StepsFrom("params", b) = StepsFrom("none", b)
           /\ StepsFrom("open", b) < StepsFrom("params", b)
           /\ StepsFrom("write", b) < StepsFrom("open", b)
           /\ StepsFrom("store", b) < StepsFrom("write", b)
           /\ StepsFrom("write", b) < StepsFrom("store", b + 1)
           /\ StepsFrom("close", b) < StepsFrom("open", b)
           /\ StepsFrom("close", b) < StepsFrom("store", b + 1)
           /\ \A pc \in {"open", "write", "store", "close"} :
                /\ StepsFrom("ended", b) < StepsFrom(pc, b)
                /\ StepsFrom("cancelled", b) < StepsFrom(pc, b)
BY DEF StepsFrom

\* The steps of a thread are counted.
LEMMA ThreadCounted ==
    ASSUME IInv, NEW i \in Threads
    PROVE  /\ Task(i).num_blocks \in Nat /\ block[i] \in Nat
           /\ block[i] <= Task(i).num_blocks
           /\ tpc[i] = "store" => block[i] < Task(i).num_blocks
           /\ Task(i).num_blocks - block[i] \in Nat
           /\ ThreadLeft(i) \in Nat
<1>1. Task(i).num_blocks \in Nat /\ block[i] \in Nat
  BY TaskFacts DEF IInv, Types
<1>2. /\ block[i] <= Task(i).num_blocks
      /\ tpc[i] = "store" => block[i] < Task(i).num_blocks
  BY <1>1 DEF IInv, Counting
<1>3. Task(i).num_blocks - block[i] \in Nat
  BY <1>1, <1>2
<1> QED
  BY <1>1, <1>2, <1>3, StepsFromFacts DEF ThreadLeft

\* And they still are after the next step.
LEMMA AllCounted == IInv => \A i \in Threads : ThreadLeft(i) \in Nat
<1> QED
  BY ThreadCounted

LEMMA CountedNext == IInv' => (\A i \in Threads : ThreadLeft(i) \in Nat)'
<1> QED
  BY AllCounted, PTL

\* A step of main holds up no thread.
LEMMA MainLetsGo ==
    ASSUME IInv, MainStep, NEW i \in Threads
    PROVE  ThreadLeft(i)' = ThreadLeft(i)
<1>1. /\ opt' = opt /\ block' = block
      /\ tpc' = tpc \/ (CreateThread /\ next < num_tasks /\ tpc' = [tpc EXCEPT ![next] = "params"])
  BY DEF MainStep, make_tasks, prepare_workload, CreateThread, JoinTarget, CancelRemaining,
         SumProgress, FreeParams, Exit
<1>2. Task(i)' = Task(i)
  BY <1>1, SameOptions
<1>3. CASE tpc' = tpc
  BY <1>1, <1>2, <1>3 DEF ThreadLeft
<1>4. CASE CreateThread /\ tpc' = [tpc EXCEPT ![next] = "params"]
  <2>1. i \in Nat /\ next \in Nat /\ DOMAIN tpc = Threads
    BY ThreadNumbers, OptFacts DEF IInv, Types, num_tasks
  <2>2. i >= next => tpc[i] = "none"
    BY <1>4 DEF IInv, Started, CreateThread
  <2>3. tpc'[i] = tpc[i] \/ (tpc[i] = "none" /\ tpc'[i] = "params")
    <3>1. CASE i = next
      BY <1>4, <2>1, <2>2, <3>1
    <3>2. CASE i # next
      BY <1>4, <2>1, <3>2
    <3> QED
      BY <3>1, <3>2
  <2> QED
    BY <1>1, <1>2, <2>3, ThreadCounted, StepsFromFacts DEF ThreadLeft
<1> QED
  BY <1>1, <1>3, <1>4

\* A step of a thread takes it nearer to its end and touches nothing of another
\* thread or of main's loops.
LEMMA ThreadAdvances ==
    ASSUME IInv, NEW i \in Threads, ThreadStep(i), mpc' # "fault"
    PROVE  /\ ThreadLeft(i)' < ThreadLeft(i)
           /\ \A j \in Threads : j # i => ThreadLeft(j)' = ThreadLeft(j)
           /\ opt' = opt /\ mpc' = mpc /\ next' = next /\ pre_block' = pre_block
<1>1. opt' = opt /\ mpc' = mpc /\ next' = next /\ pre_block' = pre_block
  BY DEF stage1, ThreadStep, ReadParams, OpenFile, WriteBlock, StoreProgress, CloseFile, ActOnCancel
<1>2. \A j : Task(j)' = Task(j)
  BY <1>1, SameOptions
<1>3. /\ DOMAIN tpc = Threads /\ DOMAIN block = Threads
      /\ tpc[i] \in {"none", "params", "open", "write", "store", "close", "ended", "cancelled"}
  BY DEF IInv, Types
<1>4. /\ Task(i).num_blocks \in Nat /\ block[i] \in Nat
      /\ Task(i).num_blocks - block[i] \in Nat
      /\ tpc[i] = "store" => block[i] < Task(i).num_blocks
  BY ThreadCounted
<1> DEFINE b == Task(i).num_blocks - block[i]
<1>5. ThreadLeft(i) = StepsFrom(tpc[i], b) /\ b \in Nat
  BY <1>4 DEF ThreadLeft
<1>6. block'[i] = block[i] => ThreadLeft(i)' = StepsFrom(tpc'[i], b)
  BY <1>2 DEF ThreadLeft
<1>7. ThreadLeft(i)' = StepsFrom(tpc'[i], Task(i).num_blocks - block'[i])
  BY <1>2 DEF ThreadLeft
<1> HIDE DEF b
<1>8. ASSUME NEW j \in Threads, j # i
      PROVE  ThreadLeft(j)' = ThreadLeft(j)
  <2>1. tpc'[j] = tpc[j] /\ block'[j] = block[j]
    BY <1>3, <1>8 DEF ThreadStep, ReadParams, OpenFile, WriteBlock, StoreProgress, CloseFile,
                      ActOnCancel
  <2> QED
    BY <1>2, <2>1 DEF ThreadLeft
<1>9. CASE ReadParams(i)
  <2>1. tpc[i] = "params" /\ tpc'[i] = "open" /\ block' = block
    BY <1>1, <1>3, <1>9 DEF ReadParams
  <2> QED
    BY <1>1, <1>8, <1>5, <1>6, <2>1, StepsFromFacts
<1>10. CASE OpenFile(i)
  <2>1. tpc[i] = "open" /\ tpc'[i] \in {"write", "close", "ended"} /\ block' = block
    BY <1>3, <1>10 DEF OpenFile
  <2> QED
    BY <1>1, <1>8, <1>5, <1>6, <2>1, StepsFromFacts
<1>11. CASE WriteBlock(i)
  <2>1. tpc[i] = "write" /\ tpc'[i] \in {"store", "ended"} /\ block' = block
    BY <1>3, <1>11 DEF WriteBlock
  <2> QED
    BY <1>1, <1>8, <1>5, <1>6, <2>1, StepsFromFacts
<1>12. CASE StoreProgress(i)
  <2>1. tpc[i] = "store" /\ tpc'[i] \in {"write", "close"} /\ block'[i] = block[i] + 1
    BY <1>3, <1>12 DEF StoreProgress
  <2>2. PICK c \in Nat : b = c + 1 /\ Task(i).num_blocks - block'[i] = c
    <3>1. PICK n, l : n = Task(i).num_blocks /\ l = block[i]
      OBVIOUS
    <3>2. n - l - 1 \in Nat /\ n - l = (n - l - 1) + 1 /\ n - (l + 1) = n - l - 1
      BY <1>4, <2>1, <3>1
    <3> QED
      BY <2>1, <3>1, <3>2 DEF b
  <2>3. /\ StepsFrom("write", c) < StepsFrom("store", c + 1)
        /\ StepsFrom("close", c) < StepsFrom("store", c + 1)
    BY StepsFromFacts
  <2> QED
    BY <1>1, <1>8, <1>5, <1>7, <2>1, <2>2, <2>3
<1>13. CASE CloseFile(i)
  <2>1. tpc[i] = "close" /\ tpc'[i] = "ended" /\ block' = block
    BY <1>3, <1>13 DEF CloseFile
  <2> QED
    BY <1>1, <1>8, <1>5, <1>6, <2>1, StepsFromFacts
<1>14. CASE ActOnCancel(i)
  <2>1. tpc[i] \in {"open", "write", "store", "close"} /\ tpc'[i] = "cancelled" /\ block' = block
    BY <1>3, <1>14 DEF ActOnCancel
  <2> QED
    BY <1>1, <1>8, <1>5, <1>6, <2>1, StepsFromFacts
<1> QED
  BY <1>9, <1>10, <1>11, <1>12, <1>13, <1>14 DEF ThreadStep

\* Unless a thread follows a wild pointer, each step of main takes it nearer to
\* its end and holds up no thread, and each step of a thread the other way round.
RunAdvances ==
    [][mpc' # "fault" =>
        /\ MainLeft \in Nat
        /\ MainStep => MainLeft' < MainLeft
        /\ ~MainStep => MainLeft' = MainLeft
        /\ \A i \in Threads :
            /\ ThreadLeft(i) \in Nat
            /\ ThreadLeft(i)' <= ThreadLeft(i)
            /\ ThreadStep(i) => ThreadLeft(i)' < ThreadLeft(i)]_vars

\* The loops of main end, and so does that of each thread over its blocks,
\* however many threads and blocks there are and whatever the others do
\* (rw_interference.cpp:135-149, 169-176, 231-290).
THEOREM RunEnds == Spec => RunAdvances
<1>1. ASSUME IInv, IInv', [Next]_vars, mpc' # "fault"
      PROVE  /\ MainLeft \in Nat
             /\ MainStep => MainLeft' < MainLeft
             /\ ~MainStep => MainLeft' = MainLeft
             /\ \A i \in Threads :
                 /\ ThreadLeft(i) \in Nat
                 /\ ThreadLeft(i)' <= ThreadLeft(i)
                 /\ ThreadStep(i) => ThreadLeft(i)' < ThreadLeft(i)
  <2>1. \A i \in Threads : ThreadLeft(i) \in Nat
    BY <1>1, ThreadCounted
  <2>2. mpc # "fault"
    BY <1>1, MainTurns DEF Next, ThreadStep, Over, vars
  <2>3. MainLeft \in Nat
    BY <1>1, <2>2, MainCounted DEF IInv
  <2>4. CASE MainStep
    <3>1. MainLeft' < MainLeft
      BY <1>1, <2>4, MainAdvances
    <3>2. \A i \in Threads : ThreadLeft(i)' = ThreadLeft(i)
      BY <1>1, <2>4, MainLetsGo
    <3>3. \A i \in Threads : ~ThreadStep(i)
      <4> SUFFICES ASSUME NEW i \in Threads, ThreadStep(i)
                   PROVE  FALSE
        OBVIOUS
      <4>1. ThreadLeft(i)' < ThreadLeft(i)
        BY <1>1, ThreadAdvances
      <4> QED
        BY <2>1, <3>2, <4>1
    <3> QED
      BY <2>1, <2>3, <2>4, <3>1, <3>2, <3>3
  <2>5. ASSUME NEW i \in Threads, ThreadStep(i), ~MainStep
        PROVE  /\ MainLeft' = MainLeft
               /\ \A j \in Threads :
                    /\ ThreadLeft(j)' <= ThreadLeft(j)
                    /\ ThreadStep(j) => ThreadLeft(j)' < ThreadLeft(j)
    <3>1. /\ ThreadLeft(i)' < ThreadLeft(i)
          /\ \A j \in Threads : j # i => ThreadLeft(j)' = ThreadLeft(j)
          /\ opt' = opt /\ mpc' = mpc /\ next' = next /\ pre_block' = pre_block
      BY <1>1, <2>5, ThreadAdvances
    <3>2. MainLeft' = MainLeft
      BY <3>1, MainUntouched
    <3>3. ASSUME NEW j \in Threads
          PROVE  /\ ThreadLeft(j)' <= ThreadLeft(j)
                 /\ ThreadStep(j) => ThreadLeft(j)' < ThreadLeft(j)
      <4>1. ThreadStep(j) => ThreadLeft(j)' < ThreadLeft(j)
        BY <1>1, ThreadAdvances
      <4>2. CASE j = i
        <5>1. ThreadLeft(i)' \in Nat
          <6>1. i \in Threads'
            BY <3>1, SameOptions
          <6> QED
            BY <1>1, <6>1, CountedNext
        <5> QED
          BY <2>1, <3>1, <4>1, <4>2, <5>1
      <4>3. CASE j # i
        <5>1. ThreadLeft(j)' = ThreadLeft(j) /\ ThreadLeft(j) \in Nat
          BY <2>1, <3>1, <4>3
        <5> QED
          BY <4>1, <5>1
      <4> QED
        BY <4>2, <4>3
    <3> QED
      BY <3>2, <3>3
  <2>6. CASE UNCHANGED vars /\ ~MainStep /\ \A i \in Threads : ~ThreadStep(i)
    <3>1. /\ opt' = opt /\ mpc' = mpc /\ next' = next /\ tpc' = tpc /\ block' = block
          /\ pre_block' = pre_block
      BY <2>6 DEF vars, stage1
    <3>2. \A i : Task(i)' = Task(i)
      BY <3>1, SameOptions
    <3>3. MainLeft' = MainLeft
      BY <3>1, MainUntouched
    <3>4. \A i \in Threads : ThreadLeft(i)' = ThreadLeft(i)
      BY <3>1, <3>2 DEF ThreadLeft
    <3> QED
      BY <2>1, <2>3, <2>6, <3>3, <3>4
  <2> QED
    BY <1>1, <2>1, <2>3, <2>4, <2>5, <2>6 DEF Next
<1>2. IInv /\ IInv' /\ [Next]_vars =>
        [mpc' # "fault" =>
            /\ MainLeft \in Nat
            /\ MainStep => MainLeft' < MainLeft
            /\ ~MainStep => MainLeft' = MainLeft
            /\ \A i \in Threads :
                /\ ThreadLeft(i) \in Nat
                /\ ThreadLeft(i)' <= ThreadLeft(i)
                /\ ThreadStep(i) => ThreadLeft(i)' < ThreadLeft(i)]_vars
  BY <1>1
<1> QED
  BY <1>2, IInvInvariant, PTL DEF Spec, RunAdvances

\* The thread that main waits for is running or has ended.
WaitsForRunning ==
    mpc = "join" /\ next < EndOfTargets =>
        /\ next \in Threads
        /\ tpc[next] \in {"params", "open", "write", "store", "close", "ended"}

\* Main joins no thread that it has not created or that nobody lets finish
\* (rw_interference.cpp:260, 269).
THEOREM MainWaitsForRunning == Spec => []WaitsForRunning
<1>1. ASSUME IInv, mpc = "join", next < EndOfTargets
      PROVE  /\ next \in Threads
             /\ tpc[next] \in {"params", "open", "write", "store", "close", "ended"}
  <2>1. next \in Threads
    BY <1>1, OptFacts DEF IInv, Types, Threads, num_tasks, EndOfTargets
  <2>2. tpc[next] # "none" /\ tpc[next] # "cancelled"
    BY <1>1, <2>1 DEF IInv, Started, Cancelling
  <2>3. tpc[next] \in {"none", "params", "open", "write", "store", "close", "ended",
                        "cancelled"}
    BY <1>1, <2>1 DEF IInv, Types
  <2> QED
    BY <2>1, <2>2, <2>3
<1>2. IInv => WaitsForRunning
  BY <1>1 DEF WaitsForRunning
<1> QED
  BY <1>2, IInvInvariant, PTL
=============================================================================
