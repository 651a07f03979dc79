---------------------------- MODULE BenchProofs ----------------------------
(***************************************************************************)
(* The measurements find what they mean to measure: proofs of the           *)
(* invariants of Bench, for any branches, sizes of files, holes, shapes of   *)
(* rounds and granularities.  Each topic has an inductive invariant of its   *)
(* own; they share Apart, which says that the programs do not meet.          *)
(***************************************************************************)
EXTENDS Bench, NatLemmas, FiniteSetTheorems, SequenceTheorems

\* The versions of setup.sh there can be, edited or as committed.
SetupFiles ==
    [version : {NoFile} \cup {SetupVersion[r][b] : r \in Repos, b \in Branches},
     edited : BOOLEAN]

\* The scripts' own state.
ScriptsTyped ==
    /\ head \in [Repos -> Branches] /\ built \in [Repos -> Branches]
    /\ tree \in [Repos -> SetupFiles] /\ setups \in SetupFiles
    /\ session.repo \in Repos /\ session.branch \in Branches

\* What is about to be saved is what has been saved.
SavedFirst == spc = "save" /\ setups # None => tree[R] = setups

\* aging_amount.sh does not get to a command without what those before it have
\* done.
HasMounted == {"restore2", "reset", "measure"}
HasBuilt == {"restore", "save", "edit", "run"} \cup HasMounted
HasCheckedOut == {"make"} \cup HasBuilt

StrictSoFar ==
    Strict =>
        /\ session.repo = "Light-Dedup"
        /\ spc \in HasCheckedOut => head[R] = session.branch
        /\ spc \in HasBuilt => built[R] = session.branch
        /\ spc = "run" => tree[R].edited
        /\ spc \in HasMounted => /\ mounted.module = <<R, session.branch>>
                                 /\ mounted.script.edited

\* The inductive invariant of the set-up.
ScriptsIInv == ScriptsTyped /\ SavedFirst /\ StrictSoFar

----------------------------------------------------------------------------
\* What a unit of a shuffle's memory or file is.
Units == STRING \cup {Garbage}

\* The files and directories of a volume.
Fields == {"file1", "file2", "test", "old", "dir0", "src", "shuffled"}

\* A program runs in the session of its name only, and one at a time.
Apart ==
    /\ DOMAIN vol = Fields
    /\ aging # NoAging => Measuring({"aging_amount", "aging_system"})
    /\ percore # NoPercore \/ writer # NoWriters => Measuring({"percore"})
    /\ shuffle # NoShuffle => Measuring({"read_effects", "shuffle_and_write"})

\* The blocks of the ageing, at their places.
AgedFiles ==
    /\ vol.file1 \in Seq(Int \cup {Hole}) /\ vol.file2 \in Seq(Int)
    /\ Len(vol.file1) <= total_4K_blks
    /\ \A p \in DOMAIN vol.file1 : vol.file1[p] \in {Hole, total_4K_blks + (p - 1)}
    /\ \A p \in DOMAIN vol.file2 : vol.file2[p] = 3 * total_4K_blks + (p - 1)

\* The variables of aging_system.
AgingTyped ==
    aging \in [pc : {"none", "fill", "punch", "refill", "done", "failed"}, percent : Nat,
               chunk : Nat, records : SUBSET (0 .. total_4K_blks - 1), hole_num : Nat,
               clean : BOOLEAN]

\* The pages of file1 that have been punched out.
HolesIn == {p \in DOMAIN vol.file1 : vol.file1[p] = Hole}

\* How far an ageing has got, whatever failed before.
AgingAt ==
    /\ aging.pc = "fill" => /\ aging.chunk <= Chunks /\ aging.records = {}
                            /\ aging.chunk * StepBlocks <= Len(vol.file1)
    /\ aging.pc \in {"punch", "refill", "done"} => Len(vol.file1) = total_4K_blks
    /\ aging.pc = "refill" => /\ aging.chunk <= fill_num(aging.percent)
                              /\ aging.chunk * StepBlocks <= Len(vol.file2)

\* What an ageing of an empty volume without a failed call has made so far.
AgingClean ==
    aging.clean =>
        /\ aging.pc = "fill" => /\ HolesIn = {} /\ vol.file2 = <<>>
                                /\ Len(vol.file1) = aging.chunk * StepBlocks
        /\ aging.pc = "punch" => /\ HolesIn = {pos + 1 : pos \in aging.records}
                                 /\ vol.file2 = <<>>
                                 /\ IsFiniteSet(HolesIn)
                                 /\ Cardinality(HolesIn) + aging.hole_num = Holes(aging.percent)
        /\ aging.pc \in {"refill", "done"} => Cardinality(HolesIn) = Holes(aging.percent)
        /\ aging.pc = "refill" => Len(vol.file2) = aging.chunk * StepBlocks
        /\ aging.pc = "done" => Len(vol.file2) = fill_num(aging.percent) * StepBlocks

\* The inductive invariant of an ageing.
AgingIInv == AgedFiles /\ AgingTyped /\ AgingAt /\ AgingClean

----------------------------------------------------------------------------
\* The file test<id>, and what there is of it while it is written.
WholeFile(id) == [p \in 1 .. FileBlocks |-> FirstBlock(id) + (p - 1)]
StartsOf(id) ==
    {file \in Seq(Int) : /\ Len(file) <= FileBlocks
                         /\ \A p \in 1 .. Len(file) : file[p] = FirstBlock(id) + (p - 1)}

\* The variables of percore_amount.sh, its processes and its files.
RoundTyped ==
    /\ percore \in [pc : {"none", "spawn", "wait", "done", "failed"},
                    first : Shapes \cup {HardShape}, second : Shapes \cup {HardShape},
                    round : {1, 2}, batch : Nat, clean : BOOLEAN]
    /\ writer \in [Ids -> {"none", "open", "write", "ended"}]
    /\ vol.test \in [Ids -> {NoFile} \cup Seq(Int)]
    /\ vol.old \in [Ids -> {NoFile} \cup Seq(Int)]

\* Every file is a start of the one it is to be, a chunk at a time while its
\* process writes; processes run in the batch that the script waits for only.
RoundFiles ==
    /\ \A id \in Ids : vol.test[id] = NoFile \/ vol.test[id] \in StartsOf(id)
    /\ \A id \in Ids : writer[id] = "write" =>
        /\ vol.test[id] \in StartsOf(id)
        /\ \E k \in 0 .. FileChunks : Len(vol.test[id]) = k * StepBlocks
    /\ percore.pc # "wait" => writer = NoWriters
    /\ percore.pc = "wait" => \A id \in Ids : writer[id] # "none" => id \in Batch

\* The file of process j in batch i of a round, the files of a batch, and those
\* of the batches before one.
FileIn(round, shape, i, j) ==
    IF round = 1 THEN i * shape.threads + j ELSE j * shape.size + i
FilesAt(round, shape, i) == {FileIn(round, shape, i, j) : j \in 0 .. shape.threads - 1}
FilesBefore(round, shape, n) ==
    {FileIn(round, shape, i, j) : i \in 0 .. n - 1, j \in 0 .. shape.threads - 1}

\* The shape of the round that runs, and its files of the batches before this
\* one.
Shape == IF percore.round = 1 THEN percore.first ELSE percore.second
Earlier == FilesBefore(percore.round, Shape, percore.batch)

\* How many batches of the round are over.
RoundAt ==
    /\ percore.batch <= Batches
    /\ percore.pc = "wait" => percore.batch < Batches
    /\ percore.pc = "done" => percore.batch = Batches
    /\ percore.round = 2 => percore.pc \in {"spawn", "wait", "done"}

\* What a first round without files and a failed process has made so far, and a
\* second one beside it.
RoundClean ==
    percore.clean /\ percore.pc \in {"spawn", "wait", "done"} =>
        /\ \A id \in Earlier : vol.test[id] = WholeFile(id)
        /\ percore.pc = "wait" => \A id \in Batch :
            /\ writer[id] \in {"open", "write", "ended"}
            /\ writer[id] = "open" => vol.test[id] = NoFile
            /\ writer[id] = "ended" => vol.test[id] = WholeFile(id)
        /\ \A id \in Ids \ Earlier :
            (percore.pc = "wait" /\ id \in Batch) \/ vol.test[id] = NoFile
        /\ percore.round = 2 =>
            \A id \in FilesOf(percore.first) : vol.old[id] = WholeFile(id)

\* The inductive invariant of the rounds of write_1G.
RoundIInv == RoundTyped /\ RoundFiles /\ RoundAt /\ RoundClean

----------------------------------------------------------------------------
\* The smaller of two lengths.
Shorter(a, b) == IF a < b THEN a ELSE b

\* While blocks are read from src and written to out: what is in memory, and
\* what in the new file.
ShufflingAt(src, s, out) ==
    LET g == s.g
        size == Len(src)
        n == num_blocks(size, g)
    IN  /\ src \in Seq(STRING) /\ s.buf \in Seq(Units) /\ out \in Seq(Units)
        /\ g \in Granularities /\ s.map \in Shuffles(n) /\ s.i \in 0 .. n
        /\ s.pos \in 0 .. size /\ s.clean \in BOOLEAN
        /\ Len(s.buf) = (IF s.pc = "read" THEN s.i ELSE n) * g
        /\ s.clean =>
            /\ s.pc = "read" => s.pos = Shorter(s.i * g, size)
            /\ \A k \in 1 .. Shorter(Len(s.buf), size) : s.buf[k] = src[k]
        /\ s.pc = "read" => out = <<>>
        /\ s.pc = "done" => s.i = n
        /\ s.pc \in {"write", "done"} /\ s.clean =>
            /\ Len(out) = s.i * g
            /\ \A j \in 0 .. s.i - 1 : \A k \in 1 .. g :
                out[j * g + k] = s.buf[s.map[j] * g + k]

\* The inductive invariant of a shuffle.
ShuffleIInv ==
    /\ vol.src \in {NoFile} \cup Seq(STRING)
    /\ DOMAIN shuffle = {"pc", "g", "map", "i", "pos", "buf", "clean"}
    /\ shuffle.pc \in {"none", "read", "write", "done"}
    /\ shuffle.pc # "none" => ShufflingAt(vol.src, shuffle, vol.shuffled)

\* The whole invariant: each topic's with the one they share.
BenchIInv ==
    ScriptsIInv /\ Apart /\ AgingIInv /\ RoundIInv /\ ShuffleIInv

----------------------------------------------------------------------------
(* The scripts and the set-up. *)

\* A setup.sh as committed is one of the setup.sh.
LEMMA CommittedFacts ==
    ASSUME NEW r \in Repos, NEW b \in Branches
    PROVE  Committed(r, b) \in SetupFiles
BY DEF Committed, SetupFiles

\* While no script runs, the session names a repository and a branch all the
\* same.
LEMMA NobodyFacts ==
    /\ Nobody.repo \in Repos /\ Nobody.branch \in Branches
    /\ Nobody.name = "none" /\ None \in SetupFiles
    /\ \A name : [Nobody EXCEPT !.name = name] =
            [name |-> name, repo |-> Nobody.repo, branch |-> Nobody.branch]
<1> DEFINE b == CHOOSE c \in Branches : TRUE
<1>1. b \in Branches
  BY BranchesAssumption
<1>2. Nobody = [name |-> "none", repo |-> "nv-dedup", branch |-> b]
  BY DEF Nobody
<1> HIDE DEF b
<1>3. None \in SetupFiles
  BY DEF None, SetupFiles
<1> QED
  BY <1>1, <1>2, <1>3 DEF Repos

\* Nothing is mounted and nothing saved.
LEMMA ScriptsInit == Init => ScriptsIInv
<1> SUFFICES ASSUME Init
             PROVE  ScriptsIInv
  OBVIOUS
<1>1. SetupInit
  BY DEF Init
<1>2. ScriptsTyped
  BY <1>1, CommittedFacts, NobodyFacts DEF SetupInit, ScriptsTyped
<1>3. ~ Strict /\ spc = "idle"
  BY <1>1, NobodyFacts DEF SetupInit, Strict
<1> QED
  BY <1>2, <1>3 DEF ScriptsIInv, SavedFirst, StrictSoFar

\* What the invariant takes for a session that is over.
LEMMA ScriptsIdle ==
    ASSUME ScriptsTyped, spc' = "idle", session' = Nobody, head' = head, built' = built,
           tree' \in [Repos -> SetupFiles], setups' \in SetupFiles
    PROVE  ScriptsIInv'
<1>1. ScriptsTyped'
  BY NobodyFacts DEF ScriptsTyped
<1>2. ~ Strict'
  BY NobodyFacts DEF Strict
<1> QED
  BY <1>1, <1>2 DEF ScriptsIInv, SavedFirst, StrictSoFar

\* The commands of a script with a set-up.
LEMMA CheckoutStep == ScriptsIInv /\ Checkout => ScriptsIInv'
<1> SUFFICES ASSUME ScriptsIInv, Checkout
             PROVE  ScriptsIInv'
  OBVIOUS
<1> USE DEF ScriptsIInv, ScriptsTyped, Checkout, GoOn, Go, R
<1>1. CASE GoOn("make") /\ head' = head /\ tree' = tree
  <2>1. CASE Strict
    BY <1>1, <2>1, ScriptsIdle
  <2>2. CASE ~ Strict
    BY <1>1, <2>2 DEF SavedFirst, StrictSoFar, Strict
  <2> QED
    BY <2>1, <2>2
<1>2. CASE /\ head' = [head EXCEPT ![R] = session.branch] /\ Go("make")
           /\ tree' = IF Clean(R) THEN [tree EXCEPT ![R] = Committed(R, session.branch)]
                      ELSE tree
  <2>1. /\ head' = [head EXCEPT ![session.repo] = session.branch] /\ spc' = "make"
        /\ session' = session /\ built' = built /\ setups' = setups
        /\ tree' = IF Clean(session.repo)
                   THEN [tree EXCEPT ![session.repo] = Committed(session.repo, session.branch)]
                   ELSE tree
    BY <1>2
  <2>2. Committed(session.repo, session.branch) \in SetupFiles
    BY CommittedFacts
  <2>3. ScriptsTyped'
    BY <2>1, <2>2
  <2> QED
    BY <2>1, <2>3 DEF SavedFirst, StrictSoFar, Strict, HasCheckedOut, HasBuilt, HasMounted
<1> QED
  BY <1>1, <1>2

\* make builds the branch that is checked out.
LEMMA MakeStep == ScriptsIInv /\ Make => ScriptsIInv'
<1> SUFFICES ASSUME ScriptsIInv, Make
             PROVE  ScriptsIInv'
  OBVIOUS
<1> USE DEF ScriptsIInv, ScriptsTyped, Make, GoOn, Go, R
<1>1. CASE /\ built' = [built EXCEPT ![session.repo] = head[session.repo]]
           /\ spc' = "restore" /\ session' = session
  BY <1>1 DEF SavedFirst, StrictSoFar, Strict, HasCheckedOut, HasBuilt, HasMounted
<1>2. CASE GoOn("restore") /\ built' = built
  <2>1. CASE Strict
    BY <1>2, <2>1, ScriptsIdle
  <2>2. CASE ~ Strict
    BY <1>2, <2>2 DEF SavedFirst, StrictSoFar, Strict
  <2> QED
    BY <2>1, <2>2
<1> QED
  BY <1>1, <1>2

\* restore_pmem takes over the setup.sh that was saved, if there is one.
LEMMA RestoreStep == ScriptsIInv /\ Restore => ScriptsIInv'
<1> SUFFICES ASSUME ScriptsIInv, Restore
             PROVE  ScriptsIInv'
  OBVIOUS
<1> USE DEF ScriptsIInv, ScriptsTyped, Restore, GoOn, Go, R
<1>1. CASE setups = None
  <2>1. CASE Strict
    BY <1>1, <2>1, ScriptsIdle
  <2>2. CASE ~ Strict
    BY <1>1, <2>2 DEF SavedFirst, StrictSoFar, Strict
  <2> QED
    BY <2>1, <2>2
<1>2. CASE setups # None
  BY <1>2 DEF SavedFirst, StrictSoFar, Strict, HasCheckedOut, HasBuilt, HasMounted
<1> QED
  BY <1>1, <1>2

\* After a save or a restore, setup.sh in the tree is the one saved.
LEMMA SaveStep == ScriptsIInv /\ (Save \/ RestoreAgain) => ScriptsIInv'
BY DEF ScriptsIInv, ScriptsTyped, Save, RestoreAgain, Go, R, SavedFirst, StrictSoFar, Strict,
       HasCheckedOut, HasBuilt, HasMounted

\* The two seds leave a setup.sh that is edited.
LEMMA EditedFacts ==
    ASSUME NEW x \in SetupFiles
    PROVE  /\ [x EXCEPT !.edited = TRUE] \in SetupFiles
           /\ [x EXCEPT !.edited = TRUE].edited
<1> DEFINE V == {NoFile} \cup {SetupVersion[r][b] : r \in Repos, b \in Branches}
<1>1. x \in [version : V, edited : BOOLEAN] /\ SetupFiles = [version : V, edited : BOOLEAN]
  BY DEF SetupFiles
<1> HIDE DEF V
<1>2. [x EXCEPT !.edited = TRUE] \in [version : V, edited : BOOLEAN]
  BY <1>1, Zenon
<1>3. [x EXCEPT !.edited = TRUE].edited
  BY <1>1, Zenon
<1> QED
  BY <1>1, <1>2, <1>3

\* sed edits setup.sh in the tree.
LEMMA EditStep == ScriptsIInv /\ Edit => ScriptsIInv'
<1> SUFFICES ASSUME ScriptsIInv, Edit
             PROVE  ScriptsIInv'
  OBVIOUS
<1> USE DEF ScriptsIInv, ScriptsTyped, Edit, Go, R
<1>1. tree[session.repo] \in SetupFiles
  OBVIOUS
<1>2. PICK edited : edited = [tree[session.repo] EXCEPT !.edited = TRUE]
  OBVIOUS
<1>3. edited \in SetupFiles /\ edited.edited
  BY <1>1, <1>2, EditedFacts
<1>4. tree' = [tree EXCEPT ![session.repo] = edited]
  BY <1>2
<1>5. /\ spc = "edit" /\ spc' = "run" /\ session' = session /\ head' = head /\ built' = built
      /\ setups' = setups /\ tree' \in [Repos -> SetupFiles] /\ tree'[session.repo].edited
  BY <1>3, <1>4
<1> QED
  BY <1>5 DEF SavedFirst, StrictSoFar, Strict, HasCheckedOut, HasBuilt, HasMounted

\* setup.sh loads the module that was built, or fails.
LEMMA RunStep == ScriptsIInv /\ (RunSetup \/ RunSetupFails) => ScriptsIInv'
<1> SUFFICES ASSUME ScriptsIInv, RunSetup \/ RunSetupFails
             PROVE  ScriptsIInv'
  OBVIOUS
<1> USE DEF ScriptsIInv, ScriptsTyped, Go, R
<1>1. CASE RunSetup
  BY <1>1 DEF RunSetup, SavedFirst, StrictSoFar, Strict, HasCheckedOut, HasBuilt, HasMounted
<1>2. CASE RunSetupFails
  <2>1. GoOn("restore2") /\ UNCHANGED <<head, tree, built, setups>>
    BY <1>2 DEF RunSetupFails
  <2>2. CASE Strict
    BY <2>1, <2>2, ScriptsIdle DEF GoOn
  <2>3. CASE ~ Strict
    BY <2>1, <2>3 DEF SavedFirst, StrictSoFar, Strict, GoOn
  <2> QED
    BY <2>2, <2>3
<1> QED
  BY <1>1, <1>2

\* git checkout -- setup.sh gives the committed version back.
LEMMA ResetStep == ScriptsIInv /\ ResetTree => ScriptsIInv'
<1> SUFFICES ASSUME ScriptsIInv, ResetTree
             PROVE  ScriptsIInv'
  OBVIOUS
<1> USE DEF ScriptsIInv, ScriptsTyped, ResetTree, GoOn, Go, R
<1>1. Committed(session.repo, head[session.repo]) \in SetupFiles
  BY CommittedFacts
<1>2. /\ tree' \in [Repos -> SetupFiles]
      /\ UNCHANGED <<head, built, setups, mounted>> /\ spc = "reset"
  BY <1>1
<1>3. CASE spc' = "idle" /\ session' = Nobody
  BY <1>2, <1>3, ScriptsIdle
<1>4. CASE spc' = "measure" /\ session' = session
  BY <1>2, <1>4 DEF SavedFirst, StrictSoFar, Strict, HasCheckedOut, HasBuilt, HasMounted
<1>5. \/ spc' = "idle" /\ session' = Nobody
      \/ spc' = "measure" /\ session' = session
  <2>1. CASE Go("idle") \/ GoOn("idle")
    BY <2>1 DEF Strict
  <2>2. CASE Go("measure") \/ GoOn("measure")
    BY <2>2 DEF Strict
  <2>3. PICK on \in {"idle", "measure"} : Go(on) \/ GoOn(on)
    BY Zenon DEF ResetTree
  <2> QED
    BY <2>1, <2>2, <2>3
<1> QED
  BY <1>3, <1>4, <1>5

\* The steps of a session that are no command of it.
LEMMA SessionStep ==
    ScriptsIInv /\ (StartSetup \/ StartByHand \/ EndMeasurement \/ Break) => ScriptsIInv'
<1> SUFFICES ASSUME ScriptsIInv, StartSetup \/ StartByHand \/ EndMeasurement \/ Break
             PROVE  ScriptsIInv'
  OBVIOUS
<1> USE DEF ScriptsIInv, ScriptsTyped
<1>1. CASE StartSetup
  <2>1. PICK name \in DOMAIN RepoOf : StartScript(name, RepoOf[name])
    BY <1>1 DEF StartSetup
  <2>2. PICK b \in Branches : session' = [name |-> name, repo |-> RepoOf[name], branch |-> b]
    BY <2>1 DEF StartScript
  <2>3. /\ RepoOf[name] \in Repos
        /\ name = "aging_amount" => RepoOf[name] = "Light-Dedup"
    BY DEF RepoOf, Repos
  <2> QED
    BY <2>1, <2>2, <2>3 DEF StartScript, SavedFirst, StrictSoFar, Strict, HasCheckedOut,
       HasBuilt, HasMounted
<1>2. CASE StartByHand
  <2>1. PICK name : name \notin DOMAIN RepoOf /\ session' = [Nobody EXCEPT !.name = name]
    BY <1>2 DEF StartByHand
  <2>2. /\ session'.name = name /\ session'.repo \in Repos /\ session'.branch \in Branches
        /\ name # "aging_amount"
    BY <2>1, NobodyFacts DEF RepoOf
  <2>3. spc' = "measure" /\ UNCHANGED <<head, tree, built, setups>>
    BY <1>2 DEF StartByHand
  <2> QED
    BY <2>2, <2>3 DEF SavedFirst, StrictSoFar, Strict
<1>3. CASE EndMeasurement
  BY <1>3, ScriptsIdle DEF EndMeasurement, Go
<1>4. CASE Break
  BY <1>4, ScriptsIdle, NobodyFacts DEF Break, Interrupted, Reboot, Go
<1> QED
  BY <1>1, <1>2, <1>3, <1>4

\* The programs that are measured change nothing of the set-up.
LEMMA ScriptsKept == ScriptsIInv /\ UNCHANGED setupVars => ScriptsIInv'
BY DEF ScriptsIInv, ScriptsTyped, setupVars, SavedFirst, StrictSoFar, Strict, R,
       HasCheckedOut, HasBuilt, HasMounted

\* What a step of the whole does, topic by topic.
LEMMA StepCases ==
    ASSUME [Next]_vars
    PROVE  \/ StartSetup \/ StartByHand \/ EndMeasurement \/ Break
           \/ SetupProgress /\ UNCHANGED programVars
           \/ Age \/ DrawPosition
           \/ RunPercore \/ (\E id \in Ids : RunWriter(id))
           \/ FioWritesTest \/ Shuffle
           \/ UNCHANGED vars
BY DEF Next, Progress

\* The scripts' invariant holds whatever runs and whatever breaks.
THEOREM ScriptsInductive == Spec => []ScriptsIInv
<1>1. Init => ScriptsIInv
  BY ScriptsInit
<1>2. ScriptsIInv /\ [Next]_vars => ScriptsIInv'
  <2> SUFFICES ASSUME ScriptsIInv, [Next]_vars
               PROVE  ScriptsIInv'
    OBVIOUS
  <2>1. CASE StartSetup \/ StartByHand \/ EndMeasurement \/ Break
    BY <2>1, SessionStep
  <2>2. CASE SetupProgress
    BY <2>2, CheckoutStep, MakeStep, RestoreStep, SaveStep, EditStep, RunStep, ResetStep
    DEF SetupProgress
  <2>3. CASE UNCHANGED setupVars
    BY <2>3, ScriptsKept
  <2>4. CASE Age \/ DrawPosition
    BY <2>3, <2>4 DEF Age, DrawPosition
  <2>5. CASE RunPercore \/ \E id \in Ids : RunWriter(id)
    BY <2>3, <2>5 DEF RunPercore, RunWriter
  <2>6. CASE FioWritesTest \/ Shuffle
    BY <2>3, <2>6 DEF FioWritesTest, Shuffle
  <2>7. CASE UNCHANGED vars
    BY <2>3, <2>7 DEF vars
  <2> QED
    BY <2>1, <2>2, <2>4, <2>5, <2>6, <2>7, StepCases
<1> QED
  BY <1>1, <1>2, PTL DEF Spec

\* aging_amount.sh measures the branch it was asked for, whatever earlier runs
\* and failures have left.
THEOREM MeasuresWhatWasAsked == Spec => []MeasuresTheBranch
<1>1. ScriptsIInv => MeasuresTheBranch
  BY DEF ScriptsIInv, StrictSoFar, MeasuresTheBranch, HasMounted, R
<1> QED
  BY <1>1, ScriptsInductive, PTL

\* The first setup.sh saved after a restart is the one every later run executes.
THEOREM FirstSetupIsKept == Spec => FirstSetupStays
<1>1. ScriptsIInv /\ [Next]_vars => [setups = None \/ setups' \in {setups, None}]_setups
  <2> SUFFICES ASSUME ScriptsIInv, [Next]_vars, setups # None
               PROVE  setups' \in {setups, None}
    OBVIOUS
  <2>1. CASE StartSetup \/ StartByHand \/ EndMeasurement \/ Break
    BY <2>1 DEF StartSetup, StartScript, StartByHand, EndMeasurement, Break, Interrupted, Reboot
  <2>2. CASE SetupProgress
    <3>1. CASE Save
      BY <3>1 DEF Save, ScriptsIInv, SavedFirst
    <3>2. CASE Checkout \/ Make \/ Restore \/ Edit \/ RestoreAgain \/ ResetTree
      BY <3>2 DEF Checkout, Make, Restore, Edit, RestoreAgain, ResetTree
    <3>3. CASE RunSetup \/ RunSetupFails
      BY <3>3 DEF RunSetup, RunSetupFails
    <3> QED
      BY <2>2, <3>1, <3>2, <3>3 DEF SetupProgress
  <2>3. CASE UNCHANGED setupVars
    BY <2>3 DEF setupVars
  <2>4. CASE Age \/ DrawPosition
    BY <2>3, <2>4 DEF Age, DrawPosition
  <2>5. CASE RunPercore \/ \E id \in Ids : RunWriter(id)
    BY <2>3, <2>5 DEF RunPercore, RunWriter
  <2>6. CASE FioWritesTest \/ Shuffle
    BY <2>3, <2>6 DEF FioWritesTest, Shuffle
  <2>7. CASE UNCHANGED vars
    BY <2>3, <2>7 DEF vars
  <2> QED
    BY <2>1, <2>2, <2>4, <2>5, <2>6, <2>7, StepCases
<1> QED
  BY <1>1, ScriptsInductive, PTL DEF Spec, FirstSetupStays

----------------------------------------------------------------------------
(* The programs do not meet. *)

\* A file system just formatted has no files.
LEMMA EmptyFacts ==
    /\ DOMAIN EmptyVolume = Fields
    /\ EmptyVolume.file1 = <<>> /\ EmptyVolume.file2 = <<>>
    /\ EmptyVolume.test = [id \in Ids |-> NoFile] /\ EmptyVolume.old = [id \in Ids |-> NoFile]
    /\ EmptyVolume.src = NoFile
BY DEF EmptyVolume, Fields

\* Where no program runs, no program has state.
LEMMA NobodyRuns ==
    ASSUME Apart, spc # "measure"
    PROVE  aging = NoAging /\ percore = NoPercore /\ writer = NoWriters /\ shuffle = NoShuffle
BY DEF Apart, Measuring

\* A script's commands change nothing of the programs; the volume they leave
\* alone or format.
LEMMA SetupFrame ==
    ASSUME Apart, StartSetup \/ StartByHand \/ (SetupProgress /\ UNCHANGED programVars)
    PROVE  /\ aging = NoAging /\ percore = NoPercore /\ writer = NoWriters /\ shuffle = NoShuffle
           /\ UNCHANGED programVars /\ (vol' = vol \/ vol' = EmptyVolume)
<1>1. spc # "measure"
  BY DEF StartSetup, StartScript, StartByHand, SetupProgress, Checkout, Make, Restore, Save,
         Edit, RunSetup, RunSetupFails, RestoreAgain, ResetTree
<1>2. UNCHANGED programVars /\ (vol' = vol \/ vol' = EmptyVolume)
  BY DEF StartSetup, StartByHand, SetupProgress, RunSetup, RunSetupFails
<1> QED
  BY <1>1, <1>2, NobodyRuns

\* An end, of a measurement or of everything.
LEMMA EndFrame ==
    ASSUME EndMeasurement \/ Break
    PROVE  NoPrograms /\ (vol' = vol \/ vol' = EmptyVolume)
BY DEF EndMeasurement, Break, Interrupted, Reboot

\* The three kinds of programs do not touch each other's files.
LEMMA AgeFrame ==
    ASSUME Age \/ DrawPosition, Apart
    PROVE  /\ UNCHANGED <<setupVars, percore, writer, shuffle, workload>>
           /\ DOMAIN vol' = Fields
           /\ vol'.test = vol.test /\ vol'.old = vol.old /\ vol'.src = vol.src
           /\ vol'.shuffled = vol.shuffled
           /\ aging' # NoAging => Measuring({"aging_amount", "aging_system"})
BY DEF Age, DrawPosition, StartAging, AgingProgress, DrawAgain, Fill, BeginPunching, Punch,
       BeginRefilling, Refill, EndAging, Apart, Fields

\* A step of percore_amount.sh or of one of its processes leaves the other
\* programs and their files alone.
LEMMA PercoreFrame ==
    ASSUME RunPercore \/ (\E id \in Ids : RunWriter(id)), Apart
    PROVE  /\ UNCHANGED <<setupVars, aging, shuffle, workload>>
           /\ DOMAIN vol' = Fields
           /\ vol'.file1 = vol.file1 /\ vol'.file2 = vol.file2
           /\ Measuring({"percore"})
<1>1. CASE RunPercore
  BY <1>1 DEF RunPercore, StartPercore, PercoreProgress, Spawn, Wait, MoveTests, EndPercore,
              Apart, Fields
<1>2. CASE \E id \in Ids : RunWriter(id)
  <2>1. PICK id \in Ids : RunWriter(id)
    BY <1>2
  <2>2. writer # NoWriters
    BY <2>1 DEF RunWriter, WriterProgress, Open, WriteChunk, EndWriter, NoWriters
  <2> QED
    BY <2>1, <2>2 DEF RunWriter, WriterProgress, Open, WriteChunk, EndWriter, Apart, Fields
<1> QED
  BY <1>1, <1>2

\* So does a step of read_effects.sh or of shuffle_and_write.
LEMMA ShuffleFrame ==
    ASSUME FioWritesTest \/ Shuffle, Apart
    PROVE  /\ UNCHANGED <<setupVars, aging, percore, writer, workload>>
           /\ DOMAIN vol' = Fields
           /\ vol'.file1 = vol.file1 /\ vol'.file2 = vol.file2
           /\ vol'.test = vol.test /\ vol'.old = vol.old
           /\ Measuring({"read_effects", "shuffle_and_write"})
BY DEF FioWritesTest, Shuffle, StartShuffle, ShuffleProgress, Read, BeginWriting, Write,
       EndShuffle, Apart, Fields, Measuring, programVars

\* The programs stay apart.
THEOREM ProgramsApart == Spec => []Apart
<1>1. Init => Apart
  BY EmptyFacts DEF Init, Apart
<1>2. Apart /\ [Next]_vars => Apart'
  <2> SUFFICES ASSUME Apart, [Next]_vars
               PROVE  Apart'
    OBVIOUS
  <2>1. CASE StartSetup \/ StartByHand \/ (SetupProgress /\ UNCHANGED programVars)
    BY <2>1, SetupFrame, EmptyFacts DEF Apart, programVars, NoWriters, NoPercore, NoAging,
       NoShuffle
  <2>2. CASE EndMeasurement \/ Break
    BY <2>2, EndFrame, EmptyFacts DEF NoPrograms, Apart, NoWriters, NoPercore, NoAging,
       NoShuffle
  <2>3. CASE Age \/ DrawPosition
    BY <2>3, AgeFrame DEF Apart, Measuring, setupVars, NoWriters, NoPercore, NoAging, NoShuffle
  <2>4. CASE RunPercore \/ \E id \in Ids : RunWriter(id)
    BY <2>4, PercoreFrame DEF Apart, Measuring, setupVars, NoWriters, NoPercore, NoAging, NoShuffle
  <2>5. CASE FioWritesTest \/ Shuffle
    BY <2>5, ShuffleFrame DEF Apart, Measuring, setupVars, NoWriters, NoPercore, NoAging, NoShuffle
  <2>6. CASE UNCHANGED vars
    BY <2>6 DEF vars, programVars, setupVars, Apart, Measuring, NoWriters, NoPercore, NoAging,
                NoShuffle
  <2> QED
    BY <2>1, <2>2, <2>3, <2>4, <2>5, <2>6, StepCases
<1> QED
  BY <1>1, <1>2, PTL DEF Spec
----------------------------------------------------------------------------
(* The ageing. *)

\* One more chunk than a is no more than b.
LEMMA OneMore ==
    ASSUME NEW a \in Nat, NEW b \in Nat, NEW s \in Nat, a < b
    PROVE  a * s \in Nat /\ a * s + s = (a + 1) * s /\ (a + 1) * s <= b * s
<1>1. PICK d \in Nat : b = (a + 1) + d
  <2>1. b - (a + 1) \in Nat /\ b = (a + 1) + (b - (a + 1))
    OBVIOUS
  <2> QED
    BY <2>1
<1>2. b * s = (a + 1) * s + d * s /\ d * s \in Nat
  BY <1>1
<1> QED
  BY <1>2

\* n blocks of a chunk.
LEMMA ChunkPart ==
    ASSUME NEW v \in Int, NEW n \in 0 .. StepBlocks
    PROVE  /\ SubSeq(Chunk(v), 1, n) \in Seq(Int) /\ Len(SubSeq(Chunk(v), 1, n)) = n
           /\ \A p \in 1 .. n : SubSeq(Chunk(v), 1, n)[p] = v + (p - 1)
<1>1. Chunk(v) \in Seq(Int) /\ Len(Chunk(v)) = StepBlocks
      /\ \A p \in 1 .. StepBlocks : Chunk(v)[p] = v + (p - 1)
  <2>1. /\ StepBlocks \in Nat
        /\ \A p \in 1 .. StepBlocks : v + p - 1 = v + (p - 1) /\ v + p - 1 \in Int
    BY VolumeAssumption
  <2> QED
    BY <2>1 DEF Chunk
<1> QED
  BY <1>1, VolumeAssumption

\* A write in a file or at its end.
LEMMA WriteAtFacts ==
    ASSUME NEW T, NEW file, NEW data, NEW ofs, NEW new,
           file \in Seq(T), data \in Seq(T), ofs \in 0 .. Len(file),
           new = WriteAt(file, ofs, data)
    PROVE  /\ new \in Seq(T)
           /\ Len(new) = IF Len(file) > ofs + Len(data) THEN Len(file) ELSE ofs + Len(data)
           /\ \A p \in 1 .. Len(new) :
                \/ p \in 1 .. Len(file) /\ p \notin ofs + 1 .. ofs + Len(data)
                   /\ new[p] = file[p]
                \/ p \in ofs + 1 .. ofs + Len(data) /\ new[p] = data[p - ofs]
<1> DEFINE m == IF Len(file) > ofs + Len(data) THEN Len(file) ELSE ofs + Len(data)
<1>1. m \in Nat /\ Len(file) \in Nat /\ Len(data) \in Nat
  OBVIOUS
<1>2. new = [p \in 1 .. m |-> IF p \in ofs + 1 .. ofs + Len(data) THEN data[p - ofs] ELSE file[p]]
  BY DEF WriteAt
<1>3. \A p \in 1 .. m :
        \/ p \in ofs + 1 .. ofs + Len(data) /\ new[p] = data[p - ofs] /\ data[p - ofs] \in T
        \/ p \in 1 .. Len(file) /\ p \notin ofs + 1 .. ofs + Len(data)
           /\ new[p] = file[p] /\ file[p] \in T
  BY <1>1, <1>2
<1> HIDE DEF m
<1>4. new \in [1 .. m -> T]
  BY <1>2, <1>3
<1>5. new \in Seq(T) /\ Len(new) = m
  BY <1>1, <1>4
<1> QED
  BY <1>3, <1>5 DEF m

\* The sizes of the ageing.
LEMMA AgingSizes ==
    /\ Chunks \in Nat /\ StepBlocks \in Nat /\ total_4K_blks \in Nat
    /\ \A percent \in Nat : Holes(percent) \in Nat /\ fill_num(percent) \in Nat
BY VolumeAssumption, AgingAssumption DEF total_4K_blks, Holes, fill_num

\* A chunk of Phase 1, whole or in part.
LEMMA FillFile ==
    ASSUME AgedFiles, AgingTyped, AgingAt, DOMAIN vol = Fields, Fill,
           NEW n \in 0 .. StepBlocks, vol' = [vol EXCEPT !.file1 = ChunkAt(@, Magic(1), n)]
    PROVE  /\ AgedFiles' /\ vol'.file2 = vol.file2
           /\ n = StepBlocks => (aging.chunk + 1) * StepBlocks <= Len(vol'.file1)
           /\ HolesIn = {} => HolesIn' = {}
           /\ Len(vol.file1) = aging.chunk * StepBlocks =>
                Len(vol'.file1) = aging.chunk * StepBlocks + n
<1>1. PICK c \in Nat : c = aging.chunk /\ c < Chunks
  BY DEF AgingTyped, Fill
<1>2. PICK ofs \in Nat : ofs = c * StepBlocks
  BY <1>1, AgingSizes
<1>3. /\ ofs <= Len(vol.file1) /\ ofs + StepBlocks <= total_4K_blks
      /\ (c + 1) * StepBlocks = ofs + StepBlocks
  BY <1>1, <1>2, OneMore, AgingSizes DEF AgingAt, Fill, total_4K_blks
<1>4. PICK v \in Int : v = Magic(1) /\ v = total_4K_blks + ofs
  BY <1>1, <1>2, AgingSizes DEF Magic
<1>5. PICK data : data = SubSeq(Chunk(v), 1, n)
  OBVIOUS
<1>6. data \in Seq(Int) /\ Len(data) = n /\ \A p \in 1 .. n : data[p] = v + (p - 1)
  BY <1>5, ChunkPart
<1>7. PICK file : file = vol.file1
  OBVIOUS
<1>8. PICK new : new = WriteAt(file, ofs, data)
  OBVIOUS
<1>9. vol'.file1 = new /\ vol'.file2 = vol.file2
  BY <1>1, <1>2, <1>4, <1>5, <1>7, <1>8 DEF ChunkAt, Fields
<1>10. file \in Seq(Int \cup {Hole}) /\ data \in Seq(Int \cup {Hole}) /\ ofs \in 0 .. Len(file)
  BY <1>2, <1>3, <1>6, <1>7 DEF AgedFiles
<1>11. /\ new \in Seq(Int \cup {Hole})
       /\ Len(new) = IF Len(file) > ofs + n THEN Len(file) ELSE ofs + n
       /\ \A p \in 1 .. Len(new) :
            \/ p \in 1 .. Len(file) /\ new[p] = file[p]
            \/ p \in ofs + 1 .. ofs + n /\ new[p] = data[p - ofs]
  <2>0. PICK T : T = Int \cup {Hole}
    OBVIOUS
  <2>1. file \in Seq(T) /\ data \in Seq(T) /\ ofs \in 0 .. Len(file)
    BY <1>10, <2>0
  <2>2. /\ new \in Seq(T)
        /\ Len(new) = IF Len(file) > ofs + Len(data) THEN Len(file) ELSE ofs + Len(data)
        /\ \A p \in 1 .. Len(new) :
            \/ p \in 1 .. Len(file) /\ p \notin ofs + 1 .. ofs + Len(data)
               /\ new[p] = file[p]
            \/ p \in ofs + 1 .. ofs + Len(data) /\ new[p] = data[p - ofs]
    BY <2>1, <1>8, WriteAtFacts
  <2> QED
    BY <2>0, <2>2, <1>6
<1>12. \A p \in ofs + 1 .. ofs + n : data[p - ofs] = total_4K_blks + (p - 1)
  <2> TAKE p \in ofs + 1 .. ofs + n
  <2>1. p - ofs \in 1 .. n /\ v + ((p - ofs) - 1) = total_4K_blks + (p - 1)
    BY <1>4, AgingSizes
  <2> QED
    BY <2>1, <1>6
<1>13. \A p \in 1 .. Len(new) : new[p] \in {Hole, total_4K_blks + (p - 1)}
  BY <1>7, <1>11, <1>12 DEF AgedFiles
<1>14. Len(new) <= total_4K_blks
  BY <1>3, <1>7, <1>11, AgingSizes DEF AgedFiles
<1>15. AgedFiles'
  <2>1. DOMAIN new = 1 .. Len(new)
    BY <1>11, LenProperties
  <2>2. /\ vol'.file1 \in Seq(Int \cup {Hole}) /\ Len(vol'.file1) <= total_4K_blks
        /\ \A p \in DOMAIN vol'.file1 : vol'.file1[p] \in {Hole, total_4K_blks + (p - 1)}
    BY <2>1, <1>9, <1>11, <1>13, <1>14
  <2>3. /\ vol'.file2 \in Seq(Int)
        /\ \A p \in DOMAIN vol'.file2 : vol'.file2[p] = 3 * total_4K_blks + (p - 1)
    BY <1>9 DEF AgedFiles
  <2> QED
    BY <2>2, <2>3 DEF AgedFiles, total_4K_blks
<1>16. HolesIn = {} => HolesIn' = {}
  <2> SUFFICES ASSUME HolesIn = {}, NEW p \in 1 .. Len(new), new[p] = Hole
               PROVE  FALSE
    BY <1>9, <1>11, LenProperties DEF HolesIn
  <2>1. p \notin 1 .. Len(file) \/ file[p] # Hole
    BY <1>7, <1>10, LenProperties DEF HolesIn
  <2>2. p \in ofs + 1 .. ofs + n /\ Hole = total_4K_blks + (p - 1)
    BY <2>1, <1>11, <1>12
  <2> QED
    BY <2>2, AgingSizes, VolumeAssumption
<1>17. /\ n = StepBlocks => (c + 1) * StepBlocks <= Len(new)
       /\ Len(file) = ofs => Len(new) = ofs + n
  <2>1. Len(file) \in Nat /\ Len(file) >= ofs
    BY <1>3, <1>7, <1>10, LenProperties
  <2> QED
    BY <2>1, <1>3, <1>11
<1> QED
  BY <1>1, <1>2, <1>7, <1>9, <1>15, <1>16, <1>17

\* What an ageing that writes does to its state.
LEMMA WroteFacts ==
    ASSUME AgingTyped, NEW n \in 0 .. StepBlocks, Wrote(n)
    PROVE  /\ AgingTyped'
           /\ \/ n = StepBlocks /\ aging' = [aging EXCEPT !.chunk = aging.chunk + 1]
              \/ aging'.pc = "failed"
BY AgingSizes DEF AgingTyped, Wrote, total_4K_blks

\* A step of Phase 1.
LEMMA FillStep ==
    ASSUME AgingIInv, DOMAIN vol = Fields, Fill
    PROVE  AgingIInv'
<1>1. PICK n \in 0 .. StepBlocks : vol' = [vol EXCEPT !.file1 = ChunkAt(@, Magic(1), n)] /\ Wrote(n)
  BY DEF Fill
<1>2. /\ AgedFiles' /\ vol'.file2 = vol.file2
      /\ n = StepBlocks => (aging.chunk + 1) * StepBlocks <= Len(vol'.file1)
      /\ HolesIn = {} => HolesIn' = {}
      /\ Len(vol.file1) = aging.chunk * StepBlocks =>
            Len(vol'.file1) = aging.chunk * StepBlocks + n
  BY <1>1, FillFile DEF AgingIInv
<1>3. /\ AgingTyped'
      /\ \/ n = StepBlocks /\ aging' = [aging EXCEPT !.chunk = aging.chunk + 1]
         \/ aging'.pc = "failed"
  BY <1>1, WroteFacts DEF AgingIInv
<1>4. CASE aging'.pc = "failed"
  BY <1>2, <1>3, <1>4 DEF AgingIInv, AgingAt, AgingClean
<1>5. CASE n = StepBlocks /\ aging' = [aging EXCEPT !.chunk = aging.chunk + 1]
  <2>1. /\ aging' \in [pc : {"none", "fill", "punch", "refill", "done", "failed"}, percent : Nat,
               chunk : Nat, records : SUBSET (0 .. total_4K_blks - 1), hole_num : Nat,
               clean : BOOLEAN]
        /\ aging.pc = "fill" /\ aging'.pc = "fill" /\ aging'.chunk = aging.chunk + 1
        /\ aging'.records = aging.records /\ aging'.clean = aging.clean
        /\ aging.chunk < Chunks /\ aging.chunk \in Nat
    BY <1>3, <1>5 DEF AgingTyped, Fill, AgingIInv
  <2>2. aging.chunk * StepBlocks + StepBlocks = (aging.chunk + 1) * StepBlocks
    BY <2>1, OneMore, AgingSizes
  <2>3. AgingAt'
    BY <1>2, <1>5, <2>1, AgingSizes DEF AgingIInv, AgingAt
  <2>4. AgingClean'
    BY <1>2, <1>5, <2>1, <2>2 DEF AgingIInv, AgingClean
  <2> QED
    BY <1>2, <1>3, <2>3, <2>4 DEF AgingIInv
<1> QED
  BY <1>3, <1>4, <1>5

\* The end of Phase 1.
LEMMA BeginPunchingStep ==
    ASSUME AgingIInv, BeginPunching
    PROVE  AgingIInv'
<1>0. CASE vol' = vol /\ aging' = [aging EXCEPT !.pc = "failed"]
  BY <1>0 DEF AgingIInv, AgedFiles, AgingTyped, AgingAt, AgingClean, HolesIn, total_4K_blks
<1>1. SUFFICES ASSUME vol' = vol /\ aging.chunk = Chunks /\ aging.pc = "fill",
                      aging' = [aging EXCEPT !.pc = "punch", !.hole_num = Holes(aging.percent)]
               PROVE  AgingIInv'
  BY <1>0 DEF BeginPunching
<1>2. AgedFiles' /\ HolesIn' = HolesIn
  BY <1>1 DEF AgingIInv, AgedFiles, HolesIn, total_4K_blks
<1>3. AgingTyped'
  BY <1>1, AgingSizes DEF AgingIInv, AgingTyped, total_4K_blks
<1>4. /\ aging'.pc = "punch" /\ aging'.hole_num = Holes(aging.percent)
      /\ aging'.records = {} /\ aging'.clean = aging.clean /\ aging'.percent = aging.percent
      /\ aging.percent \in Nat
  BY <1>1 DEF AgingIInv, AgingTyped, AgingAt
<1>5. AgingAt'
  <2>1. Len(vol.file1) \in Nat /\ total_4K_blks <= Len(vol.file1) /\ Len(vol.file1) <= total_4K_blks
    BY <1>1, LenProperties DEF AgingIInv, AgingAt, AgedFiles, total_4K_blks
  <2>2. Len(vol.file1) = total_4K_blks
    BY <2>1, AgingSizes
  <2> QED
    BY <1>1, <1>4, <2>2 DEF AgingAt, total_4K_blks
<1>6. AgingClean'
  <2> SUFFICES ASSUME aging.clean
               PROVE  /\ HolesIn = {pos + 1 : pos \in {}} /\ vol.file2 = <<>>
                      /\ IsFiniteSet(HolesIn)
                      /\ Cardinality(HolesIn) + Holes(aging.percent) = Holes(aging.percent)
    BY <1>1, <1>2, <1>4 DEF AgingClean, Holes, total_4K_blks
  <2>1. HolesIn = {} /\ vol.file2 = <<>>
    BY <1>1 DEF AgingIInv, AgingClean
  <2>2. IsFiniteSet({}) /\ Cardinality({}) = 0 /\ {} = {pos + 1 : pos \in {}}
    BY FS_EmptySet
  <2>3. Holes(aging.percent) \in Nat
    BY <1>4, AgingSizes
  <2> QED
    BY <2>1, <2>2, <2>3
<1> QED
  BY <1>2, <1>3, <1>5, <1>6 DEF AgingIInv

\* A hole is made, or is not.
LEMMA PunchStep ==
    ASSUME AgingIInv, DOMAIN vol = Fields, Punch
    PROVE  AgingIInv'
<1>1. PICK pos \in (0 .. total_4K_blks - 1) \ aging.records :
        LET drawn == [aging EXCEPT !.records = @ \cup {pos}, !.hole_num = @ - 1]
        IN  \/ aging' = drawn /\ vol' = [vol EXCEPT !.file1[pos + 1] = Hole]
            \/ aging' = [drawn EXCEPT !.clean = FALSE] /\ vol' = vol
  BY Zenon DEF Punch
<1>2. /\ aging.pc = "punch" /\ aging.hole_num > 0 /\ aging.hole_num \in Nat
      /\ aging \in [pc : {"none", "fill", "punch", "refill", "done", "failed"}, percent : Nat,
               chunk : Nat, records : SUBSET (0 .. total_4K_blks - 1), hole_num : Nat,
               clean : BOOLEAN]
  BY DEF Punch, Punching, AgingIInv, AgingTyped
<1>3. /\ aging'.pc = "punch" /\ aging'.hole_num = aging.hole_num - 1
      /\ aging'.records = aging.records \cup {pos} /\ aging'.percent = aging.percent
      /\ aging'.chunk = aging.chunk /\ aging'.clean \in {aging.clean, FALSE}
  BY <1>1, <1>2
<1>4. AgingTyped'
  <2>1. /\ aging.records \cup {pos} \in SUBSET (0 .. total_4K_blks - 1)
        /\ aging.hole_num - 1 \in Nat
    BY <1>2
  <2> QED
    BY <1>1, <1>2, <2>1 DEF AgingTyped, total_4K_blks
<1>5. CASE aging'.clean = FALSE /\ vol' = vol
  <2>1. AgedFiles'
    BY <1>5 DEF AgingIInv, AgedFiles, total_4K_blks
  <2>2. AgingAt' /\ AgingClean'
    BY <1>2, <1>3, <1>5 DEF AgingIInv, AgingAt, AgingClean, total_4K_blks
  <2> QED
    BY <1>4, <2>1, <2>2 DEF AgingIInv
<1>6. CASE vol' = [vol EXCEPT !.file1[pos + 1] = Hole] /\ aging'.clean = aging.clean
  <2>1. vol'.file1 = [vol.file1 EXCEPT ![pos + 1] = Hole] /\ vol'.file2 = vol.file2
    BY <1>6 DEF Fields
  <2>2. /\ vol.file1 \in Seq(Int \cup {Hole}) /\ Len(vol.file1) = total_4K_blks
        /\ DOMAIN vol.file1 = 1 .. total_4K_blks /\ pos + 1 \in 1 .. total_4K_blks
    <3>1. vol.file1 \in Seq(Int \cup {Hole}) /\ Len(vol.file1) = total_4K_blks
      BY <1>2 DEF AgingIInv, AgedFiles, AgingAt
    <3>2. pos \in 0 .. total_4K_blks - 1 /\ total_4K_blks \in Nat
      BY AgingSizes
    <3> QED
      BY <3>1, <3>2, LenProperties
  <2>3. /\ vol'.file1 \in Seq(Int \cup {Hole}) /\ Len(vol'.file1) = total_4K_blks
        /\ DOMAIN vol'.file1 = 1 .. total_4K_blks
    BY <2>1, <2>2, ExceptSeq
  <2>4. AgedFiles'
    <3>1. \A p \in DOMAIN vol'.file1 : vol'.file1[p] \in {Hole, total_4K_blks + (p - 1)}
      BY <2>1, <2>2, <2>3 DEF AgingIInv, AgedFiles
    <3> QED
      BY <2>1, <2>3, <3>1, AgingSizes DEF AgingIInv, AgedFiles, total_4K_blks
  <2>5. AgingAt'
    BY <1>3, <2>3 DEF AgingAt, total_4K_blks
  <2>6. AgingClean'
    <3> SUFFICES ASSUME aging.clean
                 PROVE  /\ HolesIn' = {q + 1 : q \in aging.records \cup {pos}}
                        /\ vol.file2 = <<>> /\ IsFiniteSet(HolesIn')
                        /\ Cardinality(HolesIn') + aging.hole_num - 1 = Holes(aging.percent)
      BY <1>2, <1>3, <1>6, <2>1 DEF AgingClean, Holes, total_4K_blks
    <3>1. /\ HolesIn = {q + 1 : q \in aging.records} /\ vol.file2 = <<>> /\ IsFiniteSet(HolesIn)
          /\ Cardinality(HolesIn) + aging.hole_num = Holes(aging.percent)
      BY <1>2 DEF AgingIInv, AgingClean
    <3>2. HolesIn' = HolesIn \cup {pos + 1}
      BY <2>1, <2>2, <2>3 DEF HolesIn
    <3>3. pos + 1 \notin HolesIn
      <4> SUFFICES ASSUME NEW q \in aging.records, q + 1 = pos + 1
                   PROVE  FALSE
        BY <3>1
      <4>1. q \in 0 .. total_4K_blks - 1
        BY <1>2
      <4> QED
        BY <4>1, AgingSizes
    <3>4. /\ IsFiniteSet(HolesIn \cup {pos + 1})
          /\ Cardinality(HolesIn \cup {pos + 1}) = Cardinality(HolesIn) + 1
          /\ Cardinality(HolesIn) \in Nat
      BY <3>1, <3>3, FS_AddElement, FS_CardinalityType
    <3>5. HolesIn' = {q + 1 : q \in aging.records \cup {pos}}
      BY <3>1, <3>2
    <3>6. Cardinality(HolesIn') + aging.hole_num - 1 = Holes(aging.percent)
      BY <1>2, <3>1, <3>2, <3>4
    <3> QED
      BY <3>1, <3>2, <3>4, <3>5, <3>6
  <2> QED
    BY <1>4, <2>4, <2>5, <2>6 DEF AgingIInv
<1>7. \/ aging'.clean = FALSE /\ vol' = vol
      \/ vol' = [vol EXCEPT !.file1[pos + 1] = Hole] /\ aging'.clean = aging.clean
  BY <1>1, <1>2
<1> QED
  BY <1>5, <1>6, <1>7

\* Phase 3 begins with nothing written.
LEMMA BeginRefillingStep ==
    ASSUME AgingIInv, BeginRefilling
    PROVE  AgingIInv'
<1>1. /\ vol' = vol /\ aging.hole_num = 0 /\ aging.pc = "punch"
      /\ aging' = [aging EXCEPT !.pc = "refill", !.chunk = 0, !.records = {}]
  BY DEF BeginRefilling
<1>2. /\ aging'.pc = "refill" /\ aging'.chunk = 0 /\ aging'.percent = aging.percent
      /\ aging'.clean = aging.clean /\ aging.percent \in Nat
  BY <1>1 DEF AgingIInv, AgingTyped
<1>3. AgingTyped'
  BY <1>1 DEF AgingIInv, AgingTyped, total_4K_blks
<1>4. AgedFiles' /\ HolesIn' = HolesIn
  BY <1>1 DEF AgingIInv, AgedFiles, HolesIn, total_4K_blks
<1>5. /\ 0 * StepBlocks = 0 /\ fill_num(aging.percent) \in Nat /\ Holes(aging.percent) \in Nat
  BY <1>2, AgingSizes
<1>6. vol.file2 \in Seq(Int) /\ Len(vol.file2) \in Nat /\ Len(<<>>) = 0
  BY LenProperties DEF AgingIInv, AgedFiles
<1>7. AgingAt'
  BY <1>1, <1>2, <1>5, <1>6 DEF AgingIInv, AgingAt, total_4K_blks, fill_num
<1>8. AgingClean'
  <2> SUFFICES ASSUME aging.clean
               PROVE  Cardinality(HolesIn) = Holes(aging.percent) /\ Len(vol.file2) = 0 * StepBlocks
    BY <1>1, <1>2, <1>4 DEF AgingClean, Holes, total_4K_blks
  <2>1. /\ vol.file2 = <<>> /\ IsFiniteSet(HolesIn)
        /\ Cardinality(HolesIn) + aging.hole_num = Holes(aging.percent)
    BY <1>1 DEF AgingIInv, AgingClean
  <2> QED
    BY <1>1, <1>5, <1>6, <2>1, FS_CardinalityType
<1> QED
  BY <1>3, <1>4, <1>7, <1>8 DEF AgingIInv

\* A chunk of Phase 3, whole or in part.
LEMMA RefillFile ==
    ASSUME AgedFiles, AgingTyped, AgingAt, DOMAIN vol = Fields, Refill,
           NEW n \in 0 .. StepBlocks, vol' = [vol EXCEPT !.file2 = ChunkAt(@, Magic(3), n)]
    PROVE  /\ AgedFiles' /\ vol'.file1 = vol.file1
           /\ n = StepBlocks => (aging.chunk + 1) * StepBlocks <= Len(vol'.file2)
           /\ Len(vol.file2) = aging.chunk * StepBlocks =>
                Len(vol'.file2) = aging.chunk * StepBlocks + n
<1>1. PICK c \in Nat : c = aging.chunk
  BY DEF AgingTyped
<1>2. PICK ofs \in Nat : ofs = c * StepBlocks
  BY <1>1, AgingSizes
<1>3. (c + 1) * StepBlocks = ofs + StepBlocks
  BY <1>1, <1>2, AgingSizes
<1>4. PICK v \in Int : v = Magic(3) /\ v = 3 * total_4K_blks + ofs
  BY <1>1, <1>2, AgingSizes DEF Magic
<1>5. PICK data : data = SubSeq(Chunk(v), 1, n)
  OBVIOUS
<1>6. data \in Seq(Int) /\ Len(data) = n /\ \A p \in 1 .. n : data[p] = v + (p - 1)
  BY <1>5, ChunkPart
<1>7. PICK file : file = vol.file2
  OBVIOUS
<1>8. PICK new : new = WriteAt(file, ofs, data)
  OBVIOUS
<1>9. vol'.file2 = new /\ vol'.file1 = vol.file1
  BY <1>1, <1>2, <1>4, <1>5, <1>7, <1>8 DEF ChunkAt, Fields
<1>10. file \in Seq(Int) /\ Len(file) \in Nat /\ ofs <= Len(file)
  BY <1>1, <1>2, <1>7, LenProperties DEF AgedFiles, AgingAt, Refill
<1>11. /\ new \in Seq(Int)
       /\ Len(new) = IF Len(file) > ofs + n THEN Len(file) ELSE ofs + n
       /\ \A p \in 1 .. Len(new) :
            \/ p \in 1 .. Len(file) /\ new[p] = file[p]
            \/ p \in ofs + 1 .. ofs + n /\ new[p] = data[p - ofs]
  <2>0. PICK T : T = Int
    OBVIOUS
  <2>1. file \in Seq(T) /\ data \in Seq(T) /\ ofs \in 0 .. Len(file)
    BY <1>6, <1>10, <2>0
  <2>2. /\ new \in Seq(T)
        /\ Len(new) = IF Len(file) > ofs + Len(data) THEN Len(file) ELSE ofs + Len(data)
        /\ \A p \in 1 .. Len(new) :
            \/ p \in 1 .. Len(file) /\ p \notin ofs + 1 .. ofs + Len(data)
               /\ new[p] = file[p]
            \/ p \in ofs + 1 .. ofs + Len(data) /\ new[p] = data[p - ofs]
    BY <2>1, <1>8, WriteAtFacts, SMTT(20)
  <2> QED
    BY <2>0, <2>2, <1>6
<1>12. \A p \in ofs + 1 .. ofs + n : data[p - ofs] = 3 * total_4K_blks + (p - 1)
  <2> TAKE p \in ofs + 1 .. ofs + n
  <2>1. p - ofs \in 1 .. n /\ v + ((p - ofs) - 1) = 3 * total_4K_blks + (p - 1)
    BY <1>4, AgingSizes
  <2> QED
    BY <2>1, <1>6
<1>13. \A p \in 1 .. Len(new) : new[p] = 3 * total_4K_blks + (p - 1)
  BY <1>7, <1>10, <1>11, <1>12, LenProperties DEF AgedFiles
<1>14. AgedFiles'
  <2>1. DOMAIN new = 1 .. Len(new)
    BY <1>11, LenProperties
  <2>2. /\ vol'.file2 \in Seq(Int)
        /\ \A p \in DOMAIN vol'.file2 : vol'.file2[p] = 3 * total_4K_blks + (p - 1)
    BY <2>1, <1>9, <1>11, <1>13
  <2>3. /\ vol'.file1 \in Seq(Int \cup {Hole}) /\ Len(vol'.file1) <= total_4K_blks
        /\ \A p \in DOMAIN vol'.file1 : vol'.file1[p] \in {Hole, total_4K_blks + (p - 1)}
    BY <1>9 DEF AgedFiles
  <2> QED
    BY <2>2, <2>3 DEF AgedFiles, total_4K_blks
<1>15. /\ n = StepBlocks => (c + 1) * StepBlocks <= Len(new)
       /\ Len(file) = ofs => Len(new) = ofs + n
  BY <1>3, <1>10, <1>11
<1> QED
  BY <1>1, <1>2, <1>7, <1>9, <1>14, <1>15

\* A step of Phase 3.
LEMMA RefillStep ==
    ASSUME AgingIInv, DOMAIN vol = Fields, Refill
    PROVE  AgingIInv'
<1>1. PICK n \in 0 .. StepBlocks : vol' = [vol EXCEPT !.file2 = ChunkAt(@, Magic(3), n)] /\ Wrote(n)
  BY DEF Refill
<1>2. /\ AgedFiles' /\ vol'.file1 = vol.file1
      /\ n = StepBlocks => (aging.chunk + 1) * StepBlocks <= Len(vol'.file2)
      /\ Len(vol.file2) = aging.chunk * StepBlocks =>
            Len(vol'.file2) = aging.chunk * StepBlocks + n
  BY <1>1, RefillFile DEF AgingIInv
<1>3. /\ AgingTyped'
      /\ \/ n = StepBlocks /\ aging' = [aging EXCEPT !.chunk = aging.chunk + 1]
         \/ aging'.pc = "failed"
  BY <1>1, WroteFacts DEF AgingIInv
<1>4. CASE aging'.pc = "failed"
  BY <1>2, <1>3, <1>4 DEF AgingIInv, AgingAt, AgingClean
<1>5. CASE n = StepBlocks /\ aging' = [aging EXCEPT !.chunk = aging.chunk + 1]
  <2>1. /\ aging.pc = "refill" /\ aging'.pc = "refill" /\ aging'.chunk = aging.chunk + 1
        /\ aging'.percent = aging.percent /\ aging'.clean = aging.clean
        /\ aging.chunk < fill_num(aging.percent) /\ aging.chunk \in Nat
        /\ aging.percent \in Nat
    BY <1>3, <1>5 DEF AgingTyped, Refill, AgingIInv
  <2>2. /\ aging.chunk * StepBlocks + StepBlocks = (aging.chunk + 1) * StepBlocks
        /\ aging.chunk + 1 <= fill_num(aging.percent)
    <3>1. fill_num(aging.percent) \in Nat
      BY <2>1, AgingSizes
    <3>2. PICK c \in Nat, m \in Nat : c = aging.chunk /\ m = fill_num(aging.percent)
      BY <2>1, <3>1
    <3>3. c * StepBlocks + StepBlocks = (c + 1) * StepBlocks /\ c + 1 <= m
      BY <2>1, <3>2, AgingSizes
    <3> QED
      BY <3>2, <3>3
  <2>3. HolesIn' = HolesIn
    BY <1>2 DEF HolesIn
  <2>4. AgingAt'
    BY <1>2, <1>5, <2>1, <2>2 DEF AgingIInv, AgingAt, fill_num, total_4K_blks
  <2>5. AgingClean'
    BY <1>2, <1>5, <2>1, <2>2, <2>3 DEF AgingIInv, AgingClean, Holes, total_4K_blks
  <2> QED
    BY <1>2, <1>3, <2>4, <2>5 DEF AgingIInv
<1> QED
  BY <1>3, <1>4, <1>5

\* The end of Phase 3.
LEMMA EndAgingStep ==
    ASSUME AgingIInv, EndAging
    PROVE  AgingIInv'
<1>1. /\ vol' = vol /\ aging.chunk = fill_num(aging.percent) /\ aging.pc = "refill"
      /\ aging' = [aging EXCEPT !.pc = "done"]
  BY DEF EndAging
<1>2. /\ aging'.pc = "done" /\ aging'.percent = aging.percent /\ aging'.clean = aging.clean
  BY <1>1 DEF AgingIInv, AgingTyped
<1>3. AgingTyped'
  BY <1>1 DEF AgingIInv, AgingTyped, total_4K_blks
<1>4. AgedFiles' /\ HolesIn' = HolesIn
  BY <1>1 DEF AgingIInv, AgedFiles, HolesIn, total_4K_blks
<1>5. AgingAt' /\ AgingClean'
  BY <1>1, <1>2, <1>4 DEF AgingIInv, AgingAt, AgingClean, total_4K_blks, Holes, fill_num
<1> QED
  BY <1>3, <1>4, <1>5 DEF AgingIInv

\* An ageing starts, with nothing drawn.
LEMMA StartAgingStep ==
    ASSUME AgingIInv, StartAging
    PROVE  AgingIInv'
<1>1. PICK percent \in Percents :
        aging' = [NoAging EXCEPT !.pc = "fill", !.percent = percent, !.clean = (vol = EmptyVolume)]
  BY Zenon DEF StartAging
<1>2. /\ vol' = vol /\ percent \in Nat
      /\ aging' = [pc |-> "fill", percent |-> percent, chunk |-> 0, records |-> {},
                   hole_num |-> 0, clean |-> (vol = EmptyVolume)]
  BY <1>1, AgingAssumption DEF StartAging, NoAging
<1>3. AgingTyped'
  BY <1>2 DEF AgingTyped
<1>4. AgedFiles' /\ HolesIn' = HolesIn
  BY <1>2 DEF AgingIInv, AgedFiles, HolesIn, total_4K_blks
<1>5. 0 * StepBlocks = 0 /\ Len(vol.file1) \in Nat /\ Len(<<>>) = 0
  BY AgingSizes, LenProperties DEF AgingIInv, AgedFiles
<1>6. AgingAt'
  <2>1. 0 * StepBlocks <= Len(vol.file1) /\ 0 <= Chunks
    <3>1. PICK m \in Nat : m = Len(vol.file1)
      BY <1>5
    <3>2. 0 * StepBlocks <= m
      BY <1>5, <3>1
    <3>3. 0 <= Chunks
      BY AgingSizes
    <3> QED
      BY <3>1, <3>2, <3>3
  <2>2. aging'.pc = "fill" /\ aging'.chunk = 0 /\ aging'.records = {}
    BY <1>2
  <2> QED
    BY <1>2, <2>1, <2>2 DEF AgingAt
<1>7. AgingClean'
  <2> SUFFICES ASSUME vol = EmptyVolume
               PROVE  HolesIn = {} /\ vol.file2 = <<>> /\ Len(vol.file1) = 0 * StepBlocks
    BY <1>2, <1>4 DEF AgingClean
  <2>1. vol.file1 = <<>> /\ vol.file2 = <<>>
    BY EmptyFacts
  <2> QED
    BY <2>1, <1>5 DEF HolesIn
<1> QED
  BY <1>3, <1>4, <1>6, <1>7 DEF AgingIInv

\* Steps that leave the ageing and its files alone.
LEMMA AgingKept ==
    ASSUME AgingIInv, vol'.file1 = vol.file1, vol'.file2 = vol.file2, aging' = aging
    PROVE  AgingIInv'
<1>1. AgedFiles' /\ HolesIn' = HolesIn
  BY DEF AgingIInv, AgedFiles, HolesIn, total_4K_blks
<1>2. AgingTyped'
  BY DEF AgingIInv, AgingTyped, total_4K_blks
<1>3. AgingAt'
  BY DEF AgingIInv, AgingAt, total_4K_blks, fill_num
<1>4. AgingClean'
  BY <1>1 DEF AgingIInv, AgingClean, total_4K_blks, Holes, fill_num
<1> QED
  BY <1>1, <1>2, <1>3, <1>4 DEF AgingIInv

\* Where no ageing runs, the invariant is about the files.
LEMMA AgingNone ==
    ASSUME aging = NoAging, AgedFiles \/ vol = EmptyVolume
    PROVE  AgingIInv
<1>1. /\ aging.pc = "none" /\ aging.clean = FALSE
      /\ aging = [pc |-> "none", percent |-> 0, chunk |-> 0, records |-> {}, hole_num |-> 0,
                  clean |-> FALSE]
  BY DEF NoAging
<1>2. AgingTyped
  BY <1>1 DEF AgingTyped
<1>3. AgedFiles
  <2> SUFFICES ASSUME vol.file1 = <<>>, vol.file2 = <<>>
               PROVE  AgedFiles
    BY EmptyFacts
  <2> QED
    BY AgingSizes DEF AgedFiles
<1> QED
  BY <1>1, <1>2, <1>3 DEF AgingIInv, AgingAt, AgingClean

\* The invariant of the ageing holds whatever fails and is interrupted.
THEOREM AgingInductive == Spec => []AgingIInv
<1>1. Init => AgingIInv
  BY AgingNone DEF Init
<1>2. Apart /\ AgingIInv /\ [Next]_vars => AgingIInv'
  <2> SUFFICES ASSUME Apart, AgingIInv, [Next]_vars
               PROVE  AgingIInv'
    OBVIOUS
  <2>1. ASSUME aging' = NoAging, vol' = vol \/ vol' = EmptyVolume
        PROVE  AgingIInv'
    <3>1. (AgedFiles \/ vol = EmptyVolume)'
      BY <2>1 DEF AgingIInv, AgedFiles, total_4K_blks, EmptyVolume
    <3>2. (aging = NoAging /\ (AgedFiles \/ vol = EmptyVolume) => AgingIInv)'
      BY AgingNone, PTL
    <3> QED
      BY <2>1, <3>1, <3>2 DEF NoAging
  <2>2. CASE StartSetup \/ StartByHand \/ (SetupProgress /\ UNCHANGED programVars)
    BY <2>1, <2>2, SetupFrame DEF programVars
  <2>3. CASE EndMeasurement \/ Break
    BY <2>1, <2>3, EndFrame DEF NoPrograms
  <2>4. CASE Age
    BY <2>4, FillStep, BeginPunchingStep, PunchStep, BeginRefillingStep, RefillStep,
       EndAgingStep, StartAgingStep DEF Age, AgingProgress, Apart
  <2>5. CASE DrawPosition
    BY <2>5, AgingKept DEF DrawPosition, DrawAgain
  <2>6. CASE RunPercore \/ \E id \in Ids : RunWriter(id)
    BY <2>6, PercoreFrame, AgingKept
  <2>7. CASE FioWritesTest \/ Shuffle
    BY <2>7, ShuffleFrame, AgingKept
  <2>8. CASE UNCHANGED vars
    BY <2>8, AgingKept DEF vars, programVars
  <2> QED
    BY <2>2, <2>3, <2>4, <2>5, <2>6, <2>7, <2>8, StepCases
<1> QED
  BY <1>1, <1>2, ProgramsApart, PTL DEF Spec

\* After ageing an empty volume with no failed call there are as many holes as
\* asked for, and file2 fills them up to less than a chunk.
THEOREM HolesAreRefilled == Spec => []AgedVolume
<1>1. AgingIInv => AgedVolume
  <2> SUFFICES ASSUME AgingIInv, aging.pc = "done", aging.clean, aging.percent <= 100
               PROVE  /\ Len(vol.file1) = total_4K_blks
                      /\ Cardinality(HolesIn) = Holes(aging.percent)
                      /\ Holes(aging.percent) - Len(vol.file2) \in 0 .. StepBlocks - 1
    BY DEF AgedVolume, HolesIn
  <2>1. /\ Len(vol.file1) = total_4K_blks
        /\ Cardinality(HolesIn) = Holes(aging.percent)
        /\ Len(vol.file2) = fill_num(aging.percent) * StepBlocks
        /\ aging.percent \in Nat
    BY DEF AgingIInv, AgingTyped, AgingAt, AgingClean
  <2>2. PICK c \in Nat, b \in Nat \ {0}, p \in Nat :
            c = Chunks /\ b = StepBlocks /\ p = aging.percent
    BY <2>1, VolumeAssumption, AgingAssumption
  <2>3. ((c * b) * p) \div 100 - ((c * p) \div 100) * b \in 0 .. b - 1
    <3>1. PICK q \in Nat, r \in 0 .. 99 : c * p = 100 * q + r /\ q = (c * p) \div 100
      <4>1. PICK m \in Nat : m = c * p
        BY <2>2
      <4>2. m \div 100 \in Nat /\ m % 100 \in 0 .. 99 /\ m = 100 * (m \div 100) + (m % 100)
        OBVIOUS
      <4> QED
        BY <4>1, <4>2
    <3>2. (c * b) * p = 100 * (q * b) + r * b /\ q * b \in Nat /\ r * b \in Nat
      <4>1. (c * b) * p = b * (c * p) /\ c * p = 100 * q + r
        BY <3>1
      <4>2. b * (100 * q + r) = 100 * (q * b) + r * b
        BY <3>1
      <4> QED
        BY <3>1, <4>1, <4>2
    <3>3. (100 * (q * b) + r * b) \div 100 = q * b + (r * b) \div 100
      BY <3>2
    <3>4. (r * b) \div 100 \in 0 .. b - 1
      <4>1. r * b <= 99 * b /\ r * b \in Nat
        BY <3>1
      <4> QED
        BY <4>1
    <3> QED
      BY <3>1, <3>2, <3>3, <3>4
  <2> QED
    BY <2>1, <2>2, <2>3 DEF Holes, fill_num, total_4K_blks
<1> QED
  BY <1>1, AgingInductive, PTL

\* The blocks of an ageing are all different.
LEMMA AgingFilesDiffer == AgedFiles => AgingWritesNewBlocks
<1> SUFFICES ASSUME AgedFiles
             PROVE  AgingWritesNewBlocks
  OBVIOUS
<1>1. PICK t \in Nat : t = total_4K_blks
  BY AgingSizes
<1>2. PICK f1, f2 : f1 = vol.file1 /\ f2 = vol.file2
  OBVIOUS
<1>3. /\ f1 \in Seq(Int \cup {Hole}) /\ f2 \in Seq(Int) /\ Len(f1) <= t
      /\ \A p \in DOMAIN f1 : f1[p] \in {Hole, t + (p - 1)}
      /\ \A p \in DOMAIN f2 : f2[p] = 3 * t + (p - 1)
  BY <1>1, <1>2 DEF AgedFiles
<1>4. /\ DOMAIN f1 = 1 .. Len(f1) /\ DOMAIN f2 = 1 .. Len(f2)
      /\ Len(f1) \in Nat /\ Len(f2) \in Nat
  BY <1>3, LenProperties
<1>5. \A p, q \in DOMAIN f1 : f1[p] = f1[q] /\ f1[p] # Hole => p = q
  <2> SUFFICES ASSUME NEW p \in DOMAIN f1, NEW q \in DOMAIN f1, f1[p] = f1[q], f1[p] # Hole
               PROVE  p = q
    OBVIOUS
  <2>1. t + (p - 1) = t + (q - 1) /\ p \in Int /\ q \in Int
    BY <1>3, <1>4
  <2> QED
    BY <2>1, <1>1
<1>6. \A p, q \in DOMAIN f2 : f2[p] = f2[q] => p = q
  <2> SUFFICES ASSUME NEW p \in DOMAIN f2, NEW q \in DOMAIN f2, f2[p] = f2[q]
               PROVE  p = q
    OBVIOUS
  <2>1. 3 * t + (p - 1) = 3 * t + (q - 1) /\ p \in Int /\ q \in Int
    BY <1>3, <1>4
  <2> QED
    BY <2>1, <1>1
<1>7. BlocksOf(f1) \cap BlocksOf(f2) = {}
  <2> SUFFICES ASSUME NEW p \in DOMAIN f1, NEW q \in DOMAIN f2, f1[p] = f2[q], f1[p] # Hole
               PROVE  FALSE
    BY Zenon DEF BlocksOf
  <2>1. t + (p - 1) = 3 * t + (q - 1) /\ p \in 1 .. Len(f1) /\ q \in 1 .. Len(f2)
    BY <1>3, <1>4
  <2> QED
    BY <2>1, <1>1, <1>3, <1>4
<1> QED
  BY <1>2, <1>5, <1>6, <1>7 DEF AgingWritesNewBlocks

----------------------------------------------------------------------------
(* The rounds of percore_amount.sh. *)

\* The number a file starts with is an int that differs from the product by a
\* multiple of 2^IntBits.
LEMMA WrapFacts ==
    ASSUME NEW x \in Int, NEW M \in Nat \ {0}, M = 2 ^ IntBits
    PROVE  \E k \in Int : Wrap(x) = x - k * M
<1>1. PICK H \in Int : H = 2 ^ (IntBits - 1)
  <2>1. IntBits - 1 \in Nat
    BY PercoreAssumption
  <2> QED
    BY <2>1
<1>2. PICK y \in Int : y = x + H
  BY <1>1
<1>3. y = M * (y \div M) + (y % M) /\ y \div M \in Int /\ y % M \in Int
  OBVIOUS
<1>4. PICK q \in Int, r \in Int : q = y \div M /\ r = y % M /\ y = M * q + r
  BY <1>3
<1>5. Wrap(x) = (y % M) - H
  BY <1>1, <1>2 DEF Wrap
<1>6. Wrap(x) = x - q * M
  <2>1. PICK m \in Int : m = q * M /\ m = M * q
    OBVIOUS
  <2>2. x + H = m + r
    BY <1>2, <1>4, <2>1
  <2>3. r - H = x - m
    BY <2>2
  <2> QED
    BY <1>4, <1>5, <2>1, <2>3
<1> QED
  BY <1>6

\* A block has a number, and all the blocks of a round have different ones.
LEMMA BlocksDiffer ==
    ASSUME NEW a \in Ids
    PROVE  /\ FirstBlock(a) \in Int
           /\ \A b \in Ids : a # b => \A p, q \in 1 .. FileBlocks :
                FirstBlock(a) + (p - 1) # FirstBlock(b) + (q - 1)
<1>1. PICK F \in Nat \ {0} : F = FileBlocks
  <2>1. FileChunks * StepBlocks \in Nat \ {0}
    BY PercoreAssumption, VolumeAssumption
  <2> QED
    BY <2>1 DEF FileBlocks
<1>2. Ids \subseteq Nat
  BY VolumeAssumption
<1>3. PICK M \in Nat \ {0} : M = 2 ^ IntBits
  <2>1. 2 ^ IntBits \in Int
    BY PercoreAssumption
  <2>2. (a - a) * F + F <= 2 ^ IntBits
    BY <1>1, RoundFitsAssumption
  <2>3. (a - a) * F = 0
    BY <1>2
  <2> QED
    BY <2>1, <2>2, <2>3
<1>4. \A b \in Ids : \E k \in Int : FirstBlock(b) = b * F - k * M /\ b * F \in Int
  <2> TAKE b \in Ids
  <2>1. b * F \in Int
    BY <1>2
  <2>2. \E k \in Int : Wrap(b * F) = b * F - k * M
    BY <1>3, <2>1, WrapFacts
  <2> QED
    BY <1>1, <2>1, <2>2 DEF FirstBlock
<1>5. PICK ka \in Int : FirstBlock(a) = a * F - ka * M
  BY <1>4
<1>6. FirstBlock(a) \in Int
  BY <1>2, <1>5
<1>7. ASSUME NEW b \in Ids, a # b, NEW p \in 1 .. FileBlocks, NEW q \in 1 .. FileBlocks,
             FirstBlock(a) + (p - 1) = FirstBlock(b) + (q - 1)
      PROVE  FALSE
  <2>1. PICK kb \in Int : FirstBlock(b) = b * F - kb * M
    BY <1>4
  <2>2. PICK d \in Int, k \in Int : d = a - b /\ k = ka - kb /\ d # 0
    BY <1>2, <1>7
  <2>3. p \in 1 .. F /\ q \in 1 .. F
    BY <1>1
  <2>4. d * F - k * M = q - p
    <3>1. d * F = a * F - b * F /\ k * M = ka * M - kb * M
      BY <1>2, <2>2
    <3>2. a * F \in Int /\ b * F \in Int /\ ka * M \in Int /\ kb * M \in Int
      BY <1>2
    <3>3. a * F - ka * M + (p - 1) = b * F - kb * M + (q - 1)
      BY <1>5, <1>7, <2>1
    <3> QED
      BY <2>3, <3>1, <3>2, <3>3
  <2>5. d * F + F <= M /\ 0 - d * F + F <= M
    <3>1. (a - b) * F + F <= M /\ (b - a) * F + F <= M
      BY <1>1, <1>3, RoundFitsAssumption
    <3>2. (a - b) * F = d * F /\ (b - a) * F = 0 - d * F
      BY <1>2, <2>2
    <3> QED
      BY <3>1, <3>2
  <2>6. PICK e \in Int, f \in Int : e = d * F /\ f = k * M
    OBVIOUS
  <2>7. f < M /\ f > 0 - M
    BY <2>3, <2>4, <2>5, <2>6
  <2>8. k = 0
    <3>1. k >= 1 => k * M >= M
      OBVIOUS
    <3>2. k <= -1 => k * M <= 0 - M
      OBVIOUS
    <3> QED
      BY <2>6, <2>7, <3>1, <3>2
  <2>9. e < F /\ e > 0 - F
    BY <2>3, <2>4, <2>6, <2>8
  <2>10. d >= 1 => d * F >= F
    OBVIOUS
  <2>11. d <= -1 => d * F <= 0 - F
    OBVIOUS
  <2> QED
    BY <2>2, <2>6, <2>9, <2>10, <2>11
<1> QED
  BY <1>6, <1>7

\* The blocks of what a process has written: as many as it has written, and none
\* that another process writes.
LEMMA FileFacts ==
    ASSUME NEW id \in Ids, NEW file, file \in StartsOf(id)
    PROVE  /\ file # NoFile /\ Cardinality(BlocksOf(file)) = Len(file)
           /\ BlocksOf(file) = {FirstBlock(id) + (p - 1) : p \in 1 .. Len(file)}
           /\ Len(file) \in 0 .. FileBlocks
<1>1. file \in Seq(Int) /\ Len(file) \in Nat /\ DOMAIN file = 1 .. Len(file)
      /\ Len(file) <= FileBlocks
  BY LenProperties DEF StartsOf
<1>2. PICK n \in Nat, v \in Int : n = Len(file) /\ v = FirstBlock(id)
  <2>1. FirstBlock(id) \in Int
    BY BlocksDiffer
  <2>2. Len(file) \in Nat
    BY <1>1
  <2> QED
    BY <2>1, <2>2, Zenon
<1>3. \A p \in 1 .. n : file[p] = v + (p - 1)
  BY <1>2 DEF StartsOf
<1>4. file # NoFile
  BY <1>1, VolumeAssumption
<1>5. \A p \in 1 .. n : file[p] # Hole
  BY <1>1, <1>2, VolumeAssumption
<1>6. BlocksOf(file) = {file[p] : p \in 1 .. n}
  BY <1>1, <1>2, <1>4, <1>5 DEF BlocksOf
<1>7. BlocksOf(file) = {v + (p - 1) : p \in 1 .. n}
  BY <1>3, <1>6
<1>8. Cardinality(BlocksOf(file)) = n
  <2>1. \A p, q \in 1 .. n : file[p] = file[q] => p = q
    BY <1>3
  <2>2. PICK B : B = BlocksOf(file)
    OBVIOUS
  <2>3. file \in [1 .. n -> B]
    BY <1>1, <1>2, <1>6, <2>2
  <2>4. file \in Surjection(1 .. n, B) /\ file \in Injection(1 .. n, B)
    BY <1>6, <2>1, <2>2, <2>3 DEF Surjection, Injection, IsInjective
  <2>5. IsFiniteSet(1 .. n) /\ Cardinality(1 .. n) = n
    <3>1. 1 \in Int /\ n \in Int
      OBVIOUS
    <3>2. IsFiniteSet(1 .. n) /\ Cardinality(1 .. n) = IF 1 > n THEN 0 ELSE n - 1 + 1
      BY <3>1, FS_Interval
    <3> QED
      BY <3>2
  <2>6. Cardinality(B) = Cardinality(1 .. n) <=> file \in Injection(1 .. n, B)
    BY <2>4, <2>5, FS_Surjection
  <2> QED
    BY <2>2, <2>4, <2>5, <2>6
<1> QED
  BY <1>1, <1>2, <1>4, <1>7, <1>8

\* Where every file is the start of its own, the blocks are all new.
LEMMA RoundFilesDiffer == RoundFiles => RoundWritesNewBlocks
<1> SUFFICES ASSUME RoundFiles, NEW a \in Ids, NEW b \in Ids
             PROVE  /\ a # b => BlocksOf(vol.test[a]) \cap BlocksOf(vol.test[b]) = {}
                    /\ vol.test[a] # NoFile => Cardinality(BlocksOf(vol.test[a])) = Len(vol.test[a])
  BY DEF RoundWritesNewBlocks
<1>1. PICK f, g : f = vol.test[a] /\ g = vol.test[b]
  OBVIOUS
<1>2. (f = NoFile \/ f \in StartsOf(a)) /\ (g = NoFile \/ g \in StartsOf(b))
  BY <1>1 DEF RoundFiles
<1>3. f # NoFile => Cardinality(BlocksOf(f)) = Len(f)
  BY <1>2, FileFacts
<1>4. a # b => BlocksOf(f) \cap BlocksOf(g) = {}
  <2>1. CASE f = NoFile \/ g = NoFile
    BY <2>1 DEF BlocksOf
  <2>2. CASE f \in StartsOf(a) /\ g \in StartsOf(b)
    <3>1. /\ BlocksOf(f) = {FirstBlock(a) + (p - 1) : p \in 1 .. Len(f)}
          /\ BlocksOf(g) = {FirstBlock(b) + (p - 1) : p \in 1 .. Len(g)}
      BY <2>2, FileFacts
    <3>2. 1 .. Len(f) \subseteq 1 .. FileBlocks /\ 1 .. Len(g) \subseteq 1 .. FileBlocks
      <4>1. Len(f) \in 0 .. FileBlocks /\ Len(g) \in 0 .. FileBlocks /\ FileBlocks \in Int
        BY <2>2, FileFacts, PercoreAssumption, VolumeAssumption DEF FileBlocks
      <4> QED
        BY <4>1
    <3> QED
      BY <3>1, <3>2, BlocksDiffer
  <2> QED
    BY <1>2, <2>1, <2>2
<1> QED
  BY <1>1, <1>3, <1>4

\* Every file of a round belongs to one process of one batch.
LEMMA FileInUnique ==
    ASSUME NEW t \in Nat \ {0}, NEW i \in Nat, NEW k \in Nat,
           NEW j \in 0 .. t - 1, NEW l \in 0 .. t - 1, i * t + j = k * t + l
    PROVE  i = k /\ j = l
<1>1. PICK d \in Int : d = i - k
  OBVIOUS
<1>2. d * t = i * t - k * t /\ i * t \in Nat /\ k * t \in Nat
  BY <1>1
<1>3. d * t = l - j
  BY <1>2
<1>4. d >= 1 => d * t >= t
  OBVIOUS
<1>5. d <= -1 => d * t <= 0 - t
  OBVIOUS
<1>6. d = 0
  BY <1>3, <1>4, <1>5
<1> QED
  BY <1>1, <1>3, <1>6

\* Where a file of a round belongs.
LEMMA FileInSplit ==
    ASSUME NEW t \in Nat \ {0}, NEW s \in Nat \ {0}, NEW id \in 0 .. t * s - 1
    PROVE  \E i \in 0 .. s - 1, j \in 0 .. t - 1 : id = i * t + j
<1>1. id \in Nat /\ t * s \in Nat
  OBVIOUS
<1>2. id = t * (id \div t) + (id % t) /\ id \div t \in Nat /\ id % t \in 0 .. t - 1
  BY <1>1
<1>3. PICK i \in Nat, j \in 0 .. t - 1 : id = t * i + j
  BY <1>2
<1>4. i < s
  <2> SUFFICES ASSUME i >= s
               PROVE  FALSE
    OBVIOUS
  <2>1. PICK d \in Nat : i = s + d
    <3>1. i - s \in Nat /\ i = s + (i - s)
      OBVIOUS
    <3> QED
      BY <3>1
  <2>2. t * i = t * s + t * d /\ t * d \in Nat
    BY <2>1
  <2> QED
    BY <1>1, <1>3, <2>2
<1> QED
  BY <1>3, <1>4

\* A file of a round is one of the files of its shape.
LEMMA FileInBound ==
    ASSUME NEW t \in Nat \ {0}, NEW s \in Nat \ {0}, NEW i \in 0 .. s - 1, NEW j \in 0 .. t - 1
    PROVE  i * t + j \in 0 .. t * s - 1
<1>1. i * t + t = (i + 1) * t /\ (i + 1) * t <= s * t /\ i * t \in Nat
  BY OneMore
<1>2. s * t = t * s /\ t * s \in Nat
  OBVIOUS
<1> QED
  BY <1>1, <1>2

\* The batches of a round, of either order, share no files and together have
\* those of the shape.
LEMMA BatchFacts ==
    ASSUME NEW round \in {1, 2}, NEW shape \in [threads : Nat \ {0}, size : Nat \ {0}]
    PROVE  /\ FilesBefore(round, shape, 0) = {}
           /\ FilesBefore(round, shape, shape.size) = FilesOf(shape)
           /\ \A n \in 0 .. shape.size - 1 :
                /\ FilesBefore(round, shape, n + 1) =
                        FilesBefore(round, shape, n) \cup FilesAt(round, shape, n)
                /\ FilesBefore(round, shape, n) \cap FilesAt(round, shape, n) = {}
                /\ FilesAt(round, shape, n) \subseteq FilesOf(shape)
           /\ \A n \in 0 .. shape.size : FilesBefore(round, shape, n) \subseteq FilesOf(shape)
<1>1. PICK t \in Nat \ {0}, s \in Nat \ {0} : t = shape.threads /\ s = shape.size
  OBVIOUS
<1>2. FilesOf(shape) = 0 .. t * s - 1
  BY <1>1 DEF FilesOf
<1>3. \A i \in 0 .. s - 1, j \in 0 .. t - 1 : FileIn(round, shape, i, j) \in FilesOf(shape)
  <2> TAKE i \in 0 .. s - 1, j \in 0 .. t - 1
  <2>1. i * t + j \in 0 .. t * s - 1
    BY FileInBound
  <2>2. j * s + i \in 0 .. s * t - 1 /\ s * t = t * s
    BY FileInBound
  <2> QED
    BY <1>1, <1>2, <2>1, <2>2 DEF FileIn
<1>4. \A id \in FilesOf(shape) :
        \E i \in 0 .. s - 1, j \in 0 .. t - 1 : id = FileIn(round, shape, i, j)
  <2> TAKE id \in FilesOf(shape)
  <2>1. id \in 0 .. t * s - 1 /\ id \in 0 .. s * t - 1
    BY <1>2
  <2>2. \E i \in 0 .. s - 1, j \in 0 .. t - 1 : id = i * t + j
    BY <2>1, FileInSplit, ZenonT(40)
  <2>3. \E j \in 0 .. t - 1, i \in 0 .. s - 1 : id = j * s + i
    BY <2>1, FileInSplit, ZenonT(40)
  <2> QED
    BY <1>1, <2>2, <2>3 DEF FileIn
<1>5. \A i, k \in 0 .. s - 1, j, l \in 0 .. t - 1 :
        FileIn(round, shape, i, j) = FileIn(round, shape, k, l) => i = k
  <2> TAKE i, k \in 0 .. s - 1, j, l \in 0 .. t - 1
  <2>1. i * t + j = k * t + l => i = k
    BY FileInUnique
  <2>2. j * s + i = l * s + k => i = k
    BY FileInUnique
  <2> QED
    BY <1>1, <2>1, <2>2 DEF FileIn
<1>6. \A n : FilesBefore(round, shape, n) =
        {FileIn(round, shape, i, j) : i \in 0 .. n - 1, j \in 0 .. t - 1}
  BY <1>1 DEF FilesBefore
<1>7. \A n : FilesAt(round, shape, n) = {FileIn(round, shape, n, j) : j \in 0 .. t - 1}
  BY <1>1 DEF FilesAt
<1>8. PICK F : F = [i \in 0 .. s - 1 |-> [j \in 0 .. t - 1 |-> FileIn(round, shape, i, j)]]
  OBVIOUS
<1>9. \A n \in 0 .. s :
        /\ FilesBefore(round, shape, n) = {F[i][j] : i \in 0 .. n - 1, j \in 0 .. t - 1}
        /\ n < s => FilesAt(round, shape, n) = {F[n][j] : j \in 0 .. t - 1}
  <2>1. \A i \in 0 .. s - 1, j \in 0 .. t - 1 : F[i][j] = FileIn(round, shape, i, j)
    BY <1>8
  <2> TAKE n \in 0 .. s
  <2>2. FilesBefore(round, shape, n) = {F[i][j] : i \in 0 .. n - 1, j \in 0 .. t - 1}
    <3>1. \A i \in 0 .. n - 1 : i \in 0 .. s - 1
      OBVIOUS
    <3>2. \A i \in 0 .. n - 1, j \in 0 .. t - 1 : F[i][j] = FileIn(round, shape, i, j)
      BY <2>1, <3>1
    <3> QED
      BY <1>6, <3>2
  <2>3. n < s => FilesAt(round, shape, n) = {F[n][j] : j \in 0 .. t - 1}
    <3> SUFFICES ASSUME n < s
                 PROVE  FilesAt(round, shape, n) = {F[n][j] : j \in 0 .. t - 1}
      OBVIOUS
    <3>1. \A j \in 0 .. t - 1 : F[n][j] = FileIn(round, shape, n, j)
      BY <2>1
    <3> QED
      BY <1>7, <3>1
  <2> QED
    BY <2>2, <2>3
<1>10. /\ \A i \in 0 .. s - 1, j \in 0 .. t - 1 : F[i][j] \in FilesOf(shape)
       /\ \A id \in FilesOf(shape) : \E i \in 0 .. s - 1, j \in 0 .. t - 1 : id = F[i][j]
       /\ \A i, k \in 0 .. s - 1, j, l \in 0 .. t - 1 : F[i][j] = F[k][l] => i = k
  BY <1>3, <1>4, <1>5, <1>8
<1>11. FilesBefore(round, shape, 0) = {}
  BY <1>9
<1>12. FilesBefore(round, shape, s) = FilesOf(shape)
  <2>1. FilesBefore(round, shape, s) = {F[i][j] : i \in 0 .. s - 1, j \in 0 .. t - 1}
    BY <1>9
  <2> QED
    BY <1>10, <2>1
<1>13. \A n \in 0 .. s : FilesBefore(round, shape, n) \subseteq FilesOf(shape)
  BY <1>9, <1>10
<1>14. ASSUME NEW n \in 0 .. s - 1
       PROVE  /\ FilesBefore(round, shape, n + 1) =
                        FilesBefore(round, shape, n) \cup FilesAt(round, shape, n)
              /\ FilesBefore(round, shape, n) \cap FilesAt(round, shape, n) = {}
              /\ FilesAt(round, shape, n) \subseteq FilesOf(shape)
  <2>1. /\ n \in 0 .. s /\ n + 1 \in 0 .. s /\ n < s
        /\ \A i : i \in 0 .. (n + 1) - 1 <=> i \in 0 .. n - 1 \/ i = n
        /\ \A i \in 0 .. n - 1 : i # n /\ i \in 0 .. s - 1
    OBVIOUS
  <2>2. /\ FilesBefore(round, shape, n) = {F[i][j] : i \in 0 .. n - 1, j \in 0 .. t - 1}
        /\ FilesBefore(round, shape, n + 1) = {F[i][j] : i \in 0 .. (n + 1) - 1, j \in 0 .. t - 1}
        /\ FilesAt(round, shape, n) = {F[n][j] : j \in 0 .. t - 1}
    BY <1>9, <2>1
  <2>3. FilesBefore(round, shape, n + 1) =
            FilesBefore(round, shape, n) \cup FilesAt(round, shape, n)
    BY <2>1, <2>2
  <2>4. FilesBefore(round, shape, n) \cap FilesAt(round, shape, n) = {}
    BY <1>10, <2>1, <2>2
  <2>5. FilesAt(round, shape, n) \subseteq FilesOf(shape)
    BY <1>10, <2>2
  <2> QED
    BY <2>3, <2>4, <2>5
<1> QED
  BY <1>1, <1>11, <1>12, <1>13, <1>14

\* The files of a batch are those of its place in the round.
LEMMA ShapeFacts ==
    ASSUME RoundTyped
    PROVE  /\ Shape \in [threads : Nat \ {0}, size : Nat \ {0}] /\ percore.round \in {1, 2}
           /\ Shape \in Shapes \cup {HardShape}
           /\ Batch = FilesAt(percore.round, Shape, percore.batch)
           /\ Batches = Shape.size /\ percore.batch \in Nat
           /\ FilesOf(Shape) \subseteq Ids
<1>1. /\ Shape \in Shapes \cup {HardShape} /\ percore.round \in {1, 2} /\ percore.batch \in Nat
  BY DEF RoundTyped, Shape
<1>2. Shape \in [threads : Nat \ {0}, size : Nat \ {0}]
  BY <1>1, PercoreAssumption
<1>3. FilesOf(Shape) \subseteq Ids
  BY <1>1, RoundFitsAssumption
<1>4. Batches = Shape.size
  BY DEF Batches, Shape
<1>5. Batch = FilesAt(percore.round, Shape, percore.batch)
  BY DEF Batch, FilesAt, FileIn, Shape
<1> QED
  BY <1>1, <1>2, <1>3, <1>4, <1>5

\* The file of process id behind a write of n pages of its next chunk.
Longer(id, file, n) == file \o SubSeq(Chunk(FirstBlock(id) + Len(file)), 1, n)

\* A chunk of write_1G, whole or in part.
LEMMA WriteFile ==
    ASSUME NEW id, NEW file, NEW n, NEW new, id \in Ids, n \in 0 .. StepBlocks,
           file \in StartsOf(id), Len(file) + n <= FileBlocks,
           new = Longer(id, file, n)
    PROVE  new \in StartsOf(id) /\ Len(new) = Len(file) + n
<1>1. FirstBlock(id) \in Int
  BY BlocksDiffer
<1>2. file \in Seq(Int) /\ Len(file) \in Nat
  BY LenProperties DEF StartsOf
<1>3. PICK v \in Int, m \in Nat : v = FirstBlock(id) /\ m = Len(file)
  BY <1>1, <1>2, Zenon
<1>4. PICK data : data = SubSeq(Chunk(v + m), 1, n)
  OBVIOUS
<1>5. data \in Seq(Int) /\ Len(data) = n /\ \A p \in 1 .. n : data[p] = (v + m) + (p - 1)
  <2>1. v + m \in Int
    OBVIOUS
  <2> QED
    BY <1>4, <2>1, ChunkPart
<1>6. new = file \o data
  BY <1>3, <1>4 DEF Longer
<1>7. /\ new \in Seq(Int) /\ Len(new) = m + n
      /\ \A p \in 1 .. m + n : new[p] = IF p <= m THEN file[p] ELSE data[p - m]
  <2>1. file \in Seq(Int) /\ Len(file) = m /\ data \in Seq(Int) /\ Len(data) = n /\ n \in Nat
    BY <1>2, <1>3, <1>5
  <2>2. /\ file \o data \in Seq(Int) /\ Len(file \o data) = Len(file) + Len(data)
        /\ \A p \in 1 .. Len(file) + Len(data) :
            (file \o data)[p] = IF p <= Len(file) THEN file[p] ELSE data[p - Len(file)]
    BY <2>1, ConcatProperties
  <2> QED
    BY <1>6, <2>1, <2>2
<1>8. \A p \in 1 .. m : file[p] = v + (p - 1)
  BY <1>3 DEF StartsOf
<1>9. \A p \in 1 .. m + n : new[p] = v + (p - 1)
  <2> TAKE p \in 1 .. m + n
  <2>1. CASE p <= m
    <3>1. p \in 1 .. m /\ new[p] = file[p]
      BY <2>1, <1>7
    <3> QED
      BY <3>1, <1>8
  <2>2. CASE p > m
    <3>1. p - m \in 1 .. n /\ (v + m) + ((p - m) - 1) = v + (p - 1)
      BY <2>2, <1>3
    <3> QED
      BY <2>2, <3>1, <1>5, <1>7
  <2> QED
    BY <2>1, <2>2
<1> QED
  BY <1>3, <1>7, <1>9 DEF StartsOf

\* What happens to the file and the process of one number.
LEMMA WriterStep ==
    ASSUME RoundIInv, NEW id \in Ids, percore.pc = "wait", id \in Batch,
           NEW file, NEW state \in {"write", "ended"}, vol'.old = vol.old,
           vol'.test = [vol.test EXCEPT ![id] = file],
           writer' = [writer EXCEPT ![id] = state],
           file = NoFile \/ file \in StartsOf(id),
           state = "write" => /\ file \in StartsOf(id)
                              /\ \E k \in 0 .. FileChunks : Len(file) = k * StepBlocks,
           percore' = percore \/ percore' = [percore EXCEPT !.clean = FALSE],
           percore'.clean => /\ vol.test[id] = WholeFile(id) => file = WholeFile(id)
                             /\ state = "ended" => file = WholeFile(id)
    PROVE  RoundIInv'
<1>1. /\ percore'.pc = "wait" /\ percore'.round = percore.round
      /\ percore'.first = percore.first /\ percore'.second = percore.second
      /\ percore'.batch = percore.batch
      /\ percore'.clean => percore.clean
  BY DEF RoundIInv, RoundTyped
<1>2. Shape' = Shape /\ Batch' = Batch /\ Batches' = Batches /\ Earlier' = Earlier
  <2>1. Shape' = Shape
    BY <1>1 DEF Shape
  <2>2. Batch' = Batch
    BY <1>1 DEF Batch
  <2>3. Batches' = Batches
    BY <1>1 DEF Batches
  <2>4. Earlier' = Earlier
    BY <1>1, <2>1 DEF Earlier, FilesBefore, FileIn
  <2> QED
    BY <2>1, <2>2, <2>3, <2>4
<1>3. RoundTyped'
  <2>1. file \in {NoFile} \cup Seq(Int)
    BY DEF StartsOf
  <2>2. vol'.test \in [Ids -> {NoFile} \cup Seq(Int)]
    BY <2>1 DEF RoundIInv, RoundTyped
  <2>3. writer' \in [Ids -> {"none", "open", "write", "ended"}]
    BY DEF RoundIInv, RoundTyped
  <2>4. vol'.old \in [Ids -> {NoFile} \cup Seq(Int)]
    BY DEF RoundIInv, RoundTyped
  <2>5. percore' \in [pc : {"none", "spawn", "wait", "done", "failed"},
                    first : Shapes \cup {HardShape}, second : Shapes \cup {HardShape},
                    round : {1, 2}, batch : Nat, clean : BOOLEAN]
    BY DEF RoundIInv, RoundTyped
  <2> QED
    BY <2>2, <2>3, <2>4, <2>5 DEF RoundTyped
<1>4. /\ \A b \in Ids : vol'.test[b] = IF b = id THEN file ELSE vol.test[b]
      /\ \A b \in Ids : writer'[b] = IF b = id THEN state ELSE writer[b]
  BY DEF RoundIInv, RoundTyped
<1>5. RoundFiles'
  <2> SUFFICES
        /\ \A b \in Ids : vol'.test[b] = NoFile \/ vol'.test[b] \in StartsOf(b)
        /\ \A b \in Ids : writer'[b] = "write" =>
            /\ vol'.test[b] \in StartsOf(b)
            /\ \E k \in 0 .. FileChunks : Len(vol'.test[b]) = k * StepBlocks
        /\ \A b \in Ids : writer'[b] # "none" => b \in Batch
    BY <1>1, <1>2 DEF RoundFiles, StartsOf, FirstBlock, Wrap, FileBlocks
  <2>1. /\ \A b \in Ids : vol.test[b] = NoFile \/ vol.test[b] \in StartsOf(b)
        /\ \A b \in Ids : writer[b] = "write" =>
            /\ vol.test[b] \in StartsOf(b)
            /\ \E k \in 0 .. FileChunks : Len(vol.test[b]) = k * StepBlocks
        /\ \A b \in Ids : writer[b] # "none" => b \in Batch
    BY DEF RoundIInv, RoundFiles
  <2> QED
    BY <1>4, <2>1
<1>6. RoundAt'
  BY <1>1, <1>2 DEF RoundIInv, RoundAt
<1>7. RoundClean'
  <2>1. percore.batch < Batches
    BY DEF RoundIInv, RoundAt
  <2>2. percore.clean =>
        /\ \A b \in Earlier : vol.test[b] = WholeFile(b)
        /\ \A b \in Batch :
            /\ writer[b] \in {"open", "write", "ended"}
            /\ writer[b] = "open" => vol.test[b] = NoFile
            /\ writer[b] = "ended" => vol.test[b] = WholeFile(b)
        /\ \A b \in Ids \ Earlier : b \in Batch \/ vol.test[b] = NoFile
        /\ percore.round = 2 =>
            \A b \in FilesOf(percore.first) : vol.old[b] = WholeFile(b)
    BY DEF RoundIInv, RoundClean
  <2>3. percore.batch \in Nat /\ percore.batch \in 0 .. Shape.size - 1 /\ Batches = Shape.size
    BY <2>1, ShapeFacts DEF RoundIInv
  <2>4. Earlier \subseteq Ids /\ Batch \subseteq Ids
    BY <2>3, ShapeFacts, BatchFacts DEF RoundIInv, Earlier
  <2>5. percore'.clean =>
        /\ \A b \in Earlier : vol'.test[b] = WholeFile(b)
        /\ \A b \in Batch :
            /\ writer'[b] \in {"open", "write", "ended"}
            /\ writer'[b] = "open" => vol'.test[b] = NoFile
            /\ writer'[b] = "ended" => vol'.test[b] = WholeFile(b)
        /\ \A b \in Ids \ Earlier : b \in Batch \/ vol'.test[b] = NoFile
        /\ percore.round = 2 =>
            \A b \in FilesOf(percore.first) : vol'.old[b] = WholeFile(b)
    <3> SUFFICES ASSUME percore'.clean
                 PROVE  /\ \A b \in Earlier : vol'.test[b] = WholeFile(b)
                        /\ \A b \in Batch :
                            /\ writer'[b] \in {"open", "write", "ended"}
                            /\ writer'[b] = "open" => vol'.test[b] = NoFile
                            /\ writer'[b] = "ended" => vol'.test[b] = WholeFile(b)
                        /\ \A b \in Ids \ Earlier : b \in Batch \/ vol'.test[b] = NoFile
                        /\ percore.round = 2 =>
                            \A b \in FilesOf(percore.first) : vol'.old[b] = WholeFile(b)
      OBVIOUS
    <3>1. /\ percore.clean
          /\ vol.test[id] = WholeFile(id) => file = WholeFile(id)
          /\ state = "ended" => file = WholeFile(id)
      BY <1>1
    <3>2. id \in Earlier => file = WholeFile(id)
      BY <2>2, <3>1
    <3>3. \A b \in Earlier : vol'.test[b] = WholeFile(b)
      BY <1>4, <2>2, <2>4, <3>1, <3>2
    <3>4. \A b \in Batch :
            /\ writer'[b] \in {"open", "write", "ended"}
            /\ writer'[b] = "open" => vol'.test[b] = NoFile
            /\ writer'[b] = "ended" => vol'.test[b] = WholeFile(b)
      BY <1>4, <2>2, <2>4, <3>1
    <3>5. \A b \in Ids \ Earlier : b \in Batch \/ vol'.test[b] = NoFile
      BY <1>4, <2>2, <3>1
    <3> QED
      BY <2>2, <3>1, <3>3, <3>4, <3>5
  <2> QED
    BY <1>1, <1>2, <2>5 DEF RoundClean, FilesOf
<1> QED
  BY <1>3, <1>5, <1>6, <1>7 DEF RoundIInv

\* A process of the batch opens its file, writes to it or ends.
LEMMA WriterSteps ==
    ASSUME RoundIInv, DOMAIN vol = Fields, NEW id \in Ids, WriterProgress(id)
    PROVE  RoundIInv'
<1>1. /\ vol.test \in [Ids -> {NoFile} \cup Seq(Int)]
      /\ writer \in [Ids -> {"none", "open", "write", "ended"}]
  BY DEF RoundIInv, RoundTyped
<1>2. writer[id] \in {"open", "write"}
  BY DEF WriterProgress, Open, WriteChunk, EndWriter
<1>3. percore.pc = "wait" /\ id \in Batch
  BY <1>1, <1>2 DEF RoundIInv, RoundFiles, NoWriters
<1>4. percore.clean =>
        /\ id \in Earlier => vol.test[id] = WholeFile(id)
        /\ writer[id] = "open" => vol.test[id] = NoFile
  BY <1>2, <1>3 DEF RoundIInv, RoundClean
<1>5. vol.test[id] = NoFile \/ vol.test[id] \in StartsOf(id)
  BY DEF RoundIInv, RoundFiles
<1>6. /\ WholeFile(id) # NoFile
      /\ \A f \in StartsOf(id) : Len(f) = FileBlocks => f = WholeFile(id)
      /\ Len(WholeFile(id)) = FileBlocks
  <2>1. FileBlocks \in Nat /\ FirstBlock(id) \in Int
    BY BlocksDiffer, PercoreAssumption, VolumeAssumption DEF FileBlocks
  <2>2. WholeFile(id) \in Seq(Int) /\ Len(WholeFile(id)) = FileBlocks
    BY <2>1 DEF WholeFile
  <2>3. ASSUME NEW f \in StartsOf(id), Len(f) = FileBlocks
        PROVE  f = WholeFile(id)
    <3>1. /\ f \in Seq(Int) /\ DOMAIN f = 1 .. FileBlocks
          /\ \A p \in 1 .. FileBlocks : f[p] = FirstBlock(id) + (p - 1)
      BY <2>3, LenProperties DEF StartsOf
    <3> QED
      BY <3>1 DEF WholeFile
  <2> QED
    BY <2>2, <2>3, VolumeAssumption
<1>7. CASE Open(id)
  <2>1. CASE vol.test[id] # NoFile
    <3>1. /\ writer' = [writer EXCEPT ![id] = "ended"] /\ vol' = vol /\ percore' = percore
          /\ writer[id] = "open"
      BY <1>7, <2>1 DEF Open
    <3>2. PICK file : file = vol.test[id]
      OBVIOUS
    <3>3. vol'.test = [vol.test EXCEPT ![id] = file] /\ vol'.old = vol.old
      BY <1>1, <3>1, <3>2
    <3>4. ~ percore'.clean
      BY <1>4, <2>1, <3>1
    <3>5. (file = NoFile \/ file \in StartsOf(id)) /\ "ended" \in {"write", "ended"}
      BY <1>5, <3>2
    <3> QED
      BY <1>3, <3>1, <3>3, <3>4, <3>5, WriterStep
  <2>2. CASE vol.test[id] = NoFile
    <3>1. /\ writer' = [writer EXCEPT ![id] = "write"] /\ percore' = percore
          /\ vol' = [vol EXCEPT !.test[id] = <<>>]
      BY <1>7, <2>2 DEF Open
    <3>2. PICK file : file = <<>>
      OBVIOUS
    <3>3. vol'.test = [vol.test EXCEPT ![id] = file] /\ vol'.old = vol.old
      BY <3>1, <3>2 DEF Fields
    <3>4. file \in StartsOf(id) /\ Len(file) = 0 * StepBlocks /\ 0 \in 0 .. FileChunks
      BY <3>2, PercoreAssumption, VolumeAssumption DEF StartsOf, FileBlocks
    <3>5. vol.test[id] # WholeFile(id) /\ "write" \in {"write", "ended"}
      BY <1>6, <2>2
    <3> QED
      BY <1>3, <3>1, <3>3, <3>4, <3>5, WriterStep
  <2> QED
    BY <2>1, <2>2
<1>8. CASE WriteChunk(id)
  <2>1. PICK n \in 0 .. StepBlocks :
            /\ vol' = [vol EXCEPT !.test[id] = @ \o SubSeq(NextChunk(id), 1, n)]
            /\ IF n = StepBlocks THEN UNCHANGED <<faults, percore, writer>>
               ELSE /\ writer' = [writer EXCEPT ![id] = "ended"]
                    /\ percore' = [percore EXCEPT !.clean = FALSE]
    BY <1>8 DEF WriteChunk
  <2>2. writer[id] = "write" /\ Len(vol.test[id]) < FileBlocks
    BY <1>8 DEF WriteChunk, Written
  <2>3. PICK old, new : /\ old = vol.test[id]
                        /\ new = Longer(id, old, n)
    OBVIOUS
  <2>4. PICK k \in 0 .. FileChunks : old \in StartsOf(id) /\ Len(old) = k * StepBlocks
    BY <2>2, <2>3 DEF RoundIInv, RoundFiles
  <2>5. /\ k < FileChunks /\ k + 1 \in 0 .. FileChunks
        /\ k * StepBlocks + StepBlocks = (k + 1) * StepBlocks
        /\ k * StepBlocks + StepBlocks <= FileBlocks /\ k * StepBlocks \in Nat
    <3>1. FileChunks \in Nat /\ StepBlocks \in Nat \ {0} /\ k \in Nat
      BY PercoreAssumption, VolumeAssumption
    <3>2. k < FileChunks
      BY <2>2, <2>3, <2>4, <3>1 DEF FileBlocks
    <3> QED
      BY <3>1, <3>2, OneMore DEF FileBlocks
  <2>6. new \in StartsOf(id) /\ Len(new) = Len(old) + n
    <3>1. Len(old) + n <= FileBlocks
      <4>1. PICK m \in Nat, F \in Nat : m = k * StepBlocks /\ F = FileBlocks
        BY <2>5, PercoreAssumption, VolumeAssumption DEF FileBlocks
      <4> QED
        BY <2>4, <2>5, <4>1, VolumeAssumption
    <3>2. id \in Ids /\ n \in 0 .. StepBlocks /\ old \in StartsOf(id)
      BY <2>4
    <3>3. new = Longer(id, old, n)
      BY <2>3
    <3> QED
      BY <3>1, <3>2, <3>3, WriteFile
  <2>7. vol'.test = [vol.test EXCEPT ![id] = new] /\ vol'.old = vol.old
    BY <2>1, <2>3 DEF Fields, NextChunk, Written, Longer
  <2>8. vol.test[id] # WholeFile(id)
    <3>1. FileBlocks \in Int
      BY PercoreAssumption, VolumeAssumption DEF FileBlocks
    <3> QED
      BY <1>6, <2>2, <3>1
  <2>9. CASE n = StepBlocks
    <3>1. writer' = [writer EXCEPT ![id] = "write"] /\ percore' = percore
      BY <1>1, <2>1, <2>2, <2>9
    <3>2. Len(new) = (k + 1) * StepBlocks /\ "write" \in {"write", "ended"}
      BY <2>4, <2>5, <2>6, <2>9
    <3> QED
      BY <1>3, <2>5, <2>6, <2>7, <2>8, <3>1, <3>2, WriterStep
  <2>10. CASE n # StepBlocks
    <3>1. /\ writer' = [writer EXCEPT ![id] = "ended"]
          /\ percore' = [percore EXCEPT !.clean = FALSE]
          /\ "ended" \in {"write", "ended"}
      BY <2>1, <2>10
    <3>2. ~ percore'.clean
      BY <3>1 DEF RoundIInv, RoundTyped
    <3> QED
      BY <1>3, <2>6, <2>7, <3>1, <3>2, WriterStep
  <2> QED
    BY <2>9, <2>10
<1>9. CASE EndWriter(id)
  <2>1. /\ writer' = [writer EXCEPT ![id] = "ended"] /\ vol' = vol /\ percore' = percore
        /\ writer[id] = "write" /\ Len(vol.test[id]) = FileBlocks
    BY <1>9 DEF EndWriter, Written
  <2>2. vol.test[id] = WholeFile(id) /\ vol.test[id] \in StartsOf(id)
    BY <1>6, <2>1 DEF RoundIInv, RoundFiles
  <2>3. PICK file : file = vol.test[id]
    OBVIOUS
  <2>4. vol'.test = [vol.test EXCEPT ![id] = file] /\ vol'.old = vol.old
    BY <1>1, <2>1, <2>3
  <2>5. file = WholeFile(id) /\ file \in StartsOf(id) /\ "ended" \in {"write", "ended"}
    BY <2>2, <2>3
  <2> QED
    BY <1>3, <2>1, <2>4, <2>5, WriterStep
<1> QED
  BY <1>7, <1>8, <1>9 DEF WriterProgress

\* Where there is no round and no process, the invariant is about the files.
LEMMA RoundNone ==
    ASSUME percore = NoPercore, writer = NoWriters,
           vol.test \in [Ids -> {NoFile} \cup Seq(Int)],
           vol.old \in [Ids -> {NoFile} \cup Seq(Int)],
           \A id \in Ids : vol.test[id] = NoFile \/ vol.test[id] \in StartsOf(id)
    PROVE  RoundIInv
<1>1. /\ percore.pc = "none" /\ percore.clean = FALSE /\ percore.batch = 0 /\ percore.round = 1
      /\ percore = [pc |-> "none", first |-> HardShape, second |-> HardShape, round |-> 1,
                    batch |-> 0, clean |-> FALSE]
  BY DEF NoPercore
<1>2. RoundTyped
  BY <1>1 DEF RoundTyped, NoWriters
<1>3. RoundFiles
  BY <1>1 DEF RoundFiles, NoWriters
<1>4. RoundAt
  BY <1>1, PercoreAssumption DEF RoundAt, Batches, NoPercore
<1>5. RoundClean
  BY <1>1 DEF RoundClean
<1> QED
  BY <1>2, <1>3, <1>4, <1>5 DEF RoundIInv

\* Steps that leave the rounds and their files alone.
LEMMA RoundKept ==
    ASSUME RoundIInv, percore' = percore, writer' = writer, vol'.test = vol.test,
           vol'.old = vol.old
    PROVE  RoundIInv'
<1>1. Shape' = Shape /\ Batch' = Batch /\ Batches' = Batches /\ Earlier' = Earlier
  BY DEF Shape, Batch, Batches, Earlier, FilesBefore, FileIn
<1>2. RoundTyped'
  BY DEF RoundIInv, RoundTyped
<1>3. RoundFiles'
  BY <1>1 DEF RoundIInv, RoundFiles, NoWriters
<1>4. RoundAt'
  BY <1>1 DEF RoundIInv, RoundAt
<1>5. RoundClean'
  BY <1>1 DEF RoundIInv, RoundClean, FilesOf
<1> QED
  BY <1>2, <1>3, <1>4, <1>5 DEF RoundIInv

\* A new round: nothing is written yet, where the run is clean.
LEMMA RoundBegins ==
    ASSUME RoundIInv, percore.pc # "wait",
           percore' \in [pc : {"none", "spawn", "wait", "done", "failed"},
                    first : Shapes \cup {HardShape}, second : Shapes \cup {HardShape},
                    round : {1, 2}, batch : Nat, clean : BOOLEAN],
           percore'.pc = "spawn", percore'.batch = 0, writer' = writer,
           vol'.test \in [Ids -> {NoFile} \cup Seq(Int)],
           vol'.old \in [Ids -> {NoFile} \cup Seq(Int)],
           \A id \in Ids : vol'.test[id] = NoFile \/ vol'.test[id] \in StartsOf(id),
           percore'.clean => \A id \in Ids : vol'.test[id] = NoFile,
           percore'.clean /\ percore'.round = 2 =>
                \A id \in FilesOf(percore'.first) : vol'.old[id] = WholeFile(id)
    PROVE  RoundIInv'
<1>1. writer' = NoWriters /\ \A id \in Ids : writer'[id] = "none"
  BY DEF RoundIInv, RoundFiles, NoWriters
<1>2. RoundTyped'
  BY DEF RoundIInv, RoundTyped
<1>3. RoundFiles'
  BY <1>1 DEF RoundFiles, NoWriters
<1>4. (RoundTyped => /\ Shape \in [threads : Nat \ {0}, size : Nat \ {0}]
                     /\ percore.round \in {1, 2} /\ Batches = Shape.size)'
  BY ShapeFacts, PTL
<1>5. Shape' \in [threads : Nat \ {0}, size : Nat \ {0}] /\ percore'.round \in {1, 2}
      /\ Batches' = Shape'.size
  BY <1>2, <1>4
<1>6. RoundAt'
  <2>1. 0 <= Shape'.size
    BY <1>5
  <2> QED
    BY <1>5, <2>1 DEF RoundAt
<1>7. Earlier' = {}
  <2>1. PICK round, shape : round = percore'.round /\ shape = Shape'
    OBVIOUS
  <2>2. FilesBefore(round, shape, 0) = {}
    BY <1>5, <2>1, BatchFacts
  <2> QED
    BY <2>1, <2>2 DEF Earlier, FilesBefore, FileIn
<1>8. RoundClean'
  BY <1>7 DEF RoundClean, FilesOf
<1> QED
  BY <1>2, <1>3, <1>6, <1>8 DEF RoundIInv

\* The first round of a run starts.
LEMMA StartPercoreStep ==
    ASSUME RoundIInv, StartPercore
    PROVE  RoundIInv'
<1>1. PICK shape \in Shapes, first \in {TRUE, FALSE} :
        percore' = [NoPercore EXCEPT
            !.pc = "spawn", !.second = shape,
            !.first = IF first THEN HardShape ELSE shape,
            !.clean = (vol.test = EmptyVolume.test)]
  BY Zenon DEF StartPercore
<1>2. PICK clean \in BOOLEAN : clean = (vol.test = EmptyVolume.test)
  OBVIOUS
<1>3. PICK shape1 \in Shapes \cup {HardShape} : shape1 = IF first THEN HardShape ELSE shape
  OBVIOUS
<1>4. percore' = [pc |-> "spawn", first |-> shape1, second |-> shape, round |-> 1,
                  batch |-> 0, clean |-> clean]
  BY <1>1, <1>2, <1>3 DEF NoPercore
<1>5. vol' = vol /\ writer' = writer /\ percore.pc = "none"
  BY DEF StartPercore
<1>6. clean => \A id \in Ids : vol'.test[id] = NoFile
  <2> SUFFICES ASSUME clean, NEW id \in Ids
               PROVE  vol.test[id] = NoFile
    BY <1>5
  <2>1. vol.test = EmptyVolume.test /\ EmptyVolume.test = [i \in Ids |-> NoFile]
    BY <1>2, EmptyFacts
  <2> QED
    BY <2>1
<1>7. /\ vol'.test \in [Ids -> {NoFile} \cup Seq(Int)]
      /\ vol'.old \in [Ids -> {NoFile} \cup Seq(Int)]
      /\ \A id \in Ids : vol'.test[id] = NoFile \/ vol'.test[id] \in StartsOf(id)
  BY <1>5 DEF RoundIInv, RoundTyped, RoundFiles
<1> QED
  BY <1>4, <1>5, <1>6, <1>7, RoundBegins

\* The processes of a batch start.
LEMMA SpawnStep ==
    ASSUME RoundIInv, Spawn
    PROVE  RoundIInv'
<1>1. /\ percore.pc = "spawn" /\ percore.batch < Batches /\ vol' = vol
      /\ writer' = [id \in Ids |-> IF id \in Batch THEN "open" ELSE "none"]
      /\ percore' = [percore EXCEPT !.pc = "wait"]
  BY DEF Spawn
<1>2. /\ percore'.pc = "wait" /\ percore'.round = percore.round
      /\ percore'.first = percore.first /\ percore'.second = percore.second
      /\ percore'.batch = percore.batch /\ percore'.clean = percore.clean
  BY <1>1 DEF RoundIInv, RoundTyped
<1>3. Shape' = Shape /\ Batch' = Batch /\ Batches' = Batches /\ Earlier' = Earlier
  <2>1. Shape' = Shape
    BY <1>2 DEF Shape
  <2>2. Batch' = Batch
    BY <1>2 DEF Batch
  <2>3. Batches' = Batches
    BY <1>2 DEF Batches
  <2>4. Earlier' = Earlier
    BY <1>2, <2>1 DEF Earlier, FilesBefore, FileIn
  <2> QED
    BY <2>1, <2>2, <2>3, <2>4
<1>4. RoundTyped'
  <2>1. percore' \in [pc : {"none", "spawn", "wait", "done", "failed"},
                    first : Shapes \cup {HardShape}, second : Shapes \cup {HardShape},
                    round : {1, 2}, batch : Nat, clean : BOOLEAN]
    BY <1>1 DEF RoundIInv, RoundTyped
  <2>2. writer' \in [Ids -> {"none", "open", "write", "ended"}]
    BY <1>1
  <2> QED
    BY <1>1, <2>1, <2>2 DEF RoundIInv, RoundTyped
<1>5. RoundFiles'
  BY <1>1, <1>2, <1>3 DEF RoundIInv, RoundFiles
<1>6. RoundAt'
  BY <1>1, <1>2, <1>3 DEF RoundIInv, RoundAt
<1>7. Batch \subseteq Ids /\ Earlier \cap Batch = {}
  <2>1. percore.batch \in 0 .. Shape.size - 1
    BY <1>1, ShapeFacts DEF RoundIInv
  <2> QED
    BY <2>1, ShapeFacts, BatchFacts DEF RoundIInv, Earlier
<1>8. RoundClean'
  <2>1. percore.clean =>
        /\ \A id \in Earlier : vol.test[id] = WholeFile(id)
        /\ \A id \in Ids \ Earlier : vol.test[id] = NoFile
        /\ percore.round = 2 =>
            \A id \in FilesOf(percore.first) : vol.old[id] = WholeFile(id)
    BY <1>1 DEF RoundIInv, RoundClean
  <2>2. \A id \in Batch : writer'[id] = "open" /\ id \in Ids \ Earlier
    BY <1>1, <1>7
  <2> QED
    BY <1>1, <1>2, <1>3, <2>1, <2>2 DEF RoundClean, FilesOf
<1> QED
  BY <1>4, <1>5, <1>6, <1>8 DEF RoundIInv

\* The processes of a batch have ended.
LEMMA WaitStep ==
    ASSUME RoundIInv, Wait
    PROVE  RoundIInv'
<1>1. /\ percore.pc = "wait" /\ vol' = vol /\ writer' = NoWriters
      /\ \A id \in Ids : writer[id] \in {"none", "ended"}
      /\ percore' = [percore EXCEPT !.pc = "spawn", !.batch = @ + 1]
  BY DEF Wait
<1>2. /\ percore'.pc = "spawn" /\ percore'.round = percore.round
      /\ percore'.first = percore.first /\ percore'.second = percore.second
      /\ percore'.batch = percore.batch + 1 /\ percore'.clean = percore.clean
      /\ percore.batch \in Nat
  BY <1>1 DEF RoundIInv, RoundTyped
<1>3. percore.batch < Batches
  BY <1>1 DEF RoundIInv, RoundAt
<1>4. /\ percore.batch \in 0 .. Shape.size - 1 /\ Batches \in Nat
      /\ Batch = FilesAt(percore.round, Shape, percore.batch)
  BY <1>3, ShapeFacts DEF RoundIInv
<1>5. FilesBefore(percore.round, Shape, percore.batch + 1) = Earlier \cup Batch
      /\ Batch \subseteq Ids
  BY <1>4, ShapeFacts, BatchFacts DEF RoundIInv, Earlier
<1>6. Shape' = Shape /\ Batches' = Batches /\ Earlier' = Earlier \cup Batch
  <2>1. Shape' = Shape
    BY <1>2 DEF Shape
  <2>2. Batches' = Batches
    BY <1>2 DEF Batches
  <2>3. PICK round, shape, batch : /\ round = percore.round /\ shape = Shape
                                   /\ batch = percore.batch + 1
    OBVIOUS
  <2>4. Earlier' = FilesBefore(round, shape, batch)
    BY <1>2, <2>1, <2>3 DEF Earlier, FilesBefore, FileIn
  <2> QED
    BY <1>5, <2>1, <2>2, <2>3, <2>4
<1>7. RoundTyped'
  <2>1. percore' \in [pc : {"none", "spawn", "wait", "done", "failed"},
                    first : Shapes \cup {HardShape}, second : Shapes \cup {HardShape},
                    round : {1, 2}, batch : Nat, clean : BOOLEAN]
    <3>1. percore.batch + 1 \in Nat
      BY <1>2
    <3> QED
      BY <1>1, <3>1 DEF RoundIInv, RoundTyped
  <2> QED
    BY <1>1, <2>1 DEF RoundIInv, RoundTyped, NoWriters
<1>8. RoundFiles'
  BY <1>1, <1>2 DEF RoundIInv, RoundFiles, NoWriters
<1>9. RoundAt'
  <2>1. percore.batch + 1 <= Batches
    BY <1>2, <1>3, <1>4
  <2>2. percore.round = 2 => percore.pc \in {"spawn", "wait", "done"}
    BY DEF RoundIInv, RoundAt
  <2> QED
    BY <1>2, <1>6, <2>1, <2>2 DEF RoundAt
<1>10. RoundClean'
  <2>1. percore.clean =>
        /\ \A id \in Earlier : vol.test[id] = WholeFile(id)
        /\ \A id \in Batch :
            /\ writer[id] \in {"open", "write", "ended"}
            /\ writer[id] = "ended" => vol.test[id] = WholeFile(id)
        /\ \A id \in Ids \ Earlier : id \in Batch \/ vol.test[id] = NoFile
        /\ percore.round = 2 =>
            \A id \in FilesOf(percore.first) : vol.old[id] = WholeFile(id)
    BY <1>1 DEF RoundIInv, RoundClean
  <2>2. \A id \in Batch : writer[id] \in {"none", "ended"}
    BY <1>1, <1>5
  <2>3. percore.clean => \A id \in Earlier \cup Batch : vol.test[id] = WholeFile(id)
    BY <2>1, <2>2
  <2> QED
    BY <1>1, <1>2, <1>6, <2>1, <2>3 DEF RoundClean, FilesOf
<1> QED
  BY <1>7, <1>8, <1>9, <1>10 DEF RoundIInv

\* Between the rounds the files are moved away, or the run stops.
LEMMA MoveTestsStep ==
    ASSUME RoundIInv, DOMAIN vol = Fields, MoveTests
    PROVE  RoundIInv'
<1>1. /\ percore.pc = "spawn" /\ percore.batch = Batches /\ percore.round = 1
      /\ writer' = writer
      /\ percore.batch \in Nat /\ percore.clean \in BOOLEAN
      /\ percore.first \in Shapes \cup {HardShape} /\ percore.second \in Shapes \cup {HardShape}
  BY DEF MoveTests, RoundOver, RoundIInv, RoundTyped
<1>2. CASE vol.dir0 \/ ~AnyTest
  <2>1. /\ vol' = [vol EXCEPT !.dir0 = TRUE]
        /\ percore' = [percore EXCEPT !.pc = "failed"]
    BY <1>2 DEF MoveTests
  <2>2. vol'.test = vol.test /\ vol'.old = vol.old
    BY <2>1 DEF Fields
  <2>3. /\ percore'.pc = "failed" /\ percore'.round = 1 /\ percore'.first = percore.first
        /\ percore'.second = percore.second /\ percore'.batch = percore.batch
    BY <1>1, <2>1 DEF RoundIInv, RoundTyped
  <2>4. RoundTyped'
    BY <1>1, <2>1, <2>2 DEF RoundIInv, RoundTyped
  <2>5. RoundFiles'
    BY <1>1, <2>2, <2>3 DEF RoundIInv, RoundFiles, NoWriters
  <2>6. RoundAt'
    <3>1. Batches' = Batches
      BY <1>1, <2>3 DEF Batches
    <3> QED
      BY <1>1, <2>3, <3>1 DEF RoundIInv, RoundAt
  <2>7. RoundClean'
    BY <2>3 DEF RoundClean
  <2> QED
    BY <2>4, <2>5, <2>6, <2>7 DEF RoundIInv
<1>3. CASE ~ (vol.dir0 \/ ~AnyTest)
  <2>1. /\ vol' = [vol EXCEPT !.dir0 = TRUE, !.old = vol.test, !.test = EmptyVolume.test,
                              !.src = NoFile, !.shuffled = NoFile]
        /\ percore' = [percore EXCEPT !.round = 2, !.batch = 0]
    BY <1>3 DEF MoveTests
  <2>2. vol'.test = [id \in Ids |-> NoFile] /\ vol'.old = vol.test
    BY <2>1, EmptyFacts DEF Fields
  <2>3. /\ percore' \in [pc : {"none", "spawn", "wait", "done", "failed"},
                    first : Shapes \cup {HardShape}, second : Shapes \cup {HardShape},
                    round : {1, 2}, batch : Nat, clean : BOOLEAN]
        /\ percore'.pc = "spawn" /\ percore'.batch = 0 /\ percore'.round = 2
        /\ percore'.first = percore.first /\ percore'.clean = percore.clean
    BY <1>1, <2>1 DEF RoundIInv, RoundTyped
  <2>4. Earlier = FilesOf(percore.first)
    <3>1. Shape = percore.first /\ percore.batch = Shape.size
      BY <1>1, ShapeFacts DEF Shape, RoundIInv
    <3> QED
      BY <3>1, ShapeFacts, BatchFacts DEF Earlier, RoundIInv
  <2>5. percore.clean => \A id \in FilesOf(percore.first) : vol.test[id] = WholeFile(id)
    BY <1>1, <2>4 DEF RoundIInv, RoundClean
  <2>6. percore'.clean => \A id \in FilesOf(percore'.first) : vol'.old[id] = WholeFile(id)
    BY <2>2, <2>3, <2>5 DEF FilesOf
  <2>7. /\ vol'.test \in [Ids -> {NoFile} \cup Seq(Int)]
        /\ vol'.old \in [Ids -> {NoFile} \cup Seq(Int)]
        /\ \A id \in Ids : vol'.test[id] = NoFile
    BY <2>2 DEF RoundIInv, RoundTyped
  <2> QED
    BY <1>1, <2>3, <2>6, <2>7, RoundBegins
<1> QED
  BY <1>2, <1>3

\* The end of the second round.
LEMMA EndPercoreStep ==
    ASSUME RoundIInv, EndPercore
    PROVE  RoundIInv'
<1>1. /\ percore.pc = "spawn" /\ percore.batch = Batches /\ percore.round = 2
      /\ writer' = writer /\ vol' = vol
      /\ percore' = [percore EXCEPT !.pc = "done"]
  BY DEF EndPercore, RoundOver
<1>2. /\ percore'.pc = "done" /\ percore'.round = percore.round
      /\ percore'.first = percore.first /\ percore'.second = percore.second
      /\ percore'.batch = percore.batch /\ percore'.clean = percore.clean
  BY <1>1 DEF RoundIInv, RoundTyped
<1>3. Shape' = Shape /\ Batches' = Batches /\ Earlier' = Earlier
  <2>1. Shape' = Shape
    BY <1>2 DEF Shape
  <2>2. Batches' = Batches
    BY <1>2 DEF Batches
  <2>3. Earlier' = Earlier
    BY <1>2, <2>1 DEF Earlier, FilesBefore, FileIn
  <2> QED
    BY <2>1, <2>2, <2>3
<1>4. RoundTyped'
  BY <1>1 DEF RoundIInv, RoundTyped
<1>5. RoundFiles'
  BY <1>1, <1>2 DEF RoundIInv, RoundFiles, NoWriters
<1>6. RoundAt'
  BY <1>1, <1>2, <1>3 DEF RoundIInv, RoundAt
<1>7. RoundClean'
  <2>1. percore.clean =>
        /\ \A id \in Earlier : vol.test[id] = WholeFile(id)
        /\ \A id \in Ids \ Earlier : vol.test[id] = NoFile
        /\ \A id \in FilesOf(percore.first) : vol.old[id] = WholeFile(id)
    BY <1>1 DEF RoundIInv, RoundClean
  <2> QED
    BY <1>1, <1>2, <1>3, <2>1 DEF RoundClean, FilesOf
<1> QED
  BY <1>4, <1>5, <1>6, <1>7 DEF RoundIInv

\* The invariant of the rounds holds whichever processes fail in them.
THEOREM RoundInductive == Spec => []RoundIInv
<1>1. Init => RoundIInv
  <2> SUFFICES ASSUME Init
               PROVE  RoundIInv
    OBVIOUS
  <2>1. /\ percore = NoPercore /\ writer = NoWriters
        /\ vol.test = [id \in Ids |-> NoFile] /\ vol.old = [id \in Ids |-> NoFile]
    BY EmptyFacts DEF Init
  <2> QED
    BY <2>1, RoundNone
<1>2. Apart /\ RoundIInv /\ [Next]_vars => RoundIInv'
  <2> SUFFICES ASSUME Apart, RoundIInv, [Next]_vars
               PROVE  RoundIInv'
    OBVIOUS
  <2>1. ASSUME percore' = NoPercore, writer' = NoWriters, vol' = vol \/ vol' = EmptyVolume
        PROVE  RoundIInv'
    <3>1. /\ vol'.test \in [Ids -> {NoFile} \cup Seq(Int)]
          /\ vol'.old \in [Ids -> {NoFile} \cup Seq(Int)]
          /\ \A id \in Ids : vol'.test[id] = NoFile \/ vol'.test[id] \in StartsOf(id)
      <4>1. CASE vol' = vol
        BY <4>1 DEF RoundIInv, RoundTyped, RoundFiles
      <4>2. CASE vol' = EmptyVolume
        <5>1. vol'.test = [id \in Ids |-> NoFile] /\ vol'.old = [id \in Ids |-> NoFile]
          BY <4>2, EmptyFacts
        <5> QED
          BY <5>1
      <4> QED
        BY <2>1, <4>1, <4>2
    <3>2. (/\ percore = NoPercore /\ writer = NoWriters
           /\ vol.test \in [Ids -> {NoFile} \cup Seq(Int)]
           /\ vol.old \in [Ids -> {NoFile} \cup Seq(Int)]
           /\ \A id \in Ids : vol.test[id] = NoFile \/ vol.test[id] \in StartsOf(id)
           => RoundIInv)'
      BY RoundNone, PTL
    <3> QED
      BY <2>1, <3>1, <3>2 DEF NoPercore, NoWriters
  <2>2. CASE StartSetup \/ StartByHand \/ (SetupProgress /\ UNCHANGED programVars)
    BY <2>1, <2>2, SetupFrame DEF programVars
  <2>3. CASE EndMeasurement \/ Break
    BY <2>1, <2>3, EndFrame DEF NoPrograms
  <2>4. CASE Age \/ DrawPosition
    BY <2>4, AgeFrame, RoundKept
  <2>5. CASE RunPercore
    BY <2>5, StartPercoreStep, SpawnStep, WaitStep, MoveTestsStep, EndPercoreStep
    DEF RunPercore, PercoreProgress, Apart
  <2>6. CASE \E id \in Ids : RunWriter(id)
    BY <2>6, WriterSteps DEF RunWriter, Apart
  <2>7. CASE FioWritesTest \/ Shuffle
    BY <2>7, ShuffleFrame, RoundKept
  <2>8. CASE UNCHANGED vars
    BY <2>8, RoundKept DEF vars, programVars
  <2> QED
    BY <2>2, <2>3, <2>4, <2>5, <2>6, <2>7, <2>8, StepCases
<1> QED
  BY <1>1, <1>2, ProgramsApart, PTL DEF Spec

\* For the file system under test every block of an ageing and of a round is
\* new, whatever fails, stops and is run again.
THEOREM BlocksAreNew == Spec => []WritesNewBlocks
<1>1. AgingIInv /\ RoundIInv => WritesNewBlocks
  BY AgingFilesDiffer, RoundFilesDiffer DEF AgingIInv, RoundIInv, WritesNewBlocks
<1> QED
  BY <1>1, AgingInductive, RoundInductive, PTL

\* A second round after a first one in which nothing failed writes only blocks
\* that are there, and in the end every file of its size.
THEOREM SecondRoundRepeats == Spec => []SecondRoundDuplicates
<1>1. RoundIInv => SecondRoundDuplicates
  <2> SUFFICES ASSUME RoundIInv, percore.clean, percore.round = 2,
                      FilesOf(percore.second) \subseteq FilesOf(percore.first)
               PROVE  /\ \A id \in Ids : BlocksOf(vol.test[id]) \subseteq BlocksOf(vol.old[id])
                      /\ percore.pc = "done" =>
                            \A id \in FilesOf(percore.second) : vol.test[id] = vol.old[id]
    BY DEF SecondRoundDuplicates
  <2>1. percore.pc \in {"spawn", "wait", "done"} /\ Shape = percore.second
    BY DEF RoundIInv, RoundAt, Shape
  <2>2. /\ \A id \in Earlier : vol.test[id] = WholeFile(id)
        /\ \A id \in Ids \ Earlier :
            (percore.pc = "wait" /\ id \in Batch) \/ vol.test[id] = NoFile
        /\ \A id \in FilesOf(percore.first) : vol.old[id] = WholeFile(id)
    BY <2>1 DEF RoundIInv, RoundClean
  <2>3. Earlier \subseteq FilesOf(percore.second)
    <3>1. percore.batch \in 0 .. Shape.size
      BY ShapeFacts DEF RoundIInv, RoundAt
    <3> QED
      BY <2>1, <3>1, ShapeFacts, BatchFacts DEF RoundIInv, Earlier
  <2>4. percore.pc = "wait" => Batch \subseteq FilesOf(percore.second)
    <3> SUFFICES ASSUME percore.pc = "wait"
                 PROVE  Batch \subseteq FilesOf(percore.second)
      OBVIOUS
    <3>1. percore.batch \in 0 .. Shape.size - 1
      BY ShapeFacts DEF RoundIInv, RoundAt
    <3> QED
      BY <2>1, <3>1, ShapeFacts, BatchFacts DEF RoundIInv
  <2>5. ASSUME NEW id \in Ids
        PROVE  BlocksOf(vol.test[id]) \subseteq BlocksOf(vol.old[id])
    <3>1. CASE vol.test[id] = NoFile
      BY <3>1 DEF BlocksOf
    <3>2. CASE vol.test[id] # NoFile
      <4>1. id \in FilesOf(percore.first)
        BY <2>2, <2>3, <2>4, <3>2
      <4>2. PICK f, w : f = vol.test[id] /\ w = vol.old[id] /\ f \in StartsOf(id)
        BY <3>2 DEF RoundIInv, RoundFiles
      <4>3. w = WholeFile(id)
        BY <2>2, <4>1, <4>2
      <4>4. FileBlocks \in Nat /\ FirstBlock(id) \in Int
        BY BlocksDiffer, PercoreAssumption, VolumeAssumption DEF FileBlocks
      <4>5. /\ f \in Seq(Int) /\ DOMAIN f = 1 .. Len(f) /\ Len(f) \in 0 .. FileBlocks
            /\ \A p \in 1 .. Len(f) : f[p] = FirstBlock(id) + (p - 1)
        BY <4>2, <4>4, LenProperties DEF StartsOf
      <4>6. \A p \in DOMAIN f : p \in DOMAIN w /\ f[p] = w[p]
        BY <4>3, <4>4, <4>5 DEF WholeFile
      <4>7. w # NoFile
        <5>1. w \in Seq(Int)
          BY <4>3, <4>4 DEF WholeFile
        <5> QED
          BY <5>1, VolumeAssumption
      <4> QED
        BY <4>2, <4>6, <4>7, <3>2 DEF BlocksOf
    <3> QED
      BY <3>1, <3>2
  <2>6. ASSUME percore.pc = "done", NEW id \in FilesOf(percore.second)
        PROVE  vol.test[id] = vol.old[id]
    <3>1. percore.batch = Shape.size
      BY <2>6, ShapeFacts DEF RoundIInv, RoundAt
    <3>2. Earlier = FilesOf(percore.second)
      BY <2>1, <3>1, ShapeFacts, BatchFacts DEF RoundIInv, Earlier
    <3> QED
      BY <2>2, <2>6, <3>2
  <2> QED
    BY <2>5, <2>6
<1> QED
  BY <1>1, RoundInductive, PTL

----------------------------------------------------------------------------
(* The shuffle. *)

\* The blocks a file is taken for: one at least, and no more than it has if it
\* has one.
LEMMA BlockCount ==
    ASSUME NEW size \in Nat, NEW g \in Nat \ {0}, NEW n, n = num_blocks(size, g)
    PROVE  n \in Nat \ {0} /\ (g <= size => n * g <= size /\ n = size \div g) /\ (size < g => n = 1)
<1>1. PICK q \in Nat, r \in 0 .. g - 1 : size = g * q + r /\ q = size \div g
  <2>1. /\ size = g * (size \div g) + (size % g) /\ size \div g \in Nat
        /\ size % g \in 0 .. g - 1
    OBVIOUS
  <2> QED
    BY <2>1
<1>2. n = IF q = 0 THEN 1 ELSE q
  BY <1>1 DEF num_blocks
<1>3. size < g => q = 0
  <2>1. q >= 1 => g * q >= g
    OBVIOUS
  <2> QED
    BY <1>1, <2>1
<1>4. g <= size => q # 0
  BY <1>1
<1>5. q * g = g * q
  OBVIOUS
<1> QED
  BY <1>1, <1>2, <1>3, <1>4, <1>5

\* The order of the blocks is one of 0 .. n - 1, and there are n of them.
LEMMA MapFacts ==
    ASSUME NEW n, NEW map, n \in Nat \ {0}, map \in Shuffles(n)
    PROVE  /\ map \in [0 .. n - 1 -> 0 .. n - 1] /\ Cardinality(DOMAIN map) = n
           /\ \A k \in 0 .. n - 1 : \E j \in 0 .. n - 1 : map[j] = k
<1>1. map \in [0 .. n - 1 -> 0 .. n - 1] /\ \A j, k \in 0 .. n - 1 : map[j] = map[k] => j = k
  BY DEF Shuffles
<1>2. PICK S : S = 0 .. n - 1
  OBVIOUS
<1>3. IsFiniteSet(S) /\ Cardinality(S) = n
  <2>1. 0 \in Int /\ n - 1 \in Int
    OBVIOUS
  <2>2. /\ IsFiniteSet(0 .. n - 1)
        /\ Cardinality(0 .. n - 1) = IF 0 > n - 1 THEN 0 ELSE (n - 1) - 0 + 1
    BY <2>1, FS_Interval
  <2> QED
    BY <1>2, <2>2
<1>4. map \in Injection(S, S)
  BY <1>1, <1>2 DEF Injection, IsInjective
<1>5. map \in Surjection(S, S)
  BY <1>3, <1>4, FS_Injection
<1>6. \A k \in S : \E j \in S : map[j] = k
  BY <1>5 DEF Surjection
<1> QED
  BY <1>1, <1>2, <1>3, <1>6

\* What the arithmetic of a shuffle starts from.
LEMMA ShufflingFacts ==
    ASSUME NEW src, NEW s, NEW out, ShufflingAt(src, s, out)
    PROVE  /\ Len(src) \in Nat /\ s.g \in Nat \ {0} /\ s.i \in Nat
           /\ num_blocks(Len(src), s.g) \in Nat \ {0}
           /\ Cardinality(DOMAIN s.map) = num_blocks(Len(src), s.g)
<1>1. src \in Seq(STRING) /\ s.g \in Granularities
      /\ s.map \in Shuffles(num_blocks(Len(src), s.g)) /\ s.i \in 0 .. num_blocks(Len(src), s.g)
  BY DEF ShufflingAt
<1>2. Len(src) \in Nat /\ s.g \in Nat \ {0}
  BY <1>1, LenProperties, ShuffleAssumption
<1>3. PICK n : n = num_blocks(Len(src), s.g)
  OBVIOUS
<1>4. n \in Nat \ {0}
  BY <1>2, <1>3, BlockCount
<1>5. PICK map : map = s.map
  OBVIOUS
<1>6. map \in Shuffles(n)
  BY <1>1, <1>3, <1>5
<1>7. Cardinality(DOMAIN map) = n
  BY <1>4, <1>6, MapFacts
<1>8. s.i \in Nat
  BY <1>1, <1>3, <1>4
<1> QED
  BY <1>2, <1>3, <1>4, <1>5, <1>7, <1>8

\* A shuffle starts.
LEMMA StartShuffleStep ==
    ASSUME ShuffleIInv, DOMAIN vol = Fields, StartShuffle
    PROVE  ShuffleIInv'
<1>0. PICK g \in Granularities : \E map \in Shuffles(num_blocks(Len(vol.src), g)) :
        shuffle' = [NoShuffle EXCEPT !.pc = "read", !.g = g, !.map = map, !.clean = TRUE]
  BY Zenon DEF StartShuffle
<1>1. PICK map \in Shuffles(num_blocks(Len(vol.src), g)) :
        shuffle' = [NoShuffle EXCEPT !.pc = "read", !.g = g, !.map = map, !.clean = TRUE]
  BY <1>0, Zenon
<1>2. shuffle' = [pc |-> "read", g |-> g, map |-> map, i |-> 0, pos |-> 0, buf |-> <<>>,
                  clean |-> TRUE]
  BY <1>1 DEF NoShuffle
<1>3. PICK src : src = vol.src
  OBVIOUS
<1>4. vol'.src = src /\ vol'.shuffled = <<>> /\ src \in Seq(STRING)
  BY <1>3 DEF StartShuffle, Fields, ShuffleIInv
<1>5. PICK size \in Nat : size = Len(src)
  BY <1>4, LenProperties
<1>6. PICK n \in Nat \ {0} : n = num_blocks(size, g)
  BY ShuffleAssumption, BlockCount
<1>7. g \in Nat \ {0}
  BY ShuffleAssumption
<1>8. PICK s : s = shuffle'
  OBVIOUS
<1>9. 0 * g = 0 /\ Shorter(0, size) = 0 /\ <<>> \in Seq(Units) /\ Len(<<>>) = 0
  BY <1>5, <1>7 DEF Shorter
<1>10. ShufflingAt(src, s, <<>>)
  <2>1. /\ s.pc = "read" /\ s.g = g /\ s.map = map /\ s.i = 0 /\ s.pos = 0 /\ s.buf = <<>>
        /\ s.clean = TRUE
    BY <1>2, <1>8
  <2>2. map \in Shuffles(n)
    BY <1>3, <1>5, <1>6
  <2>3. 1 .. Shorter(Len(<<>>), size) = {}
    BY <1>5, <1>9
  <2>4. s.pos = Shorter(s.i * g, size) /\ Len(s.buf) = s.i * g
    BY <1>9, <2>1
  <2>5. s.i \in 0 .. n /\ s.pos \in 0 .. size /\ s.clean \in BOOLEAN
    <3>1. 0 \in 0 .. n /\ 0 \in 0 .. size
      OBVIOUS
    <3> QED
      BY <2>1, <3>1, Zenon
  <2> QED
    BY <1>4, <1>5, <1>6, <1>9, <2>1, <2>2, <2>3, <2>4, <2>5, SMTT(30) DEF ShufflingAt
<1> QED
  BY <1>2, <1>4, <1>8, <1>10 DEF ShuffleIInv

\* A block is read, whole, in part or not at all.
LEMMA ReadStep ==
    ASSUME ShuffleIInv, Read
    PROVE  ShuffleIInv'
<1>1. PICK s, src, out : s = shuffle /\ src = vol.src /\ out = vol.shuffled
  OBVIOUS
<1>2. PICK g, size, n : g = s.g /\ size = Len(src) /\ n = num_blocks(size, g)
  OBVIOUS
<1>3. s.pc = "read" /\ ShufflingAt(src, s, out)
  BY <1>1 DEF Read, ShuffleIInv
<1>4. /\ size \in Nat /\ g \in Nat \ {0} /\ n \in Nat \ {0} /\ s.i \in 0 .. n - 1
  <2>1. /\ size \in Nat /\ g \in Nat \ {0} /\ n \in Nat \ {0} /\ s.i \in Nat
        /\ Cardinality(DOMAIN s.map) = n
    BY <1>2, <1>3, ShufflingFacts
  <2>2. s.i < n
    BY <1>1, <2>1 DEF Read, Blocks
  <2> QED
    BY <2>1, <2>2
<1>5. PICK left, full : left = size - s.pos /\ full = IF left < g THEN left ELSE g
  OBVIOUS
<1>6. PICK m \in 0 .. full : shuffle' = [shuffle EXCEPT
                    !.i = @ + 1, !.pos = @ + m,
                    !.buf = @ \o [k \in 1 .. shuffle.g |->
                                    IF k <= m THEN vol.src[shuffle.pos + k] ELSE Garbage],
                    !.clean = (@ /\ m = full)]
  <2>1. full = IF Len(vol.src) - shuffle.pos < shuffle.g
               THEN Len(vol.src) - shuffle.pos ELSE shuffle.g
    BY <1>1, <1>2, <1>5
  <2> QED
    BY <2>1, Zenon DEF Read
<1>7. PICK block : block = [k \in 1 .. shuffle.g |->
                                IF k <= m THEN vol.src[shuffle.pos + k] ELSE Garbage]
  OBVIOUS
<1>8. PICK t : t = shuffle'
  OBVIOUS
<1>9. DOMAIN s = {"pc", "g", "map", "i", "pos", "buf", "clean"}
  BY <1>1 DEF ShuffleIInv
<1>10. PICK clean : clean = (s.clean /\ m = full)
  OBVIOUS
<1>11. /\ t.pc = "read" /\ t.g = g /\ t.map = s.map /\ t.i = s.i + 1 /\ t.pos = s.pos + m
       /\ t.buf = s.buf \o block /\ t.clean = clean /\ DOMAIN t = DOMAIN s
  BY <1>1, <1>2, <1>3, <1>6, <1>7, <1>8, <1>9, <1>10
<1>12. /\ src \in Seq(STRING) /\ s.buf \in Seq(Units) /\ out = <<>>
       /\ s.pos \in 0 .. size /\ s.clean \in BOOLEAN /\ Len(s.buf) = s.i * g
       /\ g \in Granularities /\ s.map \in Shuffles(n)
       /\ s.clean => /\ s.pos = Shorter(s.i * g, size)
                     /\ \A k \in 1 .. Shorter(Len(s.buf), size) : s.buf[k] = src[k]
  BY <1>2, <1>3 DEF ShufflingAt
<1>13. PICK ig \in Nat, i \in Nat, pos \in Nat : ig = s.i * g /\ i = s.i /\ pos = s.pos
  BY <1>4, <1>12
<1>14. /\ full \in 0 .. g /\ pos + full <= size /\ m \in Nat /\ pos + m \in 0 .. size
       /\ (i + 1) * g = ig + g
  <2>1. (i + 1) * g = ig + g
    BY <1>4, <1>13
  <2>2. pos <= size
    BY <1>4, <1>12, <1>13
  <2> QED
    BY <1>4, <1>5, <1>13, <2>1, <2>2
<1>15. block \in Seq(Units) /\ Len(block) = g
       /\ \A k \in 1 .. m : block[k] = src[pos + k]
  <2>1. \A k \in 1 .. m : pos + k \in 1 .. size /\ k \in 1 .. g
    BY <1>14, <1>4
  <2>2. \A k \in 1 .. size : src[k] \in STRING
    BY <1>2, <1>12
  <2>3. \A k \in 1 .. g : k <= m => src[pos + k] \in STRING
    BY <1>14, <2>1, <2>2
  <2>4. block \in [1 .. g -> Units]
    BY <1>1, <1>2, <1>7, <1>13, <2>3 DEF Units
  <2>5. block \in Seq(Units) /\ Len(block) = g
    BY <1>4, <2>4
  <2>6. \A k \in 1 .. m : block[k] = src[pos + k]
    <3> TAKE k \in 1 .. m
    <3>1. k \in 1 .. g /\ k <= m
      BY <2>1
    <3> QED
      BY <1>1, <1>2, <1>7, <1>13, <3>1
  <2> QED
    BY <2>5, <2>6
<1>16. PICK B, buf : B = s.buf /\ buf = t.buf
  OBVIOUS
<1>17. /\ buf \in Seq(Units) /\ Len(buf) = ig + g
       /\ \A k \in 1 .. ig + g : buf[k] = IF k <= ig THEN B[k] ELSE block[k - ig]
  <2>1. B \in Seq(Units) /\ Len(B) = ig
    BY <1>12, <1>13, <1>16
  <2>2. /\ B \o block \in Seq(Units) /\ Len(B \o block) = Len(B) + Len(block)
        /\ \A k \in 1 .. Len(B) + Len(block) :
            (B \o block)[k] = IF k <= Len(B) THEN B[k] ELSE block[k - Len(B)]
    BY <1>15, <2>1, ConcatProperties
  <2> QED
    BY <1>11, <1>15, <1>16, <2>1, <2>2
<1>18. clean => /\ pos + m = Shorter(ig + g, size)
                /\ \A k \in 1 .. Shorter(ig + g, size) : buf[k] = src[k]
  <2> SUFFICES ASSUME clean
               PROVE  /\ pos + m = Shorter(ig + g, size)
                      /\ \A k \in 1 .. Shorter(ig + g, size) : buf[k] = src[k]
    OBVIOUS
  <2>1. /\ m = full /\ pos = Shorter(ig, size)
        /\ \A k \in 1 .. Shorter(ig, size) : B[k] = src[k]
    BY <1>10, <1>12, <1>13, <1>16
  <2>2. pos + m = Shorter(ig + g, size)
    BY <1>4, <1>5, <1>13, <2>1 DEF Shorter
  <2>3. ASSUME NEW k \in 1 .. Shorter(ig + g, size)
        PROVE  buf[k] = src[k]
    <3>1. k \in 1 .. ig + g /\ k <= size /\ k \in Nat
      BY <1>4 DEF Shorter
    <3>2. CASE k <= ig
      BY <1>17, <2>1, <3>1, <3>2 DEF Shorter
    <3>3. CASE k > ig
      <4>1. pos = ig /\ k - ig \in 1 .. m
        BY <1>4, <1>5, <1>13, <2>1, <3>1, <3>3 DEF Shorter
      <4>2. block[k - ig] = src[pos + (k - ig)] /\ pos + (k - ig) = k
        BY <1>15, <3>1, <4>1
      <4> QED
        BY <1>17, <3>1, <3>3, <4>2
    <3> QED
      BY <3>1, <3>2, <3>3
  <2> QED
    BY <2>2, <2>3
<1>19. t.i * g = ig + g /\ t.i \in 0 .. n /\ t.pos \in 0 .. size /\ t.clean \in BOOLEAN
  <2>1. t.i = i + 1 /\ t.pos = pos + m /\ i \in 0 .. n - 1
    BY <1>4, <1>11, <1>13
  <2>2. t.clean \in BOOLEAN
    BY <1>10, <1>11, <1>12
  <2> QED
    BY <1>4, <1>14, <2>1, <2>2
<1>20. ShufflingAt(src, t, out)
  <2>1. /\ t.buf \in Seq(Units) /\ Len(t.buf) = t.i * g
        /\ t.clean => /\ t.pos = Shorter(t.i * g, size)
                      /\ \A k \in 1 .. Shorter(Len(t.buf), size) : t.buf[k] = src[k]
    BY <1>11, <1>13, <1>16, <1>17, <1>18, <1>19
  <2>2. /\ src \in Seq(STRING) /\ out \in Seq(Units) /\ out = <<>> /\ g \in Granularities
        /\ t.map \in Shuffles(n) /\ t.pc = "read" /\ t.g = g
    BY <1>11, <1>12
  <2> QED
    BY <1>2, <1>19, <2>1, <2>2, SMTT(30) DEF ShufflingAt
<1> QED
  BY <1>1, <1>8, <1>9, <1>11, <1>20 DEF ShuffleIInv, Read

\* All blocks have been read.
LEMMA BeginWritingStep ==
    ASSUME ShuffleIInv, BeginWriting
    PROVE  ShuffleIInv'
<1>1. PICK s, src, out : s = shuffle /\ src = vol.src /\ out = vol.shuffled
  OBVIOUS
<1>2. PICK g, size, n : g = s.g /\ size = Len(src) /\ n = num_blocks(size, g)
  OBVIOUS
<1>3. s.pc = "read" /\ ShufflingAt(src, s, out)
  BY <1>1 DEF BeginWriting, ShuffleIInv
<1>4. size \in Nat /\ g \in Nat \ {0} /\ n \in Nat \ {0} /\ s.i = n
  <2>1. /\ size \in Nat /\ g \in Nat \ {0} /\ n \in Nat \ {0}
        /\ Cardinality(DOMAIN s.map) = n
    BY <1>2, <1>3, ShufflingFacts
  <2> QED
    BY <1>1, <2>1 DEF BeginWriting, Blocks
<1>5. PICK t : t = shuffle'
  OBVIOUS
<1>6. DOMAIN s = {"pc", "g", "map", "i", "pos", "buf", "clean"}
  BY <1>1 DEF ShuffleIInv
<1>7. /\ t.pc = "write" /\ t.g = g /\ t.map = s.map /\ t.i = 0 /\ t.pos = s.pos
      /\ t.buf = s.buf /\ t.clean = s.clean /\ DOMAIN t = DOMAIN s
  BY <1>1, <1>2, <1>5, <1>6 DEF BeginWriting
<1>8. /\ src \in Seq(STRING) /\ s.buf \in Seq(Units) /\ out = <<>> /\ out \in Seq(Units)
      /\ s.pos \in 0 .. size /\ s.clean \in BOOLEAN /\ Len(s.buf) = n * g
      /\ g \in Granularities /\ s.map \in Shuffles(n)
      /\ s.clean => \A k \in 1 .. Shorter(Len(s.buf), size) : s.buf[k] = src[k]
  BY <1>2, <1>3, <1>4 DEF ShufflingAt
<1>9. 0 * g = 0 /\ 0 \in 0 .. n /\ Len(out) = 0 /\ 0 .. 0 - 1 = {}
  BY <1>4, <1>8
<1>10. ShufflingAt(src, t, out)
  <2>1. t.clean => /\ Len(out) = t.i * g
                   /\ \A j \in 0 .. t.i - 1 : \A k \in 1 .. g :
                        out[j * g + k] = t.buf[t.map[j] * g + k]
    BY <1>7, <1>9
  <2> QED
    BY <1>2, <1>7, <1>8, <1>9, <2>1, SMTT(30) DEF ShufflingAt
<1> QED
  BY <1>1, <1>5, <1>6, <1>7, <1>10 DEF ShuffleIInv, BeginWriting

\* A block is written, whole, in part or not at all.
LEMMA WriteStep ==
    ASSUME ShuffleIInv, DOMAIN vol = Fields, Write
    PROVE  ShuffleIInv'
<1>1. PICK s, src, out : s = shuffle /\ src = vol.src /\ out = vol.shuffled
  OBVIOUS
<1>2. PICK g, size, n : g = s.g /\ size = Len(src) /\ n = num_blocks(size, g)
  OBVIOUS
<1>3. s.pc = "write" /\ ShufflingAt(src, s, out)
  BY <1>1 DEF Write, ShuffleIInv
<1>4. /\ size \in Nat /\ g \in Nat \ {0} /\ n \in Nat \ {0} /\ s.i \in 0 .. n - 1
  <2>1. /\ size \in Nat /\ g \in Nat \ {0} /\ n \in Nat \ {0} /\ s.i \in Nat
        /\ Cardinality(DOMAIN s.map) = n
    BY <1>2, <1>3, ShufflingFacts
  <2>2. s.i < n
    BY <1>1, <2>1 DEF Write, Blocks
  <2> QED
    BY <2>1, <2>2
<1>5. PICK from : from = shuffle.map[shuffle.i] * shuffle.g
  OBVIOUS
<1>6. PICK m \in 0 .. shuffle.g :
        /\ vol' = [vol EXCEPT !.shuffled = @ \o SubSeq(shuffle.buf, from + 1, from + m)]
        /\ shuffle' = [shuffle EXCEPT !.i = @ + 1, !.clean = (@ /\ m = shuffle.g)]
  BY <1>5, Zenon DEF Write
<1>7. PICK t, new : t = shuffle' /\ new = out \o SubSeq(s.buf, from + 1, from + m)
  OBVIOUS
<1>8. DOMAIN s = {"pc", "g", "map", "i", "pos", "buf", "clean"}
  BY <1>1 DEF ShuffleIInv
<1>9. vol'.src = src /\ vol'.shuffled = new
  BY <1>1, <1>6, <1>7 DEF Fields
<1>10. PICK clean : clean = (s.clean /\ m = g)
  OBVIOUS
<1>11. /\ t.pc = "write" /\ t.g = g /\ t.map = s.map /\ t.i = s.i + 1 /\ t.pos = s.pos
       /\ t.buf = s.buf /\ t.clean = clean /\ DOMAIN t = DOMAIN s
  BY <1>1, <1>2, <1>3, <1>6, <1>7, <1>8, <1>10
<1>12. /\ src \in Seq(STRING) /\ s.buf \in Seq(Units) /\ out \in Seq(Units)
       /\ s.pos \in 0 .. size /\ s.clean \in BOOLEAN /\ Len(s.buf) = n * g
       /\ g \in Granularities /\ s.map \in Shuffles(n)
       /\ s.clean => \A k \in 1 .. Shorter(Len(s.buf), size) : s.buf[k] = src[k]
       /\ s.clean => /\ Len(out) = s.i * g
                     /\ \A j \in 0 .. s.i - 1 : \A k \in 1 .. g :
                            out[j * g + k] = s.buf[s.map[j] * g + k]
  BY <1>2, <1>3 DEF ShufflingAt
<1>13. PICK i, map, B : i = s.i /\ map = s.map /\ B = s.buf /\ i \in 0 .. n - 1
  BY <1>4
<1>14. map[i] \in 0 .. n - 1
  BY <1>4, <1>12, <1>13 DEF Shuffles
<1>15. /\ from \in Nat /\ from + g <= n * g /\ from = map[i] * g /\ m \in 0 .. g
       /\ n * g \in Nat
  <2>1. PICK q \in 0 .. n - 1 : q = map[i]
    BY <1>14
  <2>2. q * g \in Nat /\ q * g + g = (q + 1) * g /\ (q + 1) * g <= n * g
    BY <1>4, <2>1, OneMore
  <2>3. from = q * g /\ m \in 0 .. g
    BY <1>1, <1>2, <1>5, <1>13, <2>1
  <2> QED
    BY <1>4, <2>1, <2>2, <2>3
<1>16. PICK block : block = SubSeq(B, from + 1, from + m)
  OBVIOUS
<1>17. /\ block \in Seq(Units) /\ Len(block) = m
       /\ \A k \in 1 .. m : block[k] = B[from + k]
  <2>1. B \in Seq(Units) /\ Len(B) = n * g
    BY <1>12, <1>13
  <2>2. PICK L \in Nat : L = Len(B) /\ from + m <= L
    <3>1. PICK L \in Nat : L = n * g
      BY <1>15
    <3>2. from \in Nat /\ m \in Nat /\ g \in Nat /\ m <= g
      BY <1>4, <1>15
    <3>3. from + g <= L /\ Len(B) = L
      BY <1>15, <2>1, <3>1
    <3>4. from + m <= L
      BY <3>2, <3>3
    <3> QED
      BY <3>3, <3>4
  <2>3. from + 1 \in Int /\ from + m \in Int /\ \A k \in from + 1 .. from + m : k \in 1 .. L
    <3>1. from \in Nat /\ m \in Nat
      BY <1>4, <1>15
    <3> QED
      BY <2>2, <3>1
  <2>4. \A k \in from + 1 .. from + m : B[k] \in Units
    BY <2>1, <2>2, <2>3
  <2>5. /\ block \in Seq(Units)
        /\ Len(block) = IF from + 1 <= from + m THEN (from + m) - (from + 1) + 1 ELSE 0
        /\ \A k \in 1 .. (from + m) - (from + 1) + 1 : block[k] = B[(from + 1) + k - 1]
    BY <1>16, <2>3, <2>4, SubSeqProperties
  <2>6. m \in Nat /\ (from + m) - (from + 1) + 1 = m
    BY <1>15
  <2>7. Len(block) = m
    BY <1>15, <2>5, <2>6
  <2>8. \A k \in 1 .. m : block[k] = B[from + k]
    <3> TAKE k \in 1 .. m
    <3>1. (from + 1) + k - 1 = from + k /\ k \in 1 .. (from + m) - (from + 1) + 1
      BY <1>15, <2>6
    <3> QED
      BY <2>5, <3>1
  <2> QED
    BY <2>5, <2>7, <2>8
<1>18. /\ new \in Seq(Units) /\ Len(new) = Len(out) + m /\ Len(out) \in Nat
       /\ \A k \in 1 .. Len(out) + m :
            new[k] = IF k <= Len(out) THEN out[k] ELSE block[k - Len(out)]
  <2>1. new = out \o block /\ out \in Seq(Units)
    BY <1>7, <1>12, <1>13, <1>16
  <2>2. /\ out \o block \in Seq(Units) /\ Len(out \o block) = Len(out) + Len(block)
        /\ \A k \in 1 .. Len(out) + Len(block) :
            (out \o block)[k] = IF k <= Len(out) THEN out[k] ELSE block[k - Len(out)]
    BY <1>17, <2>1, ConcatProperties
  <2>3. Len(out) \in Nat
    BY <2>1, LenProperties
  <2> QED
    BY <1>17, <2>1, <2>2, <2>3
<1>19. clean => /\ Len(new) = (i + 1) * g
                /\ \A j \in 0 .. i : \A k \in 1 .. g : new[j * g + k] = B[map[j] * g + k]
  <2> SUFFICES ASSUME clean
               PROVE  /\ Len(new) = (i + 1) * g
                      /\ \A j \in 0 .. i : \A k \in 1 .. g : new[j * g + k] = B[map[j] * g + k]
    OBVIOUS
  <2>1. PICK ig \in Nat : ig = i * g
    BY <1>4, <1>13
  <2>2. /\ m = g /\ Len(out) = ig
        /\ \A j \in 0 .. i - 1 : \A k \in 1 .. g : out[j * g + k] = B[map[j] * g + k]
    BY <1>10, <1>12, <1>13, <2>1
  <2>3. Len(new) = (i + 1) * g
    <3>1. (i + 1) * g = ig + g
      BY <1>4, <1>13, <2>1
    <3> QED
      BY <1>18, <2>2, <3>1
  <2>4. ASSUME NEW j \in 0 .. i, NEW k \in 1 .. g
        PROVE  new[j * g + k] = B[map[j] * g + k]
    <3>1. CASE j = i
      <4>1. ig + k \in 1 .. ig + g /\ ~ (ig + k <= ig) /\ (ig + k) - ig = k
        BY <1>4
      <4>2. new[ig + k] = block[k] /\ block[k] = B[from + k]
        BY <1>17, <1>18, <2>2, <4>1
      <4> QED
        BY <1>15, <2>1, <3>1, <4>2
    <3>2. CASE j < i
      <4>1. j \in Nat /\ i \in Nat /\ j * g \in Nat /\ j * g + g = (j + 1) * g
            /\ (j + 1) * g <= i * g
        BY <1>4, <1>13, <3>2, OneMore
      <4>2. PICK p \in Nat : p = j * g + k
        BY <4>1
      <4>3. p \in 1 .. ig + g /\ p <= ig
        BY <1>4, <2>1, <4>1, <4>2
      <4>4. new[p] = out[p]
        BY <1>18, <2>2, <4>3
      <4>5. j \in 0 .. i - 1
        BY <3>2, <4>1
      <4>6. out[j * g + k] = B[map[j] * g + k]
        BY <2>2, <4>5
      <4> QED
        BY <4>2, <4>4, <4>6
    <3> QED
      BY <1>13, <3>1, <3>2
  <2> QED
    BY <2>3, <2>4
<1>20. ShufflingAt(src, t, new)
  <2>1. t.clean => /\ Len(new) = t.i * g
                   /\ \A j \in 0 .. t.i - 1 : \A k \in 1 .. g :
                        new[j * g + k] = t.buf[t.map[j] * g + k]
    <3>1. t.i - 1 = i /\ t.i = i + 1
      BY <1>11, <1>13
    <3> QED
      BY <1>11, <1>13, <1>19, <3>1
  <2>2. t.i \in 0 .. n /\ t.clean \in BOOLEAN
    <3>1. t.i \in 0 .. n
      BY <1>4, <1>11
    <3>2. t.clean \in BOOLEAN
      BY <1>10, <1>11
    <3> QED
      BY <3>1, <3>2
  <2>3. t.clean => \A k \in 1 .. Shorter(Len(t.buf), size) : t.buf[k] = src[k]
    BY <1>10, <1>11, <1>12
  <2>4. /\ t.pc = "write" /\ t.g = g /\ t.map \in Shuffles(n) /\ t.pos \in 0 .. size
        /\ t.buf \in Seq(Units) /\ Len(t.buf) = n * g
    BY <1>11, <1>12
  <2>5. src \in Seq(STRING) /\ new \in Seq(Units) /\ g \in Granularities
    BY <1>12, <1>18
  <2> QED
    BY <1>2, <2>1, <2>2, <2>3, <2>4, <2>5, SMTT(30) DEF ShufflingAt
<1>21. src \in {NoFile} \cup Seq(STRING)
  BY <1>12
<1>22. ShufflingAt(vol'.src, shuffle', vol'.shuffled)
  BY <1>7, <1>9, <1>20
<1>23. shuffle'.pc = "write" /\ DOMAIN shuffle' = {"pc", "g", "map", "i", "pos", "buf", "clean"}
  BY <1>7, <1>8, <1>11
<1> QED
  BY <1>9, <1>21, <1>22, <1>23 DEF ShuffleIInv

\* All blocks have been written.
LEMMA EndShuffleStep ==
    ASSUME ShuffleIInv, EndShuffle
    PROVE  ShuffleIInv'
<1>1. PICK s, src, out : s = shuffle /\ src = vol.src /\ out = vol.shuffled
  OBVIOUS
<1>2. PICK g, size, n : g = s.g /\ size = Len(src) /\ n = num_blocks(size, g)
  OBVIOUS
<1>3. s.pc = "write" /\ ShufflingAt(src, s, out)
  BY <1>1 DEF EndShuffle, ShuffleIInv
<1>4. s.i = n
  <2>1. Cardinality(DOMAIN s.map) = n
    BY <1>2, <1>3, ShufflingFacts
  <2> QED
    BY <1>1, <2>1 DEF EndShuffle, Blocks
<1>5. PICK t : t = shuffle'
  OBVIOUS
<1>6. DOMAIN s = {"pc", "g", "map", "i", "pos", "buf", "clean"}
  BY <1>1 DEF ShuffleIInv
<1>7. /\ t.pc = "done" /\ t.g = s.g /\ t.map = s.map /\ t.i = s.i /\ t.pos = s.pos
      /\ t.buf = s.buf /\ t.clean = s.clean /\ DOMAIN t = DOMAIN s
  BY <1>1, <1>5, <1>6 DEF EndShuffle
<1>8. ShufflingAt(src, t, out)
  BY <1>2, <1>3, <1>4, <1>7 DEF ShufflingAt
<1> QED
  BY <1>1, <1>5, <1>6, <1>7, <1>8 DEF ShuffleIInv, EndShuffle

\* Steps that leave the shuffle and its files alone.
LEMMA ShuffleKept ==
    ASSUME ShuffleIInv, shuffle' = shuffle, vol'.src = vol.src, vol'.shuffled = vol.shuffled
    PROVE  ShuffleIInv'
<1>1. shuffle.pc # "none" => ShufflingAt(vol'.src, shuffle', vol'.shuffled)
  BY DEF ShuffleIInv
<1> QED
  BY <1>1 DEF ShuffleIInv

\* Where no shuffle runs, the invariant is about the file.
LEMMA ShuffleNone ==
    ASSUME shuffle = NoShuffle, vol.src \in {NoFile} \cup Seq(STRING)
    PROVE  ShuffleIInv
BY DEF ShuffleIInv, NoShuffle

\* The invariant of the shuffle holds, whatever calls of it fail.
THEOREM ShuffleInductive == Spec => []ShuffleIInv
<1>1. Init => ShuffleIInv
  BY ShuffleNone, EmptyFacts DEF Init
<1>2. Apart /\ ShuffleIInv /\ [Next]_vars => ShuffleIInv'
  <2> SUFFICES ASSUME Apart, ShuffleIInv, [Next]_vars
               PROVE  ShuffleIInv'
    OBVIOUS
  <2>1. ASSUME shuffle' = NoShuffle, vol'.src \in {NoFile} \cup Seq(STRING)
        PROVE  ShuffleIInv'
    <3>1. (shuffle = NoShuffle /\ vol.src \in {NoFile} \cup Seq(STRING) => ShuffleIInv)'
      BY ShuffleNone, PTL
    <3> QED
      BY <2>1, <3>1 DEF NoShuffle
  <2>2. CASE StartSetup \/ StartByHand \/ (SetupProgress /\ UNCHANGED programVars)
    <3>1. shuffle' = NoShuffle /\ (vol' = vol \/ vol' = EmptyVolume)
      BY <2>2, SetupFrame DEF programVars
    <3> QED
      BY <2>1, <3>1, EmptyFacts DEF ShuffleIInv
  <2>3. CASE EndMeasurement \/ Break
    <3>1. shuffle' = NoShuffle /\ (vol' = vol \/ vol' = EmptyVolume)
      BY <2>3, EndFrame DEF NoPrograms
    <3> QED
      BY <2>1, <3>1, EmptyFacts DEF ShuffleIInv
  <2>4. CASE Age \/ DrawPosition
    BY <2>4, AgeFrame, ShuffleKept
  <2>5. CASE RunPercore \/ \E id \in Ids : RunWriter(id)
    <3>1. shuffle' = shuffle /\ Measuring({"percore"})
      BY <2>5, PercoreFrame
    <3>2. shuffle' = NoShuffle
      BY <3>1 DEF Apart, Measuring
    <3>3. vol'.src \in {vol.src, NoFile}
      <4>1. CASE RunPercore
        <5>1. CASE MoveTests
          <6>1. CASE vol.dir0 \/ ~ AnyTest
            BY <5>1, <6>1 DEF MoveTests, Apart, Fields
          <6>2. CASE ~ (vol.dir0 \/ ~ AnyTest)
            BY <5>1, <6>2 DEF MoveTests, Apart, Fields
          <6> QED
            BY <6>1, <6>2
        <5>2. CASE StartPercore \/ Spawn \/ Wait \/ EndPercore
          <6>1. vol' = vol
            BY <5>2, Zenon DEF StartPercore, Spawn, Wait, EndPercore
          <6> QED
            BY <6>1
        <5> QED
          BY <4>1, <5>1, <5>2 DEF RunPercore, PercoreProgress
      <4>2. ASSUME NEW id \in Ids, RunWriter(id)
            PROVE  vol'.src = vol.src
        BY <4>2 DEF RunWriter, WriterProgress, Open, WriteChunk, EndWriter, Apart, Fields
      <4> QED
        BY <2>5, <4>1, <4>2
    <3> QED
      BY <2>1, <3>2, <3>3 DEF ShuffleIInv
  <2>6. CASE FioWritesTest
    <3>1. /\ shuffle.pc = "none" /\ shuffle' = shuffle
          /\ \E n \in 0 .. Len(TestFile) : vol' = [vol EXCEPT !.src = SubSeq(TestFile, 1, n)]
      BY <2>6 DEF FioWritesTest, programVars
    <3>2. vol'.src \in Seq(STRING)
      BY <3>1, TestFileAssumption DEF Apart, Fields
    <3> QED
      BY <3>1, <3>2 DEF ShuffleIInv
  <2>7. CASE Shuffle
    BY <2>7, StartShuffleStep, ReadStep, BeginWritingStep, WriteStep, EndShuffleStep
    DEF Shuffle, ShuffleProgress, Apart
  <2>8. CASE UNCHANGED vars
    BY <2>8, ShuffleKept DEF vars, programVars
  <2> QED
    BY <2>2, <2>3, <2>4, <2>5, <2>6, <2>7, <2>8, StepCases
<1> QED
  BY <1>1, <1>2, ProgramsApart, PTL DEF Spec

\* A block of a file that lies in it.
LEMMA BlockFacts ==
    ASSUME NEW file, NEW T, NEW size, NEW g, NEW k, NEW n, file \in Seq(T), size = Len(file),
           g \in Nat \ {0}, n \in Nat, n * g <= size, k \in 0 .. n - 1
    PROVE  /\ g * k \in Nat /\ g * k + g <= size /\ g * k = k * g
           /\ SubSeq(file, g * k + 1, g * k + g) = [p \in 1 .. g |-> file[k * g + p]]
<1>1. size \in Nat
  BY LenProperties
<1>2. k * g \in Nat /\ k * g + g = (k + 1) * g /\ (k + 1) * g <= n * g /\ g * k = k * g
  BY OneMore
<1>3. PICK a \in Nat : a = k * g
  BY <1>2
<1>4. a + g <= size
  <2>1. n * g \in Int /\ (k + 1) * g \in Int
    OBVIOUS
  <2> QED
    BY <1>1, <1>2, <1>3, <2>1
<1>5. a + 1 \in Int /\ a + g \in Int /\ \A p \in a + 1 .. a + g : file[p] \in T
  <2>1. \A p \in a + 1 .. a + g : p \in 1 .. size
    BY <1>1, <1>4
  <2> QED
    BY <2>1
<1>6. PICK b : b = SubSeq(file, a + 1, a + g)
  OBVIOUS
<1>7. /\ b \in Seq(T)
      /\ Len(b) = IF a + 1 <= a + g THEN (a + g) - (a + 1) + 1 ELSE 0
      /\ \A p \in 1 .. (a + g) - (a + 1) + 1 : b[p] = file[(a + 1) + p - 1]
  BY <1>5, <1>6, SubSeqProperties
<1>8. Len(b) = g /\ DOMAIN b = 1 .. g
  BY <1>7, LenProperties
<1>9. \A p \in 1 .. g : b[p] = file[a + p]
  <2> TAKE p \in 1 .. g
  <2>1. (a + 1) + p - 1 = a + p /\ p \in 1 .. (a + g) - (a + 1) + 1
    OBVIOUS
  <2> QED
    BY <1>7, <2>1
<1>10. b = [p \in 1 .. g |-> file[a + p]]
  BY <1>7, <1>8, <1>9
<1> QED
  BY <1>2, <1>3, <1>4, <1>6, <1>10

\* What is in the new file in the end.
LEMMA ShuffledFile ==
    ASSUME NEW src, NEW s, NEW out, ShufflingAt(src, s, out), s.pc = "done", s.clean
    PROVE  /\ Len(out) = s.g * num_blocks(Len(src), s.g)
           /\ IF s.g <= Len(src) THEN BlockSet(out, s.g) = BlockSet(src, s.g)
              ELSE SubSeq(out, 1, Len(src)) = src
<1>1. PICK g, size, n : g = s.g /\ size = Len(src) /\ n = num_blocks(size, g)
  OBVIOUS
<1>2. size \in Nat /\ g \in Nat \ {0} /\ n \in Nat \ {0}
  BY <1>1, ShufflingFacts
<1>3. PICK map, B : map = s.map /\ B = s.buf
  OBVIOUS
<1>4. /\ src \in Seq(STRING) /\ out \in Seq(Units) /\ map \in Shuffles(n)
      /\ B \in Seq(Units) /\ Len(B) = n * g /\ Len(out) = n * g
      /\ \A k \in 1 .. Shorter(n * g, size) : B[k] = src[k]
      /\ \A j \in 0 .. n - 1 : \A k \in 1 .. g : out[j * g + k] = B[map[j] * g + k]
  BY <1>1, <1>3 DEF ShufflingAt
<1>5. /\ map \in [0 .. n - 1 -> 0 .. n - 1]
      /\ \A k \in 0 .. n - 1 : \E j \in 0 .. n - 1 : map[j] = k
  <2>1. n \in Nat \ {0} /\ map \in Shuffles(n)
    BY <1>2, <1>4
  <2> QED
    BY <2>1, MapFacts, Zenon
<1>6. /\ g <= size => n * g <= size /\ n = size \div g
      /\ size < g => n = 1
  BY <1>1, <1>2, BlockCount
<1>7. n * g \in Nat /\ n * g = g * n /\ (n * g) \div g = n
  <2>1. n * g \in Nat /\ n * g = g * n
    BY <1>2
  <2>2. (n * g) \div g = n
    <3>1. PICK a \in Nat, q \in Nat, r \in 0 .. g - 1 :
            a = n * g /\ a = g * q + r /\ q = (n * g) \div g
      <4>1. PICK a \in Nat : a = n * g
        BY <2>1
      <4>2. a = g * (a \div g) + (a % g) /\ a \div g \in Nat /\ a % g \in 0 .. g - 1
        BY <1>2
      <4> QED
        BY <4>1, <4>2
    <3>2. q * g + r = n * g + 0 /\ q \in Nat /\ 0 \in 0 .. g - 1
      BY <1>2, <3>1
    <3> QED
      BY <1>2, <3>1, <3>2, FileInUnique
  <2> QED
    BY <2>1, <2>2
<1>8. CASE g <= size
  <2>1. n * g <= size /\ n = size \div g
    BY <1>6, <1>8
  <2>2. \A k \in 1 .. n * g : B[k] = src[k]
    BY <1>2, <1>4, <1>7, <2>1 DEF Shorter
  <2>3. \A j \in 0 .. n - 1 : SubSeq(out, g * j + 1, g * j + g) =
            SubSeq(src, g * map[j] + 1, g * map[j] + g)
    <3> TAKE j \in 0 .. n - 1
    <3>1. PICK q : q = map[j] /\ q \in 0 .. n - 1
      BY <1>5
    <3>2. SubSeq(out, g * j + 1, g * j + g) = [p \in 1 .. g |-> out[j * g + p]]
      <4>1. PICK m : m = Len(out)
        OBVIOUS
      <4>2. n * g <= m /\ n \in Nat
        BY <1>2, <1>4, <1>7, <4>1
      <4> QED
        BY <1>2, <1>4, <4>1, <4>2, BlockFacts
    <3>3. /\ SubSeq(src, g * q + 1, g * q + g) = [p \in 1 .. g |-> src[q * g + p]]
          /\ g * q + g <= size /\ g * q = q * g
      <4>1. /\ src \in Seq(STRING) /\ size = Len(src) /\ g \in Nat \ {0} /\ n \in Nat
            /\ n * g <= size /\ q \in 0 .. n - 1
        BY <1>1, <1>2, <1>4, <2>1, <3>1
      <4> QED
        BY <4>1, BlockFacts
    <3>4. \A p \in 1 .. g : out[j * g + p] = src[q * g + p]
      <4> TAKE p \in 1 .. g
      <4>1. q * g \in Nat /\ q * g + g = (q + 1) * g /\ (q + 1) * g <= n * g
        <5>1. q \in Nat /\ q < n /\ n \in Nat /\ g \in Nat
          BY <1>2, <3>1
        <5> QED
          BY <5>1, OneMore
      <4>2. PICK a \in Nat, b \in Nat : a = q * g /\ b = n * g /\ a + g <= b
        BY <1>7, <4>1
      <4>3. a + p \in 1 .. b
        BY <1>2, <4>2
      <4>4. B[a + p] = src[a + p]
        BY <2>2, <4>2, <4>3
      <4> QED
        BY <1>4, <3>1, <4>2, <4>4
    <3> QED
      BY <3>1, <3>2, <3>3, <3>4
  <2>4. /\ BlockSet(out, g) = {SubSeq(out, g * k + 1, g * k + g) : k \in 0 .. n - 1}
        /\ BlockSet(src, g) = {SubSeq(src, g * k + 1, g * k + g) : k \in 0 .. n - 1}
    BY <1>1, <1>4, <1>7, <2>1 DEF BlockSet
  <2>5. PICK F : F = [k \in 0 .. n - 1 |-> SubSeq(src, g * k + 1, g * k + g)]
    OBVIOUS
  <2>6. /\ BlockSet(src, g) = {F[k] : k \in 0 .. n - 1}
        /\ BlockSet(out, g) = {F[map[k]] : k \in 0 .. n - 1}
    <3>1. \A k \in 0 .. n - 1 : F[k] = SubSeq(src, g * k + 1, g * k + g)
      BY <2>5
    <3>2. \A k \in 0 .. n - 1 : F[map[k]] = SubSeq(out, g * k + 1, g * k + g)
      BY <1>5, <2>3, <3>1
    <3>3. BlockSet(src, g) = {F[k] : k \in 0 .. n - 1}
      BY <2>4, <3>1
    <3>4. BlockSet(out, g) = {F[map[k]] : k \in 0 .. n - 1}
      BY <2>4, <3>2
    <3> QED
      BY <3>3, <3>4
  <2>7. BlockSet(out, g) = BlockSet(src, g)
    <3>1. \A k \in 0 .. n - 1 : map[k] \in 0 .. n - 1
      BY <1>5
    <3>2. {F[map[k]] : k \in 0 .. n - 1} \subseteq {F[k] : k \in 0 .. n - 1}
      BY <3>1, Zenon
    <3>3. {F[k] : k \in 0 .. n - 1} \subseteq {F[map[k]] : k \in 0 .. n - 1}
      <4> SUFFICES ASSUME NEW k \in 0 .. n - 1
                   PROVE  F[k] \in {F[map[j]] : j \in 0 .. n - 1}
        OBVIOUS
      <4>1. PICK j \in 0 .. n - 1 : map[j] = k
        BY <1>5
      <4>2. F[k] = F[map[j]]
        BY <4>1
      <4> QED
        BY <4>2
    <3> QED
      BY <2>6, <3>2, <3>3
  <2> QED
    BY <1>1, <1>4, <1>7, <1>8, <2>7
<1>9. CASE size < g
  <2>1. n = 1 /\ map[0] = 0 /\ n * g = g
    BY <1>2, <1>5, <1>6, <1>9
  <2>2. Len(out) = g /\ \A k \in 1 .. size : B[k] = src[k]
    BY <1>2, <1>4, <1>9, <2>1 DEF Shorter
  <2>3. \A k \in 1 .. size : out[k] = src[k]
    <3> TAKE k \in 1 .. size
    <3>1. 0 \in 0 .. n - 1 /\ k \in 1 .. g /\ 0 * g + k = k
      BY <1>2, <1>9, <2>1
    <3>2. out[0 * g + k] = B[map[0] * g + k]
      BY <1>4, <3>1
    <3> QED
      BY <2>1, <2>2, <3>1, <3>2
  <2>4. PICK b : b = SubSeq(out, 1, size)
    OBVIOUS
  <2>5. /\ b \in Seq(STRING)
        /\ Len(b) = IF 1 <= size THEN size - 1 + 1 ELSE 0
        /\ \A k \in 1 .. size - 1 + 1 : b[k] = out[1 + k - 1]
    <3>1. \A k \in 1 .. size : out[k] \in STRING
      BY <1>1, <1>4, <2>3
    <3>2. 1 \in Int /\ size \in Int
      BY <1>2
    <3> QED
      BY <2>4, <3>1, <3>2, SubSeqProperties
  <2>6. Len(b) = size /\ \A k \in 1 .. size : b[k] = out[k]
    <3>1. Len(b) = size /\ size - 1 + 1 = size
      BY <1>2, <2>5
    <3>2. \A k \in 1 .. size : 1 + k - 1 = k
      BY <1>2
    <3> QED
      BY <2>5, <3>1, <3>2
  <2>7. b = src
    <3>1. DOMAIN b = 1 .. size /\ DOMAIN src = 1 .. size /\ src \in Seq(STRING)
      BY <1>1, <1>4, <2>5, <2>6, LenProperties
    <3>2. \A k \in 1 .. size : b[k] = src[k]
      BY <2>3, <2>6
    <3> QED
      BY <1>1, <2>5, <2>6, <3>1, <3>2
  <2>8. ~ (g <= size)
    BY <1>2, <1>9
  <2> QED
    BY <1>1, <1>4, <1>7, <2>4, <2>7, <2>8
<1> QED
  BY <1>2, <1>8, <1>9

\* A shuffle without a failed call keeps the blocks of the file.
THEOREM ShuffleKeepsBlocks == Spec => []ShuffledKeepsBlocks
<1>1. ShuffleIInv => ShuffledKeepsBlocks
  BY ShuffledFile DEF ShuffleIInv, ShuffledKeepsBlocks
<1> QED
  BY <1>1, ShuffleInductive, PTL

\* Together the five are an invariant of every sequence of measurements.
THEOREM BenchInductive == Spec => []BenchIInv
<1>1. ScriptsIInv /\ Apart /\ AgingIInv /\ RoundIInv /\ ShuffleIInv => BenchIInv
  BY DEF BenchIInv
<1> QED
  BY <1>1, ScriptsInductive, ProgramsApart, AgingInductive, RoundInductive, ShuffleInductive, PTL
=============================================================================
