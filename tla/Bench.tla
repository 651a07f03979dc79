------------------------------- MODULE Bench -------------------------------
(***************************************************************************)
(* The measurements on /mnt/pmem0, one after the other: a set-up script,    *)
(* aging_amount.sh with its ageing, read_effects.sh with its shuffle, and   *)
(* programs started by hand on whatever the runs before have mounted and    *)
(* written.                                                                 *)
(***************************************************************************)
EXTENDS SetupScripts, AgingSystem, Percore, ShuffleAndWrite

CONSTANTS
    TestFile,       \* what fio writes to /mnt/pmem0/test
    Workloads       \* scripts and programs that are run together, with a bound on the
                    \* faults: [names, faults]

ASSUME TestFileAssumption == TestFile \in Seq(STRING)

VARIABLE workload   \* those run in this behaviour

programVars == <<aging, percore, writer, shuffle, workload>>
vars == <<vol, faults, setupVars, programVars>>

Init ==
    /\ vol = EmptyVolume
    /\ SetupInit
    /\ aging = NoAging
    /\ percore = NoPercore /\ writer = NoWriters
    /\ shuffle = NoShuffle
    /\ \E w \in Workloads : workload = w.names /\ faults = w.faults

RepoOf == [setup_nova |-> "Light-Dedup", setup_nvdedup |-> "nv-dedup",
           aging_amount |-> "Light-Dedup", read_effects |-> "Light-Dedup"]

\* A script with a set-up, of any branch; read_effects.sh always asks for master.
StartSetup ==
    /\ \E name \in workload \cap DOMAIN RepoOf : StartScript(name, RepoOf[name])
    /\ UNCHANGED <<vol, faults, programVars>>

\* A program started by hand.
StartByHand ==
    /\ spc = "idle" /\ mounted # NotMounted
    /\ \E name \in workload \ DOMAIN RepoOf : session' = [Nobody EXCEPT !.name = name]
    /\ spc' = "measure"
    /\ UNCHANGED <<vol, faults, head, tree, built, setups, mounted, programVars>>

Measuring(names) == spc = "measure" /\ session.name \in names

Age ==
    /\ Measuring({"aging_amount", "aging_system"})
    /\ StartAging \/ AgingProgress
    /\ UNCHANGED <<setupVars, percore, writer, shuffle, workload>>

DrawPosition == DrawAgain /\ UNCHANGED <<setupVars, percore, writer, shuffle, workload>>

RunPercore ==
    /\ Measuring({"percore"})
    /\ StartPercore \/ PercoreProgress
    /\ UNCHANGED <<setupVars, aging, shuffle, workload>>

RunWriter(id) == WriterProgress(id) /\ UNCHANGED <<setupVars, aging, shuffle, workload>>

\* read_effects.sh first lets fio write the file, and goes on if that fails.
FioWritesTest ==
    /\ Measuring({"read_effects"}) /\ shuffle.pc = "none" /\ vol.src = NoFile
    /\ \E n \in 0 .. Len(TestFile) :
        /\ vol' = [vol EXCEPT !.src = SubSeq(TestFile, 1, n)]
        /\ IF n = Len(TestFile) THEN UNCHANGED faults ELSE Fault
    /\ UNCHANGED <<setupVars, programVars>>

Shuffle ==
    /\ Measuring({"read_effects", "shuffle_and_write"})
    /\ StartShuffle \/ ShuffleProgress
    /\ UNCHANGED <<setupVars, aging, percore, writer, workload>>

NoPrograms ==
    /\ aging' = NoAging /\ percore' = NoPercore /\ writer' = NoWriters /\ shuffle' = NoShuffle
    /\ UNCHANGED workload

\* The program has ended, or has found no file to shuffle.
EndMeasurement ==
    /\ spc = "measure"
    /\ \/ aging.pc \in {"done", "failed"}
       \/ percore.pc \in {"done", "failed"}
       \/ shuffle.pc = "done"
       \/ session.name = "shuffle_and_write" /\ vol.src = NoFile
    /\ Go("idle")
    /\ NoPrograms
    /\ UNCHANGED <<vol, faults, head, tree, built, setups, mounted>>

\* An interruption ends the programs that the script has started in the background,
\* too.  They ignore the interrupt key: whoever uses that is taken to end them.
Break == (Interrupted \/ Reboot) /\ NoPrograms

Progress ==
    \/ SetupProgress /\ UNCHANGED programVars
    \/ Age \/ RunPercore \/ FioWritesTest \/ Shuffle \/ EndMeasurement

Next ==
    \/ StartSetup \/ StartByHand
    \/ Progress \/ DrawPosition
    \/ \E id \in Ids : RunWriter(id)
    \/ Break

\* What has been started goes on, and the generator does not miss a position
\* for ever; nobody has to start anything, and nothing has to fail.
Spec ==
    /\ Init /\ [][Next]_vars
    /\ WF_vars(Progress)
    /\ \A id \in Ids : WF_vars(RunWriter(id))

----------------------------------------------------------------------------
(* Properties *)

\* Every run comes to its end, through waiting for the writers and drawing
\* positions; only ageing with more than 100 percent does not
\* (aging_system.c:144).
RunsEnd == spc # "idle" ~> (spc = "idle" \/ (Endless /\ aging.percent > 100))

\* For the file system under test, every block of an ageing or of a round is new.
WritesNewBlocks == AgingWritesNewBlocks /\ RoundWritesNewBlocks
=============================================================================
