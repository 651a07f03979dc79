------------------------------ MODULE StdFiles ------------------------------
(***************************************************************************)
(* The correctness scripts: correct/{fio,recovery,recovery2,rm}.sh write    *)
(* files to the file system under test, remount it, move and remove files,  *)
(* and compare what is left with standard files that helper/mkstdfile.sh    *)
(* has made once on a file system that is trusted.  A script can be stopped *)
(* between any two commands and in the middle of one, and the next one      *)
(* works with the standard files it left.  The file system under test may   *)
(* damage or lose any file in any operation.                                *)
(***************************************************************************)
EXTENDS Integers, Sequences

CONSTANTS
    Params,         \* parameters: number of threads, size, duplicates, block size
    Jobs,           \* Jobs[p]: the number of threads, and so of files, of p
    Fits,           \* Fits[p]: p takes less than 80 % of the device
    Devices         \* pmem numbers

ASSUME ParamsAssumption ==
    /\ Jobs \in [Params -> Nat \ {0}]
    /\ Fits \in [Params -> BOOLEAN]
    /\ 0 \in Devices

VARIABLES
    complete,       \* the p whose standard directory has the marker
    std,            \* std[p][f]: file f in the standard directory of p
    mnt,            \* mnt[d][f]: file f in /mnt/pmem<d>
    session,        \* the script that runs: [script, pmem, p]
    pc,             \* where it is in mkstdfile.sh, "test" behind that
    todo,           \* files the running command of mkstdfile.sh still has to write
    at,             \* the next command of the test
    loses,          \* whether the file system under test may lose files
    damaged         \* whether it has damaged or lost one in this session

stdVars == <<complete, std>>
vars == <<stdVars, mnt, session, pc, todo, at, loses, damaged>>

Files(p) == 1 .. Jobs[p]
Names == UNION {Files(p) : p \in Params}

\* fio makes the same file f from the same parameters, wherever it writes it.
Whole(p, f) == <<p, f>>
WholeFiles == {<<p, f>> : p \in Params, f \in Names}
Part == <<"part">>
Bad == <<"bad">>
Absent == <<>>
NoFiles == [f \in Names |-> Absent]

\* The commands of the four scripts behind mkstdfile.sh.  "mv" is the mkdir of
\* the directory 0 and the mv of the files into it: cmpstdfile.sh skips it.
Commands(script) ==
    CASE script = "fio" -> <<"setup", "fio", "cmp">>
      [] script = "recovery" -> <<"setup", "fio", "remount", "cmp">>
      [] script = "recovery2" -> <<"setup", "fio", "remount", "cmp", "mv", "fio", "cmp",
                                   "rm0", "cmp", "rm">>
      [] script = "rm" -> <<"setup", "fio", "mv", "fio", "rm0", "cmp", "rm">>

Scripts == {"fio", "recovery", "recovery2", "rm"}
Idle == [script |-> "none", pmem |-> 0, p |-> CHOOSE p \in Params : TRUE]

P == session.p
D == session.pmem

----------------------------------------------------------------------------
Init ==
    /\ complete = {}
    /\ std = [p \in Params |-> NoFiles]
    /\ mnt = [d \in Devices |-> NoFiles]
    /\ session = Idle
    /\ pc = "idle" /\ todo = {} /\ at = 1
    /\ loses \in BOOLEAN
    /\ damaged = FALSE

Start ==
    /\ pc = "idle"
    /\ \E script \in Scripts, d \in Devices, p \in Params :
        session' = [script |-> script, pmem |-> d, p |-> p]
    /\ pc' = "check"
    /\ damaged' = FALSE
    /\ UNCHANGED <<stdVars, mnt, todo, at, loses>>

Leave ==
    /\ session' = Idle
    /\ pc' = "idle"
    /\ todo' = {}
    /\ at' = 1

ViaDevice(p) == Jobs[p] > 1 /\ Fits[p]

\* The user, or a command that fails (set -e), ends the script.  A standard
\* file that is being written may be there in part; /mnt/pmem<d> does not
\* matter, the next script formats it.
Stop ==
    /\ pc # "idle"
    /\ \E partial \in SUBSET (IF pc = "generate" /\ ViaDevice(P) THEN {} ELSE todo) :
        std' = [std EXCEPT ![P] = [f \in Names |-> IF f \in partial THEN Part ELSE @[f]]]
    /\ Leave
    /\ UNCHANGED <<complete, mnt, loses, damaged>>

----------------------------------------------------------------------------
(* mkstdfile.sh *)

\* Mutant: the directory is there, so the files are taken to be.
CheckDirectory ==
    /\ pc = "check"
    /\ pc' = IF std[P] # NoFiles THEN "test" ELSE "ext4"
    /\ UNCHANGED <<stdVars, mnt, session, todo, at, loses, damaged>>

CheckComplete ==
    /\ pc = "check"
    /\ pc' = IF P \in complete THEN "test" ELSE "ext4"
    /\ UNCHANGED <<stdVars, mnt, session, todo, at, loses, damaged>>

\* Mutant: what a test has left on the device is taken for the standard files.
CopyLeftovers ==
    /\ pc = "ext4"
    /\ todo' = Files(P)
    /\ pc' = "copy"
    /\ UNCHANGED <<stdVars, mnt, session, at, loses, damaged>>

\* setup/ext4.sh, and the rm where the files go through the device.
Ext4 ==
    /\ pc = "ext4"
    /\ mnt' = [mnt EXCEPT ![D] = NoFiles]
    /\ todo' = Files(P)
    /\ pc' = "generate"
    /\ UNCHANGED <<stdVars, session, at, loses, damaged>>

\* fio completes a file, on the device or in the standard directory.
Generate ==
    /\ pc = "generate"
    /\ \E f \in todo :
        /\ todo' = todo \ {f}
        /\ IF ViaDevice(P)
           THEN mnt' = [mnt EXCEPT ![D][f] = Whole(P, f)] /\ UNCHANGED stdVars
           ELSE std' = [std EXCEPT ![P][f] = Whole(P, f)] /\ UNCHANGED <<complete, mnt>>
    /\ UNCHANGED <<session, pc, at, loses, damaged>>

Generated ==
    /\ pc = "generate" /\ todo = {}
    /\ IF ViaDevice(P) THEN pc' = "copy" /\ todo' = Files(P) ELSE pc' = "mark" /\ UNCHANGED todo
    /\ UNCHANGED <<stdVars, mnt, session, at, loses, damaged>>

Copy ==
    /\ pc = "copy"
    /\ \E f \in todo :
        /\ todo' = todo \ {f}
        /\ std' = [std EXCEPT ![P][f] = mnt[D][f]]
    /\ UNCHANGED <<complete, mnt, session, pc, at, loses, damaged>>

\* Mutant: the marker is touched while cp still runs.
TouchEarly ==
    /\ pc \in {"copy", "mark"}
    /\ complete' = complete \cup {P}
    /\ pc' = "test" /\ todo' = {}
    /\ UNCHANGED <<std, mnt, session, at, loses, damaged>>

TouchComplete ==
    /\ pc \in {"copy", "mark"} /\ todo = {}
    /\ complete' = complete \cup {P}
    /\ pc' = "test"
    /\ UNCHANGED <<std, mnt, session, todo, at, loses, damaged>>

----------------------------------------------------------------------------
(* The commands on the file system under test. *)

Command == Commands(session.script)[at]
Running(command) == pc = "test" /\ at <= Len(Commands(session.script)) /\ Command = command

Proceed ==
    /\ at' = at + 1
    /\ UNCHANGED <<stdVars, session, pc, todo, loses>>

\* The file system leaves `files`, or has damaged or lost some of them.
Left(d, files) ==
    \E result \in [Names -> {Absent, Bad} \cup WholeFiles] :
        /\ \A f \in Names :
            \/ result[f] = files[f]
            \/ files[f] # Absent /\ result[f] = Bad
            \/ loses /\ result[f] = Absent
        /\ mnt' = [mnt EXCEPT ![d] = result]
        /\ damaged' = (damaged \/ result # files)

\* setup/nova.sh: the module is loaded anew and the device formatted.
SetupNova ==
    /\ Running("setup")
    /\ mnt' = [mnt EXCEPT ![D] = NoFiles]
    /\ UNCHANGED damaged
    /\ Proceed

\* helper/fio.sh writes to /mnt/pmem0, whatever the device of the script is.
Fio ==
    /\ Running("fio")
    /\ Left(0, [f \in Names |-> IF f \in Files(P) THEN Whole(P, f) ELSE mnt[0][f]])
    /\ Proceed

\* umount and mount without -o init; removing the directory 0, whose files
\* share their blocks with those that stay.
RemountOrRemove ==
    /\ Running("remount") \/ Running("rm0")
    /\ Left(D, mnt[D])
    /\ Proceed

\* mv of the files into the directory 0, and the final rm: both fail, and with
\* them the script, where no file is left.
MoveOrRemoveAll ==
    /\ Running("mv") \/ Running("rm")
    /\ mnt[D] # NoFiles
    /\ mnt' = [mnt EXCEPT ![D] = NoFiles]
    /\ UNCHANGED damaged
    /\ Proceed

\* Mutant: the exit status of cmp is not looked at.
EqualAnyway(f) == TRUE

\* cmp of a file in the test directory with the standard file of its name.
SameAsStandard(f) == mnt[D][f] = std[P][f]

\* cmpstdfile.sh goes through the files of the test directory only.
AllSame == \A f \in Names : mnt[D][f] # Absent => SameAsStandard(f)

Compare ==
    /\ Running("cmp")
    /\ AllSame
    /\ UNCHANGED <<mnt, damaged>>
    /\ Proceed

Finish ==
    /\ pc = "test" /\ at > Len(Commands(session.script))
    /\ Leave
    /\ UNCHANGED <<stdVars, mnt, loses, damaged>>

MakeStandard == CheckComplete \/ Ext4 \/ Generate \/ Generated \/ Copy \/ TouchComplete
Test == SetupNova \/ Fio \/ RemountOrRemove \/ MoveOrRemoveAll \/ Compare

Next == Start \/ Stop \/ MakeStandard \/ Test \/ Finish

Spec == Init /\ [][Next]_vars

----------------------------------------------------------------------------
(* Properties *)

\* Only a test that still has commands to run or to finish is between them,
\* mkstdfile.sh has files to write only while it writes, and what it leaves
\* under any name is nothing, a part, or that very file.
StdTypeOK ==
    /\ complete \subseteq Params
    /\ \A p \in Params : \A f \in Names :
        std[p][f] \in {Absent, Part} \cup (IF f \in Files(p) THEN {Whole(p, f)} ELSE {})
    /\ mnt \in [Devices -> [Names -> {Absent, Bad} \cup WholeFiles]]
    /\ pc \in {"idle", "check", "ext4", "generate", "copy", "mark", "test"}
    /\ todo \subseteq Files(P) /\ (pc \notin {"generate", "copy"} => todo = {})
    /\ session.script = "none" <=> pc = "idle"
    /\ at > 1 => pc = "test" /\ at <= Len(Commands(session.script)) + 1
    /\ loses \in BOOLEAN /\ damaged \in BOOLEAN

\* Wherever earlier runs of mkstdfile.sh stopped, a directory with the marker
\* (mkstdfile.sh:16,27) has every standard file, whole.
StandardRight ==
    \A p \in complete : \A f \in Files(p) : std[p][f] = Whole(p, f)

JustCompared ==
    pc = "test" /\ at > 1 /\ Commands(session.script)[at - 1] = "cmp"

\* When cmpstdfile.sh has passed, each file that is in the directory it looked
\* at is the one fio wrote: no comparison is with the files of an interrupted
\* run or of other parameters, and no damage to a file that is there goes
\* unnoticed.  It says nothing of files that are lost (cmpstdfile.sh:6), nor of
\* those on /mnt/pmem0 when the script is about another device (helper/fio.sh:19).
PassMeansRight ==
    JustCompared => \A f \in Names : mnt[D][f] \in {Absent, Whole(P, f)}

\* On pmem 0, and on a file system that loses no file, the verdict of
\* cmpstdfile.sh is exact: it passes if and only if every file that fio wrote is
\* there and right; an undamaged file system is never blamed.
VerdictExact ==
    Running("cmp") /\ D = 0 /\ ~loses =>
        /\ AllSame <=> mnt[0] = [f \in Names |-> IF f \in Files(P) THEN Whole(P, f) ELSE Absent]
        /\ ~damaged => AllSame
=============================================================================
