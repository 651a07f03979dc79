---------------------------- MODULE SetupScripts ----------------------------
(***************************************************************************)
(* The part that setup_nova.sh, setup_nvdedup.sh, fio_nova.sh,              *)
(* fio_nvdedup.sh and aging_amount.sh have in common: check a branch out,   *)
(* build the module, edit setup.sh for pmem0 with a copy of it in           *)
(* /tmp/setups, execute it, and put it back.  Only aging_amount.sh stops    *)
(* at a command that fails (set -e).                                        *)
(*                                                                         *)
(* Any other command may fail without an effect, but the two sed and the    *)
(* copies of setup.sh to and from /tmp/setups do not fail by themselves and *)
(* are not interrupted in the middle: a setup.sh is whole wherever it is.   *)
(***************************************************************************)
EXTENDS Volume

CONSTANTS
    Branches,       \* of both repositories
    SetupVersion    \* SetupVersion[r][b]: setup.sh as committed on branch b of repository r

Repos == {"Light-Dedup", "nv-dedup"}
ASSUME BranchesAssumption == DOMAIN SetupVersion = Repos /\ Branches # {}

VARIABLES
    head,           \* head[r]: the branch checked out
    tree,           \* tree[r]: setup.sh in the working tree
    built,          \* built[r]: the branch the kernel module was made from
    setups,         \* /tmp/setups
    mounted,        \* what setup.sh has mounted: [module, script]
    session,        \* the script that runs: [name, repo, branch]
    spc             \* where it is

setupVars == <<head, tree, built, setups, mounted, session, spc>>

\* A setup.sh: its version, and whether set_pmem has edited it for pmem0.
Committed(r, b) == [version |-> SetupVersion[r][b], edited |-> FALSE]
None == [version |-> NoFile, edited |-> FALSE]
NotMounted == [module |-> <<>>, script |-> None]

Nobody == [name |-> "none", repo |-> "nv-dedup", branch |-> CHOOSE b \in Branches : TRUE]
Strict == session.name = "aging_amount"
R == session.repo

SetupInit ==
    /\ head \in [Repos -> Branches]
    /\ tree = [r \in Repos |-> Committed(r, head[r])]
    /\ built = head
    /\ setups = None
    /\ mounted = NotMounted
    /\ session = Nobody
    /\ spc = "idle"

StartScript(name, repo) ==
    /\ spc = "idle"
    /\ \E b \in Branches : session' = [name |-> name, repo |-> repo, branch |-> b]
    /\ spc' = "checkout"
    /\ UNCHANGED <<head, tree, built, setups, mounted>>

Go(to) ==
    /\ spc' = to
    /\ session' = IF to = "idle" THEN Nobody ELSE session

\* Mutant: no failing command ends aging_amount.sh.
GoOnAnyway(to) == Go(to)

\* A command fails: the script goes on or, under set -e, ends.
GoOn(to) == Go(IF Strict THEN "idle" ELSE to)

Clean(r) == tree[r] = Committed(r, head[r])

\* git refuses to replace a changed setup.sh by one of another version; it may
\* also fail for another reason.
Refused == ~Clean(R) /\ SetupVersion[R][session.branch] # SetupVersion[R][head[R]]

Checkout ==
    /\ spc = "checkout"
    /\ \/ /\ ~Refused
          /\ head' = [head EXCEPT ![R] = session.branch]
          /\ tree' = IF Clean(R) THEN [tree EXCEPT ![R] = Committed(R, session.branch)] ELSE tree
          /\ Go("make")
          /\ UNCHANGED faults
       \/ /\ IF Refused THEN UNCHANGED faults ELSE Fault
          /\ GoOn("make")
          /\ UNCHANGED <<head, tree>>
    /\ UNCHANGED <<built, setups, mounted>>

Make ==
    /\ spc = "make"
    /\ \/ built' = [built EXCEPT ![R] = head[R]] /\ Go("restore") /\ UNCHANGED faults
       \/ Fault /\ GoOn("restore") /\ UNCHANGED built
    /\ UNCHANGED <<head, tree, setups, mounted>>

\* Mutant: the setup.sh just checked out is the one that is saved.
RestoreNothing ==
    /\ spc = "restore"
    /\ Go("save")
    /\ UNCHANGED <<head, tree, built, setups, mounted, faults>>

\* restore_pmem: what an earlier run has saved replaces the setup.sh just
\* checked out.  cp fails where there is nothing.
Restore ==
    /\ spc = "restore"
    /\ IF setups = None THEN GoOn("save") /\ UNCHANGED tree
       ELSE tree' = [tree EXCEPT ![R] = setups] /\ Go("save")
    /\ UNCHANGED <<head, built, setups, mounted, faults>>

\* set_pmem: the cp, and the two seds.
Save ==
    /\ spc = "save"
    /\ setups' = tree[R]
    /\ Go("edit")
    /\ UNCHANGED <<head, tree, built, mounted, faults>>

Edit ==
    /\ spc = "edit"
    /\ tree' = [tree EXCEPT ![R].edited = TRUE]
    /\ Go("run")
    /\ UNCHANGED <<head, built, setups, mounted, faults>>

\* bash setup.sh loads the module that has been built and mounts it on a
\* formatted device.
RunSetup ==
    /\ spc = "run"
    /\ mounted' = [module |-> <<R, built[R]>>, script |-> tree[R]]
    /\ Go("restore2")
    /\ vol' = EmptyVolume
    /\ UNCHANGED <<head, tree, built, setups, faults>>

\* It fails, before or after the umount.
RunSetupFails ==
    /\ spc = "run"
    /\ Fault
    /\ GoOn("restore2")
    /\ \/ mounted' = NotMounted /\ vol' = EmptyVolume
       \/ UNCHANGED <<mounted, vol>>
    /\ UNCHANGED <<head, tree, built, setups>>

RestoreAgain ==
    /\ spc = "restore2"
    /\ tree' = [tree EXCEPT ![R] = setups]
    /\ Go("reset")
    /\ UNCHANGED <<head, built, setups, mounted, faults>>

\* git checkout -- setup.sh; the scripts that only set up are at their end.
ResetTree ==
    /\ spc = "reset"
    /\ LET on == IF session.name \in {"setup_nova", "setup_nvdedup"} THEN "idle" ELSE "measure"
       IN  \/ tree' = [tree EXCEPT ![R] = Committed(R, head[R])] /\ Go(on) /\ UNCHANGED faults
           \/ Fault /\ GoOn(on) /\ UNCHANGED tree
    /\ UNCHANGED <<head, built, setups, mounted>>

SetupProgress ==
    \/ (Checkout \/ Make \/ Restore \/ Save \/ Edit \/ RestoreAgain \/ ResetTree) /\ UNCHANGED vol
    \/ RunSetup
    \/ RunSetupFails

\* The script is interrupted; the machine is restarted, which empties /tmp.
Interrupted == spc # "idle" /\ Fault /\ Go("idle") /\ UNCHANGED <<head, tree, built, setups, mounted, vol>>

Reboot ==
    /\ Fault /\ Go("idle")
    /\ setups' = None /\ mounted' = NotMounted /\ vol' = EmptyVolume
    /\ UNCHANGED <<head, tree, built>>

----------------------------------------------------------------------------
(* Properties *)

\* aging_amount.sh measures the branch it was asked for, on a module built from
\* it and mounted by a setup.sh that is edited for pmem0 (aging_amount.sh:46-56),
\* whatever other runs have left of the repositories and in /tmp/setups.
MeasuresTheBranch ==
    Strict /\ spc = "measure" =>
        /\ mounted.module = <<"Light-Dedup", session.branch>>
        /\ mounted.script.edited

\* The setup.sh that is saved first after a restart stays in /tmp/setups, of
\* whatever branch or repository later runs are: restore_pmem runs first
\* (setup_nova.sh:32-33), so that set_pmem saves what was saved before.  This is
\* about the copy in /tmp/setups only, not about what a run executes.
FirstSetupStays == [][setups = None \/ setups' \in {setups, None}]_setups
=============================================================================
