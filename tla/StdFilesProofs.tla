--------------------------- MODULE StdFilesProofs ---------------------------
(***************************************************************************)
(* The correctness scripts judge the file system rightly for any number of  *)
(* parameter sets, files and devices, wherever they are stopped: proofs of   *)
(* the invariants of StdFiles.                                              *)
(***************************************************************************)
EXTENDS StdFiles, TLAPS

\* A standard file is missing, cut short or whole.
Directories == std \in [Params -> [Names -> {Absent, Part} \cup WholeFiles]]

\* A script that runs has a device and parameters; only its test has commands
\* behind it.
SessionOK ==
    /\ pc = "idle" => session.script = "none"
    /\ pc # "idle" => /\ session.script \in Scripts
                      /\ session.pmem \in Devices
                      /\ session.p \in Params
    /\ at \in Nat \ {0}
    /\ pc # "test" => at = 1
    /\ pc = "test" => at <= Len(Commands(session.script)) + 1

\* The file is there, the one that fio makes.
InStandard(f) == std[P][f] = Whole(P, f)
\* So is the file on the device.
OnDevice(f) == mnt[D][f] = Whole(P, f)

\* mkstdfile.sh: what is not to do any more is done, and a test is only made
\* where the marker is.
Making ==
    /\ pc \in {"ext4", "generate", "copy", "mark"} => P \notin complete
    /\ pc = "generate" =>
        \A f \in Files(P) \ todo : IF ViaDevice(P) THEN OnDevice(f) ELSE InStandard(f)
    /\ pc = "copy" =>
        /\ \A f \in Files(P) : OnDevice(f)
        /\ \A f \in Files(P) \ todo : InStandard(f)
    /\ pc = "mark" => \A f \in Files(P) : InStandard(f)
    /\ pc = "test" => P \in complete

\* Behind these commands the files of the last fio are still to be there.
HoldingFrom(script) ==
    CASE script = "fio" -> {3, 4}
      [] script = "recovery" -> {3, 4, 5}
      [] script = "recovery2" -> {3, 4, 5, 7, 8, 9, 10}
      [] script = "rm" -> {3, 5, 6, 7}

\* The next command comes where the files of the last fio are to be there.
Holding == at \in HoldingFrom(session.script)

\* What a test has on pmem 0, where the file system loses nothing.
TestFiles ==
    pc = "test" /\ at > 1 /\ D = 0 /\ ~ loses =>
        /\ \A f \in Names \ Files(P) : mnt[0][f] = Absent
        /\ Holding => \A f \in Files(P) :
            /\ mnt[0][f] # Absent
            /\ ~ damaged => mnt[0][f] = Whole(P, f)

\* The inductive invariant.
StdIInv ==
    /\ StdTypeOK /\ Directories /\ SessionOK /\ Making
    /\ StandardRight /\ TestFiles /\ PassMeansRight

----------------------------------------------------------------------------
(* Facts the steps share. *)

\* What may lie under a name is told apart.
LEMMA Distinct ==
    /\ Absent # Part /\ Absent # Bad /\ Part # Bad
    /\ \A p, f : Whole(p, f) # Absent /\ Whole(p, f) # Part /\ Whole(p, f) # Bad
BY DEF Absent, Part, Bad, Whole

\* The files of a parameter set have names and contents of the model.
LEMMA NamesOfFiles ==
    ASSUME NEW p \in Params
    PROVE  /\ Files(p) \subseteq Names
           /\ \A f \in Files(p) : Whole(p, f) \in WholeFiles
BY DEF Names, WholeFiles, Whole

\* A script starts with "setup"; "fio" makes the files, only "mv" and "rm" take
\* them away, and "cmp" comes where they are to be there.
LEMMA CommandFacts ==
    ASSUME NEW script \in Scripts, NEW n \in Nat \ {0}, n <= Len(Commands(script))
    PROVE  LET command == Commands(script)[n]
               holding == n \in HoldingFrom(script)
               next == n + 1 \in HoldingFrom(script)
           IN  /\ Len(Commands(script)) \in Nat
               /\ command = "setup" <=> n = 1
               /\ command = "setup" => ~ next
               /\ command \in {"mv", "rm"} => ~ next
               /\ command \in {"remount", "rm0", "cmp"} /\ next => holding
               /\ command = "cmp" => holding
<1>1. CASE script = "fio"
  <2>1. Commands(script) = <<"setup", "fio", "cmp">> /\ HoldingFrom(script) = {3, 4}
    BY <1>1 DEF Commands, HoldingFrom
  <2>2. n \in 1 .. 3
    BY <2>1
  <2> QED
    BY <2>1, <2>2
<1>2. CASE script = "recovery"
  <2>1. /\ Commands(script) = <<"setup", "fio", "remount", "cmp">>
        /\ HoldingFrom(script) = {3, 4, 5}
    BY <1>2 DEF Commands, HoldingFrom
  <2>2. n \in 1 .. 4
    BY <2>1
  <2> QED
    BY <2>1, <2>2
<1>3. CASE script = "recovery2"
  <2>1. /\ Commands(script) = <<"setup", "fio", "remount", "cmp", "mv", "fio", "cmp",
                                "rm0", "cmp", "rm">>
        /\ HoldingFrom(script) = {3, 4, 5, 7, 8, 9, 10}
    BY <1>3 DEF Commands, HoldingFrom
  <2>2. n \in 1 .. 10
    BY <2>1
  <2> QED
    BY <2>1, <2>2
<1>4. CASE script = "rm"
  <2>1. /\ Commands(script) = <<"setup", "fio", "mv", "fio", "rm0", "cmp", "rm">>
        /\ HoldingFrom(script) = {3, 5, 6, 7}
    BY <1>4 DEF Commands, HoldingFrom
  <2>2. n \in 1 .. 7
    BY <2>1
  <2> QED
    BY <2>1, <2>2
<1> QED
  BY <1>1, <1>2, <1>3, <1>4 DEF Scripts

\* Before the first command of its test a script is at the first.
LEMMA CommandsThere ==
    ASSUME NEW script \in Scripts
    PROVE  Len(Commands(script)) \in Nat /\ 1 <= Len(Commands(script))
<1>1. CASE script = "fio"
  BY <1>1 DEF Commands
<1>2. CASE script = "recovery"
  BY <1>2 DEF Commands
<1>3. CASE script = "recovery2"
  BY <1>3 DEF Commands
<1>4. CASE script = "rm"
  BY <1>4 DEF Commands
<1> QED
  BY <1>1, <1>2, <1>3, <1>4 DEF Scripts

\* Between two tests nothing is claimed of the file system under test.
LEMMA NoTest == pc # "test" => TestFiles /\ PassMeansRight
BY DEF TestFiles, PassMeansRight, JustCompared

----------------------------------------------------------------------------
(* The steps. *)

\* Nothing has been made and no script runs.
LEMMA StdInit == Init => StdIInv
<1> SUFFICES ASSUME Init
             PROVE  StdIInv
  OBVIOUS
<1> USE DEF Init
<1>1. StdTypeOK /\ Directories
  <2>1. NoFiles \in [Names -> {Absent}]
    BY DEF NoFiles
  <2>2. mnt \in [Devices -> [Names -> {Absent, Bad} \cup WholeFiles]]
    BY <2>1
  <2>3. \A p \in Params : \A f \in Names : std[p][f] = Absent
    BY <2>1
  <2>4. session.script = "none"
    BY DEF Idle
  <2> QED
    <3>1. Directories
      BY <2>1 DEF Directories
    <3>2. /\ complete \subseteq Params /\ todo \subseteq Files(P)
          /\ pc \in {"idle", "check", "ext4", "generate", "copy", "mark", "test"}
          /\ (pc \notin {"generate", "copy"} => todo = {})
          /\ ~ (at > 1)
      OBVIOUS
    <3>3. loses \in BOOLEAN /\ damaged \in BOOLEAN
      BY Zenon
    <3>4. \A p \in Params : \A f \in Names :
            std[p][f] \in {Absent, Part} \cup (IF f \in Files(p) THEN {Whole(p, f)} ELSE {})
      BY <2>3
    <3> HIDE DEF Init
    <3>5. (session.script = "none") <=> (pc = "idle")
      BY <2>4 DEF Init
    <3> QED
      BY <2>2, <3>1, <3>2, <3>3, <3>4, <3>5, Zenon DEF StdTypeOK
<1>2. SessionOK /\ Making /\ StandardRight
  BY DEF SessionOK, Making, StandardRight, Idle
<1>3. TestFiles /\ PassMeansRight
  BY NoTest
<1> QED
  BY <1>1, <1>2, <1>3 DEF StdIInv

\* A script starts.
LEMMA StartStep == StdIInv /\ Start => StdIInv'
<1> SUFFICES ASSUME StdIInv, Start
             PROVE  StdIInv'
  OBVIOUS
<1> USE DEF Start, stdVars
<1>1. StdTypeOK /\ Directories /\ SessionOK /\ StandardRight
  BY DEF StdIInv
<1>2. PICK script \in Scripts, d \in Devices, p \in Params :
        session' = [script |-> script, pmem |-> d, p |-> p]
  OBVIOUS
<1>3. StdTypeOK'
  BY <1>1, <1>2 DEF StdTypeOK, SessionOK, Scripts, P
<1>4. SessionOK' /\ Making' /\ StandardRight' /\ Directories'
  BY <1>1, <1>2 DEF SessionOK, Making, StandardRight, Directories
<1>5. TestFiles' /\ PassMeansRight'
  BY DEF TestFiles, PassMeansRight, JustCompared
<1> QED
  BY <1>3, <1>4, <1>5 DEF StdIInv

\* A script is ended: of the files being written any may be there in part, but
\* none of these is in a directory with the marker.
LEMMA StopStep == StdIInv /\ Stop => StdIInv'
<1> SUFFICES ASSUME StdIInv, Stop
             PROVE  StdIInv'
  OBVIOUS
<1> USE DEF Stop, Leave
<1>1. StdTypeOK /\ Directories /\ SessionOK /\ Making /\ StandardRight
  BY DEF StdIInv
<1>2. PICK partial \in SUBSET todo :
        std' = [std EXCEPT ![P] = [f \in Names |-> IF f \in partial THEN Part ELSE std[P][f]]]
  OBVIOUS
<1>3. /\ \A p \in Params : \A f \in Names :
            std'[p][f] = std[p][f] \/ (p = P /\ f \in todo /\ std'[p][f] = Part)
      /\ std' \in [Params -> [Names -> {Absent, Part} \cup WholeFiles]]
  <2> DEFINE left == [f \in Names |-> IF f \in partial THEN Part ELSE std[P][f]]
  <2>1. P \in Params
    BY <1>1 DEF SessionOK, P
  <2>2. left \in [Names -> {Absent, Part} \cup WholeFiles]
    BY <1>1, <2>1 DEF Directories
  <2>3. \A f \in Names : left[f] = std[P][f] \/ (f \in todo /\ left[f] = Part)
    <3> SUFFICES ASSUME NEW f \in Names
                 PROVE  left[f] = std[P][f] \/ (f \in todo /\ left[f] = Part)
      OBVIOUS
    <3>1. left[f] = IF f \in partial THEN Part ELSE std[P][f]
      OBVIOUS
    <3>2. f \in partial => f \in todo
      OBVIOUS
    <3> HIDE DEF left
    <3> QED
      BY <3>1, <3>2, Zenon
  <2>4. std' = [std EXCEPT ![P] = left]
    BY <1>2
  <2> HIDE DEF left
  <2>5. \A p \in Params : p # P => std'[p] = std[p]
    BY <1>1, <2>4 DEF Directories
  <2>6. std'[P] = left
    BY <1>1, <2>1, <2>4 DEF Directories
  <2>7. std' \in [Params -> [Names -> {Absent, Part} \cup WholeFiles]]
    BY <1>1, <2>2, <2>4 DEF Directories
  <2>8. ASSUME NEW p \in Params, NEW f \in Names
        PROVE  std'[p][f] = std[p][f] \/ (p = P /\ f \in todo /\ std'[p][f] = Part)
    BY <2>3, <2>5, <2>6, Zenon
  <2> QED
    BY <2>7, <2>8
<1>4. StdTypeOK'
  BY <1>1, <1>3 DEF StdTypeOK, Idle, P
<1>5. SessionOK'
  BY DEF SessionOK, Idle
<1>6. Making'
  BY DEF Making
<1>7. StandardRight'
  <2> SUFFICES ASSUME NEW p \in complete, NEW f \in Files(p)
               PROVE  std'[p][f] = Whole(p, f)
    BY DEF StandardRight
  <2>1. p \in Params /\ f \in Names /\ std[p][f] = Whole(p, f)
    BY <1>1, NamesOfFiles DEF StdTypeOK, StandardRight
  <2>2. ~ (p = P /\ f \in todo)
    BY <1>1 DEF StdTypeOK, Making
  <2> QED
    BY <1>3, <2>1, <2>2
<1>8. TestFiles' /\ PassMeansRight'
  BY DEF TestFiles, PassMeansRight, JustCompared
<1> QED
  BY <1>3, <1>4, <1>5, <1>6, <1>7, <1>8 DEF StdIInv, Directories

\* What all the steps of a running script need of the invariant.
LEMMA ScriptFacts ==
    ASSUME StdIInv, pc # "idle"
    PROVE  /\ P \in Params /\ D \in Devices /\ session.script \in Scripts
           /\ Files(P) \subseteq Names
           /\ \A f \in Files(P) : Whole(P, f) \in WholeFiles
           /\ todo \subseteq Files(P) /\ complete \subseteq Params
           /\ std \in [Params -> [Names -> {Absent, Part} \cup WholeFiles]]
           /\ mnt \in [Devices -> [Names -> {Absent, Bad} \cup WholeFiles]]
           /\ loses \in BOOLEAN /\ damaged \in BOOLEAN
<1>1. StdTypeOK /\ Directories /\ SessionOK
  BY DEF StdIInv
<1>2. P \in Params /\ D \in Devices /\ session.script \in Scripts
  BY <1>1 DEF SessionOK, P, D
<1> QED
  BY <1>1, <1>2, NamesOfFiles DEF StdTypeOK, Directories

\* The marker is there, or the files have to be made.
LEMMA CheckStep == StdIInv /\ CheckComplete => StdIInv'
<1> SUFFICES ASSUME StdIInv, CheckComplete
             PROVE  StdIInv'
  OBVIOUS
<1> USE DEF CheckComplete, stdVars
<1>1. StdTypeOK /\ Directories /\ SessionOK /\ StandardRight
  BY DEF StdIInv
<1>2. session.script \in Scripts /\ todo = {} /\ at = 1 /\ P' = P
  BY <1>1 DEF StdTypeOK, SessionOK, P
<1>3. StdTypeOK'
  BY <1>1, <1>2 DEF StdTypeOK, Scripts
<1>4. Directories' /\ StandardRight'
  BY <1>1 DEF Directories, StandardRight
<1>5. SessionOK'
  BY <1>1, <1>2, CommandsThere DEF SessionOK
<1>6. Making'
  BY <1>2 DEF Making
<1>7. TestFiles' /\ PassMeansRight'
  BY <1>2 DEF TestFiles, PassMeansRight, JustCompared
<1> QED
  BY <1>3, <1>4, <1>5, <1>6, <1>7 DEF StdIInv

\* The device is formatted: all files are to be made.
LEMMA Ext4Step == StdIInv /\ Ext4 => StdIInv'
<1> SUFFICES ASSUME StdIInv, Ext4
             PROVE  StdIInv'
  OBVIOUS
<1> USE DEF Ext4, stdVars
<1>1. StdTypeOK /\ Directories /\ SessionOK /\ StandardRight /\ Making
  BY DEF StdIInv
<1>2. /\ P' = P /\ session' = session /\ mnt' = [mnt EXCEPT ![D] = NoFiles]
      /\ todo' = Files(P) /\ at = 1 /\ at' = at
  BY <1>1 DEF P, SessionOK
<1>3. mnt' \in [Devices -> [Names -> {Absent, Bad} \cup WholeFiles]]
  <2>1. NoFiles \in [Names -> {Absent, Bad} \cup WholeFiles]
    BY DEF NoFiles
  <2> QED
    BY <1>1, <2>1 DEF StdTypeOK
<1>4. StdTypeOK'
  BY <1>1, <1>2, <1>3 DEF StdTypeOK, Files
<1>5. Directories' /\ StandardRight'
  BY <1>1 DEF Directories, StandardRight
<1>6. SessionOK'
  BY <1>1 DEF SessionOK
<1>7. Making'
  BY <1>1, <1>2 DEF Making, Files
<1>8. TestFiles' /\ PassMeansRight'
  BY DEF TestFiles, PassMeansRight, JustCompared
<1> QED
  BY <1>4, <1>5, <1>6, <1>7, <1>8 DEF StdIInv

\* A file that is put into a directory of standard files.
LEMMA FilePut ==
    ASSUME Directories, NEW p \in Params, NEW f \in Names, f \in Files(p),
           std' = [std EXCEPT ![p][f] = Whole(p, f)]
    PROVE  /\ Directories' /\ std'[p][f] = Whole(p, f)
           /\ \A q \in Params, g \in Names : (q # p \/ g # f) => std'[q][g] = std[q][g]
<1>1. Whole(p, f) \in WholeFiles
  BY NamesOfFiles
<1> QED
  BY <1>1 DEF Directories

\* fio completes a file.
LEMMA GenerateStep == StdIInv /\ Generate => StdIInv'
<1> SUFFICES ASSUME StdIInv, Generate
             PROVE  StdIInv'
  OBVIOUS
<1>1. StdTypeOK /\ Directories /\ SessionOK /\ StandardRight /\ Making
  BY DEF StdIInv
<1>2. PICK f \in todo :
        /\ todo' = todo \ {f}
        /\ IF ViaDevice(P)
           THEN mnt' = [mnt EXCEPT ![D][f] = Whole(P, f)] /\ UNCHANGED stdVars
           ELSE std' = [std EXCEPT ![P][f] = Whole(P, f)] /\ UNCHANGED <<complete, mnt>>
  BY DEF Generate
<1>3. /\ pc = "generate" /\ pc' = pc /\ session' = session /\ P' = P /\ D' = D
      /\ at' = at /\ loses' = loses /\ damaged' = damaged /\ complete' = complete
      /\ P \notin complete
      /\ \A g \in Files(P) \ todo : IF ViaDevice(P) THEN OnDevice(g) ELSE InStandard(g)
  BY <1>1, <1>2 DEF Generate, P, D, stdVars, Making
<1>4. /\ P \in Params /\ D \in Devices /\ f \in Files(P) /\ f \in Names
      /\ Files(P) \subseteq Names /\ Whole(P, f) \in WholeFiles
      /\ mnt \in [Devices -> [Names -> {Absent, Bad} \cup WholeFiles]]
      /\ todo \subseteq Files(P) /\ complete \subseteq Params
  BY <1>2, <1>3, ScriptFacts
<1>5. CASE ViaDevice(P)
  <2>1. std' = std /\ mnt' = [mnt EXCEPT ![D][f] = Whole(P, f)]
    BY <1>2, <1>5 DEF stdVars
  <2>2. /\ mnt' \in [Devices -> [Names -> {Absent, Bad} \cup WholeFiles]]
        /\ mnt'[D][f] = Whole(P, f)
        /\ \A g \in Names : g # f => mnt'[D][g] = mnt[D][g]
    BY <1>4, <2>1
  <2>3. StdTypeOK'
    BY <1>1, <1>2, <1>3, <1>4, <2>1, <2>2 DEF StdTypeOK, Files
  <2>4. Directories' /\ StandardRight'
    BY <1>1, <1>3, <2>1 DEF Directories, StandardRight
  <2>5. Making'
    <3>1. \A g \in Files(P) \ todo' : mnt'[D][g] = Whole(P, g)
      BY <1>2, <1>3, <1>4, <1>5, <2>2 DEF OnDevice
    <3> QED
      BY <1>3, <1>5, <3>1 DEF Making, OnDevice, ViaDevice, Files
  <2> QED
    BY <1>1, <1>3, <2>3, <2>4, <2>5
    DEF StdIInv, SessionOK, TestFiles, PassMeansRight, JustCompared
<1>6. CASE ~ ViaDevice(P)
  <2>1. std' = [std EXCEPT ![P][f] = Whole(P, f)] /\ mnt' = mnt
    BY <1>2, <1>6
  <2>2. /\ Directories' /\ std'[P][f] = Whole(P, f)
        /\ \A q \in Params, g \in Names : (q # P \/ g # f) => std'[q][g] = std[q][g]
    BY <1>1, <1>4, <2>1, FilePut
  <2>3. StdTypeOK'
    <3>1. \A q \in Params : \A g \in Names :
            std'[q][g] \in {Absent, Part} \cup (IF g \in Files(q) THEN {Whole(q, g)} ELSE {})
      BY <1>1, <1>4, <2>2 DEF StdTypeOK
    <3> QED
      BY <1>1, <1>2, <1>3, <1>4, <2>1, <3>1 DEF StdTypeOK, Files
  <2>4. StandardRight'
    <3> SUFFICES ASSUME NEW p \in complete, NEW g \in Files(p)
                 PROVE  std'[p][g] = Whole(p, g)
      BY <1>3 DEF StandardRight, Files
    <3>1. p \in Params /\ g \in Names /\ p # P /\ std[p][g] = Whole(p, g)
      BY <1>1, <1>3, <1>4, NamesOfFiles DEF StandardRight
    <3> QED
      BY <2>2, <3>1
  <2>5. Making'
    <3>1. \A g \in Files(P) \ todo' : std'[P][g] = Whole(P, g)
      BY <1>2, <1>3, <1>4, <1>6, <2>2 DEF InStandard
    <3> QED
      BY <1>3, <1>6, <3>1 DEF Making, InStandard, ViaDevice, Files
  <2> QED
    BY <1>1, <1>3, <2>2, <2>3, <2>4, <2>5
    DEF StdIInv, SessionOK, TestFiles, PassMeansRight, JustCompared
<1> QED
  BY <1>5, <1>6

\* All files are made; those on the device are to be copied.
LEMMA GeneratedStep == StdIInv /\ Generated => StdIInv'
<1> SUFFICES ASSUME StdIInv, Generated
             PROVE  StdIInv'
  OBVIOUS
<1>1. StdTypeOK /\ Directories /\ SessionOK /\ StandardRight /\ Making
  BY DEF StdIInv
<1>2. /\ pc = "generate" /\ todo = {} /\ std' = std /\ complete' = complete /\ mnt' = mnt
      /\ session' = session /\ at' = at /\ loses' = loses /\ damaged' = damaged
      /\ P' = P /\ D' = D /\ pc' \in {"copy", "mark"}
      /\ IF ViaDevice(P) THEN pc' = "copy" /\ todo' = Files(P) ELSE pc' = "mark" /\ todo' = todo
  BY DEF Generated, stdVars, P, D
<1>3. StdTypeOK'
  BY <1>1, <1>2 DEF StdTypeOK, Files
<1>4. Directories' /\ StandardRight'
  BY <1>1, <1>2 DEF Directories, StandardRight
<1>5. SessionOK'
  BY <1>1, <1>2 DEF SessionOK
<1>6. Making'
  <2>1. P \notin complete
        /\ \A f \in Files(P) : IF ViaDevice(P) THEN OnDevice(f) ELSE InStandard(f)
    BY <1>1, <1>2 DEF Making
  <2> QED
    BY <1>2, <2>1 DEF Making, OnDevice, InStandard, Files
<1>7. TestFiles' /\ PassMeansRight'
  BY <1>2 DEF TestFiles, PassMeansRight, JustCompared
<1> QED
  BY <1>3, <1>4, <1>5, <1>6, <1>7 DEF StdIInv

\* A file is copied from the device.
LEMMA CopyStep == StdIInv /\ Copy => StdIInv'
<1> SUFFICES ASSUME StdIInv, Copy
             PROVE  StdIInv'
  OBVIOUS
<1>1. StdTypeOK /\ Directories /\ SessionOK /\ StandardRight /\ Making
  BY DEF StdIInv
<1>2. PICK f \in todo : todo' = todo \ {f} /\ std' = [std EXCEPT ![P][f] = mnt[D][f]]
  BY DEF Copy
<1>3. /\ pc = "copy" /\ pc' = pc /\ session' = session /\ P' = P /\ D' = D /\ mnt' = mnt
      /\ at' = at /\ loses' = loses /\ damaged' = damaged /\ complete' = complete
      /\ P \notin complete
      /\ \A g \in Files(P) : mnt[D][g] = Whole(P, g)
      /\ \A g \in Files(P) \ todo : std[P][g] = Whole(P, g)
  BY <1>1 DEF Copy, P, D, Making, OnDevice, InStandard
<1>4. /\ P \in Params /\ f \in Files(P) /\ f \in Names
      /\ Files(P) \subseteq Names /\ todo \subseteq Files(P) /\ complete \subseteq Params
  BY <1>2, <1>3, ScriptFacts
<1>5. std' = [std EXCEPT ![P][f] = Whole(P, f)]
  BY <1>2, <1>3, <1>4
<1>6. /\ Directories' /\ std'[P][f] = Whole(P, f)
      /\ \A q \in Params, g \in Names : (q # P \/ g # f) => std'[q][g] = std[q][g]
  BY <1>1, <1>4, <1>5, FilePut
<1>7. StdTypeOK'
  <2>1. \A q \in Params : \A g \in Names :
            std'[q][g] \in {Absent, Part} \cup (IF g \in Files(q) THEN {Whole(q, g)} ELSE {})
    BY <1>1, <1>4, <1>6 DEF StdTypeOK
  <2> QED
    BY <1>1, <1>2, <1>3, <1>4, <2>1 DEF StdTypeOK, Files
<1>8. StandardRight'
  <2> SUFFICES ASSUME NEW p \in complete, NEW g \in Files(p)
               PROVE  std'[p][g] = Whole(p, g)
    BY <1>3 DEF StandardRight, Files
  <2>1. p \in Params /\ g \in Names /\ p # P /\ std[p][g] = Whole(p, g)
    BY <1>1, <1>3, <1>4, NamesOfFiles DEF StandardRight
  <2> QED
    BY <1>6, <2>1
<1>9. Making'
  <2>1. \A g \in Files(P) \ todo' : std'[P][g] = Whole(P, g)
    BY <1>2, <1>3, <1>4, <1>6
  <2> QED
    BY <1>3, <2>1 DEF Making, OnDevice, InStandard, Files
<1> QED
  BY <1>1, <1>3, <1>6, <1>7, <1>8, <1>9
  DEF StdIInv, SessionOK, TestFiles, PassMeansRight, JustCompared

\* The marker: every file is there.
LEMMA TouchStep == StdIInv /\ TouchComplete => StdIInv'
<1> SUFFICES ASSUME StdIInv, TouchComplete
             PROVE  StdIInv'
  OBVIOUS
<1>1. StdTypeOK /\ Directories /\ SessionOK /\ StandardRight /\ Making
  BY DEF StdIInv
<1>2. /\ pc \in {"copy", "mark"} /\ todo = {} /\ complete' = complete \cup {P}
      /\ pc' = "test" /\ std' = std /\ mnt' = mnt /\ session' = session /\ todo' = todo
      /\ at' = at /\ loses' = loses /\ damaged' = damaged /\ P' = P
  BY DEF TouchComplete, P
<1>3. P \in Params /\ session.script \in Scripts /\ at = 1
  BY <1>1, <1>2, ScriptFacts DEF SessionOK
<1>4. StdTypeOK'
  BY <1>1, <1>2, <1>3 DEF StdTypeOK, Files, Scripts
<1>5. Directories'
  BY <1>1, <1>2 DEF Directories
<1>6. SessionOK'
  BY <1>1, <1>2, <1>3, CommandsThere DEF SessionOK
<1>7. Making'
  BY <1>2 DEF Making
<1>8. StandardRight'
  BY <1>1, <1>2 DEF StandardRight, Making, InStandard, Files
<1>9. TestFiles' /\ PassMeansRight'
  BY <1>2, <1>3 DEF TestFiles, PassMeansRight, JustCompared
<1> QED
  BY <1>4, <1>5, <1>6, <1>7, <1>8, <1>9 DEF StdIInv

\* What a command of the test leaves alone.
LEMMA TestKept ==
    ASSUME StdIInv, NEW command, Running(command), Proceed,
           mnt' \in [Devices -> [Names -> {Absent, Bad} \cup WholeFiles]],
           damaged' \in BOOLEAN
    PROVE  /\ StdTypeOK' /\ Directories' /\ SessionOK' /\ Making' /\ StandardRight'
           /\ P' = P /\ D' = D /\ pc' = "test" /\ loses' = loses /\ session' = session
           /\ at' = at + 1 /\ at \in Nat \ {0}
           /\ command \in {"setup", "mv", "rm"} => ~ Holding'
           /\ command \in {"remount", "rm0", "cmp"} /\ Holding' => Holding
           /\ command = "setup" <=> ~ (at > 1)
           /\ command # "cmp" => PassMeansRight'
<1>1. /\ StdTypeOK /\ Directories /\ SessionOK /\ Making /\ StandardRight
  BY DEF StdIInv
<1>2. /\ pc = "test" /\ at <= Len(Commands(session.script)) /\ Commands(session.script)[at] = command
      /\ pc' = pc /\ session' = session /\ std' = std /\ complete' = complete
      /\ todo' = todo /\ loses' = loses /\ at' = at + 1 /\ P' = P /\ D' = D
  BY DEF Running, Command, Proceed, stdVars, P, D
<1>3. session.script \in Scripts /\ at \in Nat \ {0}
  BY <1>1, <1>2 DEF SessionOK
<1>4. /\ Len(Commands(session.script)) \in Nat
      /\ command = "setup" <=> at = 1
      /\ command = "setup" => at + 1 \notin HoldingFrom(session.script)
      /\ command \in {"mv", "rm"} => at + 1 \notin HoldingFrom(session.script)
      /\ command \in {"remount", "rm0", "cmp"} /\ at + 1 \in HoldingFrom(session.script)
            => at \in HoldingFrom(session.script)
  BY <1>2, <1>3, CommandFacts
<1>5. at' \in Nat \ {0} /\ at' > 1 /\ at' <= Len(Commands(session.script)) + 1 /\ at' - 1 = at
  BY <1>2, <1>3, <1>4
<1>6. StdTypeOK'
  BY <1>1, <1>2, <1>3, <1>5 DEF StdTypeOK, Files, Scripts
<1>7. Directories' /\ StandardRight'
  BY <1>1, <1>2 DEF Directories, StandardRight
<1>8. SessionOK'
  BY <1>1, <1>2, <1>5 DEF SessionOK
<1>9. Making'
  BY <1>1, <1>2 DEF Making
<1>10. command # "cmp" => PassMeansRight'
  BY <1>2, <1>5 DEF PassMeansRight, JustCompared
<1>11. Holding' <=> at + 1 \in HoldingFrom(session.script)
  BY <1>2 DEF Holding
<1>12. command = "setup" <=> ~ (at > 1)
  BY <1>3, <1>4
<1> QED
  BY <1>2, <1>3, <1>4, <1>6, <1>7, <1>8, <1>9, <1>10, <1>11, <1>12 DEF Holding

\* A device without files.
LEMMA Emptied ==
    ASSUME StdIInv, NEW command \in {"setup", "mv", "rm"}, Running(command), Proceed,
           mnt' = [mnt EXCEPT ![D] = NoFiles], damaged' = damaged
    PROVE  StdIInv'
<1>1. /\ P \in Params /\ D \in Devices
      /\ mnt \in [Devices -> [Names -> {Absent, Bad} \cup WholeFiles]]
      /\ loses \in BOOLEAN /\ damaged \in BOOLEAN
  BY ScriptFacts DEF Running
<1>2. NoFiles \in [Names -> {Absent}]
  BY DEF NoFiles
<1>3. mnt' \in [Devices -> [Names -> {Absent, Bad} \cup WholeFiles]] /\ mnt'[D] = NoFiles
  BY <1>1, <1>2
<1>4. /\ StdTypeOK' /\ Directories' /\ SessionOK' /\ Making' /\ StandardRight'
      /\ D' = D /\ P' = P /\ ~ Holding' /\ PassMeansRight'
  BY <1>1, <1>3, TestKept
<1>5. TestFiles'
  <2> SUFFICES ASSUME D = 0
               PROVE  \A f \in Names : mnt'[0][f] = Absent
    BY <1>4 DEF TestFiles
  <2> QED
    BY <1>2, <1>3
<1> QED
  BY <1>4, <1>5 DEF StdIInv

\* What a file system that loses nothing leaves of the files.
LEMMA LeftFacts ==
    ASSUME NEW d \in Devices, NEW files \in [Names -> {Absent, Bad} \cup WholeFiles],
           mnt \in [Devices -> [Names -> {Absent, Bad} \cup WholeFiles]],
           Left(d, files), loses \in BOOLEAN, damaged \in BOOLEAN
    PROVE  /\ mnt' \in [Devices -> [Names -> {Absent, Bad} \cup WholeFiles]]
           /\ damaged' \in BOOLEAN
           /\ \A c \in Devices : c # d => mnt'[c] = mnt[c]
           /\ ~ loses => \A f \in Names :
                (files[f] = Absent <=> mnt'[d][f] = Absent)
           /\ ~ damaged' => ~ damaged /\ mnt'[d] = files
<1>1. PICK result \in [Names -> {Absent, Bad} \cup WholeFiles] :
        /\ \A f \in Names :
            \/ result[f] = files[f]
            \/ files[f] # Absent /\ result[f] = Bad
            \/ loses /\ result[f] = Absent
        /\ mnt' = [mnt EXCEPT ![d] = result]
        /\ damaged' = (damaged \/ result # files)
  BY DEF Left
<1>2. /\ mnt' \in [Devices -> [Names -> {Absent, Bad} \cup WholeFiles]]
      /\ mnt'[d] = result /\ \A c \in Devices : c # d => mnt'[c] = mnt[c]
  BY <1>1
<1>3. damaged' \in BOOLEAN /\ (~ damaged' => ~ damaged /\ result = files)
  BY <1>1, Zenon
<1>4. ~ loses => \A f \in Names : files[f] = Absent <=> result[f] = Absent
  BY <1>1, Distinct, Zenon
<1> QED
  BY <1>2, <1>3, <1>4

\* fio writes its files.
LEMMA FioStep == StdIInv /\ Fio => StdIInv'
<1> SUFFICES ASSUME StdIInv, Fio
             PROVE  StdIInv'
  OBVIOUS
<1>1. Running("fio") /\ Proceed
  BY DEF Fio
<1>2. /\ P \in Params /\ D \in Devices /\ Files(P) \subseteq Names
      /\ \A f \in Files(P) : Whole(P, f) \in WholeFiles
      /\ mnt \in [Devices -> [Names -> {Absent, Bad} \cup WholeFiles]]
      /\ loses \in BOOLEAN /\ damaged \in BOOLEAN
  BY <1>1, ScriptFacts DEF Running
<1> DEFINE files == [f \in Names |-> IF f \in Files(P) THEN Whole(P, f) ELSE mnt[0][f]]
<1>3. 0 \in Devices /\ files \in [Names -> {Absent, Bad} \cup WholeFiles]
  BY <1>2, ParamsAssumption
<1>4. Left(0, files)
  BY DEF Fio
<1>5. /\ \A f \in Files(P) : files[f] = Whole(P, f)
      /\ \A f \in Names \ Files(P) : files[f] = mnt[0][f]
  BY <1>2
<1> HIDE DEF files
<1>6. /\ mnt' \in [Devices -> [Names -> {Absent, Bad} \cup WholeFiles]]
      /\ damaged' \in BOOLEAN
      /\ ~ loses => \A f \in Names : (files[f] = Absent <=> mnt'[0][f] = Absent)
      /\ ~ damaged' => mnt'[0] = files
  BY <1>2, <1>3, <1>4, LeftFacts
<1>7. /\ StdTypeOK' /\ Directories' /\ SessionOK' /\ Making' /\ StandardRight'
      /\ P' = P /\ D' = D /\ loses' = loses /\ at > 1 /\ PassMeansRight'
  BY <1>1, <1>6, TestKept
<1>8. TestFiles'
  <2> SUFFICES ASSUME D = 0, ~ loses
               PROVE  /\ \A f \in Names \ Files(P) : mnt'[0][f] = Absent
                      /\ \A f \in Files(P) :
                            /\ mnt'[0][f] # Absent
                            /\ ~ damaged' => mnt'[0][f] = Whole(P, f)
    BY <1>7 DEF TestFiles, Files
  <2>1. \A f \in Names \ Files(P) : mnt[0][f] = Absent
    BY <1>1, <1>7 DEF StdIInv, TestFiles, Running
  <2>2. \A f \in Names \ Files(P) : mnt'[0][f] = Absent
    BY <1>5, <1>6, <2>1
  <2>3. \A f \in Files(P) : mnt'[0][f] # Absent
    BY <1>2, <1>5, <1>6, Distinct
  <2>4. ~ damaged' => \A f \in Files(P) : mnt'[0][f] = Whole(P, f)
    BY <1>5, <1>6
  <2> QED
    BY <2>2, <2>3, <2>4
<1> QED
  BY <1>7, <1>8 DEF StdIInv

\* A remount, or the removal of the directory 0, takes no file away.
LEMMA RemountStep == StdIInv /\ RemountOrRemove => StdIInv'
<1> SUFFICES ASSUME StdIInv, RemountOrRemove
             PROVE  StdIInv'
  OBVIOUS
<1>1. PICK command \in {"remount", "rm0"} : Running(command)
  BY DEF RemountOrRemove
<1>2. Proceed /\ Left(D, mnt[D])
  BY DEF RemountOrRemove
<1>3. /\ P \in Params /\ D \in Devices /\ Files(P) \subseteq Names
      /\ mnt \in [Devices -> [Names -> {Absent, Bad} \cup WholeFiles]]
      /\ loses \in BOOLEAN /\ damaged \in BOOLEAN
  BY <1>1, ScriptFacts DEF Running
<1>4. mnt[D] \in [Names -> {Absent, Bad} \cup WholeFiles]
  BY <1>3
<1>5. /\ mnt' \in [Devices -> [Names -> {Absent, Bad} \cup WholeFiles]]
      /\ damaged' \in BOOLEAN
      /\ ~ loses => \A f \in Names : (mnt[D][f] = Absent <=> mnt'[D][f] = Absent)
      /\ ~ damaged' => ~ damaged /\ mnt'[D] = mnt[D]
  BY <1>2, <1>3, <1>4, LeftFacts
<1>6. /\ StdTypeOK' /\ Directories' /\ SessionOK' /\ Making' /\ StandardRight'
      /\ P' = P /\ D' = D /\ loses' = loses /\ at > 1 /\ PassMeansRight'
      /\ Holding' => Holding
  BY <1>1, <1>2, <1>5, TestKept
<1>7. TestFiles'
  <2> SUFFICES ASSUME D = 0, ~ loses
               PROVE  /\ \A f \in Names \ Files(P) : mnt'[0][f] = Absent
                      /\ Holding' => \A f \in Files(P) :
                            /\ mnt'[0][f] # Absent
                            /\ ~ damaged' => mnt'[0][f] = Whole(P, f)
    BY <1>6 DEF TestFiles, Files
  <2>1. /\ \A f \in Names \ Files(P) : mnt[0][f] = Absent
        /\ Holding => \A f \in Files(P) :
            /\ mnt[0][f] # Absent
            /\ ~ damaged => mnt[0][f] = Whole(P, f)
    BY <1>1, <1>6 DEF StdIInv, TestFiles, Running
  <2> QED
    BY <1>3, <1>5, <1>6, <2>1
<1> QED
  BY <1>6, <1>7 DEF StdIInv

\* A comparison that passes has compared with the standard files of P.
LEMMA CompareStep == StdIInv /\ Compare => StdIInv'
<1> SUFFICES ASSUME StdIInv, Compare
             PROVE  StdIInv'
  OBVIOUS
<1>1. Running("cmp") /\ Proceed /\ mnt' = mnt /\ damaged' = damaged /\ AllSame
  BY DEF Compare
<1>2. /\ P \in Params /\ D \in Devices
      /\ mnt \in [Devices -> [Names -> {Absent, Bad} \cup WholeFiles]]
      /\ loses \in BOOLEAN /\ damaged \in BOOLEAN
  BY <1>1, ScriptFacts DEF Running
<1>3. /\ StdTypeOK' /\ Directories' /\ SessionOK' /\ Making' /\ StandardRight'
      /\ P' = P /\ D' = D /\ loses' = loses /\ at > 1
      /\ Holding' => Holding
  BY <1>1, <1>2, TestKept
<1>4. TestFiles'
  <2>1. TestFiles /\ pc = "test"
    BY <1>1 DEF StdIInv, Running
  <2> QED
    BY <1>1, <1>3, <2>1 DEF TestFiles, Files
<1>5. ASSUME NEW f \in Names
      PROVE  mnt[D][f] \in {Absent, Whole(P, f)}
  <2>1. mnt[D][f] = Absent \/ mnt[D][f] = std[P][f]
    BY <1>1 DEF AllSame, SameAsStandard
  <2>2. std[P][f] \in {Absent, Part} \cup (IF f \in Files(P) THEN {Whole(P, f)} ELSE {})
    BY <1>2 DEF StdIInv, StdTypeOK
  <2>3. mnt[D][f] \in {Absent, Bad} \cup WholeFiles
    BY <1>2
  <2>4. Part \notin {Absent, Bad} \cup WholeFiles
    BY Distinct DEF WholeFiles, Whole
  <2> QED
    BY <2>1, <2>2, <2>3, <2>4
<1>6. PassMeansRight'
  BY <1>1, <1>3, <1>5 DEF PassMeansRight, Whole
<1> QED
  BY <1>3, <1>4, <1>6 DEF StdIInv

\* The end of a script, and a step that changes nothing.
LEMMA FinishStep == StdIInv /\ Finish => StdIInv'
<1> SUFFICES ASSUME StdIInv, Finish
             PROVE  StdIInv'
  OBVIOUS
<1> USE DEF Finish, Leave, stdVars
<1>1. StdTypeOK /\ Directories /\ SessionOK /\ StandardRight
  BY DEF StdIInv
<1>2. StdTypeOK'
  BY <1>1 DEF StdTypeOK, Idle, P
<1>3. Directories' /\ StandardRight' /\ SessionOK' /\ Making'
  BY <1>1 DEF Directories, StandardRight, SessionOK, Idle, Making
<1>4. TestFiles' /\ PassMeansRight'
  BY DEF TestFiles, PassMeansRight, JustCompared
<1> QED
  BY <1>2, <1>3, <1>4 DEF StdIInv

\* The invariant holds in every state of every sequence of scripts.
THEOREM StdInductive == Spec => []StdIInv
<1>1. Init => StdIInv
  BY StdInit
<1>2. StdIInv /\ [Next]_vars => StdIInv'
  <2> SUFFICES ASSUME StdIInv, [Next]_vars
               PROVE  StdIInv'
    OBVIOUS
  <2>1. CASE Start \/ Stop \/ Finish
    BY <2>1, StartStep, StopStep, FinishStep
  <2>2. CASE MakeStandard
    BY <2>2, CheckStep, Ext4Step, GenerateStep, GeneratedStep, CopyStep, TouchStep
    DEF MakeStandard
  <2>3. CASE SetupNova
    BY <2>3, Emptied DEF SetupNova
  <2>4. CASE MoveOrRemoveAll
    BY <2>4, Emptied DEF MoveOrRemoveAll
  <2>5. CASE Fio \/ RemountOrRemove \/ Compare
    BY <2>5, FioStep, RemountStep, CompareStep
  <2>6. CASE UNCHANGED vars
    BY <2>6 DEF vars, stdVars, StdIInv, StdTypeOK, Directories, SessionOK, Making,
                StandardRight, TestFiles, PassMeansRight, JustCompared, Holding, P, D,
                InStandard, OnDevice, Files, ViaDevice
  <2> QED
    BY <2>1, <2>2, <2>3, <2>4, <2>5, <2>6 DEF Next, Test
<1> QED
  BY <1>1, <1>2, PTL DEF Spec

----------------------------------------------------------------------------
(* The properties. *)

\* The types, and what mkstdfile.sh may leave under a name.
THEOREM StdTypeCorrect == Spec => []StdTypeOK
<1>1. StdIInv => StdTypeOK
  BY DEF StdIInv
<1> QED
  BY <1>1, StdInductive, PTL

\* A directory with the marker has every standard file whole, wherever the runs
\* of mkstdfile.sh were stopped.
THEOREM StandardIsRight == Spec => []StandardRight
<1>1. StdIInv => StandardRight
  BY DEF StdIInv
<1> QED
  BY <1>1, StdInductive, PTL

\* A comparison that passed means that every file left is what fio wrote.
THEOREM PassIsRight == Spec => []PassMeansRight
<1>1. StdIInv => PassMeansRight
  BY DEF StdIInv
<1> QED
  BY <1>1, StdInductive, PTL

\* Where no file can get lost the comparison passes if and only if the file
\* system has every file right, and never blames one that damaged nothing.
THEOREM VerdictIsExact == Spec => []VerdictExact
<1>1. StdIInv => VerdictExact
  <2> SUFFICES ASSUME StdIInv, Running("cmp"), D = 0, ~ loses
               PROVE  /\ AllSame <=> mnt[0] = [f \in Names |->
                            IF f \in Files(P) THEN Whole(P, f) ELSE Absent]
                      /\ ~ damaged => AllSame
    BY DEF VerdictExact
  <2>1. /\ P \in Params /\ 0 \in Devices /\ session.script \in Scripts
        /\ Files(P) \subseteq Names
        /\ mnt \in [Devices -> [Names -> {Absent, Bad} \cup WholeFiles]]
    BY ScriptFacts DEF Running
  <2>2. at > 1 /\ Holding /\ pc = "test"
    <3>1. at \in Nat \ {0}
      BY DEF StdIInv, SessionOK
    <3>2. /\ Commands(session.script)[at] = "cmp" /\ at <= Len(Commands(session.script))
          /\ pc = "test"
      BY DEF Running, Command
    <3>3. at \in HoldingFrom(session.script) /\ at # 1
      BY <2>1, <3>1, <3>2, CommandFacts
    <3> QED
      BY <3>1, <3>2, <3>3 DEF Holding
  <2>3. /\ \A f \in Names \ Files(P) : mnt[0][f] = Absent
        /\ \A f \in Files(P) : mnt[0][f] # Absent
        /\ ~ damaged => \A f \in Files(P) : mnt[0][f] = Whole(P, f)
    BY <2>2 DEF StdIInv, TestFiles
  <2>4. \A f \in Files(P) : std[P][f] = Whole(P, f)
    BY <2>2 DEF StdIInv, Making, StandardRight
  <2>5. AllSame <=> \A f \in Files(P) : mnt[0][f] = Whole(P, f)
    BY <2>1, <2>3, <2>4 DEF AllSame, SameAsStandard
  <2>6. mnt[0] \in [Names -> {Absent, Bad} \cup WholeFiles]
    BY <2>1
  <2> DEFINE right == [f \in Names |-> IF f \in Files(P) THEN Whole(P, f) ELSE Absent]
  <2>7. mnt[0] = right <=> \A f \in Files(P) : mnt[0][f] = Whole(P, f)
    <3>1. \A f \in Files(P) : right[f] = Whole(P, f)
      BY <2>1
    <3>2. ASSUME \A f \in Files(P) : mnt[0][f] = Whole(P, f)
          PROVE  mnt[0] = right
      <4>1. \A f \in Names : mnt[0][f] = right[f]
        BY <2>3, <3>2
      <4> QED
        BY <2>6, <4>1
    <3> QED
      BY <3>1, <3>2
  <2> QED
    BY <2>3, <2>5, <2>7
<1> QED
  BY <1>1, StdInductive, PTL
=============================================================================
